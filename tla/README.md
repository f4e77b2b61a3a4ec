# A verification of the buddies backend

TLA+ models of the backend in `src/` (a TypeScript server over one Postgres
database, through Prisma), the TLC runs that check them and the TLAPS proofs
about them. `PROJECT.json` lists components, runs, mutants, the map from each
definition to its source lines, findings, hazards and theorems.

Restaurants publish *requests* with a list of items, suppliers place *bids*
during an auction, the restaurant awards items to bids, each winning bid
becomes an *order*, the order is delivered, inspected and paid offline, and
items may be returned. Around that core stand the accounts of the two parties
(sign-in, addresses, KYC, subscriptions, ratings), the courier's links and GPS
stream, chat and notices, the caches and the account books.

## Inventory

| component | source | state | operations | what makes it correct |
|---|---|---|---|---|
| auction requests | `modules/demand/routes.ts`, `modules/admin/routes.ts` | `BidRequest`, `BidRequestItem` | create, reorder, edit, cancel | one outcome per request; an edit does not undo an award |
| bids | `modules/bidzone/routes.ts` | `Bid`, `BidLineItem` | place (auto-extends the auction), withdraw, reject | a bid ends with its auction; one live bid per supplier and request; quota |
| awards | `modules/bidzone/routes.ts`, `modules/orders/service.ts` | items, bids, `Order` | accept, award plan, acknowledge, create order | one winner per item; every award has its order; a request awarded is settled |
| expiry worker | `workers/index.ts` | timers | tick | every auction and every bid ends; outcomes are not overwritten |
| order fulfilment | `modules/orders/routes.ts` | `Order`, `DigitalChallan`, `GstInvoice`, `OrderStatusEvent` | advance status, arrive, inspect, adjust, sign, reject on spot, rate | status moves forward only; a signed challan is final |
| offline payment | `modules/orders/routes.ts`, `lib/payment-backlog.ts` | `OfflinePayment` | start, mark paid, confirm, dispute | an order closes with a confirmed payment; backlog limit |
| handoff links | `modules/orders/routes.ts`, `middleware/auth.ts` | `OrderHandoff` | mint (rotates), revoke, use | a link opens its own order only; one live link per order |
| tracking | `modules/orders/routes.ts`, `workers/index.ts` | `TrackingSession`, process memory | post points, stale tick | a quiet stream is told of once |
| returns | `modules/returns/*` | `ReturnClaim` | open, submit, decide, pick up, refund or replace, acknowledge | one claim per item; decisions are final |
| ratings, rates | `modules/orders/*`, `lib/ratings.ts` | `OrderRating`, profiles | rate, fold into the profile | a profile says what its ratings say |
| ledger | `modules/ledger/*` | none (computed) | ledgers, cash book | the books add up, by any window and filter |
| subscriptions | `modules/subscriptions/*` | `Subscription` | subscribe, switch, expire | one live subscription per user; a paid term runs to its end |
| identity, addresses | `modules/identity`, `middleware/auth.ts` | users, addresses, profiles | authenticate, switch role, save, delete, default | a switched role is seen; orders go to the one default address |
| KYC, support, admin | `modules/*-kyc`, `modules/support`, `modules/admin` | profiles, tickets, audit | save, submit, decide, answer | the user knows where they stand |
| caches | `lib/response-cache.ts`, `lib/redis.ts`, `lib/auth-cache.ts` | memory and Redis | get, set, invalidate | a copy does not stay behind its rows for ever; a writer reads its own write |
| messaging, notices | `modules/messaging`, `modules/notifications`, `lib/notify.ts` | threads, messages, inbox | open on demand, post, read, page | no message is refused or skipped |
| bid rules, scores | `lib/scoring.ts`, `lib/delivery-sla.ts`, catalog | none | pure functions | boundaries |
| realtime, push, documents, uploads, views | `socket/`, `lib/*` | none that handlers read | emit, render, store | best effort |

Every handler runs in one Node process, or in several behind a load balancer,
and they interact only through the database: a handler reads rows, awaits,
decides on what it read, and writes, sometimes in a transaction. Transactions
run at Postgres's default READ COMMITTED. The hard behaviour is therefore the
interleaving of handlers, of the worker's timers, and crashes, at those awaits.
PROJECT.json lists the hazards, each at the line where it bites.

## Modules

| module | what it is |
|---|---|
| `Auction` | requests, items, bids, awards, order creation and `tickAuctionExpiry`; properties |
| `MCAuction` | its instances for TLC: constants, symmetry |
| `AuctionProofs` | the theorems about it that hold whatever overlaps, with the invariants they rest on |
| `AuctionSerialProofs` | the theorems about it where handlers do not overlap |
| `OrderLifecycle` | one order: fulfilment, challan, payment, invoice, tracking session and `tickSlaBreach`; properties |
| `OrderPromise` | the abstract order: refused or delivered on signed terms, settled once, billed on those terms |
| `MCOrder` | instances of `OrderLifecycle` for TLC |
| `OrderProofs` | the theorems about it, and that it implements `OrderPromise` |
| `Returns` | the return claims of a delivered order; properties |
| `MCReturns` | its instance for TLC |
| `ReturnsProofs` | the theorems about it |
| `InFlight` | handlers in flight and the three regimes, shared by the modules below |
| `Subscriptions` | the platform subscriptions of one user, calendar months, the expiry sweep |
| `SubscriptionsProofs` | the theorems about it |
| `Addresses` | the saved addresses of one shop and the delivery point its orders read |
| `AddressesProofs` | the theorems about it |
| `Handoff` | a courier's links and what they open |
| `HandoffProofs` | the theorems about it |
| `Tracking` | GPS sessions and `tickTrackingStale` |
| `AuthCache` | `authenticate`'s two-level cache and the switch of role |
| `Pages` | the response cache: twelve pages, twenty writers, their invalidations |
| `Standing` | ratings folded into a profile, and a supplier's rates |
| `Desk` | KYC review and support tickets, the audit and the message to the user |
| `Chat` | the chat of a return claim, notices, preferences and paging |
| `Books` | the ledgers and the cash book |
| `MCAccounts` | composes these ten for TLC, one in focus per behaviour |
| `AccountsProofs` | the theorems about the seven of them without a proof module of their own, and about their composition |

`OrderLifecycle` starts where `Auction` ends: its `Init` is the row that `CreateOrder` and
`PlanCommit` insert. `Returns` starts where `OrderLifecycle` ends, at a delivered or closed
order. No two of the three share a row that both write. The ten components of
`MCAccounts` decide on nothing that another of them writes, though some write columns of
one row. `Addresses`, `Desk` and `Standing` all write the `ConsumerProfile`: the delivery
point, the KYC status and the rating are different columns, except that the KYC form and
`PUT /consumer/profile` write the point too and that a shop's form is `complete` only with
an `addressLine`. Each module therefore has these handlers, with what they do to its own
columns: `KycForm` and `ProfilePut` in `Addresses`, `KycSave` and `KycProfilePut` in `Desk`,
the latter also for what `Addresses` does to `addressLine`. `Chat` and `Desk` each hold what
`prefsAllow` makes of the `UserPreference` row for their kind of notice. What they take from
the core (an order's status, the events a page shows) is an action of theirs that says
which component it stands for.

### Auction

The rows are functions: `reqStatus`, `createdAt`, `liveEndsAt`, `extendCount` and
`winningBid` of a `BidRequest`; `itemStatus` and `awardedBid` of a
`BidRequestItem`; `bidStatus`, `expiresAt`, `bidCovers` (`coveredItemIds`, empty for
a whole-basket bid) and `consumerAck` of a `Bid`; `orders[b]` is the
`coveredItemIds` of the order of bid `b`. `absent` is a row not created yet and
`deleted` one that an edit removed. The request an item or a bid belongs to and the
supplier of a bid never change in the code and are constants. `now` is the clock.

A handler is an entry `h[p]`: `at` names its next step, the other fields are what
it read before its last await. Each action is the code between two awaits:

| handler | actions |
|---|---|
| create, reorder | `CreateRequest` (one insert; everything before it only reads or refuses) |
| edit items | `PatchRead`, `PatchDelete`, `PatchWrite` |
| cancel (consumer, admin) | `CancelRead`, `CancelWrite` |
| place a bid | `PlaceRead`, `PlaceExtend`, `PlaceInsert` |
| withdraw, reject | `WithdrawRead` `WithdrawWrite`, `RejectRead` `RejectWrite` |
| accept | `AcceptRead`, `AcceptCheck`, `AcceptLock`, `AcceptCommit`, `CreateOrder` |
| acknowledge | `Acknowledge`, `CreateOrder` |
| award plan | `PlanRead`, `PlanCheck`, `PlanCommit` |
| tickAuctionExpiry | `WorkerFind`, `WorkerExpireRequests`, `WorkerExpireTheirBids`, `WorkerExpireBids` |
| a crash, a rollback, a database error | `Abort`, `WorkerAbort` |

A transaction's writes appear at its commit. From its first write to its commit an
accept holds the row locks of its items and of its bid (`LockedItems`, `LockedBids`),
because it reads in between: another update of these rows waits. The other
transactions write nothing that they read again and are one commit. The unique
`bidId` of `Order` makes creation idempotent: a second insert fails and the existing
order is returned (`OrderFor`; in a plan's transaction the failure is an `Abort`).

What is abstracted, and why it is sound for the properties:

- Checks that only refuse a call (price, shelf life, category, KYC, payment
  backlog, delivery SLA) are left out: the model allows more calls than the code.
- Several reads of one handler with no write between them are one step, when the
  handler's later transaction reads again what matters: the queries of
  `PlaceRead` (379-416) and of `PlanRead` (1346-1391).
- `PlaceExtend` is the update of the request and the transaction's `stillLive`
  read; the sweep of stale rows and the insert are `PlaceInsert`, at commit.
- `take: 100` and `take: 200` of the worker are left out; the next tick continues.
- Editing an address or a delivery window changes nothing that is modelled.
- Realtime events, pushes and cache invalidations come after the commit and no
  handler reads them.
- An item deleted by an edit may still be in `coveredItemIds`, as in the code; the
  foreign key of `BidLineItem` is the guard of `PlaceInsert`.

The assumption `TimesAssumption` says that an extension is at least as long as the
trigger that causes it (`config.ts`: 120 s and 60 s by default). Without it an
extension would move an end earlier.

### OrderLifecycle

One order, since a handler touches one and no row is shared between two: `status`,
`deliveredAt` (whether it is set) and `slaStatus` of `Order`, `late` (the clock against
`slaDeadlineAt`), `tracking` of `TrackingSession`, `signed` (not `isDraft`) and `lines` of
`DigitalChallan`, `payment` and `confirmedAt` of `OfflinePayment`, `invoice` (the `lineJson`
of the `GstInvoice`, or none). `h[p]` is as in `Auction`, `sla` is the tick that has found
the order.

| handler | actions |
|---|---|
| status | `AdvanceRead`, `AdvanceWrite` (arrival opens the inspection in the same transaction) |
| start inspection | `InspectRead`, `InspectWrite` |
| adjust quantities | `AdjustRead`, `AdjustWrite` |
| reject on spot | `RejectRead`, `RejectCheck`, `RejectWrite`, `RejectDraft` |
| sign the challan | `SignRead`, `SignWrite` |
| start, mark, dispute a payment | `PayRead` `PayCheck` `PayStart`, `MarkRead` `MarkCheck` `Mark`, `DisputeRead` `DisputeCheck` `Dispute` |
| confirm a payment | `ConfirmRead`, `Confirm`, `ConfirmClose`, `ConfirmInvoice`, `Bill` |
| read or download the invoice | `InvoiceRead`, `InvoiceCheck`, `Bill` |
| tickSlaBreach | `SlaFind`, `SlaWrite` |
| a crash, a rollback, a database error | `Abort`, `SlaAbort` |

Left out: the rating, the supplier's running averages, tracking points, status events
and notes, none of which a handler reads back to decide. A call that answers
`alreadyApplied` changes nothing and has no action. `challan_signed`, `placed` and
`at_risk` are values of the enums that no code writes. The tick's `take: 50` is left out:
each tick takes its orders out of the query, so the next one finds the rest.

`Promise` maps an order to `OrderPromise`: it is *refused* when its status says so, else
*settled* when its payment is confirmed, else *delivered* when its challan is signed; the
signed terms are the lines of the signed challan and the bill is the invoice. A payment
is settled before the status says closed, because the confirmation writes the payment
first and an invoice may be asked for before it has written the status.

### Returns

The claims of one order whose lines are of one category (a claim that mixes two is
refused): `claim[c]` is the status, `absent` before the row and `deleted` after a retry
removed it, `lineItems` and `resolution` are columns, `evidence[c]` the lines with a photo.

| handler | actions |
|---|---|
| create | `CreateRead`, `CreateCheck`, `CreateDelete` (stale drafts), `CreateInsert` |
| add a photo | `EvidenceRead`, `EvidenceInsert` |
| submit, decide, schedule, pick up, refund, replace, acknowledge | `Submit`, `Decide`, `Schedule`, `Pickup`, `Refund`, `Replace`, `ConsumerAck`, each followed by `Write` |
| a crash, a database error | `Abort` |

The last seven check the status they read (`requireStatus`) and update by id, so they share
`Write`. `Keep` is an update that does not name `resolutionType`; `submitted` and
`auto_approved` are values of the enum that no code writes. Whether handlers overlap is the
variable `overlap`, chosen in `Init`, so that one run covers both. Left out: reasons,
amounts and fees, the supplier's running return rate, and an admin's change of a window
while claims are open.

### The components around the order

All ten use `InFlight`: `h[p]` is the handler in slot `p`, `Start` is a handler that has
passed its checks, `Goto` its next step after an await, `Immediate` a handler of one
statement, `Stop` a crash or database error at an await. `regime`, chosen in the
initial state, says what the behaviour allows: *overlapping* (handlers interleave at
every await and may fail), *crashing* (one handler at a time, which may stop anywhere)
or *undisturbed* (one at a time, none fails). A property states for which of them it
holds, so that what the code keeps only by luck of timing is told from what it keeps.

**Subscriptions.** `sub` holds the rows, `userLock` the `FOR UPDATE` lock of the User
row that `subscribe` takes first. `SubscribeStart` `SubscribeRead` `SubscribeWrite` are
the transaction; `ActiveRead` `ExpireOne` is `getActiveSubscription`, which switches off
a row past its end; `SweepStart` `Sweep` the worker's sweep. `AddOneMonth` is computed over
a calendar given by the first days of its months, and `Status` is what the history
screen shows of a past row. The clock counts days, so the minute's tolerance with which the
screen compares two instants (`subscriptions/service.ts:32`) is equality.

**Addresses.** `address` (a place and `isDefault`) and `point` (the profile's `addressLine`
and pin). A place is a line and a pin, `None` where the address has none; the two change
apart, so that a patched line keeps the pin of the old one, as in the code. `lat`, `lng` and
`city` are written alike by every handler and one pin stands for them. Create is
`CreateAddress` `InsertAddress`, update `PatchAddress` `UpdateAddress`, `.../default`
`SetDefault` `WriteDefault`, delete `DeleteAddress` `RemoveAddress` `PromoteRead` `Promote`;
each that leaves a default ends in `Mirror` (`mirrorAddressToProfile`), which keeps the
point's pin when the default has none. Two more handlers write the point: `ProfilePut`
types over the line, the pin or both; `KycForm` (`POST /consumer/kyc`) always writes the
line, and erases a pin it leaves out. What a body holds is chosen where it is written,
since nothing decides on it before. `dev-verify` writes a point only in a profile that it
creates, and `getOrCreateConsumerProfile` makes one without a point.

**Handoff.** `link` (order, revoked, ticks to live) and `delivery` (the order's status).
`MintRevoke` `MintInsert`, `RevokeLinks`, and the two writes that a courier is allowed:
`CourierStatus` and `CourierConfirm`, each then `CourierWrite`. `ShopOrConsumerMoves`
stands for `OrderLifecycle`. The landing page and the reads change nothing.

**Tracking.** A session is active or not, and has the age of its last point, up to the
limit where it counts as stale. `PointPosted` `PointTouches`; `StaleFind` `StaleNotify` is
the tick; `notified` is the `Set` in process memory, `told` a history variable, `Restart`
the restart that forgets the set.

**AuthCache.** One user and one bearer token at a time. `memory` and `redis` map the
token's and the subject's key to a role and the ticks it has left. `AuthMiss`
`AuthRefill`, `AuthBySub`, `AuthByRow` `AuthFill`, each followed by the unawaited
`AuthPublish`, are `authenticate`; `SessionRead` `SessionUpdate` `SessionCache`
`SessionPublish` the switch of role. `alias` says whether the object that the
handler mutates is still the one in memory, which is how the code gets the token's
entry right.

**Pages.** `PageOf` and `WriterOf` say of each page which kinds of rows it shows, and of
each writer which it writes and which pages it drops, as read off the handlers. A
behaviour follows one page of one viewer and one writer; a copy carries how long it has
been behind its rows. `PageMiss` `PageFill` `PageStore`, `PageFound` `PageRefill`, and
`WriteCommits` `WriteClear` `WriteClearRedis`.

**Standing.** `RateStart` `RateInsert` `RateCommit` is the rating transaction, whose
unique key makes a second one wait or fail; `RateRead` `RateMoves` the supplier's rates,
read and written back outside any transaction. Values are in tenths, rounded as
`Math.round` does.

**Desk.** `kyc` with whether the form is `complete`, or `ticket`; `heard` is the last thing
the user was told, `pushes` the preference that lets a ticket's notices through, and
`missed`, a history variable, says that it withheld the last one. `KycSave` `KycSaved`, `KycProfilePut`, `KycSubmit` `KycSubmitted`,
`Decide` `DecideTell`, `DevVerify` `DevVerified`; `TicketCreate`, `TicketMessage`
`TicketInsert` `TicketReply`, `TicketPatch` `TicketPatched` `TicketAudit`, each of which may end
in `sendPush`: `TicketPush` (`prefsAllow`) and `TicketInbox` (`persistInbox`). With pushes off
(`SetPushes`) a notice of type `support` is neither stored nor sent; where its preferences
cannot be read, it is. A KYC decision is a socket event and asks no preference.

**Chat.** `ChatStart` `ChatCreate` `ChatFind` `ChatDo` open the thread on demand, with the
P2002 path of the second creator; `PushStep` `InboxStep` are `sendPush`; `SetAlerts`,
`MarkRead`, `MarkAllRead`, and `FirstPage` `NextPage` of the cursor. Notices are numbered by `createdAt`:
that two share a millisecond, which the sort (`notifications/routes.ts:15`) leaves in any
order, is not modelled.

**Books.** The ledger keeps nothing: its lines are operators over the order, payment,
return and plan rows of a history (`Order`, `Deliver`, `Settle`, `RefundSale`,
`ReplaceSale`, `BuyPlan`, `DayCloses`), `Book` is the walk with its window, kind filter and
cap. The sort is `Before`: by day, by order code, then in the order in which the lines of an
order are pushed; the fees of the plan are pushed after all orders.

Left out of these: validation that only refuses, wording, audit rows and socket events
(no handler reads them), document uploads, GPS coordinates, the reconnection of Redis.

## Runs

| run | question | instance | result |
|---|---|---|---|
| `race` | what holds whatever overlaps? | 2 handlers and the worker, 1 request, 2 items, 2 rivals with a bid each, no edit window | 2.1 million states, passes |
| `serial` | which rules do handlers keep that do not overlap? | any order of calls, with crashes; 3 bids, a supplier that rebids, an edit window | 1.1 million states, passes |
| `expiry` | does everything end? | 1 handler and the worker, 1 item, 2 bids, fair timers | 44 thousand states, passes |
| `order_with_accept` | is the order created with the status flip? | as `race` | violated |
| `one_winner` | has an item one winner under concurrent awards? | as `race` | violated |
| `binding_accept` | is an accepted bid final under concurrency? | as `race` | violated |
| `order_race` | what does an order keep whatever overlaps, and is every late order flagged? | 2 handlers and the tick, the won lines and one adjustment | 104 thousand states, passes |
| `order_serial` | does an order keep its promise when handlers do not overlap? | any order of calls, with crashes | 1 thousand states, passes |
| `returns` | what do claims keep whatever overlaps, and what without overlap? | 2 handlers, 2 claims, 2 lines | 338 thousand states, passes |
| `confirmed_payment` | is a confirmed payment final under concurrency? | as `order_race` | violated |
| `accounts` | what do the ten components around the order keep, in each regime? | 2 slots, one component in focus | 448 thousand states, passes |
| `party_due` | is a party's closing due its own? | `Books` alone | violated |

`race` and `serial` share a specification and differ in the constant `Overlap`: in `serial` at
most one handler or tick is in flight, still cut short anywhere by a crash.
The properties that hold only there are those of which the three findings are
counterexamples, or which the code checks without excluding the race; the README's
hazard list says which.

Bounds. Two slots are enough for every race that the code's read-check-write
handlers have, since each is between one reader and one writer, and the worker runs
beside them. Two items make partial awards, leftover items and disjoint accepts
possible. One request: handlers of different requests share no row but the quota
count. The clock runs to `Horizon = 4` with `Window = 2` and `BidTtl = 1`, so a bid
expires before, with and after its auction, and an extension outlives the original
end. `CreateRequest` and `PlaceExtend` keep every end before the horizon, so that time
always reaches it. `MaxExtends = 1` and `BidCap = 1` (2 in `serial`) put both counters at
their limit. Symmetry is used only where no liveness property is checked: over slots
and items, over rivals together with their bids, or over the two bids of one supplier.
`CHECK_DEADLOCK FALSE`: when the clock has reached its bound and every row is final
there is nothing left to do.

Properties of `race`:
`OrderIsBacked` (an order is of an acknowledged bid and names only items awarded),
`AwardedRequestIsSettled` (an awarded request has no open item),
`AwardIsFinal`, `OrderStands` (an order keeps its items),
`BidWithinAuction`, `EndNeverMovesEarlier`, and the types.
Of `serial`: `OneOrderPerItem`, `PlannedItemIsOrdered`,
`ClosedRequestHasNoLiveBid`, `OneLiveBidPerSupplier`, `AcceptedBidIsBinding`,
`OutcomeIsFinal`. Of `expiry`: `EveryAuctionEnds`, `EveryBidSettles`.

The runs of `OrderLifecycle` need no bound on time or counters: its state is finite, and
an order that went back may go forward again. Two snapshots tell an adjustment from
the original. Of `order_race`: `MilestonesInOrder` (delivery, confirmation, closing and
invoice come in this order, even for a handler that acts on a stale read) and
`LateOrderIsFlagged`. Of `order_serial`: `KeepsPromise` (the
refinement), `StatusMovesForward`, `ClosedOrderIsSettled`, `SlaVerdictIsFinal`. All four are
false under overlap: handlers write by id what they decided on a read.

`Returns` has a finite state as well. Two claims are one and the claim that contests or
retries it; two lines make them share all, some or none. `SubmittedIsEvidenced` and
`SubmittedClaimStands` hold whatever overlaps: the retry repeats `status: 'draft'` in its
`deleteMany`, the one write of a claim that checks again what was read.
`OneClaimPerItem`, `ClaimMovesForward` and `ResolutionStands` are claimed without overlap
only: two creations that both find no claim both insert one, and two decisions overwrite
each other.

`accounts` checks ten components in one run because no variable is shared between them and
no action of one reads another's: `focus` names the one that moves, the others keep their
initial state. Their product would multiply states and add no behaviour. The model values `x` and `y` stand for the two
orders, sessions, shops or rated orders of whichever component is in focus, which is
why one symmetry serves all.

| property | what it says | regimes |
|---|---|---|
| `OneLiveSubscription` | at most one row is flagged active | all |
| `PaidTermStands` | a running term is switched off only by the step that starts another plan; what the history says of a row is what happened to it | all |
| `DefaultsAgree` | one default address; the delivery point is its line and, where it has one, its pin, or typed over since, and is without that pin only after a KYC form | not overlapping; undisturbed |
| `LinkOpensOneOrder` | a courier acts on the link's order; by its only live link, on an open order | all; not overlapping |
| `StaleIsToldOnce` | a quiet stream is told of once per episode | undisturbed, within a page |
| `StaleRoleExpires` | an old role is forgotten after twice both lifetimes; at once where it was switched | all; not overlapping |
| `PagesCatchUp` | a copy is behind by at most two lives; a writer reads its own write, but for 18 named pairs | all; undisturbed |
| `StandingAgrees` | the rating lies between the worst and best stars given and counts each row once | all; every row counted when not overlapping |
| `DeskAgrees` | the last thing the user heard is what stands, unless preferences withheld a ticket's notice; a ticket waits for the side that did not write; no decision is heard of a row that is not there | undisturbed; the last in all |
| `ChatKeepsUp` | nobody is refused by the other's thread; leafing shows each notice once | all |
| `BooksAddUp` | opening, closing and running balance are the sums of their lines, by any window and filter | (pure) |

Bounds of `accounts`. A calendar of months of 3, 2, 3 and 2 days, started on any of the
first five, has the 31st that rolls over and the term that ends on the last day; three
subscriptions are a first, a renewal and a replacement in flight together. Two
addresses are the default and the one that takes over; two lines and two pins, or none,
make their places equal, different in one or in both, and are interchangeable. Three links are two rotations.
Lifetimes of 1 and 2 ticks with awaits that take less than a tick put an expiry before,
on and after every step; `StaleBound` and `StaleLimit` are tight in these instances.
Pages and roles run in one process: another process's memory ages by itself, which the
refill from Redis shows already. Two orders to be rated with 1, 4 or 5 stars reach each
side of a rounding. Two sales over three days with one plan give books of up to seven
lines, over a cap of three. The `Gaps` of `Pages` are exactly those pairs that TLC
refutes without them: a list of places where a user's own page lags behind until it
expires, which the code seems to accept and the model makes explicit.

Two mints that overlap leave two live links, two address handlers that overlap two
defaults, and a rate read and written back outside a transaction may lose an update:
these properties are claimed without overlap only.

Each property has a mutant in its module (comment "Mutant:"): a plausible mistake in
the code it guards, with which TLC finds the property violated.

## Fairness

`FairSpec` assumes that time passes, that `setInterval` fires the tick again and
again (`WorkerFind`, weakly fair), and that its statements are not interrupted for
ever (strong fairness of the three writes: any tick may be lost to a restart or a
failed statement, or may wait for a row lock, but not all of them). A transaction
does not stay open for ever: Prisma ends an interactive transaction at its timeout
(`LeaveTransaction`). No handler is assumed to finish and no user to act.
`OrderLifecycle`'s `FairSpec` assumes the same of `tickSlaBreach`: weak fairness of its
query, strong fairness of its update. The components of `accounts` state safety only and
assume no fairness: what must happen in the end there is stated as an age that no copy
or role may exceed, which a clock that may stop cannot hide.

## Findings

1. `order_with_accept`: accept's comment promises the order atomically with the
   status flip (`bidzone/routes.ts:1166`); the order is created after the
   transaction (1274). A crash between leaves an accepted bid without an order until
   a party calls acknowledge.
2. `one_winner`: accept (1212) and plan (1453) check that an item is not awarded with
   a plain read and then update by id; two that overlap both award it, and it is in
   two orders.
3. `binding_accept`: reject (1596), withdraw (1011) and the TTL sweep (worker 53)
   write by id a bid they read as active, after it has been accepted.
4. `confirmed_payment`: dispute answers 'Payment already confirmed' (`orders/routes.ts:1483`)
   on the payment it read, and writes by order id (1489) after the confirmation: the order
   closes with a disputed payment, and its invoice answers NO_INVOICE from then on.
5. `party_due`: the closing due of each party is documented as "Closing due for the selected
   window" (`ledger/service.ts:31`, and again at 374). The walk stores the running balance of
   the whole book (377, 417): a supplier that delivers to two shops reads, as one shop's due,
   what both owe. The cash book and a ledger of one party are not affected.

Met while modelling, with no run of its own since `DefaultsAgree` names it as its exception: the
primary address "has to be mirrored there or every order ends up without a pin"
(`identity/routes.ts:258`), and the address handlers never mirror a missing one; but the KYC form
writes the same columns with `data.lat ?? null` (`consumer-kyc/routes.ts:55-56`, 77-81), so that
one saved without coordinates erases the pin of a primary address that has one.

## Proofs

`AuctionProofs` proves for every value of the constants:

- `TypeCorrect`: `Spec => []TypeOK`.
- `BidsEndWithAuction` and `EndsOnlyMoveLater`: from the inductive invariant
  `EndsInv`. A placement carries the end it read; the end may have moved since. If it
  has, it lies at most `ExtendBy` after the present, and was within the trigger of
  the present when read, so that whatever the placement writes is later; this is
  where `ExtendTrigger <= ExtendBy` is used. Ends only grow, so a bid that ended with
  its auction when its expiry was computed still does.
- `AwardsAreFinal`, `OrdersStand`: from `RowsInv`, which says what a handler in flight
  holds: a plan only drops items of its snapshot, and the rows of an edit in flight
  are existing ones.
- `OrdersAreBacked` and `AwardedRequestsAreSettled`, assuming `EditWindow = 0`: from
  `OrdersInv`. It says of every handler in flight what its next write needs: the items
  an accept or a plan is about to award are of its request, the accept that saw every
  other item awarded still sees them so, and a bid that is about to get its order has
  its covered items awarded. `BidsInv` adds that a bid row is inserted once and its
  covered items never change. With an edit window both properties are false in the
  code (an edit may delete awarded items, and a whole-basket bid then covers new
  ones), which is why the assumption is there; the default configuration has a
  window of 30 s.

`AuctionSerialProofs` proves the six properties of the `serial` run for any requests, items,
bids, suppliers, slots and clock, assuming only `Overlap = FALSE`: `ItemsHaveOneOrder`,
`PlannedItemsAreOrdered`, `ClosedRequestsHaveNoLiveBid`, `SuppliersHaveOneLiveBid`,
`AcceptedBidsBind` and `OutcomesAreFinal`. Handlers then come one at a time and still stop
at any await, and the worker ticks at any time between handlers. None of the six is
inductive; `SerialInv` is:

- `Alone`: at most one handler is in flight, and the worker is idle while it is.
- `AwardsInv` gives each accepted bid a *share*: its order, or while it has none the items it
  covers. The acknowledged bids are the accepted ones, only they have orders, every item
  of a share is awarded or deleted, and two shares meet in deleted items only. A crash
  between an award and its order leaves the order missing, and an acknowledgement still
  creates it: what carries one winner per item over that gap is that the share is settled
  at the acceptance. An accept that leaves its request open was of a part of the basket
  (`OpenShares`), so no later award changes what a share is.
- `OneActiveBid` and `ActiveBidsAreOpen` speak of the status of a row and not of the time, so that
  the clock may pass a bid's end before a sweep writes it. A tick that crashed leaves active
  bids on the requests it expired; they are past their end.
- `ReadsHold`: what the handler in flight has read still holds, step by step of each
  handler; it is what the writes by id (reject, withdraw, sweep) rest on.

`OrderProofs` proves, for any number of slots and any set of snapshots:

- `OrderTypeCorrect`; `MilestonesAreInOrder` and `BreachesAreLate` from `RaceInv`: a handler in
  flight has seen that the order was delivered, confirmed or late, and none of the three
  is ever undone, so it may act on it however late. `InvoicesStand` needs no invariant.
- Assuming `Overlap = FALSE`: `ClosedOrdersAreSettled`, `SlaVerdictsAreFinal`,
  `StatusesMoveForward` and `OrdersKeepTheirPromise` (the refinement, each action a step of `OrderPromise` or a
  stutter) from `SerialInv`: at most one handler is in flight, what it read still holds,
  and signed, delivered, paid, closed and invoiced stand in the relations the code
  relies on. Crashes between steps are part of it: `SerialInv` holds of the order a
  crashed confirmation or refusal leaves behind.

`ReturnsProofs` proves, for any number of slots, claims and lines:

- `ReturnTypeCorrect`; `SubmittedClaimsAreEvidenced` and `SubmittedClaimsStand` from `RaceInv`: a
  handler that writes has seen its claim evidenced, evidence only grows until the claim is
  deleted, and a deleted row is never written.
- `NoItemIsReturnedTwice`, `ResolutionsStand` and `ClaimsMoveForward`, for behaviours without overlap, from
  `SerialInv`: the handler in flight is alone, what it read still holds, live claims are
  disjoint, and nothing is granted before the supplier decides.

`SubscriptionsProofs` proves, for any calendar, plans, number of rows and slots, and under
every regime:

- `SubscriptionsTypeCorrect`. A term ends within the calendar because a month after any
  day of the horizon still has a month after it; the lemmas about `MonthOf`, `MonthAfter`
  and `AddOneMonth` rest on the least element of a set of naturals.
- `OneSubscriptionIsLive` from `LiveInv`: a transaction that has read holds the lock, the
  rows it read as active are still the only ones that may be (others only switch off), and
  it switches all of them off but the one it keeps.
- `PaidTermsStand` from what each handler has read: the row `getActiveSubscription` or the
  sweep is about to switch off is past its end and stays so, since an end is never moved
  later; a row reads *replaced* only if a newer one began when it ended.

`AddressesProofs` proves, for any addresses, lines, pins and slots:

- `AddressesTypeCorrect`, and `DefaultsStayAgreed` from `AddressInv`. Without overlap
  (`AloneInv`) an insert of a default has seen every saved row, and a handler that promotes
  finds no default, since the one it deleted was the only one. Where nothing fails
  (`AgreeInv`) the delivery point agrees (`At`), but for a mirror in flight, which carries the
  place of the default it is owed for. `At` admits the point a KYC form leaves, its own line
  without a pin; that the other form keeps `At` from there on is one of the cases. Both are claims about what is between two statements:
  the crashes of the *crashing* regime break the second and not the first.

`HandoffProofs` proves, for any orders, links and slots:

- `HandoffTypeCorrect`, and `LinksOpenOneOrder` from `MatchInv` (a link keeps its order from
  its insertion on, whatever overlaps, so the match checked at the start holds at the
  write) and, without overlap, `LinkAloneInv`: the handler in flight is alone, every link of
  the order it is minting for is revoked, and the insert takes a row that was free.

`AccountsProofs` takes the other seven components. Each has its specification alone
(`StandSpec`, `StaffSpec`, ...), its type theorem, and an inductive invariant, proved step by step:

- `ProfilesAgree` from `StandInv` (`Supported`): a rating lies between the least and the most
  stars given, by the arithmetic of the running average with its rounding, for any orders
  and stars. It holds of what an overlapping commit has read as well, since ratings are
  never taken back: a lost update leaves a profile that some of the stars support.
- `DecisionsAreTold` from `DeskInv`: between a write and its push, only the handler that wrote keeps
  the user from knowing, and it carries what it wrote; if preferences end it early, `missed`
  says so until the next notice gets through.
- `StaleIsToldOnceHolds` from `ToldInv`: the orders told of are among those the tick in flight found,
  quiet, and remembered, until their stream is heard. Assumes that a page holds all
  sessions, as the property does.
- `SwitchedRolesExpire` from `CacheInv`. That an entry's age is bounded is not inductive by itself:
  a copy is made of a copy. Each cache has a bound of its own (`RedisBound`, `MemBound`), in the
  order in which they fill one another, and a handler carries a role no older than the
  cache it took it from allows. The last bound is the `StaleBound` of the property.
- `PagesCaughtUp` from `PagesInv`, likewise with a bound for each level, and `OwnCleared`: the table
  of writers against pages is gone through handler by handler (`OwnPagesAreDropped`), so that
  a page a writer forgets would have to be in `Gaps`.
- `ChatHasKeptUp` from `ChatInv`: notices are numbered as they come, so a page is a stretch of
  numbers read downwards and the cursor cuts it where the next one begins; whatever comes
  in meanwhile is numbered above.
- `TheBooksAddUp` from `BooksInv`, for any number of orders, amounts, days and rows. A sum here is
  a fold over a set whose order nobody knows, and a balance a recursive function: both need
  induction, which the provers only take in the form of a least counterexample
  (`LeastNatural`). So `SumTake` first shows that any element of a set may be summed first, and
  with it `SumTogether` (two sets that share nothing) and `SumAlong` (a sum over places is the
  sum over what stands there). `SortedFacts`: a sale gives a book one line of each kind at
  most, so that `Before` is a strict total order, the number of lines before a line is its
  place, and days do not decrease. `BalanceFacts`: the balance at place n is the sum of the
  first n lines. The lines before a day, and up to one, are then the first k lines for some
  k, which gives the opening, the closing and the last row (`OpeningFacts`, `ClosingFacts`,
  `LastRowFacts`); `WellKeptAddsUp` puts them together for any book.

The last part is about `MCAccounts`!`Spec`, the specification of the `accounts` run, for any
constants: `AccountsTypeCorrect` (`TypesOK`), `AccountsAgree` (all its other invariants) and
`AccountsStepsStand` (its two action properties). `FocusInv` is the types of all and the
invariant of the component in focus; `RestInv` adds that the others stand as they began
and that no slot is at a step of theirs.

Every step of a preservation proof is one action, and under it one conjunct that the
action can disturb. The candidates were first checked by TLC as invariants. The
assumptions on the constants are named `...Assumption` in the modules that declare them, and TLC
evaluates them in every run: finite sets of slots, sessions and rated orders, lifetimes
and pages that are not empty.

Only model-checked: `EveryAuctionEnds`, `EveryBidSettles` and `LateOrderIsFlagged`, since
liveness and fairness are out of the prover's reach, as is ENABLED. Every other property of
a passing run is a theorem. No RECURSIVE operator is used.

## Not modelled

- The cap on started payments (`lib/payment-backlog.ts`). Its message says that one can
  have at most three orders with a payment started; it is checked where requests and
  orders are made and not where a payment is started, so that four delivered orders can
  all start theirs, one call after the other. The hazard list names it: reading the code
  says all that a model would.
- Supabase and the verification of tokens: a library and a service.
- `lib/scoring.ts`, `lib/delivery-sla.ts` and the catalog: floating point formulas, tables
  of times and data, each read by one handler and refusing or ranking only.
- The chat of an order: as that of a claim without the creation of its thread. Knowledge
  articles, display name, avatar, privacy stamp: single writes of a column.
- The order status event log, the stored tracking points, audit rows: written, and read
  back for display only.
- Rendering of PDFs, uploads and storage, sockets and FCM: no state that a handler reads.
- Scripts, seeds and load tests: they call the API and are not part of the server.

## Plan

1. `Award`: the abstract award (each item open, awarded or cancelled once) that `Auction`
   implements when handlers do not overlap, as a refinement, and its proof from the
   invariants of `AuctionSerialProofs`.
2. Lemmas for the liveness properties that need no fairness: that while an auction is due
   the worker's tick is to end it, and that no other step puts it off for ever.
