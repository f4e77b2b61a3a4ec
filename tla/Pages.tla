---------------------------------- MODULE Pages ----------------------------------
(***************************************************************************)
(* The GET pages one user keeps looking at, cached in process memory and in  *)
(* redis (lib/response-cache.ts), and the requests that change the rows they *)
(* show.  A behaviour follows one page of one viewer and the writes of one   *)
(* handler.  A copy lives in ticks; the awaits of a request take less than   *)
(* one.  One process: another's memory keeps its own copies to their end.    *)
(***************************************************************************)
EXTENDS InFlight

CONSTANTS
  PageTtl,     \* life of a built page, in ticks
  RefillTtl    \* the 2 s a page from redis lives in memory

ASSUME PagesAssumption == PageTtl \in Nat \ {0} /\ RefillTtl \in Nat \ {0}

(***************************************************************************)
(* Who looks at each page, and the kinds of rows it shows: the auction (state *)
(* and end of a request), its terms (items, window, address), the live bids, *)
(* the orders they become, and what hangs off an order.                      *)
(***************************************************************************)
Viewers == {"consumer", "supplier"}

FeedPage == [viewers |-> {"supplier"},
             shows |-> {"newRequest", "auction", "terms", "bid", "kyc", "subscription", "rating"}]

SupplierBidsPage == [viewers |-> {"supplier"},
                     shows |-> {"auction", "terms", "bid", "bidAck", "newOrder", "order", "shop"}]

DemandListPage == [viewers |-> {"consumer"},
                   shows |-> {"newRequest", "auction", "terms", "bid"}]

DemandDetailPage ==
  [viewers |-> {"consumer"},
   shows |-> {"auction", "terms", "bid", "bidAck", "newOrder", "order", "rating", "kyc"}]

DemandBidsPage == [viewers |-> {"consumer"},
                   shows |-> {"bid", "bidAck", "newOrder", "order", "rating"}]

DashboardPage ==
  [viewers |-> {"consumer"},
   shows |-> {"newRequest", "auction", "terms", "newOrder", "order", "invoice", "subscription"}]

\* The list of orders, with their payment and tracking session.
ListedRows == {"newOrder", "order", "orderAck", "payment", "tracking", "terms", "shop"}

ConsumerOrdersPage == [viewers |-> {"consumer"}, shows |-> ListedRows]

SupplierOrdersPage == [viewers |-> {"supplier"}, shows |-> ListedRows]

\* getOrderForUser
DetailRows == {"order", "payment", "tracking", "terms", "shop", "challan", "invoice"}

\* enrichOrderWithRatings
RatedRows == {"rating"}

OrderDetailPage == [viewers |-> Viewers, shows |-> DetailRows \cup RatedRows]

\* siblingOrdersFor: the page of another order of the request shows this one too.
SiblingDetailPage == [viewers |-> Viewers, shows |-> {"newOrder", "order"}]

ChallanPage == [viewers |-> Viewers, shows |-> {"challan"}]

\* The catalog carries the median of recent winning bids.
CatalogPage == [viewers |-> Viewers, shows |-> {"winningBid"}]

PageOf ==
  [feed |-> FeedPage, supplierBids |-> SupplierBidsPage, supplierOrders |-> SupplierOrdersPage,
   demandList |-> DemandListPage, demandDetail |-> DemandDetailPage,
   demandBids |-> DemandBidsPage, dashboard |-> DashboardPage,
   consumerOrders |-> ConsumerOrdersPage, orderDetail |-> OrderDetailPage,
   siblingDetail |-> SiblingDetailPage, challan |-> ChallanPage, catalog |-> CatalogPage]

(***************************************************************************)
(* Which pages each invalidation drops, and what each handler writes and     *)
(* invalidates after its commit.                                            *)
(***************************************************************************)
Feeds == {"feed"}
ConsumerLists == {"dashboard", "demandList", "consumerOrders"}
SupplierLists == {"feed", "supplierOrders", "supplierBids"}
DemandDetail == {"demandDetail", "demandBids"}
OrderCaches == {"orderDetail", "challan"}

Writer(by, writes, clears) == [by |-> by, writes |-> writes, clears |-> clears]

CreateRequest == Writer("consumer", {"newRequest"}, Feeds \cup ConsumerLists)
EditRequest == Writer("consumer", {"auction", "terms", "bid"},
                      Feeds \cup ConsumerLists \cup DemandDetail)
CancelRequest == Writer("consumer", {"auction", "bid"},
                        Feeds \cup ConsumerLists \cup DemandDetail)
PlaceBid == Writer("supplier", {"bid", "auction"},
                   Feeds \cup SupplierLists \cup ConsumerLists \cup DemandDetail)
WithdrawBid == Writer("supplier", {"bid"}, Feeds \cup SupplierLists \cup DemandDetail)

\* Accept one bid or a plan.
Award == Writer("consumer", {"bid", "auction", "newOrder", "winningBid"},
                Feeds \cup SupplierLists \cup ConsumerLists \cup DemandDetail)
RejectBid == Writer("consumer", {"bid"},
                    Feeds \cup SupplierLists \cup ConsumerLists \cup DemandDetail)
ConsumerAcknowledges == Writer("consumer", {"bidAck"}, {})
SupplierAcknowledges == Writer("supplier", {"bidAck", "orderAck"}, {})

\* A status, an inspection, a signature, a rejection, a payment step or a rating.
OrderMoves(by) ==
  Writer(by, {"order", "payment", "tracking", "challan", "invoice", "rating"},
         OrderCaches \cup ConsumerLists \cup SupplierLists)
AdjustQuantity == Writer("supplier", {"challan"}, OrderCaches)
DraftChallan(by) == Writer(by, {"challan"}, OrderCaches)
PostPoint == Writer("supplier", {"tracking"}, {})

Subscribe(by) == Writer(by, {"subscription"}, {})
SaveStock == Writer("supplier", {"kyc"}, SupplierLists)
SubmitSupplierKyc == Writer("supplier", {"kyc"}, {})
SaveShop == Writer("consumer", {"shop"}, {})

WriterOf ==
  [createRequest |-> CreateRequest, editRequest |-> EditRequest, cancelRequest |-> CancelRequest,
   placeBid |-> PlaceBid, withdrawBid |-> WithdrawBid, award |-> Award, rejectBid |-> RejectBid,
   consumerAcknowledges |-> ConsumerAcknowledges, supplierAcknowledges |-> SupplierAcknowledges,
   consumerMovesOrder |-> OrderMoves("consumer"), supplierMovesOrder |-> OrderMoves("supplier"),
   adjustQuantity |-> AdjustQuantity, consumerDrafts |-> DraftChallan("consumer"),
   supplierDrafts |-> DraftChallan("supplier"), postPoint |-> PostPoint,
   consumerSubscribes |-> Subscribe("consumer"), supplierSubscribes |-> Subscribe("supplier"),
   saveStock |-> SaveStock, submitSupplierKyc |-> SubmitSupplierKyc, saveShop |-> SaveShop]

(***************************************************************************)
(* The copies of the page.                                                 *)
(***************************************************************************)
UpToDate == -1
StaleLimit == PageTtl + RefillTtl

\* behind: ticks since a write overtook the copy; own: one of the viewer's did.
Fresh == [behind |-> UpToDate, own |-> FALSE]
NoCopy == [left |-> -1, copy |-> Fresh]

VARIABLES
  page,     \* the page followed
  viewer,   \* and the user's role
  writer,   \* the handler that writes
  pageMemory,  \* the entry of the process's Map
  pageRedis    \* the entry of redis

pagesVars == <<page, viewer, writer, pageMemory, pageRedis>>

Copies == [behind : {UpToDate} \cup 0..(StaleLimit + 1), own : BOOLEAN]

PagesHandlers ==
  [at : {"pageFill", "pageStore", "pageRefill"}, copy : Copies]
  \cup [at : {"writeClear", "writeClearRedis"}]

PagesTypeOK ==
  /\ page \in DOMAIN PageOf /\ viewer \in Viewers /\ writer \in DOMAIN WriterOf
  /\ pageMemory \in [left : -1..StaleLimit, copy : Copies]
  /\ pageRedis \in [left : -1..PageTtl, copy : Copies]

Shows == PageOf[page].shows
Writes == WriterOf[writer].writes
Clears == WriterOf[writer].clears

PagesInit ==
  /\ page \in DOMAIN PageOf
  /\ viewer \in PageOf[page].viewers
  /\ writer \in DOMAIN WriterOf
  /\ Shows \cap Writes # {} \/ page \in Clears
  /\ pageMemory = NoCopy /\ pageRedis = NoCopy

(***************************************************************************)
(* GET.                                                                    *)
(***************************************************************************)

\* cacheGet finds nothing; the handler builds the page from the rows.
PageMiss(p) ==
  /\ pageMemory = NoCopy /\ pageRedis = NoCopy
  /\ Start(p, [at |-> "pageFill", copy |-> Fresh])
  /\ UNCHANGED pagesVars

\* cacheSet
PageFill(p) ==
  /\ h[p].at = "pageFill"
  /\ pageMemory' = [left |-> PageTtl, copy |-> h[p].copy]
  /\ Goto(p, [h[p] EXCEPT !.at = "pageStore"])
  /\ UNCHANGED <<page, viewer, writer, pageRedis>>

PageStore(p) ==
  /\ h[p].at = "pageStore"
  /\ pageRedis' = [left |-> PageTtl, copy |-> h[p].copy]
  /\ End(p)
  /\ UNCHANGED <<page, viewer, writer, pageMemory>>

PageFound(p) ==
  /\ pageMemory = NoCopy /\ pageRedis # NoCopy
  /\ Start(p, [at |-> "pageRefill", copy |-> pageRedis.copy])
  /\ UNCHANGED pagesVars

\* Mutant: the copy from redis is given a life of its own there as well.
RefilledBoth(copy) == pageRedis' = [left |-> RefillTtl, copy |-> copy]

\* A refill leaves the entry of redis to run out.
Refilled(copy) == UNCHANGED pageRedis

PageRefill(p) ==
  /\ h[p].at = "pageRefill"
  /\ pageMemory' = [left |-> RefillTtl, copy |-> h[p].copy]
  /\ Refilled(h[p].copy)
  /\ End(p)
  /\ UNCHANGED <<page, viewer, writer>>

(***************************************************************************)
(* A write commits, then drops the pages it names: memory at once, redis     *)
(* when the command arrives.                                               *)
(***************************************************************************)
Overtaken(copy) ==
  IF Shows \cap Writes = {} THEN copy
  ELSE [behind |-> IF copy.behind = UpToDate THEN 0 ELSE copy.behind,
        own |-> copy.own \/ WriterOf[writer].by = viewer]

OvertakenEntry(entry) ==
  IF entry = NoCopy THEN NoCopy ELSE [entry EXCEPT !.copy = Overtaken(@)]

Carrying == {"pageFill", "pageStore", "pageRefill"}

WriteCommits(p) ==
  /\ h[p] = Idle /\ MayStart
  /\ pageMemory' = OvertakenEntry(pageMemory)
  /\ pageRedis' = OvertakenEntry(pageRedis)
  /\ h' = [q \in Procs |->
             IF q = p THEN IF Clears = {} THEN Idle ELSE [at |-> "writeClear"]
             ELSE IF h[q].at \in Carrying THEN [h[q] EXCEPT !.copy = Overtaken(@)] ELSE h[q]]
  /\ UNCHANGED <<page, viewer, writer>>

WriteClear(p) ==
  /\ h[p].at = "writeClear"
  /\ pageMemory' = IF page \in Clears THEN NoCopy ELSE pageMemory
  /\ Goto(p, [at |-> "writeClearRedis"])
  /\ UNCHANGED <<page, viewer, writer, pageRedis>>

\* Mutant: only the process's own memory is cleared.
DroppedFromMemory(entry) == entry

\* redisDelPrefix
Dropped(entry) == IF page \in Clears THEN NoCopy ELSE entry

WriteClearRedis(p) ==
  /\ h[p].at = "writeClearRedis"
  /\ pageRedis' = Dropped(pageRedis)
  /\ End(p)
  /\ UNCHANGED <<page, viewer, writer, pageMemory>>

\* A query or a redis command fails.
PagesStop(p) == Stop(p) /\ UNCHANGED pagesVars

OlderEntry(entry) ==
  IF entry.left <= 0 THEN NoCopy
  ELSE [left |-> entry.left - 1,
        copy |-> [entry.copy EXCEPT !.behind = IF @ = UpToDate THEN @ ELSE @ + 1]]

PagesTimePasses ==
  /\ Quiet
  /\ pageMemory' = OlderEntry(pageMemory)
  /\ pageRedis' = OlderEntry(pageRedis)
  /\ UNCHANGED <<page, viewer, writer, regime, h>>

PagesStep(p) ==
  \/ PageMiss(p)
  \/ PageFill(p)
  \/ PageStore(p)
  \/ PageFound(p)
  \/ PageRefill(p)
  \/ WriteCommits(p)
  \/ WriteClear(p)
  \/ WriteClearRedis(p)
  \/ PagesStop(p)

PagesNext ==
  \/ PagesTimePasses
  \/ \E p \in Procs : PagesStep(p) /\ UNCHANGED regime

(***************************************************************************)
(* Properties.                                                             *)
(***************************************************************************)

\* Where a handler's own user is left with a page as it was: the handler writes
\* what the page shows and does not drop it.
Gaps ==
  {<<"supplierAcknowledges", "supplierBids">>, <<"supplierAcknowledges", "supplierOrders">>,
   <<"consumerAcknowledges", "demandDetail">>, <<"consumerAcknowledges", "demandBids">>,
   <<"postPoint", "supplierOrders">>, <<"postPoint", "orderDetail">>,
   <<"consumerMovesOrder", "demandDetail">>, <<"consumerMovesOrder", "demandBids">>,
   <<"consumerMovesOrder", "siblingDetail">>, <<"supplierMovesOrder", "siblingDetail">>,
   <<"award", "siblingDetail">>, <<"award", "catalog">>, <<"editRequest", "orderDetail">>,
   <<"consumerSubscribes", "dashboard">>, <<"supplierSubscribes", "feed">>,
   <<"submitSupplierKyc", "feed">>, <<"saveShop", "consumerOrders">>,
   <<"saveShop", "orderDetail">>}

\* No copy outlives its rows for ever: whatever builds, refills and
\* invalidations overlap or fail, a copy is behind by at most the life of a
\* built page and of a refill.
StaleResponseExpires ==
  pageMemory.copy.behind <= StaleLimit /\ pageRedis.copy.behind <= StaleLimit

\* A user whose request has been answered reads what it wrote: where requests
\* do not overlap and none fails, no copy of the user's own page is left behind
\* by the user's own write, but for the Gaps.
ReadsOwnWrites ==
  regime = "undisturbed" /\ Quiet /\ <<writer, page>> \notin Gaps =>
    ~pageMemory.copy.own /\ ~pageRedis.copy.own

\* Cached pages catch up with the rows: for everyone within the lives of two
\* copies, and for the writer with the answer.
PagesCatchUp == StaleResponseExpires /\ ReadsOwnWrites
=============================================================================
