---------------------------------- MODULE Books ----------------------------------
(***************************************************************************)
(* The account books of ledger/service.ts, recomputed at every read from the *)
(* orders, payments, returns and subscriptions as they stand: the ledger of  *)
(* a supplier or of a shop, and the supplier's cash book.  One supplier.     *)
(***************************************************************************)
EXTENDS InFlight, FiniteSets, FiniteSetsExt, Sequences, Functions

CONSTANTS
  MaxSales,    \* bound: orders of the supplier
  Buyers,      \* shops that order
  Amounts,     \* what an order comes to
  RefundPaise, \* what a refund comes to
  Charges,     \* what a plan costs its supplier: subscriptionChargePaise
  EntryCap,    \* ENTRY_CAP
  LastDay      \* bound: the clock

ASSUME BooksAssumption ==
  /\ MaxSales \in Nat /\ EntryCap \in Nat /\ LastDay \in Nat
  /\ Amounts \subseteq Nat \ {0} /\ RefundPaise \in Nat \ {0} /\ Charges \subseteq Nat \ {0}

Sales == 1..MaxSales
Days == 0..LastDay
Unset == -1
NoOne == "no one"

VARIABLES
  day,     \* the clock
  sale,    \* Order rows with their bid, payment and return: party, amount, and the day of each event
  fee      \* Subscription rows of the supplier: the day each began and its charge

booksVars == <<day, sale, fee>>

NoSale == [party |-> NoOne, amount |-> 0, delivered |-> Unset, paid |-> Unset,
           refunded |-> Unset, replaced |-> Unset]
Ordered == {s \in Sales : sale[s] # NoSale}

(***************************************************************************)
(* The lines of a book, from the rows.                                       *)
(***************************************************************************)
Line(at, s, kind, delta) == [at |-> at, sale |-> s, kind |-> kind,
                             party |-> sale[s].party, delta |-> delta]

DeliveryLines(s) == IF sale[s].delivered = Unset THEN {}
                  ELSE {Line(sale[s].delivered, s, "delivery", sale[s].amount)}

PaymentLines(s, sign) == IF sale[s].paid = Unset THEN {}
                     ELSE {Line(sale[s].paid, s, "payment", sign * sale[s].amount)}

ReturnLines(s) ==
  (IF sale[s].refunded = Unset THEN {}
   ELSE {Line(sale[s].refunded, s, "return", -RefundPaise)})
  \cup (IF sale[s].replaced = Unset THEN {}
        ELSE {Line(sale[s].replaced, s, "replacement", 0)})

\* What each side sees: a supplier what is due, a shop what it has paid.
SupplierLines(parties) ==
  UNION {DeliveryLines(s) \cup PaymentLines(s, -1) \cup ReturnLines(s) :
           s \in {r \in Ordered : sale[r].party \in parties}}

ShopLines(shop) ==
  UNION {PaymentLines(s, 1) \cup ReturnLines(s) : s \in {r \in Ordered : sale[r].party = shop}}

\* The cash book: what a sale brings in and what is paid back, and the fees of the plan.
SaleCash(s) == PaymentLines(s, 1) \cup {l \in ReturnLines(s) : l.kind = "return"}

\* Pushed after the lines of every order.
FeeLine(f) == [at |-> f.at, sale |-> MaxSales + 1, kind |-> "subscription", party |-> NoOne,
               delta |-> -f.charge]

CashLines == (UNION {SaleCash(s) : s \in Ordered}) \cup {FeeLine(f) : f \in fee}

\* By time, then by order code, then as pushed.
Pushed == [delivery |-> 0, payment |-> 1, return |-> 2, replacement |-> 3, subscription |-> 4]
Before(m, l) ==
  \/ m.at < l.at
  \/ m.at = l.at /\ m.sale < l.sale
  \/ m.at = l.at /\ m.sale = l.sale /\ Pushed[m.kind] < Pushed[l.kind]
Sorted(lines) ==
  [n \in 1..Cardinality(lines) |->
     CHOOSE l \in lines : Cardinality({m \in lines : Before(m, l)}) = n - 1]

(***************************************************************************)
(* The walk over a book, with a window of days [from, to].                   *)
(***************************************************************************)
KindOk(kind, line) ==
  kind \in {"all", line.kind} \/ (kind = "return" /\ line.kind = "replacement")

\* Mutant: the end of the window is left out.
BeforeTo(line, from, to) == line.at >= from /\ line.at < to

InWindow(line, from, to) == line.at >= from /\ line.at <= to

\* Mutant: the filter for rows counts for the totals as well.
CountedRows(kind, line) == KindOk(kind, line)

\* The totals count every kind: the filter hides rows only.
Counted(kind, line) == TRUE

LastOf(entries) ==
  IF Len(entries) > EntryCap
  THEN SubSeq(entries, Len(entries) - EntryCap + 1, Len(entries)) ELSE entries

\* What the first n lines come to.
Balance(line) ==
  LET balance[n \in 0..Len(line)] == IF n = 0 THEN 0 ELSE balance[n - 1] + line[n].delta
  IN  balance

Inside(line, from, to) == {n \in DOMAIN line : InWindow(line[n], from, to)}

Opening(line, balance, from) ==
  LET later == {n \in DOMAIN line : line[n].at >= from}
  IN  IF later = {} THEN balance[Len(line)] ELSE balance[Min(later) - 1]

\* Billed less settled less refunded.
Moved(line, from, to, kind) ==
  SumFunctionOnSet([n \in DOMAIN line |-> line[n].delta],
                   {n \in Inside(line, from, to) : Counted(kind, line[n])})

\* The balance after each row that is shown.
RowBalances(line, balance, from, to, kind) ==
  LET shown == {n \in Inside(line, from, to) : KindOk(kind, line[n])}
  IN  LastOf([i \in 1..Cardinality(shown) |->
        balance[CHOOSE n \in shown : Cardinality({m \in shown : m < n}) = i - 1]])

\* A party's closing is the balance at its last line.
Closings(line, balance, from, to) ==
  LET upTo(b) == {n \in DOMAIN line :
                    line[n].party = b /\ (n \in Inside(line, from, to) \/ line[n].at < from)}
  IN  [b \in {b \in Buyers : upTo(b) # {}} |-> balance[Max(upTo(b))]]

Book(line, from, to, kind) ==
  LET balance == Balance(line)
      opening == Opening(line, balance, from)
  IN  [opening |-> opening,
       due |-> opening + Moved(line, from, to, kind),
       parties |-> Closings(line, balance, from, to),
       entries |-> RowBalances(line, balance, from, to, kind)]

(***************************************************************************)
(* The days of the business.                                                 *)
(***************************************************************************)
BooksTypeOK ==
  /\ day \in Days
  /\ \A s \in Sales :
       /\ sale[s].party \in Buyers \cup {NoOne} /\ sale[s].amount \in Amounts \cup {0}
       /\ {sale[s].delivered, sale[s].paid, sale[s].refunded, sale[s].replaced}
            \subseteq Days \cup {Unset}
  /\ fee \subseteq [at : Days, charge : Charges]

BooksInit ==
  /\ day = 0
  /\ sale = [s \in Sales |-> NoSale]
  /\ fee = {}

Happens(s, event) ==
  /\ sale' = [sale EXCEPT ![s][event] = day]
  /\ UNCHANGED <<day, fee, regime, h>>

Order(s, party, amount) ==
  /\ s = Cardinality(Ordered) + 1
  /\ sale' = [sale EXCEPT ![s].party = party, ![s].amount = amount]
  /\ UNCHANGED <<day, fee, regime, h>>

Deliver(s) == s \in Ordered /\ sale[s].delivered = Unset /\ Happens(s, "delivered")

\* Closed: the payment is confirmed after the delivery.
Settle(s) == sale[s].delivered # Unset /\ sale[s].paid = Unset /\ Happens(s, "paid")

Undone(s) == sale[s].delivered # Unset /\ sale[s].refunded = Unset /\ sale[s].replaced = Unset

RefundSale(s) == Undone(s) /\ Happens(s, "refunded")
ReplaceSale(s) == Undone(s) /\ Happens(s, "replaced")

\* Bound: the one plan is bought on the first day, before the first order.
BuyPlan(charge) ==
  /\ fee = {} /\ Ordered = {} /\ day = 0
  /\ fee' = {[at |-> day, charge |-> charge]}
  /\ UNCHANGED <<day, sale, regime, h>>

DayCloses ==
  /\ day < LastDay
  /\ day' = day + 1
  /\ UNCHANGED <<sale, fee, regime, h>>

BooksNext ==
  \/ \E s \in Sales :
       \/ \E party \in Buyers, amount \in Amounts : Order(s, party, amount)
       \/ Deliver(s) \/ Settle(s) \/ RefundSale(s) \/ ReplaceSale(s)
  \/ \E charge \in Charges : BuyPlan(charge)
  \/ DayCloses

(***************************************************************************)
(* Properties.                                                             *)
(***************************************************************************)
Total(lines) == SumFunction([l \in lines |-> l.delta])

\* Each book adds up, by whatever window it is read: it opens on what all earlier
\* lines come to and closes on what the lines up to its end come to, whichever kinds
\* of row the reader hides; and its last row, where none is hidden, carries that sum.
AddsUp(lines) ==
  LET sorted == Sorted(lines) IN
  \A from, to \in Days : from <= to =>
    LET book == Book(sorted, from, to, "all")
    IN  /\ book.opening = Total({l \in lines : l.at < from})
        /\ book.due = Total({l \in lines : l.at <= to})
        /\ book.due = Book(sorted, from, to, "payment").due
        /\ book.entries # <<>> => book.entries[Len(book.entries)] = book.due

BooksAddUp ==
  Ordered # {} =>
    /\ \A parties \in {Buyers} \cup {{b} : b \in Buyers} : AddsUp(SupplierLines(parties))
    /\ \A shop \in Buyers : AddsUp(ShopLines(shop))
    /\ AddsUp(CashLines)

\* "Closing due for the selected window" of each party (ledger/service.ts:31): what
\* that party's own lines come to.  The code gives the balance of the whole book.
PartyDueIsItsOwn ==
  LET lines == SupplierLines(Buyers) IN
  \A from, to \in Days : from <= to =>
    LET parties == Book(Sorted(lines), from, to, "all").parties
    IN  \A b \in DOMAIN parties :
          parties[b] = Total({l \in lines : l.party = b /\ l.at <= to})
=============================================================================
