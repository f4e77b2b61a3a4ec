--------------------------------- MODULE Standing ---------------------------------
(***************************************************************************)
(* What one party is known for: the ratings a supplier or a shop gets on     *)
(* closed orders, folded into its profile, and a supplier's rates of late    *)
(* deliveries, returns and adjusted challans (orders/routes.ts,              *)
(* orders/service.ts, lib/ratings.ts).  Profile values are in tenths.        *)
(***************************************************************************)
EXTENDS InFlight, FiniteSets

CONSTANTS
  RatedOrders,   \* orders the party has closed
  Stars,         \* stars that are given
  MaxSamples     \* bound: deliveries, returns and adjustments that count

ASSUME StandingAssumption ==
  IsFiniteSet(RatedOrders) /\ Stars \subseteq 1..5 /\ MaxSamples \in Nat

Parties == {"supplier", "consumer"}
Unrated == 0

\* Math.round of a / b, for naturals.
Rounded(a, b) == (2 * a + b) \div (2 * b)

\* ewmaRating and the other moving averages: percent of the way to the sample.
Ewma(old, sample, percent) == Rounded((100 - percent) * old + percent * sample, 100)

\* Mutant: a first rating is averaged with the 5.0 a profile starts from.
AveragedRating(profile, stars) == Ewma(profile.rating, 10 * stars, 20)

NextRating(profile, stars) ==
  IF profile.count = 0 THEN 10 * stars ELSE Ewma(profile.rating, 10 * stars, 20)

\* ewmaTrustFromStars: five stars are a trust of 100.
NextTrust(trust, stars) == Ewma(trust, 200 * stars, 20)

VARIABLES
  party,     \* whose profile it is
  rated,     \* OrderRating rows: the stars the party got on each order
  profile,   \* its rating, ratingCount and trustScore
  rate,      \* the supplier's onTimeRate, returnRate and challanAdjustRate
  samples    \* bound on what moves the rates

standingVars == <<party, rated, profile, rate, samples>>

Profiles == [rating : 10..50, count : 0..Cardinality(RatedOrders), trust : 0..1000]
Rates == {"onTime", "returns", "adjust"}
Given == {o \in RatedOrders : rated[o] # Unrated}

StandingHandlers ==
  [at : {"rateInsert"}, order : RatedOrders, stars : Stars]
  \cup [at : {"rateCommit"}, order : RatedOrders, stars : Stars, seen : Profiles]
  \cup [at : {"rateMoves"}, kind : Rates, value : 0..1000]

StandingTypeOK ==
  /\ party \in Parties
  /\ rated \in [RatedOrders -> Stars \cup {Unrated}]
  /\ profile \in Profiles
  /\ rate \in [Rates -> 0..1000]
  /\ samples \in 0..MaxSamples

StandingInit ==
  /\ party \in Parties
  /\ rated = [o \in RatedOrders |-> Unrated]
  /\ profile = [rating |-> 50, count |-> 0, trust |-> 1000]
  /\ rate = [k \in Rates |-> IF k = "onTime" THEN 1000 ELSE 0]
  /\ samples = 0

(***************************************************************************)
(* POST /orders/:id/ratings.                                               *)
(***************************************************************************)
RateStart(p, o, stars) ==
  /\ rated[o] = Unrated
  /\ Start(p, [at |-> "rateInsert", order |-> o, stars |-> stars])
  /\ UNCHANGED standingVars

Claimed(o) == \E q \in Procs : h[q].at = "rateCommit" /\ h[q].order = o

\* Mutant: an order may be rated twice by one party.
RateInsertAgain(p) ==
  /\ h[p].at = "rateInsert"
  /\ Goto(p, [at |-> "rateCommit", order |-> h[p].order, stars |-> h[p].stars, seen |-> profile])
  /\ UNCHANGED standingVars

\* The insert waits for a transaction that inserts the same key, and fails if
\* that one commits.  The profile is read by a plain select.
RateInsert(p) ==
  LET o == h[p].order
  IN  /\ h[p].at = "rateInsert"
      /\ ~Claimed(o)
      /\ IF rated[o] # Unrated THEN End(p)
         ELSE Goto(p, [at |-> "rateCommit", order |-> o, stars |-> h[p].stars,
                       seen |-> profile])
      /\ UNCHANGED standingVars

RateCommit(p) ==
  LET seen == h[p].seen
      stars == h[p].stars
  IN  /\ h[p].at = "rateCommit"
      /\ rated' = [rated EXCEPT ![h[p].order] = stars]
      /\ profile' = [rating |-> NextRating(seen, stars),
                     count |-> seen.count + 1,
                     trust |-> IF party = "consumer" THEN NextTrust(seen.trust, stars)
                               ELSE seen.trust]
      /\ End(p)
      /\ UNCHANGED <<party, rate, samples>>

(***************************************************************************)
(* The rates: each is read, averaged and written back to its own column.     *)
(***************************************************************************)

\* updateSupplierPerformanceOnDelivery, bumpReturnRate and the adjust-qty handler.
Sampled(kind, good) ==
  CASE kind = "onTime" -> Ewma(rate[kind], IF good THEN 1000 ELSE 0, 20)
    [] kind = "returns" -> Ewma(rate[kind], 1000, 15)
    [] kind = "adjust" -> Ewma(rate[kind], 1000, 10)

RateRead(p, kind, good) ==
  /\ party = "supplier" /\ samples < MaxSamples
  /\ kind # "onTime" => ~good
  /\ samples' = samples + 1
  /\ Start(p, [at |-> "rateMoves", kind |-> kind, value |-> Sampled(kind, good)])
  /\ UNCHANGED <<party, rated, profile, rate>>

RateMoves(p) ==
  /\ h[p].at = "rateMoves"
  /\ rate' = [rate EXCEPT ![h[p].kind] = h[p].value]
  /\ End(p)
  /\ UNCHANGED <<party, rated, profile, samples>>

\* A failed transaction rolls back; a rate read is not written.
StandingStop(p) == Stop(p) /\ UNCHANGED standingVars

StandingStep(p) ==
  \/ \E o \in RatedOrders, stars \in Stars : RateStart(p, o, stars)
  \/ RateInsert(p)
  \/ RateCommit(p)
  \/ \E kind \in Rates, good \in BOOLEAN : RateRead(p, kind, good)
  \/ RateMoves(p)
  \/ StandingStop(p)

StandingNext == \E p \in Procs : StandingStep(p) /\ UNCHANGED regime

(***************************************************************************)
(* Properties.                                                             *)
(***************************************************************************)

\* The profile says what the ratings say.  However requests overlap or fail, the
\* rating stays between the worst and the best stars that were given, and no
\* rating counts twice or without its row; where none overlap, every row counts.
StandingAgrees ==
  /\ Given = {} => profile.rating = 50 /\ profile.count = 0
  /\ Given # {} =>
       /\ \E o \in Given : 10 * rated[o] <= profile.rating
       /\ \E o \in Given : profile.rating <= 10 * rated[o]
       /\ profile.count \in 1..Cardinality(Given)
  /\ regime # "overlapping" => profile.count = Cardinality(Given)
=============================================================================
