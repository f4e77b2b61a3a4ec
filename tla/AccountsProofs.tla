----------------------------- MODULE AccountsProofs -----------------------------
(***************************************************************************)
(* What TLAPS proves of the components around auction, order and return that  *)
(* have no proof module of their own, for any values of their constants, and  *)
(* of all of them together.  Each component has its specification here, the   *)
(* one in which it is alone, then its inductive invariant, init and step, and  *)
(* its theorems.  The last part takes the specification the runs check, which  *)
(* exercises the one component in focus.                                     *)
(***************************************************************************)
EXTENDS MCAccounts, SubscriptionsProofs, AddressesProofs, HandoffProofs,
        FiniteSetTheorems, SequenceTheorems, TLAPS

(***************************************************************************)
(* Standing: the moving averages stay between what they average.            *)
(***************************************************************************)
standVars == <<regime, h, standingVars>>

StandInit ==
  /\ regime \in Regimes
  /\ h = [p \in Procs |-> Idle]
  /\ StandingInit

StandSpec == StandInit /\ [][StandingNext]_standVars

StandTypeOK ==
  /\ StandingTypeOK
  /\ h \in [Procs -> {Idle} \cup StandingHandlers]

LEMMA StandConstants ==
  /\ IsFiniteSet(RatedOrders)
  /\ Stars \subseteq 1..5
  /\ MaxSamples \in Nat
  /\ Cardinality(RatedOrders) \in Nat
  BY StandingAssumption, FS_CardinalityType DEF StandingAssumption

\* Math.round of an average of integers lies between them.
LEMMA EwmaBetween ==
  ASSUME NEW old \in Nat, NEW sample \in Nat, NEW percent \in {10, 15, 20}
  PROVE  /\ Ewma(old, sample, percent) \in Int
         /\ old <= sample =>
              old <= Ewma(old, sample, percent) /\ Ewma(old, sample, percent) <= sample
         /\ sample <= old =>
              sample <= Ewma(old, sample, percent) /\ Ewma(old, sample, percent) <= old
<1>1. \A a \in Nat : Rounded(a, 100) = (2 * a + 100) \div 200
  BY DEF Rounded
<1>2. CASE percent = 10
  BY <1>1, <1>2 DEF Ewma
<1>3. CASE percent = 15
  BY <1>1, <1>3 DEF Ewma
<1>4. CASE percent = 20
  BY <1>1, <1>4 DEF Ewma
<1> QED
  BY <1>2, <1>3, <1>4

\* So a rate, a trust and a rating keep to their scales.
Scale == 0..1000

LEMMA RateScale ==
  ASSUME NEW old \in Scale, NEW sample \in Scale, NEW percent \in {10, 15, 20}
  PROVE  Ewma(old, sample, percent) \in Scale
<1>1. PICK o \in Nat, n \in Nat : /\ o = old /\ 0 <= o /\ o <= 1000
                                  /\ n = sample /\ 0 <= n /\ n <= 1000
  BY DEF Scale
<1>2. PICK e \in Int : /\ e = Ewma(o, n, percent)
                       /\ o <= n => o <= e /\ e <= n
                       /\ n <= o => n <= e /\ e <= o
  BY EwmaBetween
<1>3. 0 <= e /\ e <= 1000
  <2>1. CASE o <= n
    BY <1>1, <1>2, <2>1
  <2>2. CASE n <= o
    BY <1>1, <1>2, <2>2
  <2> QED
    BY <2>1, <2>2
<1>4. e \in Scale
  BY <1>3 DEF Scale
<1> QED
  BY <1>1, <1>2, <1>4

LEMMA TrustScale ==
  ASSUME NEW trust \in Scale, NEW stars \in 1..5
  PROVE  NextTrust(trust, stars) \in Scale
<1>1. 200 * stars \in Scale
  <2>1. 200 * stars \in Int /\ 0 <= 200 * stars /\ 200 * stars <= 1000
    OBVIOUS
  <2> QED
    BY <2>1 DEF Scale
<1>2. Ewma(trust, 200 * stars, 20) \in Scale
  BY <1>1, RateScale
<1> QED
  BY <1>2 DEF NextTrust

LEMMA RatingScale ==
  ASSUME NEW seen \in Profiles, NEW stars \in 1..5
  PROVE  NextRating(seen, stars) \in 10..50
<1>1. PICK o \in Nat, n \in Nat : /\ o = seen.rating /\ 10 <= o /\ o <= 50
                                  /\ n = 10 * stars /\ 10 <= n /\ n <= 50
  BY DEF Profiles
<1>2. PICK e \in Int : /\ e = Ewma(o, n, 20)
                       /\ o <= n => o <= e /\ e <= n
                       /\ n <= o => n <= e /\ e <= o
  BY EwmaBetween
<1>3. NextRating(seen, stars) = IF seen.count = 0 THEN n ELSE e
  BY <1>1, <1>2 DEF NextRating
<1>4. 10 <= e /\ e <= 50
  BY <1>1, <1>2
<1> QED
  BY <1>1, <1>2, <1>3, <1>4

LEMMA StandHandlerFields ==
  ASSUME NEW s \in {Idle} \cup StandingHandlers
  PROVE  /\ s.at \in {"rateInsert", "rateCommit"} => s.order \in RatedOrders /\ s.stars \in Stars
         /\ s.at = "rateCommit" => s.seen \in Profiles
         /\ s.at = "rateMoves" => s.kind \in Rates /\ s.value \in 0..1000
         /\ s.at \in {"idle", "rateInsert", "rateCommit", "rateMoves"}
         /\ s.at = "idle" <=> s = Idle
  BY DEF StandingHandlers, Idle

LEMMA StandHandlerForms ==
  /\ \A o \in RatedOrders, n \in Stars :
       /\ [at |-> "rateInsert", order |-> o, stars |-> n] \in StandingHandlers
       /\ \A s \in Profiles :
            [at |-> "rateCommit", order |-> o, stars |-> n, seen |-> s] \in StandingHandlers
  /\ \A k \in Rates, v \in 0..1000 :
       [at |-> "rateMoves", kind |-> k, value |-> v] \in StandingHandlers
<1>1. ASSUME NEW o \in RatedOrders, NEW n \in Stars
      PROVE  [at |-> "rateInsert", order |-> o, stars |-> n] \in StandingHandlers
  BY DEF StandingHandlers
<1>2. ASSUME NEW o \in RatedOrders, NEW n \in Stars, NEW s \in Profiles
      PROVE  [at |-> "rateCommit", order |-> o, stars |-> n, seen |-> s] \in StandingHandlers
  BY DEF StandingHandlers
<1>3. ASSUME NEW k \in Rates, NEW v \in 0..1000
      PROVE  [at |-> "rateMoves", kind |-> k, value |-> v] \in StandingHandlers
  BY DEF StandingHandlers
<1> QED
  BY <1>1, <1>2, <1>3

LEMMA SampledType ==
  ASSUME StandTypeOK, NEW kind \in Rates, NEW good \in BOOLEAN
  PROVE  Sampled(kind, good) \in 0..1000
<1>1. rate[kind] \in Scale /\ 0 \in Scale /\ 1000 \in Scale
  BY DEF StandTypeOK, StandingTypeOK, Scale
<1>2. \A sample \in {0, 1000}, percent \in {10, 15, 20} :
        Ewma(rate[kind], sample, percent) \in Scale
  BY <1>1, RateScale
<1>3. CASE kind = "onTime"
  <2>1. Sampled(kind, good) = Ewma(rate[kind], IF good THEN 1000 ELSE 0, 20)
    BY <1>3 DEF Sampled
  <2> QED
    BY <2>1, <1>2 DEF Scale
<1>4. CASE kind = "returns"
  <2>1. Sampled(kind, good) = Ewma(rate[kind], 1000, 15)
    BY <1>4 DEF Sampled
  <2> QED
    BY <2>1, <1>2 DEF Scale
<1>5. CASE kind = "adjust"
  <2>1. Sampled(kind, good) = Ewma(rate[kind], 1000, 10)
    BY <1>5 DEF Sampled
  <2> QED
    BY <2>1, <1>2 DEF Scale
<1> QED
  BY <1>3, <1>4, <1>5 DEF Rates

(***************************************************************************)
(* What a rating commits: a profile that counts one order more, and a rating *)
(* between the worst and the best stars.  A transaction in flight has read a *)
(* profile of ratings that are still there, and its own row is not there yet. *)
(***************************************************************************)
\* A profile that was read says what some of the ratings say.
Supported(x) ==
  /\ x.count <= Cardinality(Given)
  /\ x.count # 0 => /\ \E o \in Given : 10 * rated[o] <= x.rating
                    /\ \E o \in Given : x.rating <= 10 * rated[o]

StandInv ==
  /\ StandTypeOK
  /\ Supported(profile)
  /\ Given = {} => profile.rating = 50
  /\ Given # {} => profile.count # 0
  /\ \A p \in Procs : h[p].at = "rateCommit" =>
       /\ Supported(h[p].seen)
       /\ rated[h[p].order] = Unrated
       /\ \A q \in Procs : h[q].at = "rateCommit" /\ h[q].order = h[p].order => q = p
  /\ regime # "overlapping" =>
       /\ profile.count = Cardinality(Given)
       /\ \A p, q \in Procs : p # q => h[p] = Idle \/ h[q] = Idle
       /\ \A p \in Procs : h[p].at = "rateCommit" => h[p].seen = profile

LEMMA GivenFacts ==
  ASSUME StandTypeOK
  PROVE  /\ IsFiniteSet(Given)
         /\ Cardinality(Given) \in Nat
         /\ Cardinality(Given) <= Cardinality(RatedOrders)
         /\ Given = {} => Cardinality(Given) = 0
  BY StandConstants, FS_Subset, FS_CardinalityType, FS_EmptySet DEF Given

LEMMA StandInvInit == StandInit => StandInv
<1> SUFFICES ASSUME StandInit
             PROVE  StandInv
  OBVIOUS
<1>1. StandTypeOK
  <2>1. [rating |-> 50, count |-> 0, trust |-> 1000] \in Profiles
    BY StandConstants DEF Profiles
  <2>2. rate \in [Rates -> 0..1000]
    BY DEF StandInit, StandingInit
  <2>3. samples \in 0..MaxSamples
    BY StandConstants DEF StandInit, StandingInit
  <2> QED
    BY <2>1, <2>2, <2>3 DEF StandInit, StandingInit, StandTypeOK, StandingTypeOK
<1>2. Given = {}
  BY DEF StandInit, StandingInit, Given
<1> QED
  BY <1>1, <1>2, GivenFacts DEF StandInit, StandingInit, StandInv, Supported, Idle

\* A step of one handler that leaves the profile and the ratings alone.
LEMMA StandMoves ==
  ASSUME StandInv, NEW p \in Procs, NEW s \in {Idle} \cup StandingHandlers, Goto(p, s),
         regime' = regime, UNCHANGED <<party, rated, profile>>,
         StandingTypeOK',
         s # Idle /\ regime # "overlapping" => \A q \in Procs : q # p => h[q] = Idle,
         s.at = "rateCommit" =>
           /\ s.seen = profile
           /\ rated[s.order] = Unrated
           /\ \A q \in Procs : ~(h[q].at = "rateCommit" /\ h[q].order = s.order)
  PROVE  StandInv'
<1>h. \A q \in Procs : h'[q] = IF q = p THEN s ELSE h[q]
  BY DEF Goto, StandInv, StandTypeOK
<1>1. StandTypeOK'
  BY <1>h DEF StandInv, StandTypeOK, Goto
<1>2. Given' = Given
  BY DEF Given
<1>3. \A x : Supported(x)' = Supported(x)
  BY <1>2 DEF Supported
<1>4. ASSUME NEW q \in Procs, h'[q].at = "rateCommit"
      PROVE  /\ Supported(h[q].seen)'
             /\ rated'[h'[q].order] = Unrated
             /\ \A r \in Procs : h'[r].at = "rateCommit" /\ h'[r].order = h'[q].order => r = q
  BY <1>h, <1>3, <1>4 DEF StandInv
<1>5. ASSUME regime # "overlapping"
      PROVE  /\ \A q, r \in Procs : q # r => h'[q] = Idle \/ h'[r] = Idle
             /\ \A q \in Procs : h'[q].at = "rateCommit" => h'[q].seen = profile'
  BY <1>5, <1>h DEF StandInv
<1>6. Supported(profile)' /\ (Given = {} => profile.rating = 50)' /\ (Given # {} => profile.count # 0)'
  BY <1>2, <1>3 DEF StandInv
<1>7. (regime # "overlapping" => profile.count = Cardinality(Given))'
  BY <1>2 DEF StandInv
<1> HIDE DEF Given
<1> QED
  BY <1>1, <1>4, <1>5, <1>6, <1>7 DEF StandInv

\* The new profile is between the one that was read and the new stars.
LEMMA CommitProfile ==
  ASSUME StandInv, NEW p \in Procs, RateCommit(p)
  PROVE  /\ h[p].order \in RatedOrders /\ h[p].stars \in 1..5 /\ h[p].seen \in Profiles
         /\ rated' = [rated EXCEPT ![h[p].order] = h[p].stars]
         /\ profile' \in Profiles
         /\ profile'.count = h[p].seen.count + 1
         /\ profile'.rating = NextRating(h[p].seen, h[p].stars)
<1>f. /\ h[p].order \in RatedOrders /\ h[p].stars \in Stars /\ h[p].seen \in Profiles
      /\ rated[h[p].order] = Unrated /\ Supported(h[p].seen)
  BY StandHandlerFields DEF StandInv, StandTypeOK, RateCommit
<1> DEFINE seen == h[p].seen
           stars == h[p].stars
           trust == IF party = "consumer" THEN NextTrust(seen.trust, stars) ELSE seen.trust
<1>1. /\ h[p].order \in RatedOrders /\ stars \in 1..5 /\ seen \in Profiles
      /\ rated[h[p].order] = Unrated /\ Supported(seen)
  BY <1>f, StandConstants
<1>2. /\ seen.rating \in 10..50 /\ seen.trust \in 0..1000
      /\ seen.count \in 0..Cardinality(RatedOrders)
  BY <1>1 DEF Profiles
<1>3. NextRating(seen, stars) \in 10..50
  BY <1>1, RatingScale
<1>4. trust \in 0..1000
  <2>1. seen.trust \in Scale
    BY <1>2 DEF Scale
  <2>2. NextTrust(seen.trust, stars) \in Scale
    BY <1>1, <2>1, TrustScale
  <2> QED
    BY <2>1, <2>2 DEF Scale
<1>5. seen.count + 1 \in 0..Cardinality(RatedOrders)
  <2>1. Cardinality(Given) <= Cardinality(RatedOrders) - 1
    <3>1. Given \subseteq RatedOrders \ {h[p].order}
      BY <1>1 DEF Given
    <3>2. Cardinality(RatedOrders \ {h[p].order}) = Cardinality(RatedOrders) - 1
          /\ IsFiniteSet(RatedOrders \ {h[p].order})
      BY <1>1, StandConstants, FS_RemoveElement
    <3> QED
      BY <3>1, <3>2, FS_Subset
  <2> QED
    BY <2>1, <1>1, <1>2, GivenFacts, StandConstants DEF Supported, StandInv
<1>6. profile' = [rating |-> NextRating(seen, stars), count |-> seen.count + 1, trust |-> trust]
  BY DEF RateCommit
<1>7. rated' = [rated EXCEPT ![h[p].order] = h[p].stars]
  BY DEF RateCommit
<1> HIDE DEF trust
<1> QED
  BY <1>1, <1>3, <1>4, <1>5, <1>6, <1>7 DEF Profiles

LEMMA StandCommit ==
  ASSUME StandInv, NEW p \in Procs, RateCommit(p), regime' = regime
  PROVE  StandInv'
<1> PICK o \in RatedOrders, stars \in 1..5, seen \in Profiles :
      o = h[p].order /\ stars = h[p].stars /\ seen = h[p].seen
  BY CommitProfile
<1>1. /\ rated' = [rated EXCEPT ![o] = stars]
      /\ profile' \in Profiles
      /\ profile'.count = seen.count + 1
      /\ profile'.rating = NextRating(seen, stars)
      /\ Goto(p, Idle) /\ UNCHANGED <<party, rate, samples>> /\ stars \in Stars
  <2>1. Goto(p, Idle) /\ UNCHANGED <<party, rate, samples>>
    BY DEF RateCommit, End
  <2>2. h[p].stars \in Stars
    BY StandHandlerFields DEF RateCommit, StandInv, StandTypeOK
  <2> QED
    BY <2>1, <2>2, CommitProfile
<1>2. /\ rated[o] = Unrated /\ Supported(seen)
      /\ \A q \in Procs : h[q].at = "rateCommit" /\ q # p => h[q].order # o
  BY DEF StandInv, RateCommit
<1>h. \A q \in Procs : h'[q] = IF q = p THEN Idle ELSE h[q]
  BY <1>1 DEF Goto, StandInv, StandTypeOK
<1>r. \A a \in RatedOrders : rated'[a] = IF a = o THEN stars ELSE rated[a]
  BY <1>1 DEF StandInv, StandTypeOK, StandingTypeOK
<1>3. StandTypeOK'
  <2>1. rated' \in [RatedOrders -> Stars \cup {Unrated}]
    BY <1>1 DEF StandInv, StandTypeOK, StandingTypeOK
  <2>2. h' \in [Procs -> {Idle} \cup StandingHandlers]
    BY <1>1 DEF StandInv, StandTypeOK, Goto
  <2> QED
    BY <1>1, <2>1, <2>2 DEF StandInv, StandTypeOK, StandingTypeOK
<1>4. /\ o \notin Given /\ Given' = Given \cup {o}
      /\ Cardinality(Given') = Cardinality(Given) + 1
  <2>1. o \notin Given /\ Given' = Given \cup {o}
    BY <1>2, <1>r DEF Given, Unrated
  <2> QED
    BY <2>1, GivenFacts, FS_AddElement DEF StandInv
<1>5. ASSUME NEW x \in Profiles, Supported(x)
      PROVE  Supported(x)'
  <2>1. x.count <= Cardinality(Given')
    BY <1>4, <1>5, GivenFacts DEF Supported, Profiles, StandInv
  <2>2. \A a \in Given : a \in Given' /\ rated'[a] = rated[a]
    BY <1>4, <1>r DEF Given
  <2> QED
    BY <1>5, <2>1, <2>2 DEF Supported
<1>6. Supported(profile)'
  <2>1. profile'.count <= Cardinality(Given')
    BY <1>1, <1>2, <1>4, GivenFacts DEF Supported, Profiles, StandInv
  <2>2. o \in Given' /\ rated'[o] = stars
    BY <1>4, <1>r
  <2>3. CASE seen.count = 0
    <3>1. profile'.rating = 10 * stars
      BY <1>1, <2>3 DEF NextRating
    <3> QED
      BY <2>1, <2>2, <3>1 DEF Supported
  <2>4. CASE seen.count # 0
    <3>1. PICK a \in Given, b \in Given : 10 * rated[a] <= seen.rating /\ seen.rating <= 10 * rated[b]
      BY <1>2, <2>4 DEF Supported
    <3>2. /\ a \in Given' /\ rated'[a] = rated[a] /\ rated[a] \in 1..5
          /\ b \in Given' /\ rated'[b] = rated[b] /\ rated[b] \in 1..5
      <4>1. \A x \in Given : x \in RatedOrders /\ x # o /\ rated[x] \in Stars
        BY <1>4 DEF Given, StandInv, StandTypeOK, StandingTypeOK
      <4>2. \A x \in Given : x \in Given' /\ rated'[x] = rated[x] /\ rated[x] \in 1..5
        BY <4>1, <1>4, <1>r, StandConstants
      <4> QED
        BY <4>2
    <3>3. profile'.rating = Ewma(seen.rating, 10 * stars, 20) /\ seen.rating \in 10..50
      BY <1>1, <2>4 DEF NextRating, Profiles
    <3>e. /\ profile'.rating \in Int
          /\ seen.rating <= 10 * stars =>
               seen.rating <= profile'.rating /\ profile'.rating <= 10 * stars
          /\ 10 * stars <= seen.rating =>
               10 * stars <= profile'.rating /\ profile'.rating <= seen.rating
      <4>1. seen.rating \in Nat /\ 10 * stars \in Nat
        BY <3>3
      <4> QED
        BY <3>3, <4>1, EwmaBetween
    <3>4. CASE seen.rating <= 10 * stars
      <4>1. seen.rating <= profile'.rating /\ profile'.rating <= 10 * stars
            /\ profile'.rating \in Int
        BY <3>3, <3>e, <3>4
      <4>2. 10 * rated'[a] <= profile'.rating /\ profile'.rating <= 10 * rated'[o]
        BY <3>1, <3>2, <3>3, <2>2, <4>1
      <4> QED
        BY <2>1, <2>2, <3>2, <4>2 DEF Supported
    <3>5. CASE 10 * stars <= seen.rating
      <4>1. 10 * stars <= profile'.rating /\ profile'.rating <= seen.rating
            /\ profile'.rating \in Int
        BY <3>3, <3>e, <3>5
      <4>2. 10 * rated'[o] <= profile'.rating /\ profile'.rating <= 10 * rated'[b]
        BY <3>1, <3>2, <3>3, <2>2, <4>1
      <4> QED
        BY <2>1, <2>2, <3>2, <4>2 DEF Supported
    <3> QED
      BY <3>3, <3>4, <3>5
  <2> QED
    BY <2>3, <2>4
<1>7. Given' # {} /\ profile'.count # 0
  BY <1>1, <1>4 DEF Profiles
<1>8. ASSUME NEW q \in Procs, h'[q].at = "rateCommit"
      PROVE  /\ Supported(h[q].seen)'
             /\ rated'[h'[q].order] = Unrated
             /\ \A r \in Procs : h'[r].at = "rateCommit" /\ h'[r].order = h'[q].order => r = q
  <2>1. q # p /\ h'[q] = h[q]
    BY <1>h, <1>8 DEF Idle
  <2>2. h[q].order \in RatedOrders /\ h[q].seen \in Profiles
    BY <2>1, <1>8, StandHandlerFields DEF StandInv, StandTypeOK
  <2>3. Supported(h[q].seen)'
    <3> PICK x \in Profiles : x = h[q].seen
      BY <2>2
    <3>1. Supported(x)
      BY <2>1, <1>8 DEF StandInv
    <3>2. x = h'[q].seen
      BY <2>1
    <3> QED
      BY <3>1, <3>2, <1>5, <2>1
  <2> QED
    BY <2>1, <2>2, <2>3, <1>2, <1>8, <1>h, <1>r DEF StandInv, Idle
<1>9. ASSUME regime # "overlapping"
      PROVE  /\ profile'.count = Cardinality(Given')
             /\ \A q, r \in Procs : q # r => h'[q] = Idle \/ h'[r] = Idle
             /\ \A q \in Procs : h'[q].at = "rateCommit" => h'[q].seen = profile'
  BY <1>9, <1>1, <1>4, <1>h DEF StandInv, RateCommit, Idle
<1> QED
  BY <1>3, <1>6, <1>7, <1>8, <1>9 DEF StandInv

LEMMA StandInvStep ==
  ASSUME StandInv, NEW p \in Procs, StandingStep(p), regime' = regime
  PROVE  StandInv'
<1>f. /\ h[p] \in {Idle} \cup StandingHandlers
      /\ StandingTypeOK
  BY DEF StandInv, StandTypeOK
<1>i. Idle.at # "rateCommit"
  BY DEF Idle
<1>a. h[p] # Idle /\ regime # "overlapping" => \A q \in Procs : q # p => h[q] = Idle
  BY DEF StandInv
<1>1. ASSUME NEW o \in RatedOrders, NEW stars \in Stars, RateStart(p, o, stars)
      PROVE  StandInv'
  <2>1. StandingTypeOK'
    BY <1>1, <1>f DEF RateStart, standingVars, StandingTypeOK
  <2>2. [at |-> "rateInsert", order |-> o, stars |-> stars] \in StandingHandlers
    BY StandHandlerForms
  <2> QED
    BY <1>1, <2>1, <2>2, StandMoves DEF RateStart, Start, MayStart, Quiet, standingVars
<1>2. CASE RateInsert(p)
  <2> DEFINE s == [at |-> "rateCommit", order |-> h[p].order, stars |-> h[p].stars,
                   seen |-> profile]
  <2>1. StandingTypeOK' /\ UNCHANGED <<party, rated, profile>> /\ h[p] # Idle
    BY <1>2, <1>f DEF RateInsert, standingVars, StandingTypeOK, Idle
  <2>2. s \in StandingHandlers
    <3>1. h[p].order \in RatedOrders /\ h[p].stars \in Stars /\ profile \in Profiles
      BY <1>2, <1>f, StandHandlerFields DEF RateInsert, StandingTypeOK
    <3> QED
      BY <3>1 DEF StandingHandlers
  <2>3. CASE rated[h[p].order] # Unrated
    BY <1>2, <2>1, <2>3, <1>i, StandMoves DEF RateInsert, End
  <2>4. CASE rated[h[p].order] = Unrated
    <3>1. Goto(p, s) /\ \A q \in Procs : ~(h[q].at = "rateCommit" /\ h[q].order = h[p].order)
      BY <1>2, <2>4 DEF RateInsert, Claimed
    <3> QED
      BY <1>a, <2>1, <2>2, <2>4, <3>1, StandMoves
  <2> QED
    BY <2>3, <2>4
<1>3. CASE RateCommit(p)
  BY <1>3, StandCommit
<1>4. ASSUME NEW kind \in Rates, NEW good \in BOOLEAN, RateRead(p, kind, good)
      PROVE  StandInv'
  <2>1. StandingTypeOK'
    BY <1>4, <1>f, StandConstants DEF RateRead, StandingTypeOK
  <2>2. [at |-> "rateMoves", kind |-> kind, value |-> Sampled(kind, good)] \in StandingHandlers
    <3>1. Sampled(kind, good) \in 0..1000
      BY SampledType DEF StandInv
    <3> QED
      BY <3>1 DEF StandingHandlers
  <2> QED
    BY <1>4, <2>1, <2>2, StandMoves DEF RateRead, Start, MayStart, Quiet
<1>5. CASE RateMoves(p)
  <2>1. StandingTypeOK'
    BY <1>5, <1>f, StandHandlerFields DEF RateMoves, StandingTypeOK
  <2> QED
    BY <1>5, <2>1, <1>i, StandMoves DEF RateMoves, End
<1>6. CASE StandingStop(p)
  <2>1. StandingTypeOK'
    BY <1>6, <1>f DEF StandingStop, standingVars, StandingTypeOK
  <2> QED
    BY <1>6, <2>1, <1>i, StandMoves DEF StandingStop, Stop, End, standingVars
<1> QED
  BY <1>1, <1>2, <1>3, <1>4, <1>5, <1>6 DEF StandingStep

LEMMA StandInvNext == StandInv /\ [StandingNext]_standVars => StandInv'
<1>1. ASSUME StandInv, UNCHANGED standVars
      PROVE  StandInv'
  BY <1>1 DEF standVars, standingVars, StandInv, StandTypeOK, StandingTypeOK, Supported, Given
<1> QED
  BY <1>1, StandInvStep DEF StandingNext

\* Type correctness of what a party is known for: no average leaves its scale.
THEOREM StandingTypeCorrect == StandSpec => []StandTypeOK
<1>1. StandInv => StandTypeOK
  BY DEF StandInv
<1> QED
  BY <1>1, StandInvInit, StandInvNext, PTL DEF StandSpec

LEMMA StandKept == StandInv => StandingAgrees
<1> SUFFICES ASSUME StandInv
             PROVE  StandingAgrees
  OBVIOUS
<1>1. profile.count \in Nat /\ Cardinality(Given) \in Nat
      /\ (Given = {} => Cardinality(Given) = 0)
  BY GivenFacts, StandConstants DEF StandInv, StandTypeOK, StandingTypeOK, Profiles
<1> QED
  BY <1>1 DEF StandInv, Supported, StandingAgrees

\* A profile is what the ratings make it: however requests overlap or fail, no rating
\* counts twice, and the average never leaves what was given.
THEOREM ProfilesAgree == StandSpec => []StandingAgrees
<1> QED
  BY StandKept, StandInvInit, StandInvNext, PTL DEF StandSpec

(***************************************************************************)
(* Desk: only a handler between its write and its push keeps the user from    *)
(* knowing where they stand.                                                *)
(***************************************************************************)
staffVars == <<regime, h, deskVars>>

StaffInit ==
  /\ regime \in Regimes
  /\ h = [p \in Procs |-> Idle]
  /\ DeskInit

StaffSpec == StaffInit /\ [][DeskNext]_staffVars

StaffTypeOK ==
  /\ DeskTypeOK
  /\ h \in [Procs -> {Idle} \cup DeskHandlers]

KycSteps == {"kycSave", "kycSubmit", "kycAudit", "kycDev"}
TicketSteps == {"ticketInsert", "ticketReply", "ticketPush", "ticketInbox", "ticketPatch",
                "ticketAudit"}
TicketNotices == Announced \cup {"reply"}

LEMMA DeskHandlerFields ==
  ASSUME NEW s \in {Idle} \cup DeskHandlers
  PROVE  /\ s.at = "kycSave" => s.exists \in BOOLEAN /\ s.complete \in BOOLEAN /\ s.keep \in BOOLEAN
         /\ s.at = "kycAudit" => s.decision \in Decisions
         /\ s.at = "kycDev" => s.exists \in BOOLEAN
         /\ s.at \in {"ticketInsert", "ticketReply"} => s.from \in {Staff, User}
         /\ s.at \in {"ticketPush", "ticketInbox"} => s.what \in TicketNotices
         /\ s.at \in {"ticketPatch", "ticketAudit"} =>
              s.status \in TicketStatuses /\ s.changes \in BOOLEAN
         /\ s.at \in {"idle"} \cup KycSteps \cup TicketSteps
         /\ s.at = "idle" <=> s = Idle
  BY DEF DeskHandlers, Idle, KycSteps, TicketSteps, TicketNotices

LEMMA DeskHandlerForms ==
  /\ \A e, c, k \in BOOLEAN :
       [at |-> "kycSave", exists |-> e, complete |-> c, keep |-> k] \in DeskHandlers
  /\ [at |-> "kycSubmit"] \in DeskHandlers
  /\ \A d \in Decisions : [at |-> "kycAudit", decision |-> d] \in DeskHandlers
  /\ \A e \in BOOLEAN : [at |-> "kycDev", exists |-> e] \in DeskHandlers
  /\ \A f \in {Staff, User} : /\ [at |-> "ticketInsert", from |-> f] \in DeskHandlers
                              /\ [at |-> "ticketReply", from |-> f] \in DeskHandlers
  /\ \A w \in TicketNotices : /\ [at |-> "ticketPush", what |-> w] \in DeskHandlers
                        /\ [at |-> "ticketInbox", what |-> w] \in DeskHandlers
  /\ \A t \in TicketStatuses, c \in BOOLEAN :
       /\ [at |-> "ticketPatch", status |-> t, changes |-> c] \in DeskHandlers
       /\ [at |-> "ticketAudit", status |-> t, changes |-> c] \in DeskHandlers
  BY DEF DeskHandlers, TicketNotices

\* The user was told of what stands, or chose not to be.
Settled ==
  /\ kyc \in Decisions => heard = kyc
  /\ ticket \in Announced => heard = ticket \/ missed
  /\ spoke = User /\ ticket # "open" => ticket = "pending_ops"
  /\ spoke = Staff => ticket = "pending_user" /\ (heard = "reply" \/ missed)

\* The steps at which a handler has written what the user is told of next.
Untold == {"kycAudit", "ticketReply", "ticketPush", "ticketInbox", "ticketAudit"}

\* What such a handler has written.
Wrote(s) ==
  /\ s.at = "kycAudit" => kyc = s.decision
  /\ s.at = "ticketReply" => spoke = s.from
  /\ s.at \in {"ticketPush", "ticketInbox"} =>
       IF s.what = "reply" THEN spoke = Staff /\ ticket = "pending_user"
       ELSE spoke = "none" /\ ticket = s.what
  /\ s.at = "ticketAudit" =>
       /\ spoke = "none" /\ ticket = s.status
       /\ s.status \in Announced /\ ~s.changes => heard = s.status \/ missed

Placed(s) ==
  /\ s.at \in KycSteps => side # "ticket"
  /\ s.at \in TicketSteps => side = "ticket"
  /\ s.at \in {"kycAudit", "kycSubmit"} => kyc # "none"

\* KYC and tickets are apart, and a decision was told of a row that exists.
Apart ==
  /\ IF side = "ticket" THEN kyc = "none" ELSE ticket = "none" /\ spoke = "none"
  /\ heard \in Decisions => kyc # "none"

DeskInv ==
  /\ StaffTypeOK
  /\ Apart
  /\ \A p \in Procs : Placed(h[p])
  /\ regime = "undisturbed" =>
       /\ \A p, q \in Procs : p # q => h[p] = Idle \/ h[q] = Idle
       /\ \A p \in Procs : h[p].at \in Untold => Wrote(h[p])
       /\ \A p \in Procs : h[p].at = "ticketPatch" => h[p].changes = (h[p].status # ticket)
       /\ (\A p \in Procs : h[p].at \notin Untold) => Settled

LEMMA DeskInvInit == StaffInit => DeskInv
<1> SUFFICES ASSUME StaffInit
             PROVE  DeskInv
  OBVIOUS
<1>1. StaffTypeOK
  BY DEF StaffInit, DeskInit, StaffTypeOK, DeskTypeOK
<1>2. Apart /\ Settled
  BY DEF StaffInit, DeskInit, Apart, Settled, Decisions, Announced, Staff, User
<1>3. \A p \in Procs : h[p] = Idle /\ Placed(h[p])
  BY DEF StaffInit, Placed, Idle, KycSteps, TicketSteps
<1> QED
  BY <1>1, <1>2, <1>3 DEF DeskInv, Idle, Untold

\* What a handler goes on with decides whether the invariant is kept.
LEMMA DeskMoves ==
  ASSUME DeskInv, NEW p \in Procs, NEW s \in {Idle} \cup DeskHandlers, Goto(p, s),
         regime' = regime, DeskTypeOK', side' = side, kyc # "none" => kyc' # "none",
         Apart', Placed(s)',
         regime = "undisturbed" =>
           /\ \A q \in Procs : q # p => h[q] = Idle
           /\ s.at \in Untold => Wrote(s)'
           /\ s.at \notin Untold => Settled'
           /\ s.at = "ticketPatch" => s.changes = (s.status # ticket')
  PROVE  DeskInv'
<1>h. \A q \in Procs : h'[q] = IF q = p THEN s ELSE h[q]
  BY DEF Goto, DeskInv, StaffTypeOK
<1>1. StaffTypeOK'
  BY DEF Goto, DeskInv, StaffTypeOK
<1>2. ASSUME NEW q \in Procs
      PROVE  Placed(h[q])'
  <2>1. CASE q = p
    BY <1>h, <2>1
  <2>2. CASE q # p
    <3>1. h'[q] = h[q] /\ Placed(h[q])
      BY <1>h, <2>2 DEF DeskInv
    <3> QED
      BY <3>1 DEF Placed
  <2> QED
    BY <2>1, <2>2
<1>3. ASSUME regime = "undisturbed"
      PROVE  /\ \A q, r \in Procs : q # r => h'[q] = Idle \/ h'[r] = Idle
             /\ \A q \in Procs : h'[q].at = "ticketPatch" => h'[q].changes = (h'[q].status # ticket')
             /\ (\A q \in Procs : h'[q].at \notin Untold) => Settled'
  BY <1>3, <1>h DEF Idle
<1>4. ASSUME regime = "undisturbed", NEW q \in Procs, h'[q].at \in Untold
      PROVE  Wrote(h[q])'
  <2>1. q = p /\ h'[q] = s
    BY <1>4, <1>h DEF Idle, Untold
  <2> QED
    BY <1>4, <2>1
<1> QED
  BY <1>1, <1>2, <1>3, <1>4 DEF DeskInv

LEMMA DeskKyc ==
  ASSUME DeskInv, NEW p \in Procs, regime' = regime,
         \/ \E full, keep \in BOOLEAN : KycSave(p, full, keep)
         \/ KycSaved(p)
         \/ \E full \in BOOLEAN : KycProfilePut(p, full)
         \/ KycSubmit(p) \/ KycSubmitted(p)
  PROVE  DeskInv'
<1>t. /\ DeskTypeOK /\ h[p] \in {Idle} \cup DeskHandlers
      /\ h \in [Procs -> {Idle} \cup DeskHandlers]
      /\ Apart /\ Placed(h[p])
  BY DEF DeskInv, StaffTypeOK
<1>a. /\ h[p] = Idle /\ MayStart /\ regime = "undisturbed" => \A q \in Procs : h[q] = Idle
      /\ h[p] # Idle /\ regime = "undisturbed" => \A q \in Procs : q # p => h[q] = Idle
      /\ regime = "undisturbed" /\ (\A q \in Procs : q # p => h[q] = Idle)
           /\ h[p].at \notin Untold => Settled
  BY DEF DeskInv, MayStart, Quiet, Idle, Untold
<1>i. Idle.at \notin Untold /\ Idle.at # "ticketPatch" /\ Placed(Idle)'
  BY DEF Idle, Untold, Placed, KycSteps, TicketSteps
<1>1. ASSUME NEW full \in BOOLEAN, NEW keep \in BOOLEAN, KycSave(p, full, keep)
      PROVE  DeskInv'
  <2>1. PICK s \in DeskHandlers :
          s = [at |-> "kycSave", exists |-> kyc # "none", complete |-> full, keep |-> keep]
    BY DeskHandlerForms
  <2>2. UNCHANGED deskVars /\ Goto(p, s) /\ h[p] = Idle /\ MayStart /\ side # "ticket"
    BY <1>1, <2>1 DEF KycSave, Start
  <2>3. Placed(s)' /\ s.at \notin Untold /\ s.at # "ticketPatch" /\ h[p].at \notin Untold
    BY <2>1, <2>2, <1>i DEF Placed, KycSteps, TicketSteps, Untold, deskVars
  <2> QED
    BY <1>t, <1>a, <2>1, <2>2, <2>3, DeskMoves DEF deskVars, DeskTypeOK, Apart, Settled
<1>2. CASE KycSaved(p)
  <2>1. /\ h[p] # Idle /\ h[p].at \notin Untold /\ side # "ticket" /\ Goto(p, Idle)
        /\ h[p].exists \in BOOLEAN /\ h[p].complete \in BOOLEAN
    BY <1>2, <1>t, DeskHandlerFields DEF KycSaved, End, Idle, Untold, Placed, KycSteps
  <2>2. /\ UNCHANGED <<side, ticket, spoke, heard, pushes, missed>>
        /\ kyc' = kyc \/ (kyc = "none" /\ kyc' = "draft")
        /\ complete' \in BOOLEAN
    BY <1>2, <1>t, <2>1 DEF KycSaved, KycOnly, DeskTypeOK
  <2>3. DeskTypeOK' /\ Apart' /\ (Settled => Settled')
    BY <1>t, <2>1, <2>2 DEF DeskTypeOK, KycStatuses, Apart, Settled, Decisions, Announced
  <2> QED
    BY <1>t, <1>a, <1>i, <2>1, <2>2, <2>3, DeskMoves
<1>3. ASSUME NEW full \in BOOLEAN, KycProfilePut(p, full)
      PROVE  DeskInv'
  <2>1. /\ h[p] = Idle /\ MayStart /\ side # "ticket" /\ Goto(p, Idle)
    BY <1>3, <1>t DEF KycProfilePut, Immediate, Goto
  <2>2. /\ UNCHANGED <<side, ticket, spoke, heard, pushes, missed>>
        /\ kyc' = kyc \/ (kyc = "none" /\ kyc' = "draft")
        /\ complete' \in BOOLEAN
    BY <1>3, <1>t DEF KycProfilePut, KycOnly, DeskTypeOK
  <2>3. DeskTypeOK' /\ Apart' /\ (Settled => Settled')
    BY <1>t, <2>1, <2>2 DEF DeskTypeOK, KycStatuses, Apart, Settled, Decisions, Announced
  <2> QED
    BY <1>t, <1>a, <1>i, <2>1, <2>2, <2>3, DeskMoves
<1>4. CASE KycSubmit(p)
  <2> DEFINE s == [at |-> "kycSubmit"]
  <2>1. s \in DeskHandlers
    BY DeskHandlerForms
  <2>2. UNCHANGED deskVars /\ Goto(p, s) /\ h[p] = Idle /\ MayStart /\ side # "ticket"
        /\ kyc # "none"
    BY <1>4, <1>t DEF KycSubmit, Start, Apart
  <2>3. Placed(s)' /\ s.at \notin Untold /\ s.at # "ticketPatch" /\ h[p].at \notin Untold
    BY <2>2, <1>i DEF Placed, KycSteps, TicketSteps, Untold, deskVars
  <2> HIDE DEF s
  <2> QED
    BY <1>t, <1>a, <2>1, <2>2, <2>3, DeskMoves DEF deskVars, DeskTypeOK, Apart, Settled
<1>5. CASE KycSubmitted(p)
  <2>1. h[p] # Idle /\ h[p].at \notin Untold /\ side # "ticket" /\ Goto(p, Idle) /\ kyc # "none"
    BY <1>5, <1>t DEF KycSubmitted, End, Idle, Untold, Placed, KycSteps
  <2>2. UNCHANGED <<side, ticket, spoke, heard, complete, pushes, missed>> /\ kyc' = "submitted"
    BY <1>5 DEF KycSubmitted, KycOnly
  <2>3. DeskTypeOK' /\ Apart' /\ (Settled => Settled')
    BY <1>t, <2>1, <2>2 DEF DeskTypeOK, KycStatuses, Apart, Settled, Decisions, Announced
  <2> QED
    BY <1>t, <1>a, <1>i, <2>1, <2>2, <2>3, DeskMoves
<1> QED
  BY <1>1, <1>2, <1>3, <1>4, <1>5

LEMMA DeskDecide ==
  ASSUME DeskInv, NEW p \in Procs, regime' = regime,
         \/ \E decision \in Decisions : Decide(p, decision)
         \/ DecideTell(p) \/ DevVerify(p) \/ DevVerified(p) \/ DeskStop(p)
  PROVE  DeskInv'
<1>t. /\ DeskTypeOK /\ h[p] \in {Idle} \cup DeskHandlers
      /\ h \in [Procs -> {Idle} \cup DeskHandlers]
      /\ Apart /\ Placed(h[p])
  BY DEF DeskInv, StaffTypeOK
<1>a. /\ h[p] = Idle /\ MayStart /\ regime = "undisturbed" => \A q \in Procs : h[q] = Idle
      /\ h[p] # Idle /\ regime = "undisturbed" => \A q \in Procs : q # p => h[q] = Idle
      /\ regime = "undisturbed" /\ (\A q \in Procs : q # p => h[q] = Idle)
           /\ h[p].at \notin Untold => Settled
      /\ regime = "undisturbed" /\ h[p].at \in Untold => Wrote(h[p])
  BY DEF DeskInv, MayStart, Quiet, Idle, Untold
<1>i. Idle.at \notin Untold /\ Idle.at # "ticketPatch" /\ Placed(Idle)'
  BY DEF Idle, Untold, Placed, KycSteps, TicketSteps
<1>1. ASSUME NEW decision \in Decisions, Decide(p, decision)
      PROVE  DeskInv'
  <2> DEFINE s == [at |-> "kycAudit", decision |-> decision]
  <2>1. s \in DeskHandlers
    BY DeskHandlerForms
  <2>2. /\ Goto(p, s) /\ h[p] = Idle /\ MayStart /\ kyc # "none" /\ kyc' = decision
        /\ UNCHANGED <<side, ticket, spoke, complete, heard, pushes, missed>> /\ side # "ticket"
    BY <1>1, <1>t DEF Decide, KycOnly, Apart
  <2>3. /\ s.at \in Untold /\ s.at # "ticketPatch" /\ Wrote(s)' /\ Placed(s)'
        /\ DeskTypeOK' /\ Apart' /\ kyc' # "none"
    BY <1>t, <2>2 DEF Placed, KycSteps, TicketSteps, Untold, Wrote, DeskTypeOK, KycStatuses,
                      Apart, Decisions
  <2> HIDE DEF s
  <2> QED
    BY <1>a, <2>1, <2>2, <2>3, DeskMoves
<1>2. CASE DecideTell(p)
  <2>1. /\ h[p] # Idle /\ side # "ticket" /\ Goto(p, Idle) /\ kyc # "none"
        /\ h[p].decision \in Decisions /\ heard' = h[p].decision
        /\ UNCHANGED <<side, ticket, spoke, kyc, complete, pushes, missed>>
        /\ regime = "undisturbed" => kyc = h[p].decision
    BY <1>2, <1>t, <1>a, DeskHandlerFields
    DEF DecideTell, ToldOf, End, Idle, Untold, Wrote, Placed, KycSteps, KycOnly
  <2>2. DeskTypeOK' /\ Apart' /\ (regime = "undisturbed" => Settled')
    BY <1>t, <2>1 DEF DeskTypeOK, Apart, Settled, Decisions, Announced, Staff, User
  <2> QED
    BY <1>a, <1>i, <2>1, <2>2, DeskMoves
<1>3. CASE DevVerify(p)
  <2>1. PICK s \in DeskHandlers : s = [at |-> "kycDev", exists |-> kyc # "none"]
    BY DeskHandlerForms
  <2>2. UNCHANGED deskVars /\ Goto(p, s) /\ h[p] = Idle /\ MayStart /\ side # "ticket"
    BY <1>3, <2>1 DEF DevVerify, Start
  <2>3. Placed(s)' /\ s.at \notin Untold /\ s.at # "ticketPatch" /\ h[p].at \notin Untold
    BY <2>1, <2>2, <1>i DEF Placed, KycSteps, TicketSteps, Untold, deskVars
  <2> QED
    BY <1>t, <1>a, <2>1, <2>2, <2>3, DeskMoves DEF deskVars, DeskTypeOK, Apart, Settled
<1>4. CASE DevVerified(p)
  <2>1. /\ h[p] # Idle /\ h[p].at \notin Untold /\ side # "ticket" /\ Goto(p, Idle)
        /\ h[p].exists \in BOOLEAN /\ UNCHANGED <<side, ticket, spoke, pushes, missed>>
    BY <1>4, <1>t, DeskHandlerFields DEF DevVerified, End, Idle, Untold, Placed, KycSteps, KycOnly
  <2>2. /\ \/ kyc' = "verified" /\ heard' = "verified"
           \/ UNCHANGED <<kyc, heard>>
        /\ complete' \in BOOLEAN
    BY <1>4, <1>t, <2>1 DEF DevVerified, DeskTypeOK
  <2>3. DeskTypeOK' /\ Apart' /\ (Settled => Settled') /\ (kyc # "none" => kyc' # "none")
    BY <1>t, <2>1, <2>2
    DEF DeskTypeOK, KycStatuses, Apart, Settled, Decisions, Announced, Staff, User
  <2> QED
    BY <1>t, <1>a, <1>i, <2>1, <2>2, <2>3, DeskMoves
<1>5. CASE DeskStop(p)
  BY <1>5, <1>t, <1>i, DeskMoves DEF DeskStop, Stop, MayFail, End, deskVars, DeskTypeOK, Apart
<1> QED
  BY <1>1, <1>2, <1>3, <1>4, <1>5

LEMMA DeskTicket ==
  ASSUME DeskInv, NEW p \in Procs, regime' = regime,
         \/ TicketCreate(p)
         \/ \E from \in {Staff, User} : TicketMessage(p, from)
         \/ TicketInsert(p) \/ TicketReply(p)
         \/ \E status \in TicketStatuses : TicketPatch(p, status)
         \/ TicketPatched(p) \/ TicketAudit(p)
         \/ TicketPush(p) \/ TicketInbox(p) \/ SetPushes(p)
  PROVE  DeskInv'
<1>t. /\ DeskTypeOK /\ h[p] \in {Idle} \cup DeskHandlers
      /\ h \in [Procs -> {Idle} \cup DeskHandlers]
      /\ Apart /\ Placed(h[p])
  BY DEF DeskInv, StaffTypeOK
<1>a. /\ h[p] = Idle /\ MayStart /\ regime = "undisturbed" => \A q \in Procs : h[q] = Idle
      /\ h[p] # Idle /\ regime = "undisturbed" => \A q \in Procs : q # p => h[q] = Idle
      /\ regime = "undisturbed" /\ (\A q \in Procs : q # p => h[q] = Idle)
           /\ h[p].at \notin Untold => Settled
      /\ regime = "undisturbed" /\ h[p].at \in Untold => Wrote(h[p])
      /\ regime = "undisturbed" /\ h[p].at = "ticketPatch" => h[p].changes = (h[p].status # ticket)
  BY DEF DeskInv, MayStart, Quiet, Idle, Untold
<1>i. Idle.at \notin Untold /\ Idle.at # "ticketPatch" /\ Placed(Idle)'
  BY DEF Idle, Untold, Placed, KycSteps, TicketSteps
<1>1. CASE TicketCreate(p)
  <2>1. /\ h[p] = Idle /\ MayStart /\ side = "ticket" /\ Goto(p, Idle)
        /\ ticket' = "open" /\ spoke' = User /\ UNCHANGED <<side, kyc, complete, heard, pushes, missed>>
    BY <1>1, <1>t DEF TicketCreate, Immediate, Goto, TicketOnly
  <2>2. DeskTypeOK' /\ Apart' /\ Settled'
    BY <1>t, <2>1
    DEF DeskTypeOK, TicketStatuses, Apart, Settled, Decisions, Announced, Staff, User
  <2> QED
    BY <1>a, <1>i, <2>1, <2>2, DeskMoves
<1>2. ASSUME NEW from \in {Staff, User}, TicketMessage(p, from)
      PROVE  DeskInv'
  <2> DEFINE s == [at |-> "ticketInsert", from |-> from]
  <2>1. s \in DeskHandlers
    BY DeskHandlerForms
  <2>2. UNCHANGED deskVars /\ Goto(p, s) /\ h[p] = Idle /\ MayStart /\ side = "ticket"
    BY <1>2, <1>t DEF TicketMessage, Start, Apart
  <2>3. Placed(s)' /\ s.at \notin Untold /\ s.at # "ticketPatch" /\ h[p].at \notin Untold
    BY <2>2, <1>i DEF Placed, KycSteps, TicketSteps, Untold, deskVars
  <2> HIDE DEF s
  <2> QED
    BY <1>t, <1>a, <2>1, <2>2, <2>3, DeskMoves DEF deskVars, DeskTypeOK, Apart, Settled
<1>3. CASE TicketInsert(p)
  <2>1. PICK from \in {Staff, User} : h[p] = [at |-> "ticketInsert", from |-> from]
    BY <1>3, <1>t DEF TicketInsert, DeskHandlers, Idle
  <2> DEFINE s == [at |-> "ticketReply", from |-> from]
  <2>2. s = [h[p] EXCEPT !.at = "ticketReply"]
    BY <2>1
  <2>3. /\ s \in DeskHandlers /\ Goto(p, s) /\ h[p] # Idle /\ side = "ticket"
        /\ spoke' = from /\ UNCHANGED <<side, kyc, complete, ticket, heard, pushes, missed>>
    BY <1>3, <1>t, <2>1, <2>2, DeskHandlerForms
    DEF TicketInsert, TicketOnly, Placed, TicketSteps, Idle
  <2>4. /\ s.at \in Untold /\ s.at # "ticketPatch" /\ Wrote(s)' /\ Placed(s)'
        /\ DeskTypeOK' /\ Apart'
    BY <1>t, <2>3 DEF Placed, KycSteps, TicketSteps, Untold, Wrote, DeskTypeOK, Apart
  <2> HIDE DEF s
  <2> QED
    BY <1>a, <2>3, <2>4, DeskMoves
<1>4. CASE TicketReply(p)
  <2>1. /\ h[p] # Idle /\ side = "ticket" /\ h[p].from \in {Staff, User}
        /\ ticket' = WaitsFor(h[p].from) /\ UNCHANGED <<side, kyc, complete, heard, spoke, pushes, missed>>
        /\ regime = "undisturbed" => spoke = h[p].from
    BY <1>4, <1>t, <1>a, DeskHandlerFields
    DEF TicketReply, TicketOnly, Placed, TicketSteps, Idle, Untold, Wrote
  <2>2. DeskTypeOK' /\ Apart'
    BY <1>t, <2>1 DEF DeskTypeOK, TicketStatuses, WaitsFor, Apart
  <2>3. CASE h[p].from = Staff
    <3> DEFINE s == [at |-> "ticketPush", what |-> "reply"]
    <3>1. s \in DeskHandlers /\ Goto(p, s) /\ ticket' = "pending_user"
      BY <1>4, <2>1, <2>3, DeskHandlerForms DEF TicketReply, WaitsFor, TicketNotices
    <3>2. /\ s.at \in Untold /\ s.at # "ticketPatch" /\ Placed(s)'
          /\ regime = "undisturbed" => Wrote(s)'
      BY <2>1, <2>3, <3>1 DEF Placed, KycSteps, TicketSteps, Untold, Wrote
    <3> HIDE DEF s
    <3> QED
      BY <1>a, <2>1, <2>2, <3>1, <3>2, DeskMoves
  <2>4. CASE h[p].from = User
    <3>1. Goto(p, Idle) /\ ticket' = "pending_ops"
      BY <1>4, <2>4 DEF TicketReply, WaitsFor, End, Staff, User
    <3>2. regime = "undisturbed" => Settled'
      BY <1>t, <2>1, <2>4, <3>1 DEF Settled, Decisions, Announced, Staff, User, Apart
    <3> QED
      BY <1>a, <1>i, <2>1, <2>2, <3>1, <3>2, DeskMoves
  <2> QED
    BY <2>1, <2>3, <2>4
<1>5. CASE TicketPush(p)
  <2>1. PICK w \in TicketNotices : h[p] = [at |-> "ticketPush", what |-> w]
    BY <1>5, <1>t DEF TicketPush, DeskHandlers, Idle, TicketNotices
  <2>2. /\ h[p] # Idle /\ side = "ticket"
        /\ UNCHANGED <<side, kyc, complete, ticket, heard, pushes, spoke>>
        /\ regime = "undisturbed" => Wrote(h[p])
    BY <1>5, <1>t, <1>a, <2>1 DEF TicketPush, TicketOnly, Placed, TicketSteps, Idle, Untold
  <2>3. CASE Goto(p, [h[p] EXCEPT !.at = "ticketInbox"]) /\ missed' = missed
    <3> DEFINE s == [at |-> "ticketInbox", what |-> w]
    <3>1. s = [h[p] EXCEPT !.at = "ticketInbox"]
      BY <2>1
    <3>2. s \in DeskHandlers /\ Goto(p, s)
      BY <2>1, <2>3, <3>1, DeskHandlerForms
    <3>3. /\ s.at \in Untold /\ s.at # "ticketPatch" /\ Placed(s)' /\ DeskTypeOK' /\ Apart'
          /\ regime = "undisturbed" => Wrote(s)'
      BY <1>t, <2>1, <2>2, <2>3
      DEF Placed, KycSteps, TicketSteps, Untold, Wrote, DeskTypeOK, Apart
    <3> HIDE DEF s
    <3> QED
      BY <1>a, <2>2, <3>2, <3>3, DeskMoves
  <2>4. CASE missed' = TRUE /\ End(p)
    <3>1. DeskTypeOK' /\ Apart' /\ Goto(p, Idle)
      BY <1>t, <2>2, <2>4 DEF DeskTypeOK, Apart, End
    <3>2. regime = "undisturbed" => Settled'
      BY <1>t, <2>1, <2>2, <2>4
      DEF Wrote, Settled, Apart, TicketNotices, Decisions, Announced, Staff, User
    <3> QED
      BY <1>a, <1>i, <2>2, <3>1, <3>2, DeskMoves
  <2> QED
    BY <1>5, <2>3, <2>4 DEF TicketPush
<1>6. ASSUME NEW status \in TicketStatuses, TicketPatch(p, status)
      PROVE  DeskInv'
  <2>1. PICK s \in DeskHandlers :
          s = [at |-> "ticketPatch", status |-> status, changes |-> status # ticket]
    BY DeskHandlerForms
  <2>2. UNCHANGED deskVars /\ Goto(p, s) /\ h[p] = Idle /\ MayStart /\ side = "ticket"
    BY <1>6, <1>t, <2>1 DEF TicketPatch, Start, Apart
  <2>3. /\ Placed(s)' /\ s.at \notin Untold /\ h[p].at \notin Untold
        /\ s.changes = (s.status # ticket')
    BY <2>1, <2>2, <1>i DEF Placed, KycSteps, TicketSteps, Untold, deskVars
  <2> QED
    BY <1>t, <1>a, <2>1, <2>2, <2>3, DeskMoves DEF deskVars, DeskTypeOK, Apart, Settled
<1>7. CASE TicketPatched(p)
  <2>1. PICK t \in TicketStatuses, c \in BOOLEAN :
          h[p] = [at |-> "ticketPatch", status |-> t, changes |-> c]
    BY <1>7, <1>t DEF TicketPatched, DeskHandlers, Idle
  <2> DEFINE s == [at |-> "ticketAudit", status |-> t, changes |-> c]
  <2>2. s = [h[p] EXCEPT !.at = "ticketAudit"]
    BY <2>1
  <2>3. /\ s \in DeskHandlers /\ Goto(p, s) /\ h[p] # Idle /\ side = "ticket"
        /\ h[p].at \notin Untold
        /\ ticket' = t /\ spoke' = "none" /\ UNCHANGED <<side, kyc, complete, heard, pushes, missed>>
        /\ regime = "undisturbed" => c = (t # ticket)
    BY <1>7, <1>t, <1>a, <2>1, <2>2, DeskHandlerForms
    DEF TicketPatched, TicketOnly, Placed, TicketSteps, Idle, Untold
  <2>4. regime = "undisturbed" => Settled
    BY <1>a, <2>3
  <2>5. /\ s.at \in Untold /\ s.at # "ticketPatch" /\ Placed(s)' /\ DeskTypeOK' /\ Apart'
        /\ regime = "undisturbed" => Wrote(s)'
    BY <1>t, <2>3, <2>4
    DEF Placed, KycSteps, TicketSteps, Untold, Wrote, DeskTypeOK, Apart, Settled
  <2> HIDE DEF s
  <2> QED
    BY <1>a, <2>3, <2>5, DeskMoves
<1>8. CASE TicketAudit(p)
  <2>1. /\ h[p] # Idle /\ side = "ticket" /\ h[p].status \in TicketStatuses
        /\ h[p].changes \in BOOLEAN /\ UNCHANGED deskVars
        /\ regime = "undisturbed" =>
             /\ spoke = "none" /\ ticket = h[p].status
             /\ h[p].status \in Announced /\ ~h[p].changes => heard = h[p].status \/ missed
    BY <1>8, <1>t, <1>a, DeskHandlerFields
    DEF TicketAudit, Placed, TicketSteps, Idle, Untold, Wrote
  <2>2. DeskTypeOK' /\ Apart'
    BY <1>t, <2>1 DEF deskVars, DeskTypeOK, Apart
  <2>3. CASE h[p].status \in Announced /\ h[p].changes
    <3>1. PICK w \in Announced : h[p].status = w
      BY <2>3
    <3> DEFINE s == [at |-> "ticketPush", what |-> w]
    <3>2. w \in TicketNotices /\ s \in DeskHandlers
      BY DeskHandlerForms DEF TicketNotices
    <3>3. Goto(p, s)
      BY <1>8, <2>3, <3>1 DEF TicketAudit
    <3>4. /\ s.at \in Untold /\ s.at # "ticketPatch" /\ Placed(s)'
          /\ regime = "undisturbed" => Wrote(s)'
      BY <2>1, <3>1 DEF deskVars, Placed, KycSteps, TicketSteps, Untold, Wrote, Announced
    <3> HIDE DEF s
    <3> QED
      BY <1>a, <2>1, <2>2, <3>2, <3>3, <3>4, DeskMoves DEF deskVars
  <2>4. CASE ~(h[p].status \in Announced /\ h[p].changes)
    <3>1. Goto(p, Idle)
      BY <1>8, <2>4 DEF TicketAudit, End
    <3>2. regime = "undisturbed" => Settled'
      BY <1>t, <2>1, <2>4 DEF deskVars, Apart, Settled, Decisions, Announced, Staff, User
    <3> QED
      BY <1>a, <1>i, <2>1, <2>2, <3>1, <3>2, DeskMoves DEF deskVars
  <2> QED
    BY <2>3, <2>4
<1>9. CASE TicketInbox(p)
  <2>1. /\ h[p] # Idle /\ side = "ticket" /\ Goto(p, Idle) /\ h[p].what \in TicketNotices
        /\ heard' = h[p].what /\ missed' = FALSE
        /\ UNCHANGED <<side, kyc, complete, ticket, spoke, pushes>>
        /\ regime = "undisturbed" => Wrote(h[p]) /\ h[p].at = "ticketInbox"
    BY <1>9, <1>t, <1>a, DeskHandlerFields
    DEF TicketInbox, End, TicketOnly, Placed, TicketSteps, Idle, Untold
  <2>2. DeskTypeOK' /\ Apart' /\ (regime = "undisturbed" => Settled')
    BY <1>t, <2>1
    DEF DeskTypeOK, Apart, Settled, Wrote, TicketNotices, Decisions, Announced, Staff, User
  <2> QED
    BY <1>a, <1>i, <2>1, <2>2, DeskMoves
<1>10. CASE SetPushes(p)
  <2>1. /\ h[p] = Idle /\ MayStart /\ side = "ticket" /\ Goto(p, Idle) /\ pushes' = ~pushes
        /\ UNCHANGED <<side, kyc, complete, ticket, heard, missed, spoke>>
    BY <1>10, <1>t DEF SetPushes, Immediate, Goto, TicketOnly
  <2>2. DeskTypeOK' /\ Apart' /\ (Settled => Settled') /\ h[p].at \notin Untold
    BY <1>t, <1>i, <2>1 DEF DeskTypeOK, Apart, Settled
  <2> QED
    BY <1>a, <1>i, <2>1, <2>2, DeskMoves
<1> QED
  BY <1>1, <1>2, <1>3, <1>4, <1>5, <1>6, <1>7, <1>8, <1>9, <1>10

LEMMA DeskInvNext == DeskInv /\ [DeskNext]_staffVars => DeskInv'
<1>1. ASSUME DeskInv, UNCHANGED staffVars
      PROVE  DeskInv'
  BY <1>1 DEF staffVars, deskVars, DeskInv, StaffTypeOK, DeskTypeOK, Apart, Placed, Wrote, Settled
<1>2. ASSUME DeskInv, NEW p \in Procs, DeskStep(p), regime' = regime
      PROVE  DeskInv'
  BY <1>2, DeskKyc, DeskDecide, DeskTicket DEF DeskStep
<1> QED
  BY <1>1, <1>2 DEF DeskNext

\* Type correctness of the operations desk.
THEOREM DeskTypeCorrect == StaffSpec => []StaffTypeOK
<1>1. DeskInv => StaffTypeOK
  BY DEF DeskInv
<1> QED
  BY <1>1, DeskInvInit, DeskInvNext, PTL DEF StaffSpec

LEMMA DeskKept == DeskInv => DeskAgrees
  BY DEF DeskInv, DeskAgrees, Apart, Settled, Quiet, Idle, Untold

\* The user knows where they stand, unless pushes were off when a notice of the ticket
\* came: between a write and its push a handler is in flight,
\* and nobody is ever told of a decision on a row that does not exist.
THEOREM DecisionsAreTold == StaffSpec => []DeskAgrees
<1> QED
  BY DeskKept, DeskInvInit, DeskInvNext, PTL DEF StaffSpec

(***************************************************************************)
(* Tracking: while the process lives and nothing fails, the orders told of   *)
(* are among those a tick has just found, and they stay quiet.                *)
(***************************************************************************)
trackVars == <<regime, h, trackingVars>>

TrackInit ==
  /\ regime \in Regimes
  /\ h = [p \in Procs |-> Idle]
  /\ TrackingInit

TrackSpec == TrackInit /\ [][TrackingNext]_trackVars

TrackTypeOK ==
  /\ TrackingTypeOK
  /\ h \in [Procs -> {Idle} \cup TrackingHandlers]

LEMMA TrackHandlerFields ==
  ASSUME NEW s \in {Idle} \cup TrackingHandlers
  PROVE  /\ s.at = "trackingTouch" => s.order \in Sessions /\ s.age \in 0..StaleAge
         /\ s.at = "staleNotify" => s.found \in SUBSET Sessions
         /\ s.at \in {"idle", "trackingTouch", "staleNotify"}
         /\ s.at = "idle" <=> s = Idle
  BY DEF TrackingHandlers, Idle

LEMMA OlderType ==
  ASSUME NEW age \in 0..StaleAge
  PROVE  /\ Older(age) \in 0..StaleAge
         /\ age = StaleAge => Older(age) = StaleAge
  BY TrackingAssumption DEF TrackingAssumption, Older

\* Rows of sessions, and what ages and what the handlers write to them.
Track == [active : BOOLEAN, age : 0..StaleAge]

LEMMA TrackRows ==
  ASSUME NEW r \in Track
  PROVE  /\ r.active \in BOOLEAN /\ r.age \in 0..StaleAge
         /\ \A a \in BOOLEAN : [r EXCEPT !.active = a] = [active |-> a, age |-> r.age]
         /\ \A n \in 0..StaleAge : [r EXCEPT !.age = n] = [active |-> r.active, age |-> n]
         /\ \A a \in BOOLEAN, n \in 0..StaleAge : [active |-> a, age |-> n] \in Track
  BY DEF Track

\* An order told of is a quiet one that the process remembers; a handler in flight is
\* alone, and a tick in flight has found every order told of, all of them quiet still.
ToldInv ==
  /\ TrackTypeOK
  /\ regime = "undisturbed" /\ Cardinality(Sessions) <= StalePage =>
       /\ \A p, q \in Procs : p # q => h[p] = Idle \/ h[q] = Idle
       /\ \A o \in told : Stale(o) /\ o \in notified
       /\ \A p \in Procs : h[p].at = "staleNotify" =>
            /\ told \subseteq h[p].found
            /\ \A o \in h[p].found : Stale(o)

LEMMA TrackInitInv == TrackInit => ToldInv
<1> SUFFICES ASSUME TrackInit
             PROVE  ToldInv
  OBVIOUS
<1>1. [active |-> FALSE, age |-> 0] \in [active : BOOLEAN, age : 0..StaleAge]
  BY TrackingAssumption DEF TrackingAssumption
<1> QED
  BY <1>1 DEF TrackInit, TrackingInit, ToldInv, TrackTypeOK, TrackingTypeOK, Idle

\* One session's row is written.
LEMMA RowWritten ==
  ASSUME TrackTypeOK, NEW o \in Sessions, NEW r \in Track, session' = [session EXCEPT ![o] = r]
  PROVE  /\ session' \in [Sessions -> [active : BOOLEAN, age : 0..StaleAge]]
         /\ \A s \in Sessions : session'[s] = IF s = o THEN r ELSE session[s]
  BY DEF TrackTypeOK, TrackingTypeOK, Track

\* The handlers that are alone in one step: nothing is in flight before and after it.
LEMMA ToldAtOnce ==
  ASSUME ToldInv, NEW p \in Procs, Immediate(p), regime' = regime, TrackingTypeOK',
         NEW o \in Sessions, told' \subseteq told \ {o}, notified' = notified,
         \A s \in Sessions : s # o => session'[s] = session[s]
  PROVE  ToldInv'
<1>1. TrackTypeOK'
  BY DEF Immediate, ToldInv, TrackTypeOK
<1>2. ASSUME regime = "undisturbed", Cardinality(Sessions) <= StalePage
      PROVE  /\ \A s \in told' : Stale(s)' /\ s \in notified'
             /\ \A q \in Procs : h'[q] = Idle
  BY <1>2 DEF ToldInv, Immediate, MayStart, Quiet, Stale, TrackTypeOK, TrackingTypeOK
<1> QED
  BY <1>1, <1>2 DEF ToldInv, Idle

LEMMA ToldStep ==
  ASSUME ToldInv, NEW p \in Procs, TrackingStep(p), regime' = regime
  PROVE  ToldInv'
<1>t. /\ TrackTypeOK /\ session \in [Sessions -> Track]
      /\ h[p] \in {Idle} \cup TrackingHandlers
      /\ notified \subseteq Sessions /\ told \subseteq Sessions
  BY DEF ToldInv, TrackTypeOK, TrackingTypeOK, Track
<1>z. 0 \in 0..StaleAge
  BY TrackingAssumption DEF TrackingAssumption
<1>1. ASSUME NEW o \in Sessions, SessionStarts(p, o)
      PROVE  ToldInv'
  <2>1. PICK r \in Track : session' = [session EXCEPT ![o] = r]
    <3>1. \A age \in {0, session[o].age} : [active |-> TRUE, age |-> age] \in Track
      BY <1>t, <1>z DEF Track
    <3> QED
      BY <1>1, <3>1 DEF SessionStarts
  <2>2. TrackingTypeOK'
    BY <1>1, <1>t, <2>1, RowWritten DEF SessionStarts, TrackingTypeOK
  <2> QED
    BY <1>1, <1>t, <2>1, <2>2, RowWritten, ToldAtOnce DEF SessionStarts
<1>2. ASSUME NEW o \in Sessions, SessionEnds(p, o)
      PROVE  ToldInv'
  <2>1. PICK r \in Track : session' = [session EXCEPT ![o] = r]
    <3>1. PICK old \in Track : old = session[o]
      BY <1>t
    <3>2. [old EXCEPT !.active = FALSE] = [active |-> FALSE, age |-> old.age]
          /\ [active |-> FALSE, age |-> old.age] \in Track
      BY TrackRows
    <3>3. session' = [session EXCEPT ![o] = [old EXCEPT !.active = FALSE]]
      BY <1>2, <3>1 DEF SessionEnds
    <3> QED
      BY <3>2, <3>3
  <2>2. TrackingTypeOK'
    BY <1>2, <1>t, <2>1, RowWritten DEF SessionEnds, TrackingTypeOK
  <2> QED
    BY <1>2, <1>t, <2>1, <2>2, RowWritten, ToldAtOnce DEF SessionEnds
<1>3. ASSUME NEW o \in Sessions, NEW age \in 0..StaleAge, PointPosted(p, o, age)
      PROVE  ToldInv'
  <2>1. [at |-> "trackingTouch", order |-> o, age |-> age] \in TrackingHandlers
    BY DEF TrackingHandlers
  <2>2. \A q \in Procs : h'[q] = IF q = p THEN [at |-> "trackingTouch", order |-> o, age |-> age]
                                 ELSE h[q]
    BY <1>3, <1>t DEF PointPosted, Start, Goto, TrackTypeOK
  <2>3. TrackTypeOK' /\ UNCHANGED trackingVars
    BY <1>3, <1>t, <2>1 DEF PointPosted, Start, Goto, TrackTypeOK, TrackingTypeOK, trackingVars
  <2>4. regime = "undisturbed" => \A q \in Procs : h[q] = Idle
    BY <1>3 DEF PointPosted, Start, MayStart, Quiet
  <2> QED
    BY <2>2, <2>3, <2>4 DEF ToldInv, Stale, trackingVars, Idle
<1>4. CASE PointTouches(p)
  <2>1. PICK o \in Sessions, age \in 0..StaleAge : o = h[p].order /\ age = h[p].age
    BY <1>4, <1>t, TrackHandlerFields DEF PointTouches
  <2>2. PICK r \in Track : session' = [session EXCEPT ![o] = r]
                           /\ r.active = session[o].active /\ r.age = age
    <3>1. PICK old \in Track : old = session[o]
      BY <1>t
    <3>2. [old EXCEPT !.age = age] = [active |-> old.active, age |-> age]
          /\ [active |-> old.active, age |-> age] \in Track
      BY TrackRows
    <3>3. session' = [session EXCEPT ![o] = [old EXCEPT !.age = age]]
      BY <1>4, <2>1, <3>1 DEF PointTouches
    <3> QED
      BY <3>1, <3>2, <3>3
  <2>3. \A q \in Procs : h'[q] = IF q = p THEN Idle ELSE h[q]
    BY <1>4, <1>t DEF PointTouches, End, Goto, TrackTypeOK
  <2>4. \A s \in Sessions : session'[s] = IF s = o THEN r ELSE session[s]
    BY <2>2, <1>t, RowWritten
  <2>5. told' = (IF age < StaleAge THEN told \ {o} ELSE told) /\ notified' = notified
    BY <1>4, <2>1 DEF PointTouches
  <2>6. TrackTypeOK'
    BY <1>4, <1>t, <2>2, <2>5, RowWritten
    DEF PointTouches, End, Goto, TrackTypeOK, TrackingTypeOK
  <2>7. ASSUME regime = "undisturbed", Cardinality(Sessions) <= StalePage
        PROVE  /\ \A s \in told' : Stale(s)' /\ s \in notified'
               /\ \A q \in Procs : h'[q] = Idle
    <3>1. \A q \in Procs : q # p => h[q] = Idle
      BY <1>4, <2>7 DEF ToldInv, PointTouches, Idle
    <3>2. ASSUME NEW s \in told'
          PROVE  Stale(s)' /\ s \in notified'
      <4>1. s \in told /\ s \in Sessions /\ Stale(s) /\ s \in notified
        BY <1>t, <2>5, <2>7 DEF ToldInv
      <4>2. s = o => age = StaleAge
        BY <2>5, TrackingAssumption DEF TrackingAssumption
      <4> QED
        BY <2>2, <2>4, <2>5, <4>1, <4>2 DEF Stale
    <3> QED
      BY <2>3, <3>1, <3>2
  <2> QED
    BY <2>6, <2>7 DEF ToldInv, Idle
<1>5. ASSUME NEW found \in SUBSET Sessions, StaleFind(p, found)
      PROVE  ToldInv'
  <2>1. [at |-> "staleNotify", found |-> found] \in TrackingHandlers
    BY DEF TrackingHandlers
  <2>2. \A q \in Procs : h'[q] = IF q = p THEN [at |-> "staleNotify", found |-> found] ELSE h[q]
    BY <1>5, <1>t DEF StaleFind, Start, Goto, TrackTypeOK
  <2>3. TrackTypeOK' /\ UNCHANGED trackingVars
    BY <1>5, <1>t, <2>1 DEF StaleFind, Start, Goto, TrackTypeOK, TrackingTypeOK, trackingVars
  <2>4. regime = "undisturbed" => \A q \in Procs : h[q] = Idle
    BY <1>5 DEF StaleFind, Start, MayStart, Quiet
  <2>5. Cardinality(Sessions) <= StalePage => \A o \in Sessions : Stale(o) => o \in found
    <3>1. /\ IsFiniteSet(Sessions) /\ IsFiniteSet(found)
          /\ Cardinality(found) \in Nat /\ Cardinality(Sessions) \in Nat
          /\ Cardinality(found) <= Cardinality(Sessions)
          /\ Cardinality(found) = Cardinality(Sessions) => found = Sessions
      BY TrackingAssumption, FS_Subset, FS_CardinalityType DEF TrackingAssumption
    <3>2. StalePage \in Nat
      BY TrackingAssumption DEF TrackingAssumption
    <3>3. /\ Cardinality(found) <= StalePage
          /\ Cardinality(found) < StalePage => \A o \in Sessions : Stale(o) => o \in found
      BY <1>5 DEF StaleFind
    <3> QED
      BY <3>1, <3>2, <3>3
  <2>6. \A o \in found : Stale(o)
    BY <1>5 DEF StaleFind
  <2>7. (\A o \in Sessions : Stale(o)' = Stale(o)) /\ told' = told /\ notified' = notified
    BY <2>3 DEF trackingVars, Stale
  <2>8. ASSUME regime = "undisturbed", Cardinality(Sessions) <= StalePage
        PROVE  /\ \A q, r \in Procs : q # r => h'[q] = Idle \/ h'[r] = Idle
               /\ \A o \in told' : Stale(o)' /\ o \in notified'
               /\ \A q \in Procs : h'[q].at = "staleNotify" =>
                    /\ told' \subseteq h'[q].found
                    /\ \A o \in h'[q].found : Stale(o)'
    BY <1>t, <2>2, <2>4, <2>5, <2>6, <2>7, <2>8 DEF ToldInv, Idle
  <2> QED
    BY <2>3, <2>8 DEF ToldInv, Stale
<1>6. CASE StaleNotify(p)
  <2>1. PICK found \in SUBSET Sessions : found = h[p].found
    BY <1>6, <1>t, TrackHandlerFields DEF StaleNotify
  <2>2. /\ notified' = found
        /\ told' = told \cup (found \ notified)
        /\ session' = session
    BY <1>6, <2>1 DEF StaleNotify, StillStale
  <2>3. \A q \in Procs : h'[q] = IF q = p THEN Idle ELSE h[q]
    BY <1>6, <1>t DEF StaleNotify, End, Goto, TrackTypeOK
  <2>4. TrackTypeOK'
    BY <1>6, <1>t, <2>2 DEF StaleNotify, End, Goto, TrackTypeOK, TrackingTypeOK
  <2>5. ASSUME regime = "undisturbed", Cardinality(Sessions) <= StalePage
        PROVE  /\ \A s \in told' : Stale(s)' /\ s \in notified'
               /\ \A q \in Procs : h'[q] = Idle
    BY <1>6, <2>1, <2>2, <2>3, <2>5 DEF ToldInv, StaleNotify, Stale, Idle
  <2> QED
    BY <2>4, <2>5 DEF ToldInv, Idle
<1>7. CASE TrackingStop(p)
  <2>1. regime # "undisturbed"
    BY <1>7 DEF TrackingStop, Stop, MayFail
  <2>2. TrackTypeOK'
    BY <1>7, <1>t DEF TrackingStop, Stop, End, Goto, TrackTypeOK, TrackingTypeOK, trackingVars
  <2> QED
    BY <2>1, <2>2 DEF ToldInv
<1> QED
  BY <1>1, <1>2, <1>3, <1>4, <1>5, <1>6, <1>7 DEF TrackingStep

\* Time makes no quiet session heard again, and no handler forget what it found.
LEMMA ToldTime ==
  ASSUME ToldInv, TrackingTimePasses
  PROVE  ToldInv'
<1>t. /\ TrackTypeOK /\ session \in [Sessions -> Track]
      /\ notified \subseteq Sessions /\ told \subseteq Sessions
  BY DEF ToldInv, TrackTypeOK, TrackingTypeOK, Track
<1>1. ASSUME NEW o \in Sessions
      PROVE  /\ session'[o] \in Track
             /\ Stale(o) => Stale(o)'
  <2>1. PICK r \in Track : r = session[o]
    BY <1>t
  <2>2. session'[o] = [r EXCEPT !.age = Older(r.age)]
    BY <2>1 DEF TrackingTimePasses
  <2>3. r.active \in BOOLEAN /\ r.age \in 0..StaleAge /\ Older(r.age) \in 0..StaleAge
        /\ (r.age = StaleAge => Older(r.age) = StaleAge)
    BY TrackRows, OlderType
  <2>4. session'[o] = [active |-> r.active, age |-> Older(r.age)]
    BY <2>2, <2>3, TrackRows
  <2>5. session'[o] \in Track
    BY <2>3, <2>4, TrackRows
  <2> QED
    BY <2>1, <2>3, <2>4, <2>5 DEF Stale
<1>2. ASSUME NEW q \in Procs
      PROVE  /\ h'[q] \in {Idle} \cup TrackingHandlers
             /\ h[q].at # "trackingTouch" => h'[q] = h[q]
             /\ h[q].at = "trackingTouch" => h'[q].at = "trackingTouch"
  <2>1. h[q] \in {Idle} \cup TrackingHandlers
    BY <1>t DEF TrackTypeOK
  <2>2. CASE h[q].at # "trackingTouch"
    BY <2>1, <2>2 DEF TrackingTimePasses
  <2>3. CASE h[q].at = "trackingTouch"
    <3>1. PICK o \in Sessions, age \in 0..StaleAge :
            h[q] = [at |-> "trackingTouch", order |-> o, age |-> age]
      BY <2>1, <2>3 DEF TrackingHandlers, Idle
    <3>2. h'[q] = [h[q] EXCEPT !.age = Older(h[q].age)]
      BY <2>3 DEF TrackingTimePasses
    <3>3. h'[q] = [at |-> "trackingTouch", order |-> o, age |-> Older(age)]
      BY <3>1, <3>2
    <3> QED
      BY <2>3, <3>3, OlderType DEF TrackingHandlers
  <2> QED
    BY <2>2, <2>3
<1>3. TrackTypeOK'
  <2>1. session' \in [Sessions -> [active : BOOLEAN, age : 0..StaleAge]]
    BY <1>1 DEF TrackingTimePasses, Track
  <2>2. h' \in [Procs -> {Idle} \cup TrackingHandlers]
    BY <1>2 DEF TrackingTimePasses
  <2> QED
    BY <1>t, <2>1, <2>2 DEF TrackingTimePasses, TrackTypeOK, TrackingTypeOK
<1>4. told' = told /\ notified' = notified /\ regime' = regime
  BY DEF TrackingTimePasses
<1>5. \A q \in Procs : /\ h[q] = Idle => h'[q] = Idle
                       /\ h'[q].at = "staleNotify" => h'[q] = h[q]
  BY <1>2 DEF Idle
<1>6. \A q \in Procs : h[q].at = "staleNotify" => h[q].found \subseteq Sessions
  BY <1>t, TrackHandlerFields DEF TrackTypeOK
<1>7. ASSUME regime = "undisturbed", Cardinality(Sessions) <= StalePage
      PROVE  /\ \A q, r \in Procs : q # r => h'[q] = Idle \/ h'[r] = Idle
             /\ \A o \in told' : Stale(o)' /\ o \in notified'
             /\ \A q \in Procs : h'[q].at = "staleNotify" =>
                  /\ told' \subseteq h'[q].found
                  /\ \A o \in h'[q].found : Stale(o)'
  BY <1>t, <1>1, <1>4, <1>5, <1>6, <1>7 DEF ToldInv
<1> QED
  BY <1>3, <1>4, <1>7 DEF ToldInv

LEMMA ToldNext == ToldInv /\ [TrackingNext]_trackVars => ToldInv'
<1>1. ASSUME ToldInv, Restart
      PROVE  ToldInv'
  BY <1>1 DEF Restart, MayFail, ToldInv, TrackTypeOK, TrackingTypeOK
<1>2. ASSUME ToldInv, UNCHANGED trackVars
      PROVE  ToldInv'
  BY <1>2 DEF trackVars, trackingVars, ToldInv, TrackTypeOK, TrackingTypeOK, Stale
<1> QED
  BY <1>1, <1>2, ToldStep, ToldTime DEF TrackingNext

\* Type correctness of the sessions on the road.
THEOREM TrackingTypeCorrect == TrackSpec => []TrackTypeOK
<1>1. ToldInv => TrackTypeOK
  BY DEF ToldInv
<1> QED
  BY <1>1, TrackInitInv, ToldNext, PTL DEF TrackSpec

LEMMA ToldOnce ==
  ASSUME ToldInv
  PROVE  StaleIsToldOnceStep
<1> SUFFICES ASSUME regime = "undisturbed", Cardinality(Sessions) <= StalePage,
                    NEW o \in Sessions, NEW p \in Procs,
                    h[p].at = "staleNotify", o \in h[p].found \ StillStale(h[p].found)
             PROVE  o \notin told /\ session[o].active
  BY DEF StaleIsToldOnceStep
<1> QED
  BY DEF ToldInv, StillStale, Stale

\* The parties hear of a quiet stream once: an order told of stays quiet and remembered
\* until its stream is heard, so no later tick finds it among its news.
THEOREM StaleIsToldOnceHolds == TrackSpec => StaleIsToldOnce
<1>1. ToldInv /\ [TrackingNext]_trackVars => [StaleIsToldOnceStep]_<<regime, h, trackingVars>>
  BY ToldOnce
<1> QED
  BY <1>1, TrackInitInv, ToldNext, PTL DEF TrackSpec, StaleIsToldOnce, trackVars

(***************************************************************************)
(* AuthCache: how long a role outlives its switch in each cache.  A copy is   *)
(* made of one that is itself young, so each cache has a bound of its own:    *)
(* redis by subject, then memory by subject, then redis by token, then        *)
(* memory by token.  What a handler carries is older than a tick only when     *)
(* it was read from a cache.                                                *)
(***************************************************************************)
cacheVars == <<regime, h, authVars>>

CacheInit ==
  /\ regime \in Regimes
  /\ h = [p \in Procs |-> Idle]
  /\ AuthCacheInit

CacheSpec == CacheInit /\ [][AuthCacheNext]_cacheVars

CacheTypeOK ==
  /\ AuthCacheTypeOK
  /\ h \in [Procs -> {Idle} \cup AuthHandlers]

LEMMA CacheConstants ==
  /\ MemTtl \in Nat /\ MemTtl # 0 /\ RedisTtl \in Nat /\ RedisTtl # 0
  /\ StaleBound = 2 * MemTtl + 2 * RedisTtl /\ StaleBound \in Nat
  /\ Keys = {"tok", "sub"}
  BY AuthCacheAssumption DEF AuthCacheAssumption, StaleBound, Keys

LEMMA AuthHandlerFields ==
  ASSUME NEW s \in {Idle} \cup AuthHandlers
  PROVE  /\ s # Idle => s.role \in Roles
         /\ s.at \in {"authRefill", "authFill", "authRead", "sessionRead", "sessionUpdate",
                      "sessionCache", "sessionPublish"} => s.inst \in Instances
         /\ s.at = "authRefill" => s.key \in Keys
         /\ s.at = "authPublish" => s.keys \in SUBSET Keys
         /\ s.at \in {"sessionUpdate", "sessionCache"} => s.alias \in BOOLEAN
         /\ s.at = "idle" <=> s = Idle
  BY DEF AuthHandlers, Idle

LEMMA AuthHandlerForms ==
  /\ \A i \in Instances, k \in Keys, r \in Roles :
       [at |-> "authRefill", inst |-> i, key |-> k, role |-> r] \in AuthHandlers
  /\ \A i \in Instances, r \in Roles : [at |-> "authFill", inst |-> i, role |-> r] \in AuthHandlers
  /\ \A ks \in SUBSET Keys, r \in Roles :
       [at |-> "authPublish", keys |-> ks, role |-> r] \in AuthHandlers
  /\ \A i \in Instances, r \in Roles, a \in BOOLEAN :
       /\ [at |-> "sessionUpdate", inst |-> i, role |-> r, alias |-> a] \in AuthHandlers
       /\ [at |-> "sessionCache", inst |-> i, role |-> r, alias |-> a] \in AuthHandlers
  /\ \A i \in Instances, r \in Roles :
       [at |-> "sessionPublish", inst |-> i, role |-> r] \in AuthHandlers
  BY DEF AuthHandlers

MemEntry == [role : Roles \cup {NoRole}, left : 0..MemTtl]
RedisEntry == [role : Roles \cup {NoRole}, left : 0..RedisTtl]

MemBound(k) == IF k = "sub" THEN RedisTtl + MemTtl ELSE 2 * RedisTtl + 2 * MemTtl
RedisBound(k) == IF k = "sub" THEN RedisTtl ELSE 2 * RedisTtl + MemTtl

Old(r, held) == r # held /\ r # NoRole

\* An entry whose role is not the one held runs out before age is beyond bound.
Fine(e, bound, held, age) ==
  /\ e = Empty \/ e.role \in Roles
  /\ Old(e.role, held) => age + e.left <= bound

\* What a handler carries of another role than the one held.
CarriesRole(s, held, age) ==
  /\ s.at = "authRefill" /\ Old(s.role, held) => age <= RedisBound(s.key)
  /\ s.at = "authPublish" /\ Old(s.role, held) =>
       /\ age <= RedisTtl + MemTtl
       /\ "sub" \in s.keys => age = 0
  /\ s.at \in {"authFill", "sessionCache", "sessionPublish"} /\ Old(s.role, held) => age = 0

\* A session handler that is alone has the entry in hand that memory holds.
InHand(p) ==
  /\ h[p].at \in {"sessionUpdate", "sessionCache"} => h[p].alias /\ Known(h[p].inst, "tok")
  /\ h[p].at = "sessionPublish" =>
       \A k \in Keys : memory[h[p].inst][k].role \in {h[p].role, NoRole}

CacheInv ==
  /\ CacheTypeOK
  /\ \A k \in Keys : Fine(redis[k], RedisBound(k), role, since)
  /\ \A i \in Instances, k \in Keys : Fine(memory[i][k], MemBound(k), role, since)
  /\ \A p \in Procs : CarriesRole(h[p], role, since)
  /\ regime # "overlapping" =>
       /\ \A p, q \in Procs : p # q => h[p] = Idle \/ h[q] = Idle
       /\ \A p \in Procs : InHand(p)

\* Entries.
LEMMA EmptyFacts ==
  /\ Empty \in MemEntry /\ Empty \in RedisEntry
  /\ Empty.role = NoRole /\ Empty.left = 0
  /\ \A bound, held, age : Fine(Empty, bound, held, age)
<1>1. Empty.role = NoRole /\ Empty.left = 0
  BY DEF Empty
<1> QED
  BY <1>1, CacheConstants DEF Empty, MemEntry, RedisEntry, Fine, Old

LEMMA EntryFacts ==
  ASSUME NEW r \in Roles
  PROVE  /\ Entry(r, MemTtl) \in MemEntry /\ Entry(r, RedisTtl) \in RedisEntry
         /\ \A ttl : Entry(r, ttl).role = r /\ Entry(r, ttl).left = ttl
         /\ Entry(r, MemTtl) # Empty
<1>1. \A ttl : Entry(r, ttl).role = r /\ Entry(r, ttl).left = ttl
  BY DEF Entry
<1>2. Entry(r, MemTtl) \in MemEntry /\ Entry(r, RedisTtl) \in RedisEntry
  BY CacheConstants DEF Entry, MemEntry, RedisEntry
<1>3. Entry(r, MemTtl) # Empty
  BY <1>1, CacheConstants, EmptyFacts
<1> QED
  BY <1>1, <1>2, <1>3

LEMMA EntryFine ==
  ASSUME NEW r \in Roles, NEW ttl, NEW bound, NEW held, NEW age, Old(r, held) => age + ttl <= bound
  PROVE  Fine(Entry(r, ttl), bound, held, age)
  BY EntryFacts DEF Fine

LEMMA CacheInvInit == CacheInit => CacheInv
<1> SUFFICES ASSUME CacheInit
             PROVE  CacheInv
  OBVIOUS
<1>1. /\ memory = [i \in Instances |-> [k \in Keys |-> Empty]]
      /\ redis = [k \in Keys |-> Empty]
      /\ role \in Roles /\ since = StaleBound + 1
      /\ h = [p \in Procs |-> Idle]
  BY DEF CacheInit, AuthCacheInit
<1>2. memory \in [Instances -> [Keys -> MemEntry]] /\ redis \in [Keys -> RedisEntry]
  BY <1>1, EmptyFacts
<1>3. CacheTypeOK
  BY <1>1, <1>2, CacheConstants DEF CacheTypeOK, AuthCacheTypeOK, MemEntry, RedisEntry
<1>4. \A k \in Keys : redis[k] = Empty /\ \A i \in Instances : memory[i][k] = Empty
  BY <1>1
<1>5. \A p \in Procs : h[p] = Idle /\ CarriesRole(h[p], role, since) /\ InHand(p)
  BY <1>1 DEF CarriesRole, InHand, Idle
<1> QED
  BY <1>3, <1>4, <1>5, EmptyFacts DEF CacheInv

\* A step that changes neither the role nor the time.
LEMMA CacheKeeps ==
  ASSUME CacheInv, NEW p \in Procs, role' = role, since' = since, regime' = regime,
         CacheTypeOK',
         \A i \in Instances, k \in Keys :
           memory'[i][k] = memory[i][k] \/ Fine(memory'[i][k], MemBound(k), role, since),
         \A k \in Keys : redis'[k] = redis[k] \/ Fine(redis'[k], RedisBound(k), role, since),
         \A q \in Procs : q # p => CarriesRole(h'[q], role, since),
         CarriesRole(h'[p], role, since),
         regime # "overlapping" => InHand(p)' /\ \A q \in Procs : q # p => h'[q] = Idle
  PROVE  CacheInv'
<1>1. \A i \in Instances, k \in Keys : Fine(memory'[i][k], MemBound(k), role', since')
  BY DEF CacheInv
<1>2. \A k \in Keys : Fine(redis'[k], RedisBound(k), role', since')
  BY DEF CacheInv
<1>3. \A q \in Procs : CarriesRole(h'[q], role', since')
  OBVIOUS
<1>4. ASSUME regime # "overlapping", NEW q \in Procs
      PROVE  InHand(q)'
  <2>1. CASE q = p
    BY <1>4, <2>1
  <2>2. CASE q # p
    BY <1>4, <2>2 DEF InHand, Idle
  <2> QED
    BY <2>1, <2>2
<1> QED
  BY <1>1, <1>2, <1>3, <1>4 DEF CacheInv

\* The handler goes on alone, or the others keep what they carry.
LEMMA CacheGoto ==
  ASSUME CacheInv, NEW p \in Procs, NEW s \in {Idle} \cup AuthHandlers, Goto(p, s),
         h[p] = Idle => MayStart
  PROVE  /\ h' \in [Procs -> {Idle} \cup AuthHandlers]
         /\ h'[p] = s
         /\ \A q \in Procs : q # p => CarriesRole(h'[q], role, since)
         /\ regime # "overlapping" => \A q \in Procs : q # p => h'[q] = Idle
<1>1. h \in [Procs -> {Idle} \cup AuthHandlers]
  BY DEF CacheInv, CacheTypeOK
<1>2. \A q \in Procs : h'[q] = IF q = p THEN s ELSE h[q]
  BY <1>1 DEF Goto
<1> QED
  BY <1>1, <1>2 DEF CacheInv, Goto, MayStart, Quiet

\* What Remember and Replaced do.
LEMMA RememberForm ==
  ASSUME CacheInv, NEW i \in Instances, NEW keys, NEW r \in Roles, Remember(i, keys, r)
  PROVE  /\ memory' \in [Instances -> [Keys -> MemEntry]]
         /\ \A j \in Instances, k \in Keys :
              memory'[j][k] = IF j = i /\ k \in keys THEN Entry(r, MemTtl) ELSE memory[j][k]
<1>1. memory \in [Instances -> [Keys -> MemEntry]]
  BY DEF CacheInv, CacheTypeOK, AuthCacheTypeOK, MemEntry
<1>2. Entry(r, MemTtl) \in MemEntry
  BY EntryFacts
<1> DEFINE new == [k \in Keys |-> IF k \in keys THEN Entry(r, MemTtl) ELSE memory[i][k]]
<1>3. new \in [Keys -> MemEntry]
  BY <1>1, <1>2
<1>4. memory' = [memory EXCEPT ![i] = new]
  BY DEF Remember
<1> QED
  BY <1>1, <1>3, <1>4

Switching ==
  [at : {"sessionUpdate", "sessionCache"}, inst : Instances, role : Roles, alias : BOOLEAN]

LEMMA SwitchingRows ==
  ASSUME NEW r \in Switching
  PROVE  /\ \A a \in BOOLEAN : [r EXCEPT !.alias = a] =
                [at |-> r.at, inst |-> r.inst, role |-> r.role, alias |-> a]
         /\ [r EXCEPT !.at = "sessionCache"] =
                [at |-> "sessionCache", inst |-> r.inst, role |-> r.role, alias |-> r.alias]
         /\ \A a \in BOOLEAN :
                [at |-> r.at, inst |-> r.inst, role |-> r.role, alias |-> a] \in AuthHandlers
         /\ [at |-> "sessionCache", inst |-> r.inst, role |-> r.role, alias |-> r.alias]
                \in AuthHandlers
  BY DEF Switching, AuthHandlers

LEMMA ReplacedForm ==
  ASSUME CacheInv, NEW i \in Instances, NEW p \in Procs, NEW s \in {Idle} \cup AuthHandlers,
         Replaced(i, p, s), h[p] = Idle => MayStart
  PROVE  /\ h' \in [Procs -> {Idle} \cup AuthHandlers]
         /\ h'[p] = s
         /\ \A q \in Procs : q # p => CarriesRole(h'[q], role, since)
         /\ regime # "overlapping" => \A q \in Procs : q # p => h'[q] = Idle
<1>1. h \in [Procs -> {Idle} \cup AuthHandlers]
  BY DEF CacheInv, CacheTypeOK
<1>2. h'[p] = s
  BY DEF Replaced
<1>3. ASSUME NEW q \in Procs, q # p
      PROVE  /\ h'[q] \in {Idle} \cup AuthHandlers
             /\ CarriesRole(h'[q], role, since)
             /\ h[q] = Idle => h'[q] = Idle
  <2>0. CarriesRole(h[q], role, since) /\ h[q] \in {Idle} \cup AuthHandlers
    BY <1>1 DEF CacheInv
  <2>1. CASE ~(h[q].at \in {"sessionUpdate", "sessionCache"} /\ h[q].inst = i)
    <3>1. h'[q] = h[q]
      BY <1>3, <2>1 DEF Replaced
    <3> QED
      BY <2>0, <3>1
  <2>2. CASE h[q].at \in {"sessionUpdate", "sessionCache"} /\ h[q].inst = i
    <3>1. h'[q] = [h[q] EXCEPT !.alias = FALSE]
      BY <1>3, <2>2 DEF Replaced
    <3>2. PICK old \in Switching : old = h[q]
      BY <2>0, <2>2 DEF AuthHandlers, Idle, Switching
    <3>3. h'[q] = [at |-> old.at, inst |-> old.inst, role |-> old.role, alias |-> FALSE]
      BY <3>1, <3>2, SwitchingRows
    <3>4. h'[q] \in AuthHandlers
      BY <3>3, SwitchingRows
    <3>5. CarriesRole(h'[q], role, since)
      BY <2>0, <2>2, <3>2, <3>3 DEF CarriesRole
    <3> QED
      BY <2>2, <3>4, <3>5 DEF Idle
  <2> QED
    BY <2>1, <2>2
<1>4. h' \in [Procs -> {Idle} \cup AuthHandlers]
  BY <1>2, <1>3 DEF Replaced
<1> QED
  BY <1>2, <1>3, <1>4 DEF CacheInv, MayStart, Quiet

\* authenticate, from its lookup to what it keeps.
LEMMA AuthSteps ==
  ASSUME CacheInv, NEW p \in Procs, regime' = regime,
         \/ \E i \in Instances, k \in Keys : AuthMiss(p, i, k)
         \/ \E i \in Instances : AuthByRow(p, i)
         \/ AuthPublish(p)
         \/ AuthStop(p)
         \/ SessionPublish(p)
         \/ \E i \in Instances, r \in Roles : SessionRead(p, i, r)
  PROVE  CacheInv'
<1>t. /\ h[p] \in {Idle} \cup AuthHandlers /\ role \in Roles /\ since \in Nat
      /\ memory \in [Instances -> [Keys -> MemEntry]] /\ redis \in [Keys -> RedisEntry]
  BY CacheConstants DEF CacheInv, CacheTypeOK, AuthCacheTypeOK, MemEntry, RedisEntry
<1>i. Idle \in {Idle} \cup AuthHandlers /\ CarriesRole(Idle, role, since)
  BY DEF CarriesRole, Idle
<1>1. ASSUME NEW i \in Instances, NEW k \in Keys, AuthMiss(p, i, k)
      PROVE  CacheInv'
  <2> PICK s \in AuthHandlers :
        s = [at |-> "authRefill", inst |-> i, key |-> k, role |-> redis[k].role]
    <3>1. redis[k].role \in Roles
      BY <1>1 DEF AuthMiss, CacheInv, Fine
    <3> QED
      BY <3>1, AuthHandlerForms
  <2>1. Goto(p, s) /\ (h[p] = Idle => MayStart) /\ UNCHANGED authVars
    BY <1>1 DEF AuthMiss, Start
  <2>2. CarriesRole(s, role, since)
    <3>1. Fine(redis[k], RedisBound(k), role, since) /\ redis[k].left \in Nat
      BY <1>t, CacheConstants DEF CacheInv, RedisEntry
    <3>2. RedisBound(k) \in Nat
      BY CacheConstants DEF RedisBound
    <3> QED
      BY <1>t, <3>1, <3>2 DEF CarriesRole, Fine
  <2>3. CacheTypeOK'
    BY <2>1, CacheGoto DEF CacheInv, CacheTypeOK, AuthCacheTypeOK, authVars
  <2>4. InHand(p)'
    BY <2>1, CacheGoto DEF InHand
  <2> QED
    BY <2>1, <2>2, <2>3, <2>4, CacheGoto, CacheKeeps DEF authVars
<1>2. ASSUME NEW i \in Instances, AuthByRow(p, i)
      PROVE  CacheInv'
  <2> PICK s \in AuthHandlers : s = [at |-> "authFill", inst |-> i, role |-> role]
    BY <1>t, AuthHandlerForms
  <2>1. Goto(p, s) /\ (h[p] = Idle => MayStart) /\ UNCHANGED authVars
    BY <1>2 DEF AuthByRow, Start
  <2>2. CarriesRole(s, role, since)
    BY DEF CarriesRole, Old
  <2>3. CacheTypeOK'
    BY <2>1, CacheGoto DEF CacheInv, CacheTypeOK, AuthCacheTypeOK, authVars
  <2>4. InHand(p)'
    BY <2>1, CacheGoto DEF InHand
  <2> QED
    BY <2>1, <2>2, <2>3, <2>4, CacheGoto, CacheKeeps DEF authVars
<1>3. ASSUME AuthPublish(p)
      PROVE  CacheInv'
  <2>1. Goto(p, Idle) /\ h[p] # Idle /\ UNCHANGED <<role, memory, since>>
    BY <1>3 DEF AuthPublish, End, Idle
  <2>2. PICK r \in Roles, ks \in SUBSET Keys : r = h[p].role /\ ks = h[p].keys
    BY <1>3, <1>t, <2>1, AuthHandlerFields DEF AuthPublish
  <2>3. redis' = [k \in Keys |-> IF k \in ks THEN Entry(r, RedisTtl) ELSE redis[k]]
    BY <1>3, <2>2 DEF AuthPublish
  <2>4. \A k \in Keys : redis'[k] = redis[k] \/ Fine(redis'[k], RedisBound(k), role, since)
    <3> SUFFICES ASSUME NEW k \in ks
                 PROVE  Fine(Entry(r, RedisTtl), RedisBound(k), role, since)
      BY <2>3
    <3>1. ASSUME Old(r, role)
          PROVE  since + RedisTtl <= RedisBound(k)
      <4>1. since <= RedisTtl + MemTtl /\ ("sub" \in ks => since = 0)
        BY <1>3, <2>2, <3>1 DEF CacheInv, CarriesRole, AuthPublish
      <4> QED
        BY <1>t, <4>1, CacheConstants DEF RedisBound
    <3> QED
      BY <3>1, EntryFine
  <2>5. redis' \in [Keys -> RedisEntry]
    BY <1>t, <2>3, EntryFacts
  <2>6. CacheTypeOK'
    BY <1>i, <2>1, <2>5, CacheGoto
    DEF CacheInv, CacheTypeOK, AuthCacheTypeOK, RedisEntry
  <2>7. InHand(p)'
    BY <1>i, <2>1, CacheGoto DEF InHand, Idle
  <2> QED
    BY <1>i, <2>1, <2>4, <2>6, <2>7, CacheGoto, CacheKeeps
<1>4. ASSUME AuthStop(p)
      PROVE  CacheInv'
  <2>1. Goto(p, Idle) /\ h[p] # Idle /\ UNCHANGED authVars
    BY <1>4 DEF AuthStop, Stop, End
  <2>2. CacheTypeOK'
    BY <1>i, <2>1, CacheGoto DEF CacheInv, CacheTypeOK, AuthCacheTypeOK, authVars
  <2>3. InHand(p)'
    BY <1>i, <2>1, CacheGoto DEF InHand, Idle
  <2> QED
    BY <1>i, <2>1, <2>2, <2>3, CacheGoto, CacheKeeps DEF authVars
<1>5. ASSUME SessionPublish(p)
      PROVE  CacheInv'
  <2>1. Goto(p, Idle) /\ h[p] # Idle /\ UNCHANGED <<role, memory, since>>
    BY <1>5 DEF SessionPublish, End, Idle
  <2>2. PICK r \in Roles : r = h[p].role
    BY <1>5, <1>t, <2>1, AuthHandlerFields DEF SessionPublish
  <2>3. redis' = [redis EXCEPT !["sub"] = Entry(r, RedisTtl)]
    BY <1>5, <2>2 DEF SessionPublish
  <2>4. Fine(Entry(r, RedisTtl), RedisBound("sub"), role, since)
    <3>1. Old(r, role) => since = 0
      BY <1>5, <2>2 DEF CacheInv, CarriesRole, SessionPublish
    <3> QED
      BY <1>t, <3>1, EntryFine, CacheConstants DEF RedisBound
  <2>5. /\ redis' \in [Keys -> RedisEntry]
        /\ \A k \in Keys : redis'[k] = IF k = "sub" THEN Entry(r, RedisTtl) ELSE redis[k]
    BY <1>t, <2>3, EntryFacts
  <2>6. CacheTypeOK'
    BY <1>i, <2>1, <2>5, CacheGoto
    DEF CacheInv, CacheTypeOK, AuthCacheTypeOK, RedisEntry
  <2>7. InHand(p)'
    BY <1>i, <2>1, CacheGoto DEF InHand, Idle
  <2> QED
    BY <1>i, <2>1, <2>4, <2>5, <2>6, <2>7, CacheGoto, CacheKeeps
<1>6. ASSUME NEW i \in Instances, NEW r \in Roles, SessionRead(p, i, r)
      PROVE  CacheInv'
  <2> PICK s \in AuthHandlers :
        /\ s.at \in {"sessionCache", "sessionUpdate"} /\ s.inst = i /\ s.role = r /\ s.alias = TRUE
        /\ s = [at |-> IF role = r THEN "sessionCache" ELSE "sessionUpdate",
                inst |-> i, role |-> r, alias |-> TRUE]
    <3>1. CASE role = r
      BY <3>1, AuthHandlerForms
    <3>2. CASE role # r
      BY <3>2, AuthHandlerForms
    <3> QED
      BY <3>1, <3>2
  <2>1. Goto(p, s) /\ (h[p] = Idle => MayStart) /\ UNCHANGED authVars /\ Known(i, "tok")
    BY <1>6 DEF SessionRead, Start
  <2>2. CarriesRole(s, role, since)
    <3>1. s.at = "sessionCache" => role = r
      OBVIOUS
    <3> QED
      BY <3>1 DEF CarriesRole, Old
  <2>3. CacheTypeOK'
    BY <2>1, CacheGoto DEF CacheInv, CacheTypeOK, AuthCacheTypeOK, authVars
  <2>4. InHand(p)'
    BY <2>1, CacheGoto DEF InHand, Known, authVars
  <2> QED
    BY <2>1, <2>2, <2>3, <2>4, CacheGoto, CacheKeeps DEF authVars
<1> QED
  BY <1>1, <1>2, <1>3, <1>4, <1>5, <1>6

\* What the three ways to fill memory have in common.
LEMMA Remembers ==
  ASSUME CacheInv, NEW p \in Procs, regime' = regime,
         NEW i \in Instances, NEW keys \in SUBSET Keys, NEW r \in Roles,
         NEW s \in {Idle} \cup AuthHandlers, s.at \in {"idle", "authPublish"},
         Remember(i, keys, r), Replaced(i, p, s), h[p] = Idle => MayStart,
         UNCHANGED <<role, redis, since>>,
         Old(r, role) => \A k \in keys : since + MemTtl <= MemBound(k),
         CarriesRole(s, role, since)
  PROVE  CacheInv'
<1>1. /\ memory' \in [Instances -> [Keys -> MemEntry]]
      /\ \A j \in Instances, k \in Keys :
           memory'[j][k] = IF j = i /\ k \in keys THEN Entry(r, MemTtl) ELSE memory[j][k]
  BY RememberForm
<1>2. /\ h' \in [Procs -> {Idle} \cup AuthHandlers]
      /\ h'[p] = s
      /\ \A q \in Procs : q # p => CarriesRole(h'[q], role, since)
      /\ regime # "overlapping" => \A q \in Procs : q # p => h'[q] = Idle
  BY ReplacedForm
<1>3. CacheTypeOK'
  BY <1>1, <1>2 DEF CacheInv, CacheTypeOK, AuthCacheTypeOK, MemEntry
<1>4. ASSUME NEW j \in Instances, NEW k \in Keys
      PROVE  memory'[j][k] = memory[j][k] \/ Fine(memory'[j][k], MemBound(k), role, since)
  <2>1. CASE j = i /\ k \in keys
    <3>1. Fine(Entry(r, MemTtl), MemBound(k), role, since)
      BY <2>1, EntryFine
    <3> QED
      BY <1>1, <2>1, <3>1
  <2>2. CASE ~(j = i /\ k \in keys)
    BY <1>1, <2>2
  <2> QED
    BY <2>1, <2>2
<1>5. InHand(p)'
  BY <1>2 DEF InHand
<1>6. CarriesRole(h'[p], role, since)
  BY <1>2
<1> HIDE DEF CarriesRole, Fine
<1> QED
  BY <1>2, <1>3, <1>4, <1>5, <1>6, CacheKeeps

LEMMA RememberSteps ==
  ASSUME CacheInv, NEW p \in Procs, regime' = regime,
         \/ AuthRefill(p)
         \/ \E i \in Instances : AuthBySub(p, i)
         \/ AuthFill(p)
  PROVE  CacheInv'
<1>t. /\ h[p] \in {Idle} \cup AuthHandlers /\ role \in Roles /\ since \in Nat
      /\ memory \in [Instances -> [Keys -> MemEntry]]
  BY CacheConstants DEF CacheInv, CacheTypeOK, AuthCacheTypeOK, MemEntry
<1>n. /\ MemTtl \in Nat /\ RedisTtl \in Nat
      /\ Keys = {"tok", "sub"} /\ {"tok"} \subseteq Keys
  BY CacheConstants
<1>1. ASSUME AuthRefill(p)
      PROVE  CacheInv'
  <2>1. h[p].at = "authRefill" /\ h[p] # Idle
    BY <1>1 DEF AuthRefill, Idle
  <2>2. PICK i \in Instances, key \in Keys, r \in Roles :
          i = h[p].inst /\ key = h[p].key /\ r = h[p].role
    BY <1>t, <2>1, AuthHandlerFields
  <2>3. Old(r, role) => since <= RedisBound(key)
    BY <2>1, <2>2 DEF CacheInv, CarriesRole
  <2>4. CASE key = "sub"
    <3> PICK s \in AuthHandlers : s = [at |-> "authPublish", keys |-> {"tok"}, role |-> r]
      BY <1>n, AuthHandlerForms
    <3>1. {"sub"} \cup {"tok"} = Keys /\ "tok" # "sub"
      BY <1>n
    <3>2. Remember(i, {key} \cup Bound(key), r) /\ Replaced(i, p, s)
      BY <1>1, <2>2, <2>4 DEF AuthRefill, Bound
    <3>3. Old(r, role) => \A k \in Keys : since + MemTtl <= MemBound(k)
      BY <1>t, <1>n, <2>3, <2>4 DEF RedisBound, MemBound
    <3>4. CarriesRole(s, role, since)
      BY <1>t, <1>n, <2>3, <2>4 DEF CarriesRole, RedisBound
    <3>5. Remember(i, Keys, r)
      BY <2>4, <3>1, <3>2 DEF Bound
    <3>6. UNCHANGED <<role, redis, since>>
      BY <1>1 DEF AuthRefill
    <3>7. s.at \in {"idle", "authPublish"}
      OBVIOUS
    <3> QED
      BY <2>1, <3>2, <3>3, <3>4, <3>5, <3>6, <3>7, Remembers
  <2>5. CASE key # "sub"
    <3>1. key = "tok" /\ {key} \cup {} = {key}
      BY <1>n, <2>5
    <3>2. Remember(i, {key} \cup {}, r) /\ Replaced(i, p, Idle)
      BY <1>1, <2>2, <2>5 DEF AuthRefill
    <3>3. Old(r, role) => \A k \in {key} : since + MemTtl <= MemBound(k)
      BY <1>t, <1>n, <2>3, <3>1 DEF RedisBound, MemBound
    <3>4. CarriesRole(Idle, role, since) /\ Idle.at = "idle"
      BY DEF CarriesRole, Idle
    <3>5. Remember(i, {key}, r)
      BY <3>1, <3>2
    <3>6. UNCHANGED <<role, redis, since>>
      BY <1>1 DEF AuthRefill
    <3> QED
      BY <2>1, <3>2, <3>3, <3>4, <3>5, <3>6, Remembers
  <2> QED
    BY <2>4, <2>5
<1>2. ASSUME NEW i \in Instances, AuthBySub(p, i)
      PROVE  CacheInv'
  <2>1. PICK r \in Roles : r = memory[i]["sub"].role
    BY <1>2, <1>n DEF AuthBySub, Known, CacheInv, Fine
  <2> PICK s \in AuthHandlers : s = [at |-> "authPublish", keys |-> {"tok"}, role |-> r]
    BY <1>n, AuthHandlerForms
  <2>2. Old(r, role) => since <= RedisTtl + MemTtl
    <3>1. memory[i]["sub"].left \in Nat
      BY <1>t, <1>n DEF MemEntry
    <3>2. Fine(memory[i]["sub"], RedisTtl + MemTtl, role, since)
      BY <1>n DEF CacheInv, MemBound
    <3> QED
      BY <1>t, <1>n, <2>1, <3>1, <3>2 DEF Fine
  <2>3. Remember(i, {"tok"}, r) /\ Replaced(i, p, s) /\ MayStart
    BY <1>2, <2>1 DEF AuthBySub, Bound
  <2>4. UNCHANGED <<role, redis, since>>
    BY <1>2 DEF AuthBySub
  <2>5. Old(r, role) => \A k \in {"tok"} : since + MemTtl <= MemBound(k)
    BY <1>t, <1>n, <2>2 DEF MemBound
  <2>6. CarriesRole(s, role, since) /\ s.at \in {"idle", "authPublish"}
    BY <2>2 DEF CarriesRole
  <2> QED
    BY <1>n, <2>3, <2>4, <2>5, <2>6, Remembers
<1>3. ASSUME AuthFill(p)
      PROVE  CacheInv'
  <2>1. h[p].at = "authFill" /\ h[p] # Idle
    BY <1>3 DEF AuthFill, Idle
  <2>2. PICK i \in Instances, r \in Roles : i = h[p].inst /\ r = h[p].role
    BY <1>t, <2>1, AuthHandlerFields
  <2> PICK s \in AuthHandlers : s = [at |-> "authPublish", keys |-> Keys, role |-> r]
    BY AuthHandlerForms
  <2>3. Old(r, role) => since = 0
    BY <2>1, <2>2 DEF CacheInv, CarriesRole
  <2>4. Remember(i, Keys, r) /\ Replaced(i, p, s) /\ UNCHANGED <<role, redis, since>>
    BY <1>3, <2>2 DEF AuthFill
  <2>5. Old(r, role) => \A k \in Keys : since + MemTtl <= MemBound(k)
    BY <1>n, <2>3 DEF MemBound
  <2>6. CarriesRole(s, role, since) /\ s.at \in {"idle", "authPublish"}
    BY <1>n, <2>3 DEF CarriesRole
  <2> QED
    BY <2>1, <2>4, <2>5, <2>6, Remembers
<1> QED
  BY <1>1, <1>2, <1>3

\* The role is switched: whatever is cached or carried is fresh enough from here on.
LEMMA SwitchStep ==
  ASSUME CacheInv, NEW p \in Procs, regime' = regime, SessionUpdate(p)
  PROVE  CacheInv'
<1>t. /\ h \in [Procs -> {Idle} \cup AuthHandlers] /\ role \in Roles /\ since \in Nat
      /\ memory \in [Instances -> [Keys -> MemEntry]] /\ redis \in [Keys -> RedisEntry]
  BY CacheConstants DEF CacheInv, CacheTypeOK, AuthCacheTypeOK, MemEntry, RedisEntry
<1>n. MemTtl \in Nat /\ RedisTtl \in Nat
  BY CacheConstants
<1>1. PICK old \in Switching : old = h[p]
  BY <1>t DEF SessionUpdate, AuthHandlers, Idle, Switching
<1>2. PICK s \in AuthHandlers :
        s = [at |-> "sessionCache", inst |-> old.inst, role |-> old.role, alias |-> old.alias]
  BY SwitchingRows
<1>3. old.at = "sessionUpdate" /\ old.role \in Roles /\ old # Idle
  BY <1>1 DEF SessionUpdate, Switching, Idle
<1>4. Goto(p, s)
  BY <1>1, <1>2, SwitchingRows DEF SessionUpdate
<1>5. \A q \in Procs : h'[q] = IF q = p THEN s ELSE h[q]
  BY <1>t, <1>4 DEF Goto
<1>6. role' = old.role /\ since' = (IF role = old.role THEN since ELSE 0)
      /\ memory' = memory /\ redis' = redis
  BY <1>1 DEF SessionUpdate
<1>7. CacheTypeOK'
  <2>1. since' \in 0..(StaleBound + 1)
    BY <1>6, <1>n, CacheConstants DEF CacheInv, CacheTypeOK, AuthCacheTypeOK
  <2>2. h' \in [Procs -> {Idle} \cup AuthHandlers]
    BY <1>t, <1>4 DEF Goto
  <2> QED
    BY <1>3, <1>6, <2>1, <2>2 DEF CacheInv, CacheTypeOK, AuthCacheTypeOK
<1>8. ASSUME NEW e, NEW bound, e.left \in Nat, e.left <= bound, Fine(e, bound, role, since)
      PROVE  Fine(e, bound, role', since')
  <2>1. CASE role = old.role
    BY <1>6, <1>8, <2>1
  <2>2. CASE role # old.role
    BY <1>6, <1>8, <2>2 DEF Fine
  <2> QED
    BY <2>1, <2>2
<1>9. \A k \in Keys : Fine(redis[k], RedisBound(k), role', since')
  <2> SUFFICES ASSUME NEW k \in Keys PROVE Fine(redis[k], RedisBound(k), role', since')
    OBVIOUS
  <2>1. redis[k].left \in Nat /\ redis[k].left <= RedisBound(k)
    <3>1. redis[k].left \in 0..RedisTtl
      BY <1>t DEF RedisEntry
    <3> QED
      BY <1>n, <3>1 DEF RedisBound
  <2> QED
    BY <1>8, <2>1 DEF CacheInv
<1>10. \A i \in Instances, k \in Keys : Fine(memory[i][k], MemBound(k), role', since')
  <2> SUFFICES ASSUME NEW i \in Instances, NEW k \in Keys
               PROVE Fine(memory[i][k], MemBound(k), role', since')
    OBVIOUS
  <2>1. memory[i][k].left \in Nat /\ memory[i][k].left <= MemBound(k)
    <3>1. memory[i][k].left \in 0..MemTtl
      BY <1>t DEF MemEntry
    <3> QED
      BY <1>n, <3>1 DEF MemBound
  <2> QED
    BY <1>8, <2>1 DEF CacheInv
<1>11. ASSUME NEW q \in Procs
       PROVE  CarriesRole(h'[q], role', since')
  <2>1. CASE q = p
    BY <1>2, <1>5, <1>6, <2>1 DEF CarriesRole, Old
  <2>2. CASE q # p /\ role = old.role
    BY <1>5, <1>6, <2>2 DEF CacheInv
  <2>3. CASE q # p /\ role # old.role
    <3>1. since' = 0 /\ h'[q] = h[q]
      BY <1>5, <1>6, <2>3
    <3>2. \A k : 0 <= RedisBound(k)
      BY <1>n DEF RedisBound
    <3> QED
      BY <1>n, <3>1, <3>2 DEF CarriesRole
  <2> QED
    BY <2>1, <2>2, <2>3
<1>12. ASSUME regime # "overlapping"
       PROVE  /\ \A q, r \in Procs : q # r => h'[q] = Idle \/ h'[r] = Idle
              /\ \A q \in Procs : InHand(q)'
  <2>1. \A q \in Procs : q # p => h'[q] = Idle
    BY <1>1, <1>3, <1>5, <1>12 DEF CacheInv
  <2>2. h[p].alias /\ Known(h[p].inst, "tok")
    BY <1>1, <1>3, <1>12 DEF CacheInv, InHand
  <2>3. InHand(p)'
    BY <1>1, <1>2, <1>5, <1>6, <2>2 DEF InHand, Known
  <2> QED
    BY <2>1, <2>3 DEF InHand, Idle
<1> QED
  BY <1>6, <1>7, <1>9, <1>10, <1>11, <1>12 DEF CacheInv

\* The object of the token's entry and the entry of the subject change together.
LEMMA SessionCacheStep ==
  ASSUME CacheInv, NEW p \in Procs, regime' = regime, SessionCache(p)
  PROVE  CacheInv'
<1>t. /\ h[p] \in {Idle} \cup AuthHandlers /\ role \in Roles /\ since \in Nat
      /\ memory \in [Instances -> [Keys -> MemEntry]]
  BY CacheConstants DEF CacheInv, CacheTypeOK, AuthCacheTypeOK, MemEntry
<1>n. MemTtl \in Nat /\ RedisTtl \in Nat /\ Keys = {"tok", "sub"}
  BY CacheConstants
<1>1. h[p].at = "sessionCache" /\ h[p] # Idle
  BY DEF SessionCache, Idle
<1>2. PICK i \in Instances, r \in Roles : i = h[p].inst /\ r = h[p].role
  BY <1>t, <1>1, AuthHandlerFields
<1> PICK s \in AuthHandlers : s = [at |-> "sessionPublish", inst |-> i, role |-> r]
  BY AuthHandlerForms
<1>3. Goto(p, s) /\ UNCHANGED <<role, redis, since>>
  BY <1>2 DEF SessionCache
<1>4. Old(r, role) => since = 0
  BY <1>1, <1>2 DEF CacheInv, CarriesRole
<1>5. PICK old \in MemEntry : old = memory[i]["tok"]
  BY <1>t, <1>n
<1>6. PICK kept \in MemEntry :
        /\ memory' = [memory EXCEPT ![i] =
                        [k \in Keys |-> IF k = "sub" THEN Entry(r, MemTtl) ELSE kept]]
        /\ kept = old \/ (kept.role = r /\ kept.left = old.left)
        /\ h[p].alias /\ Known(i, "tok") => kept.role = r
  <2>1. [old EXCEPT !.role = r] \in MemEntry
        /\ [old EXCEPT !.role = r].role = r /\ [old EXCEPT !.role = r].left = old.left
    BY DEF MemEntry
  <2>2. CASE h[p].alias /\ Known(i, "tok")
    BY <1>2, <1>5, <2>1, <2>2 DEF SessionCache
  <2>3. CASE ~(h[p].alias /\ Known(i, "tok"))
    BY <1>2, <1>5, <2>3 DEF SessionCache
  <2> QED
    BY <2>2, <2>3
<1>7. /\ memory' \in [Instances -> [Keys -> MemEntry]]
      /\ \A j \in Instances, k \in Keys :
           memory'[j][k] = IF j = i THEN (IF k = "sub" THEN Entry(r, MemTtl) ELSE kept)
                           ELSE memory[j][k]
  BY <1>t, <1>6, EntryFacts
<1>8. CacheTypeOK'
  BY <1>1, <1>3, <1>7, CacheGoto DEF CacheInv, CacheTypeOK, AuthCacheTypeOK, MemEntry
<1>9. Fine(Entry(r, MemTtl), MemBound("sub"), role, since)
  BY <1>n, <1>4, EntryFine DEF MemBound
<1>10. Fine(kept, MemBound("tok"), role, since)
  <2>1. CASE kept = old
    BY <1>n, <1>5, <2>1 DEF CacheInv
  <2>2. CASE kept.role = r /\ kept.left = old.left
    <3>1. old.left \in 0..MemTtl
      BY DEF MemEntry
    <3> QED
      BY <1>n, <1>4, <2>2, <3>1 DEF Fine, MemBound
  <2> QED
    BY <1>6, <2>1, <2>2
<1>11. ASSUME NEW j \in Instances, NEW k \in Keys
       PROVE  memory'[j][k] = memory[j][k] \/ Fine(memory'[j][k], MemBound(k), role, since)
  BY <1>n, <1>7, <1>9, <1>10
<1>12. CarriesRole(s, role, since)
  BY <1>4 DEF CarriesRole
<1>13. ASSUME regime # "overlapping"
       PROVE  InHand(p)'
  <2>1. kept.role = r
    BY <1>1, <1>2, <1>6, <1>13 DEF CacheInv, InHand
  <2>2. \A k \in Keys : memory'[i][k].role = r
    BY <1>7, <2>1, EntryFacts
  <2>3. h'[p] = s
    BY <1>1, <1>3, CacheGoto
  <2> QED
    BY <2>2, <2>3 DEF InHand
<1> QED
  BY <1>1, <1>3, <1>8, <1>11, <1>12, <1>13, CacheGoto, CacheKeeps

\* Nothing is in flight: only the caches and the clock can move.
LEMMA QuietSteps ==
  ASSUME CacheInv,
         \/ AuthTimePasses
         \/ TokenRefreshed
         \/ \E i \in Instances : InstanceRestarts(i)
  PROVE  CacheInv'
<1>t. /\ role \in Roles /\ since \in 0..(StaleBound + 1)
      /\ memory \in [Instances -> [Keys -> MemEntry]] /\ redis \in [Keys -> RedisEntry]
  BY DEF CacheInv, CacheTypeOK, AuthCacheTypeOK, MemEntry, RedisEntry
<1>n. MemTtl \in Nat /\ RedisTtl \in Nat /\ StaleBound \in Nat /\ Keys = {"tok", "sub"}
  BY CacheConstants
<1>q. /\ \A p \in Procs : h[p] = Idle
      /\ h' = h /\ role' = role /\ regime' = regime
  BY DEF AuthTimePasses, TokenRefreshed, InstanceRestarts, Quiet
<1>h. \A p \in Procs : CarriesRole(h'[p], role', since') /\ InHand(p)'
  BY <1>q DEF CarriesRole, InHand, Idle
<1>1. SUFFICES /\ since' \in 0..(StaleBound + 1)
               /\ memory' \in [Instances -> [Keys -> MemEntry]] /\ redis' \in [Keys -> RedisEntry]
               /\ \A k \in Keys : Fine(redis'[k], RedisBound(k), role, since')
               /\ \A i \in Instances, k \in Keys : Fine(memory'[i][k], MemBound(k), role, since')
  BY <1>q, <1>h DEF CacheInv, CacheTypeOK, AuthCacheTypeOK, MemEntry, RedisEntry
<1>2. CASE AuthTimePasses
  <2>1. since' \in 0..(StaleBound + 1) /\ since' <= since + 1 /\ since' \in Nat
    BY <1>2, <1>t, <1>n DEF AuthTimePasses
  <2>2. ASSUME NEW ttl \in Nat, NEW e \in [role : Roles \cup {NoRole}, left : 0..ttl]
        PROVE  /\ Aged(e) \in [role : Roles \cup {NoRole}, left : 0..ttl]
               /\ \A bound \in Nat :
                    Fine(e, bound, role, since) => Fine(Aged(e), bound, role, since')
    <3>1. CASE e.left = 0
      <4>1. Aged(e) = Empty
        BY <3>1 DEF Aged
      <4>2. Empty \in [role : Roles \cup {NoRole}, left : 0..ttl]
        BY DEF Empty
      <4> QED
        BY <4>1, <4>2, EmptyFacts
    <3>2. CASE e.left # 0
      <4>1. /\ Aged(e) \in [role : Roles \cup {NoRole}, left : 0..ttl]
            /\ Aged(e).role = e.role /\ Aged(e).left = e.left - 1
        BY <3>2 DEF Aged
      <4>2. e.left \in Nat
        OBVIOUS
      <4>3. e.left # Empty.left
        BY <3>2, EmptyFacts
      <4> QED
        BY <1>t, <2>1, <4>1, <4>2, <4>3 DEF Fine
    <3> QED
      BY <3>1, <3>2
  <2>3. \A k \in Keys : RedisBound(k) \in Nat /\ MemBound(k) \in Nat
    BY <1>n DEF RedisBound, MemBound
  <2>4. redis' = [k \in Keys |-> Aged(redis[k])]
        /\ memory' = [i \in Instances |-> [k \in Keys |-> Aged(memory[i][k])]]
    BY <1>2 DEF AuthTimePasses
  <2>5. ASSUME NEW k \in Keys
        PROVE  Aged(redis[k]) \in RedisEntry /\ Fine(Aged(redis[k]), RedisBound(k), role, since')
    <3>1. redis[k] \in [role : Roles \cup {NoRole}, left : 0..RedisTtl]
      BY <1>t DEF RedisEntry
    <3> QED
      BY <1>n, <2>2, <2>3, <3>1 DEF CacheInv, RedisEntry
  <2>6. ASSUME NEW i \in Instances, NEW k \in Keys
        PROVE  /\ Aged(memory[i][k]) \in MemEntry
               /\ Fine(Aged(memory[i][k]), MemBound(k), role, since')
    <3>1. memory[i][k] \in [role : Roles \cup {NoRole}, left : 0..MemTtl]
      BY <1>t DEF MemEntry
    <3> QED
      BY <1>n, <2>2, <2>3, <3>1 DEF CacheInv, MemEntry
  <2> QED
    BY <2>1, <2>4, <2>5, <2>6
<1>3. CASE TokenRefreshed
  <2>1. since' = since
    BY <1>3 DEF TokenRefreshed
  <2>2. /\ redis' \in [Keys -> RedisEntry]
        /\ \A k \in Keys : redis'[k] = IF k = "tok" THEN Empty ELSE redis[k]
    BY <1>3, <1>t, EmptyFacts DEF TokenRefreshed
  <2>3. /\ memory' \in [Instances -> [Keys -> MemEntry]]
        /\ \A i \in Instances, k \in Keys :
             memory'[i][k] = IF k = "tok" THEN Empty ELSE memory[i][k]
    <3>1. \A i \in Instances : /\ [memory[i] EXCEPT !["tok"] = Empty] \in [Keys -> MemEntry]
                               /\ \A k \in Keys : [memory[i] EXCEPT !["tok"] = Empty][k]
                                    = IF k = "tok" THEN Empty ELSE memory[i][k]
      BY <1>t, EmptyFacts
    <3>2. memory' = [i \in Instances |-> [memory[i] EXCEPT !["tok"] = Empty]]
      BY <1>3 DEF TokenRefreshed
    <3> QED
      BY <3>1, <3>2
  <2>4. \A k \in Keys : Fine(redis'[k], RedisBound(k), role, since)
    BY <2>2, EmptyFacts DEF CacheInv
  <2>5. \A i \in Instances, k \in Keys : Fine(memory'[i][k], MemBound(k), role, since)
    BY <2>3, EmptyFacts DEF CacheInv
  <2> QED
    BY <1>t, <2>1, <2>2, <2>3, <2>4, <2>5
<1>4. CASE \E i \in Instances : InstanceRestarts(i)
  <2> PICK i \in Instances : InstanceRestarts(i)
    BY <1>4
  <2>1. since' = since /\ redis' = redis
    BY DEF InstanceRestarts
  <2>2. /\ memory' \in [Instances -> [Keys -> MemEntry]]
        /\ \A j \in Instances, k \in Keys :
             memory'[j][k] = IF j = i THEN Empty ELSE memory[j][k]
    BY <1>t, EmptyFacts DEF InstanceRestarts
  <2>3. \A j \in Instances, k \in Keys : Fine(memory'[j][k], MemBound(k), role, since)
    BY <2>2, EmptyFacts DEF CacheInv
  <2> QED
    BY <1>t, <2>1, <2>2, <2>3 DEF CacheInv
<1> QED
  BY <1>2, <1>3, <1>4

LEMMA CacheInvNext == CacheInv /\ [AuthCacheNext]_cacheVars => CacheInv'
<1>1. ASSUME CacheInv, AuthCacheNext
      PROVE  CacheInv'
  <2>1. ASSUME NEW p \in Procs, AuthCacheStep(p), regime' = regime
        PROVE  CacheInv'
    BY <1>1, <2>1, AuthSteps, RememberSteps, SwitchStep, SessionCacheStep DEF AuthCacheStep
  <2> QED
    BY <1>1, <2>1, QuietSteps DEF AuthCacheNext
<1>2. ASSUME CacheInv, UNCHANGED cacheVars
      PROVE  CacheInv'
  BY <1>2 DEF cacheVars, authVars, CacheInv, CacheTypeOK, AuthCacheTypeOK, InHand, Known
<1> QED
  BY <1>1, <1>2

\* Type correctness of the caches and of the handlers that fill them.
THEOREM CacheTypeCorrect == CacheSpec => []CacheTypeOK
<1>1. CacheInv => CacheTypeOK
  BY DEF CacheInv
<1> QED
  BY <1>1, CacheInvInit, CacheInvNext, PTL DEF CacheSpec

LEMMA CacheKept == CacheInv => StaleRoleExpires
<1> SUFFICES ASSUME CacheInv
             PROVE  StaleRoleExpires
  OBVIOUS
<1>1. /\ since \in Nat /\ MemTtl \in Nat /\ RedisTtl \in Nat
      /\ StaleBound = 2 * MemTtl + 2 * RedisTtl
      /\ memory \in [Instances -> [Keys -> MemEntry]] /\ redis \in [Keys -> RedisEntry]
  BY CacheConstants DEF CacheInv, CacheTypeOK, AuthCacheTypeOK, MemEntry, RedisEntry
<1>2. ASSUME since > StaleBound, NEW k \in Keys
      PROVE  redis[k].role \in {role, NoRole}
  <2>1. redis[k].left \in Nat
    BY <1>1 DEF RedisEntry
  <2>2. Fine(redis[k], RedisBound(k), role, since)
    BY DEF CacheInv
  <2> QED
    BY <1>1, <1>2, <2>1, <2>2 DEF Fine, Old, RedisBound
<1>3. ASSUME since > StaleBound, NEW i \in Instances, NEW k \in Keys
      PROVE  memory[i][k].role \in {role, NoRole}
  <2>1. memory[i][k].left \in Nat
    BY <1>1 DEF MemEntry
  <2>2. Fine(memory[i][k], MemBound(k), role, since)
    BY DEF CacheInv
  <2> QED
    BY <1>1, <1>3, <2>1, <2>2 DEF Fine, Old, MemBound
<1>4. ASSUME regime # "overlapping", NEW p \in Procs, h[p].at = "sessionPublish", NEW k \in Keys
      PROVE  memory[h[p].inst][k].role \in {h[p].role, NoRole}
  BY <1>4 DEF CacheInv, InHand
<1> QED
  BY <1>2, <1>3, <1>4 DEF StaleRoleExpires

\* A switched role expires: beyond twice the two lifetimes no cache knows the old one,
\* and where no handler overlaps, the instance that switched it knows only the new one.
THEOREM SwitchedRolesExpire == CacheSpec => []StaleRoleExpires
<1> QED
  BY CacheKept, CacheInvInit, CacheInvNext, PTL DEF CacheSpec

(***************************************************************************)
(* Pages: a copy made of a copy is no older than the first one may be, so     *)
(* redis holds nothing that is behind for longer than a built page lives, and *)
(* memory nothing for longer than that and a refill.  The writer's own pages  *)
(* are a table of handlers against pages, gone through handler by handler.    *)
(***************************************************************************)
pageVars == <<regime, h, pagesVars>>

PagesStart ==
  /\ regime \in Regimes
  /\ h = [p \in Procs |-> Idle]
  /\ PagesInit

PagesSpec == PagesStart /\ [][PagesNext]_pageVars

PagesTypes ==
  /\ PagesTypeOK
  /\ h \in [Procs -> {Idle} \cup PagesHandlers]

LEMMA PageRows ==
  /\ DOMAIN PageOf = {"feed", "supplierBids", "supplierOrders", "demandList", "demandDetail",
                      "demandBids", "dashboard", "consumerOrders", "orderDetail",
                      "siblingDetail", "challan", "catalog"}
  /\ PageOf["feed"] = FeedPage /\ PageOf["supplierBids"] = SupplierBidsPage
  /\ PageOf["supplierOrders"] = SupplierOrdersPage /\ PageOf["demandList"] = DemandListPage
  /\ PageOf["demandDetail"] = DemandDetailPage /\ PageOf["demandBids"] = DemandBidsPage
  /\ PageOf["dashboard"] = DashboardPage /\ PageOf["consumerOrders"] = ConsumerOrdersPage
  /\ PageOf["orderDetail"] = OrderDetailPage /\ PageOf["siblingDetail"] = SiblingDetailPage
  /\ PageOf["challan"] = ChallanPage /\ PageOf["catalog"] = CatalogPage
  BY DEF PageOf

LEMMA WriterRows ==
  /\ DOMAIN WriterOf = {"createRequest", "editRequest", "cancelRequest", "placeBid",
       "withdrawBid", "award", "rejectBid", "consumerAcknowledges", "supplierAcknowledges",
       "consumerMovesOrder", "supplierMovesOrder", "adjustQuantity", "consumerDrafts",
       "supplierDrafts", "postPoint", "consumerSubscribes", "supplierSubscribes", "saveStock",
       "submitSupplierKyc", "saveShop"}
  /\ WriterOf["createRequest"] = CreateRequest /\ WriterOf["editRequest"] = EditRequest
  /\ WriterOf["cancelRequest"] = CancelRequest /\ WriterOf["placeBid"] = PlaceBid
  /\ WriterOf["withdrawBid"] = WithdrawBid /\ WriterOf["award"] = Award
  /\ WriterOf["rejectBid"] = RejectBid
  /\ WriterOf["consumerAcknowledges"] = ConsumerAcknowledges
  /\ WriterOf["supplierAcknowledges"] = SupplierAcknowledges
  /\ WriterOf["consumerMovesOrder"] = OrderMoves("consumer")
  /\ WriterOf["supplierMovesOrder"] = OrderMoves("supplier")
  /\ WriterOf["adjustQuantity"] = AdjustQuantity
  /\ WriterOf["consumerDrafts"] = DraftChallan("consumer")
  /\ WriterOf["supplierDrafts"] = DraftChallan("supplier")
  /\ WriterOf["postPoint"] = PostPoint
  /\ WriterOf["consumerSubscribes"] = Subscribe("consumer")
  /\ WriterOf["supplierSubscribes"] = Subscribe("supplier")
  /\ WriterOf["saveStock"] = SaveStock
  /\ WriterOf["submitSupplierKyc"] = SubmitSupplierKyc /\ WriterOf["saveShop"] = SaveShop
  BY DEF WriterOf

\* What the handler w writes of a page of its own user, it drops, but for the Gaps.
Drops(w, pg) ==
  \A v \in PageOf[pg].viewers, x \in PageOf[pg].shows :
    x \in WriterOf[w].writes /\ WriterOf[w].by = v /\ <<w, pg>> \notin Gaps =>
      pg \in WriterOf[w].clears

LEMMA OwnPagesAreDropped ==
  ASSUME NEW pg \in DOMAIN PageOf, NEW w \in DOMAIN WriterOf
  PROVE  Drops(w, pg)
<1> USE DEF Drops, Gaps, Writer, FeedPage, SupplierBidsPage, SupplierOrdersPage, DemandListPage,
            DemandDetailPage, DemandBidsPage, DashboardPage, ConsumerOrdersPage, OrderDetailPage,
            SiblingDetailPage, ChallanPage, CatalogPage, ListedRows, DetailRows, RatedRows,
            Viewers, Feeds, ConsumerLists, SupplierLists, DemandDetail, OrderCaches
<1>1. CASE w = "createRequest"
  BY <1>1, PageRows, WriterRows DEF CreateRequest
<1>2. CASE w = "editRequest"
  BY <1>2, PageRows, WriterRows DEF EditRequest
<1>3. CASE w = "cancelRequest"
  BY <1>3, PageRows, WriterRows DEF CancelRequest
<1>4. CASE w = "placeBid"
  BY <1>4, PageRows, WriterRows DEF PlaceBid
<1>5. CASE w = "withdrawBid"
  BY <1>5, PageRows, WriterRows DEF WithdrawBid
<1>6. CASE w = "award"
  BY <1>6, PageRows, WriterRows DEF Award
<1>7. CASE w = "rejectBid"
  BY <1>7, PageRows, WriterRows DEF RejectBid
<1>8. CASE w = "consumerAcknowledges"
  BY <1>8, PageRows, WriterRows DEF ConsumerAcknowledges
<1>9. CASE w = "supplierAcknowledges"
  BY <1>9, PageRows, WriterRows DEF SupplierAcknowledges
<1>10. CASE w = "consumerMovesOrder"
  BY <1>10, PageRows, WriterRows DEF OrderMoves
<1>11. CASE w = "supplierMovesOrder"
  BY <1>11, PageRows, WriterRows DEF OrderMoves
<1>12. CASE w = "adjustQuantity"
  BY <1>12, PageRows, WriterRows DEF AdjustQuantity
<1>13. CASE w = "consumerDrafts"
  BY <1>13, PageRows, WriterRows DEF DraftChallan
<1>14. CASE w = "supplierDrafts"
  BY <1>14, PageRows, WriterRows DEF DraftChallan
<1>15. CASE w = "postPoint"
  BY <1>15, PageRows, WriterRows DEF PostPoint
<1>16. CASE w = "consumerSubscribes"
  BY <1>16, PageRows, WriterRows DEF Subscribe
<1>17. CASE w = "supplierSubscribes"
  BY <1>17, PageRows, WriterRows DEF Subscribe
<1>18. CASE w = "saveStock"
  BY <1>18, PageRows, WriterRows DEF SaveStock
<1>19. CASE w = "submitSupplierKyc"
  BY <1>19, PageRows, WriterRows DEF SubmitSupplierKyc
<1>20. CASE w = "saveShop"
  BY <1>20, PageRows, WriterRows DEF SaveShop
<1> QED
  BY WriterRows, <1>1, <1>2, <1>3, <1>4, <1>5, <1>6, <1>7, <1>8, <1>9, <1>10,
     <1>11, <1>12, <1>13, <1>14, <1>15, <1>16, <1>17, <1>18, <1>19, <1>20

LEMMA PagesConstants ==
  /\ PageTtl \in Nat /\ RefillTtl \in Nat /\ PageTtl # 0 /\ RefillTtl # 0
  /\ StaleLimit = PageTtl + RefillTtl /\ StaleLimit \in Nat /\ UpToDate = -1
  BY PagesAssumption DEF PagesAssumption, StaleLimit, UpToDate

LEMMA PagesHandlerFields ==
  ASSUME NEW s \in {Idle} \cup PagesHandlers
  PROVE  /\ s.at \in {"idle", "pageFill", "pageStore", "pageRefill", "writeClear",
                      "writeClearRedis"}
         /\ s.at \in Carrying => s.copy \in Copies
         /\ s.at = "idle" <=> s = Idle
  BY DEF PagesHandlers, Idle, Carrying

LEMMA PagesHandlerForms ==
  /\ \A at \in Carrying, c \in Copies : [at |-> at, copy |-> c] \in PagesHandlers
  /\ \A at \in {"writeClear", "writeClearRedis"} : [at |-> at] \in PagesHandlers
  BY DEF PagesHandlers, Carrying

\* Handlers that carry a copy, and entries of either cache.
Carrier == [at : Carrying, copy : Copies]
Entries == [left : -1..StaleLimit, copy : Copies]

LEMMA CarrierRows ==
  ASSUME NEW r \in Carrier
  PROVE  /\ r.at \in Carrying /\ r.copy \in Copies
         /\ \A c \in Copies : /\ [r EXCEPT !.copy = c] = [at |-> r.at, copy |-> c]
                              /\ [at |-> r.at, copy |-> c] \in PagesHandlers
         /\ [r EXCEPT !.at = "pageStore"] = [at |-> "pageStore", copy |-> r.copy]
         /\ [at |-> "pageStore", copy |-> r.copy] \in PagesHandlers
  BY DEF Carrier, PagesHandlers, Carrying

LEMMA EntryRows ==
  ASSUME NEW e \in Entries
  PROVE  /\ e.left \in -1..StaleLimit /\ e.copy \in Copies
         /\ \A c \in Copies : [e EXCEPT !.copy = c] = [left |-> e.left, copy |-> c]
         /\ \A n \in -1..StaleLimit, c \in Copies : [left |-> n, copy |-> c] \in Entries
  BY DEF Entries

LEMMA CopyRows ==
  ASSUME NEW c \in Copies
  PROVE  /\ c.behind \in Int /\ c.own \in BOOLEAN
         /\ c.behind = UpToDate \/ c.behind \in 0..(StaleLimit + 1)
         /\ \A n \in {UpToDate} \cup 0..(StaleLimit + 1) :
              /\ [c EXCEPT !.behind = n] = [behind |-> n, own |-> c.own]
              /\ [behind |-> n, own |-> c.own] \in Copies
  BY PagesConstants DEF Copies

LEMMA FreshFacts ==
  /\ Fresh \in Copies /\ Fresh.behind = UpToDate /\ Fresh.own = FALSE
  /\ NoCopy \in Entries /\ NoCopy.left = -1 /\ NoCopy.copy = Fresh
  BY PagesConstants DEF Fresh, NoCopy, Copies, Entries

\* A copy is behind by no more than its age bound.
Within(c, bound) == c.behind = UpToDate \/ c.behind <= bound

\* An entry runs out before its copy is behind by more than bound.
Lasts(e, bound) == e = NoCopy \/ (e.left \in Nat /\ Within(e.copy, bound - e.left))

\* What a handler carries: a page it has built, or a copy from redis.
Held(s) ==
  /\ s.at \in {"pageFill", "pageStore"} => Within(s.copy, 0)
  /\ s.at = "pageRefill" => Within(s.copy, PageTtl)

\* The writer's own page is as it was in a cache only until its handler clears that cache.
OwnCleared ==
  /\ \A p, q \in Procs : p # q => h[p] = Idle \/ h[q] = Idle
  /\ \A p \in Procs : h[p].at \in Carrying => ~h[p].copy.own
  /\ pageMemory.copy.own => page \in Clears /\ \E p \in Procs : h[p].at = "writeClear"
  /\ pageRedis.copy.own =>
       page \in Clears /\ \E p \in Procs : h[p].at \in {"writeClear", "writeClearRedis"}

PagesInv ==
  /\ PagesTypes
  /\ viewer \in PageOf[page].viewers
  /\ Lasts(pageMemory, StaleLimit)
  /\ Lasts(pageRedis, PageTtl)
  /\ \A p \in Procs : Held(h[p])
  /\ regime = "undisturbed" /\ <<writer, page>> \notin Gaps => OwnCleared

LEMMA PagesInvInit == PagesStart => PagesInv
<1> SUFFICES ASSUME PagesStart
             PROVE  PagesInv
  OBVIOUS
<1>1. page \in DOMAIN PageOf /\ viewer \in Viewers /\ writer \in DOMAIN WriterOf
      /\ viewer \in PageOf[page].viewers
  <2>1. \A pg \in DOMAIN PageOf : PageOf[pg].viewers \subseteq Viewers
    BY PageRows
    DEF Viewers, FeedPage, SupplierBidsPage, SupplierOrdersPage, DemandListPage,
        DemandDetailPage, DemandBidsPage, DashboardPage, ConsumerOrdersPage, OrderDetailPage,
        SiblingDetailPage, ChallanPage, CatalogPage
  <2> QED
    BY <2>1 DEF PagesStart, PagesInit
<1>2. NoCopy \in [left : -1..PageTtl, copy : Copies]
  BY PagesConstants, FreshFacts DEF NoCopy
<1>3. PagesTypes
  BY <1>1, <1>2, FreshFacts DEF PagesStart, PagesInit, PagesTypes, PagesTypeOK, Entries
<1>4. \A p \in Procs : h[p] = Idle /\ Held(h[p]) /\ h[p].at \notin Carrying
  BY DEF PagesStart, Held, Idle, Carrying
<1>5. pageMemory = NoCopy /\ pageRedis = NoCopy
  BY DEF PagesStart, PagesInit
<1> QED
  BY <1>1, <1>3, <1>4, <1>5, FreshFacts DEF PagesInv, Lasts, OwnCleared

\* One handler goes on to s.
LEMMA PagesGoto ==
  ASSUME PagesInv, NEW p \in Procs, NEW s \in {Idle} \cup PagesHandlers, Goto(p, s),
         h[p] = Idle => MayStart
  PROVE  /\ h' \in [Procs -> {Idle} \cup PagesHandlers]
         /\ \A q \in Procs : h'[q] = IF q = p THEN s ELSE h[q]
         /\ regime = "undisturbed" /\ <<writer, page>> \notin Gaps =>
              \A q \in Procs : q # p => h[q] = Idle
<1>1. h \in [Procs -> {Idle} \cup PagesHandlers]
  BY DEF PagesInv, PagesTypes
<1> QED
  BY <1>1 DEF PagesInv, OwnCleared, Goto, MayStart, Quiet

\* A step of one handler that keeps the bounds, and clears what is its user's own.
LEMMA PagesMoves ==
  ASSUME PagesInv, NEW p \in Procs, NEW s \in {Idle} \cup PagesHandlers, Goto(p, s),
         h[p] = Idle => MayStart, UNCHANGED <<page, viewer, writer, regime>>, PagesTypeOK',
         Lasts(pageMemory', StaleLimit), Lasts(pageRedis', PageTtl), Held(s),
         regime = "undisturbed" /\ <<writer, page>> \notin Gaps =>
           /\ s.at \in Carrying => ~s.copy.own
           /\ pageMemory'.copy.own => page \in Clears /\ s.at = "writeClear"
           /\ pageRedis'.copy.own =>
                page \in Clears /\ s.at \in {"writeClear", "writeClearRedis"}
  PROVE  PagesInv'
<1>1. PagesTypes'
  BY PagesGoto DEF PagesTypes
<1>2. \A q \in Procs : Held(h'[q])
  BY PagesGoto DEF PagesInv
<1>3. ASSUME regime = "undisturbed", <<writer, page>> \notin Gaps
      PROVE  OwnCleared'
  <2>1. \A q \in Procs : h'[q] = IF q = p THEN s ELSE Idle
    BY <1>3, PagesGoto
  <2>2. Idle.at \notin Carrying
    BY DEF Idle, Carrying
  <2> QED
    BY <1>3, <2>1, <2>2 DEF OwnCleared, Clears
<1> QED
  BY <1>1, <1>2, <1>3 DEF PagesInv

\* Where the writer is alone, only its own handler has left something behind.
LEMMA PagesAlone ==
  ASSUME PagesInv, NEW p \in Procs, h[p] = Idle => MayStart,
         regime = "undisturbed", <<writer, page>> \notin Gaps
  PROVE  /\ \A q \in Procs : q # p => h[q] = Idle
         /\ h[p].at \in Carrying => ~h[p].copy.own
         /\ pageMemory.copy.own => page \in Clears /\ h[p].at = "writeClear"
         /\ pageRedis.copy.own =>
              page \in Clears /\ h[p].at \in {"writeClear", "writeClearRedis"}
  BY DEF PagesInv, OwnCleared, MayStart, Quiet, Idle

\* What a handler in flight carries, and what the caches hold.
LEMMA PagesFields ==
  ASSUME PagesInv
  PROVE  /\ page \in DOMAIN PageOf /\ writer \in DOMAIN WriterOf
         /\ pageMemory \in Entries /\ pageRedis \in Entries /\ pageRedis.left <= PageTtl
         /\ \A p \in Procs : /\ h[p] \in {Idle} \cup PagesHandlers
                             /\ h[p].at \in Carrying => h[p] \in Carrier
<1>1. \A p \in Procs : h[p] \in {Idle} \cup PagesHandlers
  BY DEF PagesInv, PagesTypes
<1>2. \A p \in Procs : h[p].at \in Carrying => h[p] \in Carrier
  BY <1>1 DEF PagesHandlers, Carrier, Carrying, Idle
<1>3. pageRedis \in [left : -1..PageTtl, copy : Copies] /\ pageMemory \in Entries
  BY DEF PagesInv, PagesTypes, PagesTypeOK, Entries
<1>4. pageRedis \in Entries /\ pageRedis.left <= PageTtl
  <2>1. \A n \in -1..PageTtl : n \in -1..StaleLimit /\ n <= PageTtl
    BY PagesConstants
  <2> QED
    BY <1>3, <2>1 DEF Entries
<1> QED
  BY <1>1, <1>2, <1>3, <1>4 DEF PagesInv, PagesTypes, PagesTypeOK

\* An entry written anew.
LEMMA NewEntry ==
  ASSUME NEW n \in Nat, n <= StaleLimit, NEW c \in Copies, NEW bound \in Nat, Within(c, bound - n)
  PROVE  /\ [left |-> n, copy |-> c] \in Entries
         /\ Lasts([left |-> n, copy |-> c], bound)
<1>1. n \in -1..StaleLimit
  BY PagesConstants
<1> QED
  BY <1>1 DEF Entries, Lasts

LEMMA RedisType ==
  ASSUME NEW e \in Entries, e.left <= PageTtl
  PROVE  e \in [left : -1..PageTtl, copy : Copies]
<1>1. e.left \in -1..PageTtl
  BY PagesConstants DEF Entries
<1> QED
  BY <1>1 DEF Entries

LEMMA WithinMore ==
  ASSUME NEW c \in Copies, NEW a \in Int, NEW b \in Int, a <= b, Within(c, a)
  PROVE  Within(c, b)
  BY CopyRows DEF Within

LEMMA PagesReads ==
  ASSUME PagesInv, NEW p \in Procs, regime' = regime,
         \/ PageMiss(p) \/ PageFill(p) \/ PageStore(p) \/ PageFound(p) \/ PageRefill(p)
  PROVE  PagesInv'
<1>t. /\ pageMemory \in Entries /\ pageRedis \in Entries /\ pageRedis.left <= PageTtl
      /\ h[p].at \in Carrying => h[p] \in Carrier
  BY PagesFields
<1>n. /\ PageTtl \in Nat /\ RefillTtl \in Nat /\ StaleLimit \in Nat
      /\ PageTtl <= StaleLimit /\ RefillTtl <= StaleLimit
      /\ StaleLimit - PageTtl = RefillTtl /\ StaleLimit - RefillTtl = PageTtl
      /\ PageTtl - PageTtl = 0
  BY PagesConstants
<1>o. PagesTypeOK /\ Lasts(pageMemory, StaleLimit) /\ Lasts(pageRedis, PageTtl) /\ Held(h[p])
  BY DEF PagesInv, PagesTypes
<1>i. Idle \in {Idle} \cup PagesHandlers /\ Held(Idle) /\ Idle.at \notin Carrying
  BY DEF Held, Idle, Carrying
<1>1. CASE PageMiss(p)
  <2> PICK s \in PagesHandlers : s = [at |-> "pageFill", copy |-> Fresh]
    BY FreshFacts, PagesHandlerForms DEF Carrying
  <2>1. Goto(p, s) /\ (h[p] = Idle => MayStart) /\ UNCHANGED pagesVars /\ h[p] = Idle
    BY <1>1 DEF PageMiss, Start
  <2>2. Held(s) /\ ~s.copy.own
    BY FreshFacts DEF Held, Within
  <2>3. PagesTypeOK'
    BY <1>o, <2>1 DEF PagesTypeOK, pagesVars
  <2> QED
    BY <1>o, <2>1, <2>2, <2>3, PagesAlone, PagesMoves DEF pagesVars, Idle
<1>2. CASE PageFill(p)
  <2>1. h[p].at = "pageFill" /\ h[p] # Idle
    BY <1>2 DEF PageFill, Idle
  <2> PICK old \in Carrier : old = h[p]
    BY <1>t, <2>1 DEF Carrying
  <2> PICK c \in Copies : c = old.copy
    BY CarrierRows
  <2> PICK s \in PagesHandlers : s = [at |-> "pageStore", copy |-> c]
    BY CarrierRows
  <2>2. Goto(p, s) /\ UNCHANGED <<page, viewer, writer, pageRedis>>
    BY <1>2, CarrierRows DEF PageFill
  <2>3. Within(c, 0)
    BY <1>o, <2>1 DEF Held
  <2>4. pageMemory' = [left |-> PageTtl, copy |-> c]
    BY <1>2 DEF PageFill
  <2>5. pageMemory' \in Entries /\ Lasts(pageMemory', StaleLimit)
    <3>1. Within(c, RefillTtl)
      BY <1>n, <2>3, WithinMore
    <3> QED
      BY <1>n, <2>4, <3>1, NewEntry
  <2>6. PagesTypeOK'
    BY <1>o, <2>2, <2>5 DEF PagesTypeOK, Entries
  <2>7. Held(s)
    BY <2>3 DEF Held
  <2> QED
    BY <1>o, <2>1, <2>2, <2>4, <2>5, <2>6, <2>7, PagesAlone, PagesMoves DEF Carrying
<1>3. CASE PageStore(p)
  <2>1. h[p].at = "pageStore" /\ h[p] # Idle
    BY <1>3 DEF PageStore, Idle
  <2> PICK c \in Copies : c = h[p].copy
    BY <1>t, <2>1, CarrierRows DEF Carrying
  <2>2. Goto(p, Idle) /\ UNCHANGED <<page, viewer, writer, pageMemory>>
    BY <1>3 DEF PageStore, End
  <2>3. Within(c, 0)
    BY <1>o, <2>1 DEF Held
  <2>4. pageRedis' = [left |-> PageTtl, copy |-> c]
    BY <1>3 DEF PageStore
  <2>5. pageRedis' \in Entries /\ Lasts(pageRedis', PageTtl)
    BY <1>n, <2>3, <2>4, NewEntry
  <2>6. PagesTypeOK'
    BY <1>n, <1>o, <2>2, <2>4, <2>5, RedisType DEF PagesTypeOK
  <2> QED
    BY <1>i, <1>o, <2>1, <2>2, <2>4, <2>5, <2>6, PagesAlone, PagesMoves DEF Carrying
<1>4. CASE PageFound(p)
  <2> PICK c \in Copies : c = pageRedis.copy
    BY <1>t, EntryRows
  <2> PICK s \in PagesHandlers : s = [at |-> "pageRefill", copy |-> c]
    BY PagesHandlerForms DEF Carrying
  <2>1. Goto(p, s) /\ (h[p] = Idle => MayStart) /\ UNCHANGED pagesVars /\ h[p] = Idle
        /\ pageRedis # NoCopy
    BY <1>4 DEF PageFound, Start
  <2>2. Held(s)
    <3>1. pageRedis.left \in Nat /\ Within(c, PageTtl - pageRedis.left)
      BY <1>o, <2>1 DEF Lasts
    <3>2. Within(c, PageTtl)
      BY <1>n, <3>1, WithinMore
    <3> QED
      BY <3>2 DEF Held
  <2>3. PagesTypeOK'
    BY <1>o, <2>1 DEF PagesTypeOK, pagesVars
  <2> QED
    BY <1>o, <2>1, <2>2, <2>3, PagesAlone, PagesMoves DEF pagesVars, Idle
<1>5. CASE PageRefill(p)
  <2>1. h[p].at = "pageRefill" /\ h[p] # Idle
    BY <1>5 DEF PageRefill, Idle
  <2> PICK c \in Copies : c = h[p].copy
    BY <1>t, <2>1, CarrierRows DEF Carrying
  <2>2. Goto(p, Idle) /\ UNCHANGED <<page, viewer, writer, pageRedis>>
    BY <1>5 DEF PageRefill, End, Refilled
  <2>3. Within(c, PageTtl)
    BY <1>o, <2>1 DEF Held
  <2>4. pageMemory' = [left |-> RefillTtl, copy |-> c]
    BY <1>5 DEF PageRefill
  <2>5. pageMemory' \in Entries /\ Lasts(pageMemory', StaleLimit)
    BY <1>n, <2>3, <2>4, NewEntry
  <2>6. PagesTypeOK'
    BY <1>o, <2>2, <2>5 DEF PagesTypeOK, Entries
  <2> QED
    BY <1>i, <1>o, <2>1, <2>2, <2>4, <2>5, <2>6, PagesAlone, PagesMoves DEF Carrying
<1> QED
  BY <1>1, <1>2, <1>3, <1>4, <1>5

\* A write overtakes a copy: it is behind from now on, and not for longer than before.
LEMMA OvertakenFacts ==
  ASSUME PagesInv, NEW c \in Copies
  PROVE  /\ Overtaken(c) \in Copies
         /\ \A b \in Nat : Within(c, b) => Within(Overtaken(c), b)
         /\ Overtaken(c).own /\ ~c.own /\ <<writer, page>> \notin Gaps => page \in Clears
<1>1. CASE Shows \cap Writes = {}
  BY <1>1 DEF Overtaken
<1>2. CASE Shows \cap Writes # {}
  <2>1. PICK b \in {UpToDate} \cup 0..(StaleLimit + 1) :
          /\ b = (IF c.behind = UpToDate THEN 0 ELSE c.behind)
          /\ b \in Int
    BY CopyRows, PagesConstants
  <2>2. PICK o \in BOOLEAN : o = (c.own \/ WriterOf[writer].by = viewer)
    OBVIOUS
  <2>3. Overtaken(c) = [behind |-> b, own |-> o]
    BY <1>2, <2>1, <2>2 DEF Overtaken
  <2>4. Overtaken(c) \in Copies
    BY <2>3 DEF Copies
  <2>5. ASSUME NEW n \in Nat, Within(c, n)
        PROVE  Within(Overtaken(c), n)
    BY <2>1, <2>3, <2>5, CopyRows, PagesConstants DEF Within
  <2>6. ASSUME o, ~c.own, <<writer, page>> \notin Gaps
        PROVE  page \in Clears
    <3>1. WriterOf[writer].by = viewer /\ viewer \in PageOf[page].viewers
      BY <2>2, <2>6 DEF PagesInv
    <3>2. Drops(writer, page)
      BY PagesFields, OwnPagesAreDropped
    <3> QED
      BY <1>2, <2>6, <3>1, <3>2 DEF Drops, Shows, Writes, Clears
  <2> QED
    BY <2>3, <2>4, <2>5, <2>6
<1> QED
  BY <1>1, <1>2

LEMMA OvertakenEntryFacts ==
  ASSUME PagesInv, NEW e \in Entries, NEW bound \in Nat, e.left <= bound, Lasts(e, bound)
  PROVE  /\ OvertakenEntry(e) \in Entries /\ OvertakenEntry(e).left = e.left
         /\ Lasts(OvertakenEntry(e), bound)
         /\ OvertakenEntry(e).copy.own /\ ~e.copy.own /\ <<writer, page>> \notin Gaps =>
              page \in Clears
<1>1. CASE e = NoCopy
  BY <1>1, FreshFacts DEF OvertakenEntry
<1>2. CASE e # NoCopy
  <2>1. PICK n \in -1..StaleLimit, c \in Copies : n = e.left /\ c = e.copy
    BY EntryRows
  <2>2. PICK d \in Copies : d = Overtaken(c)
    BY OvertakenFacts
  <2>3. OvertakenEntry(e) = [left |-> n, copy |-> d]
    BY <1>2, <2>1, <2>2, EntryRows DEF OvertakenEntry
  <2>4. n \in Nat /\ Within(c, bound - n)
    BY <1>2, <2>1 DEF Lasts
  <2>5. Within(d, bound - n)
    BY <2>1, <2>2, <2>4, OvertakenFacts
  <2>6. [left |-> n, copy |-> d] \in Entries /\ Lasts([left |-> n, copy |-> d], bound)
    BY <2>4, <2>5, EntryRows DEF Lasts
  <2> QED
    BY <2>1, <2>2, <2>3, <2>6, OvertakenFacts
<1> QED
  BY <1>1, <1>2

LEMMA PagesWrites ==
  ASSUME PagesInv, NEW p \in Procs, regime' = regime, WriteCommits(p)
  PROVE  PagesInv'
<1>t. /\ pageMemory \in Entries /\ pageRedis \in Entries /\ pageRedis.left <= PageTtl
      /\ \A q \in Procs : /\ h[q] \in {Idle} \cup PagesHandlers
                          /\ h[q].at \in Carrying => h[q] \in Carrier
  BY PagesFields
<1>n. PageTtl \in Nat /\ StaleLimit \in Nat
  BY PagesConstants
<1>1. h[p] = Idle /\ MayStart /\ UNCHANGED <<page, viewer, writer>>
  BY DEF WriteCommits
<1> PICK s \in {Idle} \cup PagesHandlers : s = IF Clears = {} THEN Idle ELSE [at |-> "writeClear"]
  BY PagesHandlerForms
<1>2. s.at \notin Carrying
  BY DEF Idle, Carrying
<1>3. pageMemory.left <= StaleLimit
  BY <1>t, <1>n, EntryRows
<1>4. /\ pageMemory' \in Entries /\ Lasts(pageMemory', StaleLimit)
      /\ pageRedis' \in Entries /\ pageRedis'.left <= PageTtl /\ Lasts(pageRedis', PageTtl)
  <2>1. pageMemory' = OvertakenEntry(pageMemory) /\ pageRedis' = OvertakenEntry(pageRedis)
    BY DEF WriteCommits
  <2>2. Lasts(pageMemory, StaleLimit) /\ Lasts(pageRedis, PageTtl)
    BY DEF PagesInv
  <2> QED
    BY <1>t, <1>n, <1>3, <2>1, <2>2, OvertakenEntryFacts
<1>5. /\ h' \in [Procs -> {Idle} \cup PagesHandlers]
      /\ \A q \in Procs : Held(h'[q])
      /\ \A q \in Procs : h'[q].at = (IF q = p THEN s ELSE h[q]).at
  <2> SUFFICES ASSUME NEW q \in Procs
               PROVE  /\ h'[q] \in {Idle} \cup PagesHandlers
                      /\ Held(h'[q])
                      /\ h'[q].at = (IF q = p THEN s ELSE h[q]).at
    BY DEF WriteCommits
  <2>1. CASE q = p
    BY <1>2, <2>1 DEF WriteCommits, Held, Carrying
  <2>2. CASE q # p /\ h[q].at \notin Carrying
    BY <1>t, <2>2 DEF WriteCommits, PagesInv
  <2>3. CASE q # p /\ h[q].at \in Carrying
    <3> PICK old \in Carrier : old = h[q]
      BY <1>t, <2>3
    <3> PICK c \in Copies, d \in Copies : c = old.copy /\ d = Overtaken(c)
      BY CarrierRows, OvertakenFacts
    <3>1. h'[q] = [at |-> old.at, copy |-> d] /\ h'[q] \in PagesHandlers
      <4>1. h'[q] = [h[q] EXCEPT !.copy = Overtaken(h[q].copy)]
        BY <2>3 DEF WriteCommits
      <4>2. h'[q] = [old EXCEPT !.copy = d]
        BY <4>1, Zenon
      <4>3. [old EXCEPT !.copy = d] = [at |-> old.at, copy |-> d]
            /\ [at |-> old.at, copy |-> d] \in PagesHandlers
        BY CarrierRows
      <4> QED
        BY <4>2, <4>3
    <3>2. Held(h[q])
      BY DEF PagesInv
    <3>3. Held(h'[q])
      BY <1>n, <3>1, <3>2, OvertakenFacts DEF Held
    <3> QED
      BY <2>3, <3>1, <3>3
  <2> QED
    BY <2>1, <2>2, <2>3
<1>6. ASSUME regime = "undisturbed", <<writer, page>> \notin Gaps
      PROVE  OwnCleared'
  <2>1. \A q \in Procs : h[q] = Idle
    BY <1>1, <1>6, PagesAlone
  <2>2. \A q \in Procs : h'[q] = IF q = p THEN s ELSE Idle
    BY <2>1 DEF WriteCommits, Idle, Carrying
  <2>3. ~pageMemory.copy.own /\ ~pageRedis.copy.own
    BY <1>1, <1>6, PagesAlone DEF Idle
  <2>4. (pageMemory'.copy.own \/ pageRedis'.copy.own) => page \in Clears
    <3>1. pageMemory' = OvertakenEntry(pageMemory) /\ pageRedis' = OvertakenEntry(pageRedis)
      BY DEF WriteCommits
    <3>2. Lasts(pageMemory, StaleLimit) /\ Lasts(pageRedis, PageTtl)
      BY DEF PagesInv
    <3> QED
      BY <1>t, <1>n, <1>3, <1>6, <2>3, <3>1, <3>2, OvertakenEntryFacts
  <2>5. page \in Clears => s.at = "writeClear"
    OBVIOUS
  <2>6. Clears' = Clears /\ page' = page
    BY <1>1 DEF Clears
  <2> QED
    BY <1>2, <2>2, <2>4, <2>5, <2>6 DEF OwnCleared, Idle, Carrying
<1>7. PagesTypes'
  BY <1>1, <1>4, <1>5, RedisType DEF PagesInv, PagesTypes, PagesTypeOK, Entries
<1> QED
  BY <1>1, <1>4, <1>5, <1>6, <1>7 DEF PagesInv

LEMMA PagesClears ==
  ASSUME PagesInv, NEW p \in Procs, regime' = regime,
         WriteClear(p) \/ WriteClearRedis(p) \/ PagesStop(p)
  PROVE  PagesInv'
<1>o. PagesTypeOK /\ Lasts(pageMemory, StaleLimit) /\ Lasts(pageRedis, PageTtl)
  BY DEF PagesInv, PagesTypes
<1>n. NoCopy \in [left : -1..PageTtl, copy : Copies] /\ NoCopy \in Entries
      /\ ~NoCopy.copy.own /\ \A bound : Lasts(NoCopy, bound)
  BY FreshFacts, PagesConstants DEF Lasts, NoCopy
<1>i. Idle \in {Idle} \cup PagesHandlers /\ Held(Idle) /\ Idle.at \notin Carrying
  BY DEF Held, Idle, Carrying
<1>1. CASE WriteClear(p)
  <2> PICK s \in PagesHandlers : s = [at |-> "writeClearRedis"]
    BY PagesHandlerForms
  <2>1. /\ h[p].at = "writeClear" /\ h[p] # Idle /\ Goto(p, s)
        /\ UNCHANGED <<page, viewer, writer, pageRedis>>
        /\ pageMemory' = IF page \in Clears THEN NoCopy ELSE pageMemory
    BY <1>1 DEF WriteClear, Idle
  <2>2. Held(s) /\ s.at \notin Carrying
    BY DEF Held, Carrying
  <2>3. PagesTypeOK' /\ Lasts(pageMemory', StaleLimit)
    BY <1>o, <1>n, <2>1 DEF PagesTypeOK, Entries
  <2> QED
    BY <1>o, <1>n, <2>1, <2>2, <2>3, PagesAlone, PagesMoves
<1>2. CASE WriteClearRedis(p)
  <2>1. /\ h[p].at = "writeClearRedis" /\ h[p] # Idle /\ Goto(p, Idle)
        /\ UNCHANGED <<page, viewer, writer, pageMemory>>
        /\ pageRedis' = IF page \in Clears THEN NoCopy ELSE pageRedis
    BY <1>2 DEF WriteClearRedis, End, Dropped, Idle
  <2>2. PagesTypeOK' /\ Lasts(pageRedis', PageTtl)
    BY <1>o, <1>n, <2>1 DEF PagesTypeOK
  <2> QED
    BY <1>i, <1>o, <1>n, <2>1, <2>2, PagesAlone, PagesMoves
<1>3. CASE PagesStop(p)
  <2>1. /\ regime # "undisturbed" /\ h[p] # Idle /\ Goto(p, Idle)
        /\ UNCHANGED pagesVars
    BY <1>3 DEF PagesStop, Stop, MayFail, End
  <2>2. PagesTypeOK'
    BY <1>o, <2>1 DEF PagesTypeOK, pagesVars
  <2> QED
    BY <1>i, <1>o, <2>1, <2>2, PagesMoves DEF pagesVars
<1> QED
  BY <1>1, <1>2, <1>3

LEMMA OlderFacts ==
  ASSUME NEW e \in Entries, NEW bound \in Nat, bound <= StaleLimit, Lasts(e, bound)
  PROVE  /\ OlderEntry(e) \in Entries
         /\ OlderEntry(e).left = -1 \/ OlderEntry(e).left <= e.left
         /\ Lasts(OlderEntry(e), bound)
         /\ OlderEntry(e).copy.own => e.copy.own
<1>1. CASE e.left <= 0
  BY <1>1, FreshFacts DEF OlderEntry, Lasts
<1>2. CASE ~(e.left <= 0)
  <2>1. PICK n \in -1..StaleLimit, c \in Copies : n = e.left /\ c = e.copy
    BY EntryRows
  <2>2. n \in Nat /\ n > 0 /\ n - 1 \in Nat /\ n - 1 \in -1..StaleLimit
    BY <1>2, <2>1, PagesConstants
  <2>3. Within(c, bound - n)
    BY <1>2, <2>1, FreshFacts DEF Lasts
  <2>4. PICK b \in {UpToDate} \cup 0..(StaleLimit + 1) :
          /\ b = (IF c.behind = UpToDate THEN c.behind ELSE c.behind + 1)
          /\ b = UpToDate \/ b <= bound - (n - 1)
    BY <2>2, <2>3, CopyRows, PagesConstants DEF Within
  <2>5. PICK d \in Copies : d = [behind |-> b, own |-> c.own] /\ d = [c EXCEPT !.behind = b]
                            /\ d.behind = b /\ d.own = c.own
    BY CopyRows
  <2>6. OlderEntry(e) = [left |-> n - 1, copy |-> d]
    BY <1>2, <2>1, <2>4, <2>5 DEF OlderEntry
  <2>7. Within(d, bound - (n - 1))
    BY <2>4, <2>5 DEF Within
  <2>8. [left |-> n - 1, copy |-> d] \in Entries
    BY <2>2, EntryRows
  <2> QED
    BY <2>1, <2>2, <2>5, <2>6, <2>7, <2>8 DEF Lasts
<1> QED
  BY <1>1, <1>2

LEMMA PagesTick ==
  ASSUME PagesInv, PagesTimePasses
  PROVE  PagesInv'
<1>t. /\ pageMemory \in Entries /\ pageRedis \in Entries /\ pageRedis.left <= PageTtl
  BY PagesFields
<1>n. PageTtl \in Nat /\ StaleLimit \in Nat /\ PageTtl <= StaleLimit
  BY PagesConstants
<1>1. /\ \A p \in Procs : h[p] = Idle
      /\ UNCHANGED <<page, viewer, writer, regime, h>>
      /\ pageMemory' = OlderEntry(pageMemory) /\ pageRedis' = OlderEntry(pageRedis)
  BY DEF PagesTimePasses, Quiet
<1>2. Lasts(pageMemory, StaleLimit) /\ Lasts(pageRedis, PageTtl)
  BY DEF PagesInv
<1>3. /\ pageMemory' \in Entries /\ Lasts(pageMemory', StaleLimit)
      /\ pageMemory'.copy.own => pageMemory.copy.own
  BY <1>t, <1>n, <1>1, <1>2, OlderFacts
<1>4. /\ pageRedis' \in Entries /\ pageRedis'.left <= PageTtl /\ Lasts(pageRedis', PageTtl)
      /\ pageRedis'.copy.own => pageRedis.copy.own
  <2>1. pageRedis.left \in Int /\ OlderEntry(pageRedis).left \in Int
    BY <1>t, <1>n, <1>2, OlderFacts DEF Entries
  <2> QED
    BY <1>t, <1>n, <1>1, <1>2, <2>1, OlderFacts
<1>5. PagesTypes'
  BY <1>1, <1>3, <1>4, RedisType DEF PagesInv, PagesTypes, PagesTypeOK, Entries
<1>6. regime = "undisturbed" /\ <<writer, page>> \notin Gaps => OwnCleared'
  BY <1>1, <1>3, <1>4 DEF PagesInv, OwnCleared, Clears
<1> QED
  BY <1>1, <1>3, <1>4, <1>5, <1>6 DEF PagesInv

LEMMA PagesInvNext == PagesInv /\ [PagesNext]_pageVars => PagesInv'
<1>1. ASSUME PagesInv, PagesNext
      PROVE  PagesInv'
  BY <1>1, PagesReads, PagesWrites, PagesClears, PagesTick DEF PagesNext, PagesStep
<1>2. ASSUME PagesInv, UNCHANGED pageVars
      PROVE  PagesInv'
  BY <1>2 DEF pageVars, pagesVars, PagesInv, PagesTypes, PagesTypeOK, OwnCleared, Clears
<1> QED
  BY <1>1, <1>2

\* Type correctness of the copies of a page and of the handlers that carry one.
THEOREM PagesTypeCorrect == PagesSpec => []PagesTypes
<1>1. PagesInv => PagesTypes
  BY DEF PagesInv
<1> QED
  BY <1>1, PagesInvInit, PagesInvNext, PTL DEF PagesSpec

LEMMA PagesKept == PagesInv => PagesCatchUp
<1> SUFFICES ASSUME PagesInv
             PROVE  PagesCatchUp
  OBVIOUS
<1>1. ASSUME NEW e \in Entries, NEW bound \in Nat, bound <= StaleLimit, Lasts(e, bound)
      PROVE  e.copy.behind <= StaleLimit
  <2>1. CASE e = NoCopy
    BY <2>1, FreshFacts, PagesConstants
  <2>2. CASE e # NoCopy
    BY <1>1, <2>2, PagesConstants, EntryRows, CopyRows DEF Lasts, Within
  <2> QED
    BY <2>1, <2>2
<1>2. StaleResponseExpires
  BY <1>1, PagesFields, PagesConstants DEF PagesInv, StaleResponseExpires
<1>3. ReadsOwnWrites
  BY DEF PagesInv, OwnCleared, ReadsOwnWrites, Quiet, Idle
<1> QED
  BY <1>2, <1>3 DEF PagesCatchUp

\* Cached pages catch up with the rows: for everyone within the lives of two copies,
\* and for a writer whose requests come one by one with the answer, on every page but
\* the Gaps.
THEOREM PagesCaughtUp == PagesSpec => []PagesCatchUp
<1> QED
  BY PagesKept, PagesInvInit, PagesInvNext, PTL DEF PagesSpec

(***************************************************************************)
(* Chat: messages and notices are numbered as they come, so a page of notices *)
(* is a stretch of numbers read downwards and the cursor cuts it where the    *)
(* next one begins; what comes in meanwhile is numbered above.               *)
(***************************************************************************)
chatsVars == <<regime, h, chatVars>>

ChatStarts ==
  /\ regime \in Regimes
  /\ h = [p \in Procs |-> Idle]
  /\ ChatInit

ChatSpec == ChatStarts /\ [][ChatNext]_chatsVars

ChatTypes ==
  /\ ChatTypeOK
  /\ h \in [Procs -> {Idle} \cup ChatHandlers]

LEMMA ChatConstants ==
  /\ IsFiniteSet(Procs)
  /\ MaxMessages \in Nat /\ NoticePage \in Nat /\ NoticePage >= 1
  BY ChatAssumption DEF ChatAssumption

(***************************************************************************)
(* Pages of the inbox.                                                     *)
(***************************************************************************)
LEMMA PrefixCount ==
  ASSUME NEW c \in Nat
  PROVE  Cardinality(1..c) = c
<1>1. Cardinality(1..c) = IF 1 > c THEN 0 ELSE c - 1 + 1
  BY FS_Interval
<1> QED
  BY <1>1

LEMMA NewestOfPrefix ==
  ASSUME NEW k \in Nat
  PROVE  NewestFirst(1..k) = [n \in 1..k |-> k - n + 1]
<1>1. Cardinality(1..k) = k
  BY PrefixCount
<1>2. ASSUME NEW m \in 1..k
      PROVE  Cardinality({j \in 1..k : j > m}) = k - m
  <2>1. {j \in 1..k : j > m} = (m + 1)..k
    OBVIOUS
  <2> PICK a \in Int : a = m + 1 /\ (IF a > k THEN 0 ELSE k - a + 1) = k - m
    OBVIOUS
  <2>2. Cardinality(a..k) = IF a > k THEN 0 ELSE k - a + 1
    BY FS_Interval
  <2> QED
    BY <2>1, <2>2
<1>3. ASSUME NEW n \in 1..k
      PROVE  (CHOOSE m \in 1..k : Cardinality({j \in 1..k : j > m}) = n - 1) = k - n + 1
  <2>1. k - n + 1 \in 1..k
    OBVIOUS
  <2>2. ASSUME NEW m \in 1..k
        PROVE  Cardinality({j \in 1..k : j > m}) = n - 1 <=> m = k - n + 1
    <3>1. k - m = n - 1 <=> m = k - n + 1
      OBVIOUS
    <3> QED
      BY <1>2, <3>1
  <2> QED
    BY <2>1, <2>2
<1> QED
  BY <1>1, <1>3 DEF NewestFirst

\* A page: the newest of those that are left, downwards.
LEMMA PageOfPrefix ==
  ASSUME NEW k \in Nat
  PROVE  /\ PageAfter(1..k) \in Seq(Nat)
         /\ Len(PageAfter(1..k)) = IF k > NoticePage THEN NoticePage ELSE k
         /\ \A n \in 1..Len(PageAfter(1..k)) : PageAfter(1..k)[n] = k - n + 1
<1> DEFINE all == [n \in 1..k |-> k - n + 1]
<1>1. NewestFirst(1..k) = all
  BY NewestOfPrefix
<1>2. all \in Seq(Nat) /\ Len(all) = k /\ \A n \in 1..k : all[n] = k - n + 1 /\ all[n] \in Nat
  OBVIOUS
<1>3. CASE k > NoticePage
  <2>1. PageAfter(1..k) = SubSeq(all, 1, NoticePage)
    BY <1>1, <1>2, <1>3 DEF PageAfter
  <2>2. 1..NoticePage \subseteq 1..k
    BY <1>3, ChatConstants
  <2> HIDE DEF all
  <2>3. /\ SubSeq(all, 1, NoticePage) \in Seq(Nat)
        /\ Len(SubSeq(all, 1, NoticePage)) = NoticePage
        /\ \A i \in 1..NoticePage : SubSeq(all, 1, NoticePage)[i] = all[i]
    BY <1>2, <2>2, ChatConstants
  <2> QED
    BY <1>2, <1>3, <2>1, <2>2, <2>3
<1>4. CASE ~(k > NoticePage)
  <2>1. PageAfter(1..k) = all
    BY <1>1, <1>2, <1>4 DEF PageAfter
  <2> QED
    BY <1>2, <1>4, <2>1
<1> QED
  BY <1>3, <1>4

\* What has been leafed through of top notices: downwards from the newest to the cursor.
Leafed(saw, top, cursor) ==
  /\ saw \in Seq(Nat) /\ cursor \in 0..top
  /\ Len(saw) = IF cursor = 0 THEN top ELSE top - cursor + 1
  /\ \A n \in 1..Len(saw) : saw[n] = top - n + 1

\* The cursor a page of k notices leaves.
CursorAfter(k) == IF Len(PageAfter(1..k)) = NoticePage THEN PageAfter(1..k)[NoticePage] ELSE 0

LEMMA PageFacts ==
  ASSUME NEW k \in Nat
  PROVE  \E leaf \in Seq(Nat), len \in Nat :
           /\ leaf = PageAfter(1..k) /\ len = Len(leaf)
           /\ len = IF k > NoticePage THEN NoticePage ELSE k
           /\ \A n \in Nat : n >= 1 /\ n <= len => leaf[n] = k - n + 1
           /\ CursorAfter(k) = IF len = NoticePage THEN k - NoticePage + 1 ELSE 0
<1> PICK leaf \in Seq(Nat) : leaf = PageAfter(1..k)
  BY PageOfPrefix
<1> PICK len \in Nat : len = Len(leaf)
  BY LenProperties
<1>1. len = (IF k > NoticePage THEN NoticePage ELSE k)
  BY PageOfPrefix
<1>2. \A n \in 1..len : leaf[n] = k - n + 1
  BY PageOfPrefix
<1>3. \A n \in Nat : n >= 1 /\ n <= len => leaf[n] = k - n + 1
  BY <1>2
<1>4. CursorAfter(k) = IF len = NoticePage THEN k - NoticePage + 1 ELSE 0
  BY <1>3, ChatConstants DEF CursorAfter
<1> QED
  BY <1>1, <1>3, <1>4

LEMMA FirstLeaf ==
  ASSUME NEW k \in Nat
  PROVE  Leafed(PageAfter(1..k), k, CursorAfter(k))
<1> PICK leaf \in Seq(Nat), len \in Nat :
      /\ leaf = PageAfter(1..k) /\ len = Len(leaf)
      /\ len = IF k > NoticePage THEN NoticePage ELSE k
      /\ \A n \in Nat : n >= 1 /\ n <= len => leaf[n] = k - n + 1
      /\ CursorAfter(k) = IF len = NoticePage THEN k - NoticePage + 1 ELSE 0
  BY PageFacts
<1>1. NoticePage \in Nat /\ NoticePage >= 1
  BY ChatConstants
<1>2. CursorAfter(k) \in 0..k /\ len = IF CursorAfter(k) = 0 THEN k ELSE k - CursorAfter(k) + 1
  BY <1>1
<1>3. \A n \in 1..len : leaf[n] = k - n + 1
  OBVIOUS
<1> QED
  BY <1>2, <1>3 DEF Leafed

LEMMA NextLeaf ==
  ASSUME NEW top \in Nat, NEW saw, NEW cursor, Leafed(saw, top, cursor), cursor # 0
  PROVE  Leafed(saw \o PageAfter(1..(cursor - 1)), top, CursorAfter(cursor - 1))
<1>1. NoticePage \in Nat /\ NoticePage >= 1 /\ cursor \in 1..top /\ saw \in Seq(Nat)
      /\ Len(saw) = top - cursor + 1 /\ Len(saw) \in Nat
  BY ChatConstants DEF Leafed
<1> PICK k \in Nat : k = cursor - 1
  BY <1>1
<1> PICK leaf \in Seq(Nat), len \in Nat :
      /\ leaf = PageAfter(1..k) /\ len = Len(leaf)
      /\ len = IF k > NoticePage THEN NoticePage ELSE k
      /\ \A n \in Nat : n >= 1 /\ n <= len => leaf[n] = k - n + 1
      /\ CursorAfter(k) = IF len = NoticePage THEN k - NoticePage + 1 ELSE 0
  BY PageFacts
<1> PICK seen \in Nat : seen = Len(saw)
  BY <1>1
<1>0. seen + k = top /\ k < top
  <2>1. k = cursor - 1 /\ seen = top - cursor + 1 /\ cursor \in Nat /\ cursor >= 1 /\ cursor <= top
    BY <1>1
  <2> QED
    BY <2>1
<1>2. /\ saw \o leaf \in Seq(Nat) /\ Len(saw \o leaf) = seen + len
      /\ \A n \in 1..(seen + len) :
           (saw \o leaf)[n] = IF n <= seen THEN saw[n] ELSE leaf[n - seen]
  <2>1. saw \in Seq(Nat) /\ leaf \in Seq(Nat)
    BY <1>1
  <2>2. /\ saw \o leaf \in Seq(Nat) /\ Len(saw \o leaf) = Len(saw) + Len(leaf)
        /\ \A n \in 1..Len(saw) + Len(leaf) :
             (saw \o leaf)[n] = IF n <= Len(saw) THEN saw[n] ELSE leaf[n - Len(saw)]
    BY ONLY <2>1, ConcatProperties, Zenon
  <2> QED
    BY <2>2, Zenon
<1>3. ASSUME NEW n \in 1..(seen + len)
      PROVE  (saw \o leaf)[n] = top - n + 1
  <2>1. CASE n <= seen
    BY <1>1, <1>2, <2>1 DEF Leafed
  <2>2. CASE ~(n <= seen)
    <3>0. n - seen \in Nat /\ n - seen >= 1 /\ n - seen <= len
      BY <2>2
    <3> PICK i \in Nat : i = n - seen /\ i >= 1 /\ i <= len
      BY <3>0
    <3>1. leaf[i] = k - i + 1
      OBVIOUS
    <3>2. k - i + 1 = top - n + 1
      BY <1>1
    <3> QED
      BY <1>2, <2>2, <3>1, <3>2
  <2> QED
    BY <2>1, <2>2
<1>4. CursorAfter(k) \in 0..top
      /\ seen + len = IF CursorAfter(k) = 0 THEN top ELSE top - CursorAfter(k) + 1
  <2>1. CASE len = NoticePage
    <3>1. CursorAfter(k) = k - NoticePage + 1 /\ NoticePage <= k
      BY <1>1, <2>1
    <3>2. k - NoticePage + 1 \in 0..top /\ k - NoticePage + 1 # 0
          /\ seen + len = top - (k - NoticePage + 1) + 1
      <4>1. NoticePage \in Nat /\ NoticePage >= 1
        BY <1>1
      <4> QED
        BY ONLY <1>0, <2>1, <3>1, <4>1, top \in Nat, k \in Nat, seen \in Nat, SMT
    <3> QED
      BY <3>1, <3>2
  <2>2. CASE len # NoticePage
    <3>1. CursorAfter(k) = 0 /\ len = k
      BY <2>2
    <3>2. 0 \in 0..top /\ seen + len = top
      BY ONLY <1>0, <3>1, top \in Nat, SMT
    <3> QED
      BY <3>1, <3>2
  <2> QED
    BY <2>1, <2>2
<1> QED
  BY <1>2, <1>3, <1>4 DEF Leafed

\* Leafed to the end, each notice is there once.
LEMMA LeafedOnce ==
  ASSUME NEW top \in Nat, NEW saw, Leafed(saw, top, 0), NEW m \in 1..top
  PROVE  Cardinality({n \in DOMAIN saw : saw[n] = m}) = 1
<1>1. DOMAIN saw = 1..top /\ \A n \in 1..top : saw[n] = top - n + 1
  BY DEF Leafed
<1>2. {n \in DOMAIN saw : saw[n] = m} = {top - m + 1}
  BY <1>1
<1> QED
  BY <1>2, FS_Singleton

(***************************************************************************)
(* Handlers.                                                               *)
(***************************************************************************)
Asks == [at : {"chatCreate", "chatFind", "chatDo"}, who : Members, want : Wants]
Notes == [at : {"chatPush", "chatInbox"}, to : Members]
Pagers == [who : Members, there : SUBSET Messages, cursor : 0..(MaxMessages + 1),
           saw : Seq(Messages)]

Posts(s) == s.at \in {"chatCreate", "chatFind", "chatDo"} /\ s.want = "post"
Tells(s) == s.at \in {"chatPush", "chatInbox"}
Telling == {p \in Procs : Tells(h[p])}

LEMMA ChatHandlerRows ==
  /\ ChatHandlers = Asks \cup Notes
  /\ \A r \in Asks :
       /\ r.who \in Members /\ r.want \in Wants
       /\ \A at \in {"chatCreate", "chatFind", "chatDo"} :
            /\ [r EXCEPT !.at = at] = [at |-> at, who |-> r.who, want |-> r.want]
            /\ [at |-> at, who |-> r.who, want |-> r.want] \in Asks
  /\ \A r \in Notes :
       /\ r.to \in Members
       /\ [r EXCEPT !.at = "chatInbox"] = [at |-> "chatInbox", to |-> r.to]
       /\ [at |-> "chatInbox", to |-> r.to] \in Notes
  BY DEF ChatHandlers, Asks, Notes

LEMMA ChatHandlerKinds ==
  ASSUME NEW s \in {Idle} \cup ChatHandlers
  PROVE  /\ s.at \in {"chatCreate", "chatFind", "chatDo"} => s \in Asks
         /\ s.at \in {"chatPush", "chatInbox"} => s \in Notes
         /\ s = Idle => s.at = "idle"
  BY ChatHandlerRows DEF Asks, Notes, Idle

\* Messages and notices are numbered without a gap; every notice in flight or in an
\* inbox is of a message stored, and every message to be stored has its number left;
\* what a pager has seen is the notices from the newest down to its cursor.
Numbered ==
  \E c \in Nat :
    /\ Written = 1..c
    /\ c + Cardinality(Posting) <= MaxMessages
    /\ \A who \in Members : Len(inbox[who]) + Cardinality(Telling) <= c

Paged(inboxes, pg) ==
  \E top \in Nat : /\ top <= Len(inboxes[pg.who]) /\ pg.there = 1..top
                   /\ Leafed(pg.saw, top, pg.cursor)

ChatInv ==
  /\ ChatTypes
  /\ inbox \in [Members -> Seq(BOOLEAN)] /\ pager \in Pagers
  /\ ~refused
  /\ thread = "none" => Written = {} /\ \A p \in Procs : h[p].at \notin {"chatFind", "chatDo"}
  /\ Numbered
  /\ Paged(inbox, pager)

LEMMA PagerFits ==
  ASSUME NEW top \in Nat, top <= MaxMessages, NEW saw, NEW cursor, Leafed(saw, top, cursor),
         NEW who \in Members
  PROVE  [who |-> who, there |-> 1..top, cursor |-> cursor, saw |-> saw] \in Pagers
<1>1. MaxMessages \in Nat
  BY ChatConstants
<1>2. 1..top \in SUBSET Messages
  BY <1>1 DEF Messages
<1>3. cursor \in 0..(MaxMessages + 1)
  BY <1>1 DEF Leafed
<1>4. saw \in Seq(Messages)
  <2>2. saw \in Seq(Nat) /\ Len(saw) \in Nat /\ cursor \in Nat /\ cursor <= top
    BY DEF Leafed
  <2> PICK n \in Nat, c \in Nat : n = Len(saw) /\ c = cursor /\ c <= top
    BY <2>2
  <2>3. n <= top
    <3>1. n = IF c = 0 THEN top ELSE top - c + 1
      BY DEF Leafed
    <3> QED
      BY <3>1
  <2>1. \A i \in 1..n : saw[i] \in Messages
    BY <1>1, <2>3 DEF Leafed, Messages
  <2> QED
    BY <2>1, <2>2
<1> QED
  BY <1>2, <1>3, <1>4 DEF Pagers

LEMMA ChatInvInit == ChatStarts => ChatInv
<1> SUFFICES ASSUME ChatStarts
             PROVE  ChatInv
  OBVIOUS
<1>0. MaxMessages \in Nat
  BY ChatConstants
<1>1. /\ \A p \in Procs : h[p] = Idle
      /\ sender = [m \in Messages |-> NoSender]
      /\ inbox = [who \in Members |-> <<>>]
      /\ pager = NotPaging /\ thread = "none" /\ ~refused
  BY DEF ChatStarts, ChatInit
<1>2. Posting = {} /\ Telling = {} /\ Written = {} /\ Cardinality({}) = 0 /\ 1..0 = {}
  BY <1>1, FS_EmptySet DEF Posting, Telling, Tells, Written, Idle
<1>3. inbox \in [Members -> Seq(BOOLEAN)] /\ \A who \in Members : Len(inbox[who]) = 0
  BY <1>1
<1>4. Numbered
  BY <1>0, <1>2, <1>3 DEF Numbered
<1>5. Leafed(<<>>, 0, 0)
  BY DEF Leafed
<1>6. pager \in Pagers
  <2>1. [who |-> "shop", there |-> 1..0, cursor |-> 0, saw |-> <<>>] \in Pagers
    <3>1. 0 \in Nat /\ 0 <= MaxMessages /\ "shop" \in Members
      BY <1>0 DEF Members
    <3> QED
      BY <1>5, <3>1, PagerFits, Zenon
  <2>2. [who |-> "shop", there |-> 1..0, cursor |-> 0, saw |-> <<>>] = NotPaging
    BY <1>2 DEF NotPaging
  <2> QED
    BY <1>1, <2>1, <2>2
<1>7. Paged(inbox, pager)
  BY <1>1, <1>2, <1>3, <1>5 DEF Paged, NotPaging, Members
<1>8. ChatTypes
  <2>1. sender \in [Messages -> Members \cup {NoSender}]
    BY <1>1
  <2>2. alerts \in [Members -> BOOLEAN] /\ refused \in BOOLEAN
        /\ h \in [Procs -> {Idle} \cup ChatHandlers]
    BY DEF ChatStarts, ChatInit
  <2> QED
    BY <1>0, <1>1, <1>3, <1>6, <2>1, <2>2 DEF ChatTypes, ChatTypeOK, Pagers
<1> QED
  BY <1>1, <1>2, <1>3, <1>4, <1>6, <1>7, <1>8 DEF ChatInv, Idle

LEMMA SlotCounts ==
  ASSUME NEW S \in SUBSET Procs, NEW T \in SUBSET Procs, NEW p \in Procs
  PROVE  /\ Cardinality(S) \in Nat /\ Cardinality(T) \in Nat
         /\ T \subseteq S => Cardinality(T) <= Cardinality(S)
         /\ T \subseteq S \cup {p} => Cardinality(T) <= Cardinality(S) + 1
         /\ T \subseteq S \ {p} /\ p \in S => Cardinality(T) + 1 <= Cardinality(S)
<1>1. IsFiniteSet(S) /\ IsFiniteSet(T)
  BY ChatConstants, FS_Subset
<1>2. Cardinality(S) \in Nat /\ Cardinality(T) \in Nat
  BY <1>1, FS_CardinalityType
<1>3. T \subseteq S => Cardinality(T) <= Cardinality(S)
  BY <1>1, FS_Subset
<1>4. ASSUME T \subseteq S \cup {p}
      PROVE  Cardinality(T) <= Cardinality(S) + 1
  <2>1. IsFiniteSet(S \cup {p}) /\ Cardinality(S \cup {p}) \in Nat
        /\ Cardinality(S \cup {p}) <= Cardinality(S) + 1
    <3>1. IsFiniteSet(S \cup {p})
          /\ Cardinality(S \cup {p}) = IF p \in S THEN Cardinality(S) ELSE Cardinality(S) + 1
      BY <1>1, FS_AddElement
    <3> QED
      BY <1>2, <3>1
  <2>2. Cardinality(T) <= Cardinality(S \cup {p})
    BY <1>4, <2>1, FS_Subset
  <2> QED
    BY <1>2, <2>1, <2>2
<1>5. ASSUME T \subseteq S \ {p}, p \in S
      PROVE  Cardinality(T) + 1 <= Cardinality(S)
  <2>1. IsFiniteSet(S \ {p}) /\ Cardinality(S \ {p}) = Cardinality(S) - 1
    BY <1>1, <1>5, FS_RemoveElement
  <2>2. Cardinality(T) <= Cardinality(S \ {p})
    BY <1>5, <2>1, FS_Subset
  <2> QED
    BY <1>2, <2>1, <2>2
<1> QED
  BY <1>2, <1>3, <1>4, <1>5

LEMMA ChatGoto ==
  ASSUME ChatInv, NEW p \in Procs, NEW s \in {Idle} \cup ChatHandlers, Goto(p, s)
  PROVE  /\ h' \in [Procs -> {Idle} \cup ChatHandlers]
         /\ \A q \in Procs : h'[q] = IF q = p THEN s ELSE h[q]
         /\ \A n \in {Cardinality(Posting), Cardinality(Posting'),
                      Cardinality(Telling), Cardinality(Telling')} : n \in Nat
         /\ Cardinality(Posting') <= Cardinality(Posting) + 1
         /\ (Posts(s) => Posts(h[p])) => Cardinality(Posting') <= Cardinality(Posting)
         /\ Posts(h[p]) /\ ~Posts(s) => Cardinality(Posting') + 1 <= Cardinality(Posting)
         /\ Cardinality(Telling') <= Cardinality(Telling) + 1
         /\ (Tells(s) => Tells(h[p])) => Cardinality(Telling') <= Cardinality(Telling)
         /\ Tells(h[p]) /\ ~Tells(s) => Cardinality(Telling') + 1 <= Cardinality(Telling)
<1>1. h \in [Procs -> {Idle} \cup ChatHandlers]
  BY DEF ChatInv, ChatTypes
<1>2. h' \in [Procs -> {Idle} \cup ChatHandlers]
      /\ \A q \in Procs : h'[q] = IF q = p THEN s ELSE h[q]
  BY <1>1 DEF Goto
<1>3. /\ Posting = {q \in Procs : Posts(h[q])} /\ Posting' = {q \in Procs : Posts(h'[q])}
      /\ Telling = {q \in Procs : Tells(h[q])} /\ Telling' = {q \in Procs : Tells(h'[q])}
  BY DEF Posting, Telling, Posts
<1>4. /\ Posting \in SUBSET Procs /\ Posting' \in SUBSET Procs
      /\ Posting' \subseteq Posting \cup {p}
      /\ (Posts(s) => Posts(h[p])) => Posting' \subseteq Posting
      /\ Posts(h[p]) /\ ~Posts(s) => p \in Posting /\ Posting' \subseteq Posting \ {p}
  BY <1>2, <1>3
<1>5. /\ Telling \in SUBSET Procs /\ Telling' \in SUBSET Procs
      /\ Telling' \subseteq Telling \cup {p}
      /\ (Tells(s) => Tells(h[p])) => Telling' \subseteq Telling
      /\ Tells(h[p]) /\ ~Tells(s) => p \in Telling /\ Telling' \subseteq Telling \ {p}
  BY <1>2, <1>3
<1> HIDE DEF Posting, Telling
<1> QED
  BY <1>2, <1>4, <1>5, SlotCounts

\* A step of one handler that stores nothing.
LEMMA ChatMoves ==
  ASSUME ChatInv, NEW p \in Procs, NEW s \in {Idle} \cup ChatHandlers, Goto(p, s),
         UNCHANGED <<sender, inbox, alerts, pager, refused>>,
         thread' \in {"none", "open"}, thread = "open" => thread' = "open",
         s.at \in {"chatFind", "chatDo"} => thread' = "open",
         Tells(s) => Tells(h[p]),
         \/ Posts(s) => Posts(h[p])
         \/ Cardinality(Written) + Cardinality(Posting) < MaxMessages
  PROVE  ChatInv'
<1>1. ChatTypes'
  BY ChatGoto DEF ChatInv, ChatTypes, ChatTypeOK
<1>2. inbox' \in [Members -> Seq(BOOLEAN)] /\ pager' \in Pagers /\ ~refused' /\ Paged(inbox', pager')
  BY DEF ChatInv
<1>3. thread' = "none" => Written' = {} /\ \A q \in Procs : h'[q].at \notin {"chatFind", "chatDo"}
  BY ChatGoto DEF ChatInv, ChatTypes, ChatTypeOK, Written
<1>4. Numbered'
  <2> PICK c \in Nat : /\ Written = 1..c
                       /\ c + Cardinality(Posting) <= MaxMessages
                       /\ \A who \in Members : Len(inbox[who]) + Cardinality(Telling) <= c
    BY DEF ChatInv, Numbered
  <2>1. MaxMessages \in Nat
    BY ChatConstants
  <2>2. Cardinality(Written) = c
    BY PrefixCount
  <2>3. c + Cardinality(Posting') <= MaxMessages
    BY <2>1, <2>2, ChatGoto
  <2>4. ASSUME NEW who \in Members
        PROVE  Len(inbox[who]) + Cardinality(Telling') <= c
    <3>1. Len(inbox[who]) \in Nat
      BY DEF ChatInv
    <3>2. Cardinality(Telling') <= Cardinality(Telling) /\ Cardinality(Telling') \in Nat
          /\ Cardinality(Telling) \in Nat
      BY ChatGoto
    <3> QED
      BY <3>1, <3>2
  <2>5. Written' = 1..c /\ inbox' = inbox
    BY DEF Written
  <2> HIDE DEF Written, Posting, Telling
  <2> QED
    BY <2>3, <2>4, <2>5 DEF Numbered
<1> QED
  BY <1>1, <1>2, <1>3, <1>4 DEF ChatInv

LEMMA ChatTalks ==
  ASSUME ChatInv, NEW p \in Procs,
         \/ \E who \in Members, want \in Wants : ChatStart(p, who, want)
         \/ ChatCreate(p) \/ ChatFind(p)
         \/ ChatDo(p) /\ h[p].want # "post"
         \/ PushStep(p) \/ ChatStop(p)
  PROVE  ChatInv'
<1>t. h[p] \in {Idle} \cup ChatHandlers /\ thread \in {"none", "open"}
  BY DEF ChatInv, ChatTypes, ChatTypeOK
<1>i. Idle \in {Idle} \cup ChatHandlers /\ ~Posts(Idle) /\ ~Tells(Idle)
      /\ Idle.at \notin {"chatFind", "chatDo"}
  BY DEF Posts, Tells, Idle
<1>k. thread = "none" => h[p].at \notin {"chatFind", "chatDo"}
  BY DEF ChatInv
<1>1. ASSUME NEW who \in Members, NEW want \in Wants, ChatStart(p, who, want)
      PROVE  ChatInv'
  <2> PICK at \in {"chatDo", "chatCreate"} : at = IF thread = "open" THEN "chatDo" ELSE "chatCreate"
    OBVIOUS
  <2> PICK s \in ChatHandlers : s = [at |-> at, who |-> who, want |-> want]
    BY DEF ChatHandlers
  <2>1. Goto(p, s) /\ UNCHANGED chatVars
        /\ (want = "post" => Cardinality(Written) + Cardinality(Posting) < MaxMessages)
    BY <1>1 DEF ChatStart, Start
  <2>2. /\ s.at \in {"chatFind", "chatDo"} => thread = "open"
        /\ ~Tells(s) /\ (Posts(s) => want = "post")
    BY DEF Tells, Posts
  <2> QED
    BY <1>t, <2>1, <2>2, ChatMoves DEF chatVars
<1>2. CASE ChatCreate(p)
  <2> PICK old \in Asks : old = h[p] /\ old.at = "chatCreate"
    BY <1>2, <1>t, ChatHandlerKinds DEF ChatCreate
  <2> PICK at \in {"chatDo", "chatFind"} : at = IF thread = "none" THEN "chatDo" ELSE "chatFind"
    OBVIOUS
  <2> PICK s \in Asks : s = [at |-> at, who |-> old.who, want |-> old.want]
    BY ChatHandlerRows
  <2>1. Goto(p, s) /\ UNCHANGED <<sender, inbox, alerts, pager, refused>> /\ thread' = "open"
    BY <1>2, ChatHandlerRows DEF ChatCreate, Conflict
  <2>2. ~Tells(s) /\ (Posts(s) => Posts(h[p])) /\ s \in ChatHandlers
    BY ChatHandlerRows DEF Tells, Posts
  <2> QED
    BY <2>1, <2>2, ChatMoves
<1>3. CASE ChatFind(p)
  <2> PICK old \in Asks : old = h[p] /\ old.at = "chatFind"
    BY <1>3, <1>t, ChatHandlerKinds DEF ChatFind
  <2> PICK s \in Asks : s = [at |-> "chatDo", who |-> old.who, want |-> old.want]
    BY ChatHandlerRows
  <2>1. Goto(p, s) /\ UNCHANGED chatVars
    BY <1>3, ChatHandlerRows DEF ChatFind
  <2>2. ~Tells(s) /\ (Posts(s) => Posts(h[p])) /\ s \in ChatHandlers
    BY ChatHandlerRows DEF Tells, Posts
  <2>3. thread = "open"
    BY <1>t, <1>k
  <2> QED
    BY <2>1, <2>2, <2>3, ChatMoves DEF chatVars
<1>4. CASE ChatDo(p) /\ h[p].want # "post"
  <2>1. Goto(p, Idle) /\ UNCHANGED chatVars
    BY <1>4 DEF ChatDo, End, chatVars
  <2> QED
    BY <1>t, <1>i, <2>1, ChatMoves DEF chatVars
<1>5. CASE PushStep(p)
  <2> PICK old \in Notes : old = h[p] /\ old.at = "chatPush"
    BY <1>5, <1>t, ChatHandlerKinds DEF PushStep
  <2> PICK s \in Notes : s = [at |-> "chatInbox", to |-> old.to]
    BY ChatHandlerRows
  <2>1. (Goto(p, s) \/ Goto(p, Idle)) /\ UNCHANGED chatVars
    BY <1>5, ChatHandlerRows DEF PushStep, End
  <2>2. ~Posts(s) /\ Tells(h[p]) /\ s \in ChatHandlers /\ s.at = "chatInbox"
    BY ChatHandlerRows DEF Tells, Posts
  <2> QED
    BY <1>t, <1>i, <2>1, <2>2, ChatMoves DEF chatVars
<1>6. CASE ChatStop(p)
  <2>1. Goto(p, Idle) /\ UNCHANGED chatVars
    BY <1>6 DEF ChatStop, Stop, End
  <2> QED
    BY <1>t, <1>i, <2>1, ChatMoves DEF chatVars
<1> QED
  BY <1>1, <1>2, <1>3, <1>4, <1>5, <1>6

\* The message takes the next number, and its notice is on the way.
LEMMA ChatPosts ==
  ASSUME ChatInv, NEW p \in Procs, ChatDo(p), h[p].want = "post"
  PROVE  ChatInv'
<1>t. h[p] \in {Idle} \cup ChatHandlers /\ thread \in {"none", "open"}
      /\ sender \in [Messages -> Members \cup {NoSender}]
  BY DEF ChatInv, ChatTypes, ChatTypeOK
<1>m. MaxMessages \in Nat
  BY ChatConstants
<1> PICK old \in Asks : old = h[p] /\ old.at = "chatDo"
  BY <1>t, ChatHandlerKinds DEF ChatDo
<1> PICK who \in Members : who = old.who
  BY ChatHandlerRows
<1>0. Peer(who) \in Members
  BY DEF Peer, Members
<1> PICK s \in Notes : s = [at |-> "chatPush", to |-> Peer(who)]
  BY <1>0 DEF Notes
<1>a. s \in ChatHandlers /\ s.at = "chatPush"
  BY ChatHandlerRows
<1>1. /\ Goto(p, s) /\ UNCHANGED <<thread, inbox, alerts, pager, refused>>
      /\ sender' = [sender EXCEPT ![Cardinality(Written) + 1] = who]
  BY DEF ChatDo
<1>2. Posts(h[p]) /\ ~Posts(s) /\ Tells(s) /\ s.at \notin {"chatFind", "chatDo"}
  BY <1>a DEF Posts, Tells
<1> PICK c \in Nat : /\ Written = 1..c
                     /\ c + Cardinality(Posting) <= MaxMessages
                     /\ \A w \in Members : Len(inbox[w]) + Cardinality(Telling) <= c
  BY DEF ChatInv, Numbered
<1>3. Cardinality(Written) = c
  BY PrefixCount
<1>4. /\ Cardinality(Posting') + 1 <= Cardinality(Posting)
      /\ Cardinality(Telling') <= Cardinality(Telling) + 1
      /\ Cardinality(Posting) \in Nat /\ Cardinality(Posting') \in Nat
      /\ Cardinality(Telling) \in Nat /\ Cardinality(Telling') \in Nat
  BY <1>a, <1>1, <1>2, ChatGoto
<1>5. c + 1 \in Nat /\ c + 1 <= MaxMessages /\ c + 1 + Cardinality(Posting') <= MaxMessages
  BY <1>m, <1>4
<1>6. c + 1 \in Messages
  BY <1>m, <1>5 DEF Messages
<1>7. /\ sender' \in [Messages -> Members \cup {NoSender}]
      /\ \A m \in Messages : sender'[m] = IF m = c + 1 THEN who ELSE sender[m]
  BY <1>t, <1>1, <1>3, <1>6
<1>8. Written' = 1..(c + 1)
  <2>1. who # NoSender
    BY DEF Members, NoSender
  <2>2. \A m \in Messages : m \in Written' <=> m = c + 1 \/ m \in Written
    BY <1>7, <2>1 DEF Written
  <2>3. Written' \subseteq Messages /\ Written \subseteq Messages
    BY DEF Written
  <2>4. \A m \in 1..(c + 1) : m = c + 1 \/ m \in 1..c
    OBVIOUS
  <2>5. \A m \in 1..c : m \in 1..(c + 1)
    OBVIOUS
  <2>6. c + 1 \in 1..(c + 1)
    OBVIOUS
  <2> QED
    BY <1>6, <2>2, <2>3, <2>4, <2>5, <2>6
<1>9. ASSUME NEW w \in Members
      PROVE  Len(inbox'[w]) + Cardinality(Telling') <= c + 1
  <2>1. Len(inbox[w]) \in Nat /\ inbox' = inbox
    BY <1>1 DEF ChatInv
  <2> QED
    BY <1>4, <2>1
<1>10. Numbered'
  BY <1>5, <1>8, <1>9 DEF Numbered
<1>11. ChatTypes'
  BY <1>a, <1>1, <1>7, ChatGoto DEF ChatInv, ChatTypes, ChatTypeOK
<1>12. thread = "open"
  BY <1>t DEF ChatInv
<1> QED
  BY <1>1, <1>10, <1>11, <1>12 DEF ChatInv

LEMMA InboxRows ==
  ASSUME NEW box \in Seq(BOOLEAN)
  PROVE  /\ Len(box) \in Nat /\ DOMAIN box = 1..Len(box)
         /\ Append(box, FALSE) \in Seq(BOOLEAN) /\ Len(Append(box, FALSE)) = Len(box) + 1
         /\ \A m \in DOMAIN box : /\ [box EXCEPT ![m] = TRUE] \in Seq(BOOLEAN)
                                  /\ Len([box EXCEPT ![m] = TRUE]) = Len(box)
         /\ /\ [m \in DOMAIN box |-> TRUE] \in Seq(BOOLEAN)
            /\ Len([m \in DOMAIN box |-> TRUE]) = Len(box)
<1>1. Len(box) \in Nat /\ DOMAIN box = 1..Len(box)
  BY LenProperties
<1>2. Append(box, FALSE) \in Seq(BOOLEAN) /\ Len(Append(box, FALSE)) = Len(box) + 1
  OBVIOUS
<1>3. \A m \in DOMAIN box : /\ [box EXCEPT ![m] = TRUE] \in Seq(BOOLEAN)
                           /\ Len([box EXCEPT ![m] = TRUE]) = Len(box)
  BY <1>1, ExceptSeq
<1>4. /\ [m \in DOMAIN box |-> TRUE] \in Seq(BOOLEAN)
      /\ Len([m \in DOMAIN box |-> TRUE]) = Len(box)
  <2> PICK n \in Nat : n = Len(box) /\ DOMAIN box = 1..n
    BY <1>1
  <2>1. [m \in 1..n |-> TRUE] \in Seq(BOOLEAN) /\ Len([m \in 1..n |-> TRUE]) = n
    OBVIOUS
  <2> QED
    BY <2>1
<1> QED
  BY <1>1, <1>2, <1>3, <1>4

\* Inboxes that are no shorter keep what a pager has to see.
LEMMA PagedStays ==
  ASSUME NEW old, NEW new, NEW pg, Paged(old, pg), Len(old[pg.who]) \in Nat, Len(new[pg.who]) \in Nat,
         Len(old[pg.who]) <= Len(new[pg.who])
  PROVE  Paged(new, pg)
<1> PICK top \in Nat : /\ top <= Len(old[pg.who]) /\ pg.there = 1..top
                       /\ Leafed(pg.saw, top, pg.cursor)
  BY DEF Paged
<1>1. top <= Len(new[pg.who])
  OBVIOUS
<1> QED
  BY <1>1 DEF Paged

LEMMA ChatInboxStep ==
  ASSUME ChatInv, NEW p \in Procs, InboxStep(p)
  PROVE  ChatInv'
<1>t. h[p] \in {Idle} \cup ChatHandlers /\ inbox \in [Members -> Seq(BOOLEAN)] /\ pager \in Pagers
  BY DEF ChatInv, ChatTypes
<1>m. MaxMessages \in Nat
  BY ChatConstants
<1> PICK old \in Notes : old = h[p] /\ old.at = "chatInbox"
  BY <1>t, ChatHandlerKinds DEF InboxStep
<1> PICK to \in Members : to = old.to
  BY ChatHandlerRows
<1>1. /\ Goto(p, Idle) /\ UNCHANGED <<thread, sender, alerts, pager, refused>>
      /\ inbox' = [inbox EXCEPT ![to] = Append(inbox[to], FALSE)]
  BY DEF InboxStep, End
<1>2. /\ inbox' \in [Members -> Seq(BOOLEAN)]
      /\ \A who \in Members :
           /\ Len(inbox[who]) \in Nat
           /\ Len(inbox'[who]) = IF who = to THEN Len(inbox[who]) + 1 ELSE Len(inbox[who])
  BY <1>t, <1>1, InboxRows
<1>3. Idle \in {Idle} \cup ChatHandlers /\ ~Posts(Idle) /\ ~Tells(Idle) /\ Tells(h[p])
      /\ Idle.at \notin {"chatFind", "chatDo"}
  BY DEF Posts, Tells, Idle
<1>4. /\ Cardinality(Posting') <= Cardinality(Posting)
      /\ Cardinality(Telling') + 1 <= Cardinality(Telling)
      /\ Cardinality(Posting) \in Nat /\ Cardinality(Posting') \in Nat
      /\ Cardinality(Telling) \in Nat /\ Cardinality(Telling') \in Nat
  BY <1>1, <1>3, ChatGoto
<1> PICK c \in Nat : /\ Written = 1..c
                     /\ c + Cardinality(Posting) <= MaxMessages
                     /\ \A w \in Members : Len(inbox[w]) + Cardinality(Telling) <= c
  BY DEF ChatInv, Numbered
<1>5. ASSUME NEW w \in Members
      PROVE  Len(inbox'[w]) + Cardinality(Telling') <= c /\ Len(inbox'[w]) <= MaxMessages
  <2> PICK n \in Nat, m \in Nat, a \in Nat, b \in Nat :
        /\ n = Len(inbox[w]) /\ m = Len(inbox'[w])
        /\ a = Cardinality(Telling) /\ b = Cardinality(Telling')
    BY <1>2, <1>4
  <2>1. m <= n + 1
    BY <1>2
  <2>2. n + a <= c /\ b + 1 <= a
    BY <1>4
  <2>3. c <= MaxMessages
    BY <1>m, <1>4
  <2> QED
    BY <1>m, <2>1, <2>2, <2>3
<1>6. Written' = 1..c /\ c + Cardinality(Posting') <= MaxMessages
  BY <1>m, <1>1, <1>4 DEF Written
<1>7. Numbered'
  BY <1>5, <1>6 DEF Numbered
<1>8. ChatTypes'
  BY <1>1, <1>2, <1>3, <1>5, ChatGoto DEF ChatInv, ChatTypes, ChatTypeOK
<1>9. Paged(inbox', pager')
  <2>1. pager.who \in Members
    BY <1>t DEF Pagers
  <2>2. Len(inbox[pager.who]) <= Len(inbox'[pager.who]) /\ Len(inbox'[pager.who]) \in Nat
    BY <1>2, <2>1
  <2> QED
    BY <1>1, <1>2, <2>1, <2>2, PagedStays DEF ChatInv
<1>10. thread' = "none" => Written' = {} /\ \A q \in Procs : h'[q].at \notin {"chatFind", "chatDo"}
  BY <1>1, <1>3, ChatGoto DEF ChatInv, Written
<1> QED
  BY <1>1, <1>2, <1>7, <1>8, <1>9, <1>10 DEF ChatInv

LEMMA SawRows ==
  ASSUME NEW pg \in Pagers, NEW s \in Seq(Messages)
  PROVE  /\ [pg EXCEPT !.saw = s] \in Pagers
         /\ [pg EXCEPT !.saw = s].who = pg.who /\ [pg EXCEPT !.saw = s].there = pg.there
         /\ [pg EXCEPT !.saw = s].saw = s
  BY DEF Pagers

LEMMA CursorRows ==
  ASSUME NEW pg \in Pagers, NEW c
  PROVE  [pg EXCEPT !.cursor = c]
           = [who |-> pg.who, there |-> pg.there, cursor |-> c, saw |-> pg.saw]
  BY DEF Pagers

PagerAt(pg, s, c) == [pg EXCEPT !.saw = s, !.cursor = c]

LEMMA PagerRows ==
  ASSUME NEW pg \in Pagers, NEW s \in Seq(Messages), NEW c
  PROVE  PagerAt(pg, s, c)
           = [who |-> pg.who, there |-> pg.there, cursor |-> c, saw |-> s]
<1> DEFINE mid == [pg EXCEPT !.saw = s]
<1>1. mid \in Pagers /\ mid.who = pg.who /\ mid.there = pg.there /\ mid.saw = s
  BY SawRows
<1>2. PagerAt(pg, s, c) = [mid EXCEPT !.cursor = c]
  BY DEF PagerAt
<1> HIDE DEF mid
<1>3. [mid EXCEPT !.cursor = c]
        = [who |-> mid.who, there |-> mid.there, cursor |-> c, saw |-> mid.saw]
  BY <1>1, CursorRows
<1>4. [who |-> mid.who, there |-> mid.there, cursor |-> c, saw |-> mid.saw]
        = [who |-> pg.who, there |-> pg.there, cursor |-> c, saw |-> s]
  BY <1>1
<1> QED
  BY <1>2, <1>3, <1>4, Zenon

\* A step of the party itself: no handler is in flight because of it.
LEMMA ChatAtOnce ==
  ASSUME ChatInv, NEW p \in Procs, Immediate(p), UNCHANGED <<thread, sender, refused>>,
         alerts' \in [Members -> BOOLEAN], pager' \in Pagers,
         inbox' \in [Members -> Seq(BOOLEAN)],
         \A who \in Members : Len(inbox'[who]) = Len(inbox[who]),
         Paged(inbox', pager')
  PROVE  ChatInv'
<1>1. h' = h /\ Posting' = Posting /\ Telling' = Telling /\ Written' = Written
  BY DEF Immediate, Posting, Telling, Tells, Written
<1>2. ChatTypes'
  BY <1>1 DEF ChatInv, ChatTypes, ChatTypeOK, Pagers
<1>3. Numbered'
  BY <1>1 DEF ChatInv, Numbered
<1> QED
  BY <1>1, <1>2, <1>3 DEF ChatInv

LEMMA ChatReads ==
  ASSUME ChatInv, NEW p \in Procs,
         \/ \E who \in Members : SetAlerts(p, who) \/ MarkAllRead(p, who) \/ FirstPage(p, who)
         \/ \E who \in Members, m \in Messages : MarkRead(p, who, m)
         \/ NextPage(p)
  PROVE  ChatInv'
<1>t. /\ inbox \in [Members -> Seq(BOOLEAN)] /\ pager \in Pagers /\ Paged(inbox, pager)
      /\ alerts \in [Members -> BOOLEAN]
  BY DEF ChatInv, ChatTypes, ChatTypeOK
<1>w. pager.who \in Members
  BY <1>t DEF Pagers
<1>l. \A who \in Members : /\ Len(inbox[who]) \in Nat /\ Len(inbox[who]) <= MaxMessages
                           /\ Notices(who) = 1..Len(inbox[who])
  BY <1>t, LenProperties DEF ChatInv, ChatTypes, ChatTypeOK, Notices
<1>s. ASSUME NEW who \in Members, NEW box \in Seq(BOOLEAN), Len(box) = Len(inbox[who]),
             inbox' = [inbox EXCEPT ![who] = box], pager' = pager
      PROVE  /\ inbox' \in [Members -> Seq(BOOLEAN)]
             /\ \A w \in Members : Len(inbox'[w]) = Len(inbox[w])
             /\ Paged(inbox', pager')
  <2>1. /\ inbox' \in [Members -> Seq(BOOLEAN)]
        /\ \A w \in Members : Len(inbox'[w]) = Len(inbox[w])
    BY <1>t, <1>s
  <2>2. Len(inbox[pager.who]) \in Nat /\ Len(inbox'[pager.who]) = Len(inbox[pager.who])
        /\ Len(inbox[pager.who]) <= Len(inbox'[pager.who])
    BY <1>w, <1>l, <2>1
  <2> QED
    BY <1>t, <1>s, <2>1, <2>2, PagedStays
<1>1. ASSUME NEW who \in Members, SetAlerts(p, who)
      PROVE  ChatInv'
  BY <1>t, <1>1, ChatAtOnce DEF SetAlerts
<1>2. ASSUME NEW who \in Members, MarkAllRead(p, who)
      PROVE  ChatInv'
  <2> PICK box \in Seq(BOOLEAN) : box = inbox[who]
    BY <1>t
  <2> PICK new \in Seq(BOOLEAN) : new = [m \in DOMAIN box |-> TRUE] /\ Len(new) = Len(box)
    BY InboxRows
  <2>1. inbox' = [inbox EXCEPT ![who] = new] /\ pager' = pager
    BY <1>2 DEF MarkAllRead, Notices
  <2> QED
    BY <1>t, <1>2, <1>s, <2>1, ChatAtOnce DEF MarkAllRead
<1>3. ASSUME NEW who \in Members, NEW m \in Messages, MarkRead(p, who, m)
      PROVE  ChatInv'
  <2> PICK box \in Seq(BOOLEAN) : box = inbox[who]
    BY <1>t
  <2> PICK new \in Seq(BOOLEAN) : new = [box EXCEPT ![m] = TRUE] /\ Len(new) = Len(box)
    BY <1>3, InboxRows DEF MarkRead, Notices
  <2>1. inbox' = [inbox EXCEPT ![who] = new] /\ pager' = pager
    BY <1>3 DEF MarkRead
  <2> QED
    BY <1>t, <1>3, <1>s, <2>1, ChatAtOnce DEF MarkRead
<1>4. ASSUME NEW who \in Members, FirstPage(p, who)
      PROVE  ChatInv'
  <2> PICK k \in Nat : k = Len(inbox[who]) /\ k <= MaxMessages
    BY <1>l
  <2>1. Notices(who) = 1..k
    BY <1>l
  <2>2. /\ pager' = [who |-> who, there |-> 1..k, cursor |-> CursorAfter(k),
                     saw |-> PageAfter(1..k)]
        /\ Immediate(p) /\ UNCHANGED <<thread, sender, inbox, alerts, refused>>
    BY <1>4, <2>1 DEF FirstPage, CursorAfter
  <2>3. pager' \in Pagers
    BY <2>2, FirstLeaf, PagerFits
  <2>4. Paged(inbox, pager')
    BY <2>2, FirstLeaf DEF Paged
  <2> QED
    BY <1>t, <2>2, <2>3, <2>4, ChatAtOnce
<1>5. ASSUME NextPage(p)
      PROVE  ChatInv'
  <2> PICK pg \in Pagers : pg = pager
    BY <1>t
  <2> PICK top \in Nat : /\ top <= Len(inbox[pg.who]) /\ pg.there = 1..top
                         /\ Leafed(pg.saw, top, pg.cursor)
    BY <1>t DEF Paged
  <2> PICK who \in Members, cursor \in Nat : who = pg.who /\ cursor = pg.cursor /\ cursor # 0
                                             /\ cursor <= top
    BY <1>w, <1>5 DEF NextPage, Leafed
  <2> PICK k \in Nat : k = cursor - 1
    OBVIOUS
  <2>3. Leafed(pg.saw \o PageAfter(1..k), top, CursorAfter(k))
    BY NextLeaf
  <2>4. top <= MaxMessages
    BY <1>l, ChatConstants
  <2>0. PagerAt(pg, pg.saw \o PageAfter(1..k), CursorAfter(k))
          = [who |-> pg.who, there |-> pg.there, cursor |-> CursorAfter(k),
             saw |-> pg.saw \o PageAfter(1..k)]
    <3>1. pg.saw \o PageAfter(1..k) \in Seq(Messages)
      BY <2>3, <2>4, PagerFits DEF Pagers
    <3>2. ASSUME NEW s \in Seq(Messages), NEW c
          PROVE  PagerAt(pg, s, c)
                   = [who |-> pg.who, there |-> pg.there, cursor |-> c, saw |-> s]
      BY PagerRows
    <3> HIDE DEF CursorAfter, PageAfter
    <3> QED
      BY <3>1, <3>2
  <2>1. AfterCursor(who, cursor, pg.saw) = 1..k
    <3> PICK n \in Nat : n = Len(inbox[who]) /\ Notices(who) = 1..n /\ top <= n
      BY <1>l
    <3>1. {m \in 1..n : m < cursor} = 1..k
      OBVIOUS
    <3> QED
      BY <3>1 DEF AfterCursor
  <2>2. pager' = [who |-> who, there |-> 1..top, cursor |-> CursorAfter(k),
                  saw |-> pg.saw \o PageAfter(1..k)]
    <3>1. pager' = PagerAt(pg, pg.saw \o PageAfter(1..k), CursorAfter(k))
      BY <1>5, <2>1 DEF NextPage, CursorAfter, PagerAt
    <3> QED
      BY <2>0, <3>1
  <2>5. pager' \in Pagers
    BY <2>2, <2>3, <2>4, PagerFits
  <2>6. Paged(inbox, pager')
    BY <2>2, <2>3 DEF Paged
  <2> QED
    BY <1>t, <1>5, <2>5, <2>6, ChatAtOnce DEF NextPage
<1> QED
  BY <1>1, <1>2, <1>3, <1>4, <1>5

LEMMA ChatInvNext == ChatInv /\ [ChatNext]_chatsVars => ChatInv'
<1>1. ASSUME ChatInv, NEW p \in Procs, ChatStep(p)
      PROVE  ChatInv'
  BY <1>1, ChatTalks, ChatPosts, ChatInboxStep, ChatReads DEF ChatStep
<1>2. ASSUME ChatInv, UNCHANGED chatsVars
      PROVE  ChatInv'
  <2>1. Posting' = Posting /\ Telling' = Telling /\ Written' = Written
    BY <1>2 DEF chatsVars, chatVars, Posting, Telling, Tells, Written
  <2>2. ChatTypes' /\ Numbered'
    BY <1>2, <2>1 DEF chatsVars, chatVars, ChatInv, ChatTypes, ChatTypeOK, Numbered
  <2> QED
    BY <1>2, <2>1, <2>2 DEF chatsVars, chatVars, ChatInv
<1> QED
  BY <1>1, <1>2 DEF ChatNext

\* Type correctness of a claim's chat: no inbox holds more notices than messages came.
THEOREM ChatTypeCorrect == ChatSpec => []ChatTypes
<1>1. ChatInv => ChatTypes
  BY DEF ChatInv
<1> QED
  BY <1>1, ChatInvInit, ChatInvNext, PTL DEF ChatSpec

LEMMA ChatKept == ChatInv => ChatKeepsUp
<1> SUFFICES ASSUME ChatInv
             PROVE  ChatKeepsUp
  OBVIOUS
<1>1. Written # {} => thread = "open"
  BY DEF ChatInv, ChatTypes, ChatTypeOK
<1>2. ASSUME pager.cursor = 0, NEW m \in pager.there
      PROVE  Cardinality({n \in DOMAIN pager.saw : pager.saw[n] = m}) = 1
  <2> PICK top \in Nat : pager.there = 1..top /\ Leafed(pager.saw, top, 0)
    BY <1>2 DEF ChatInv, Paged
  <2> QED
    BY <1>2, LeafedOnce
<1> QED
  BY <1>1, <1>2 DEF ChatInv, ChatKeepsUp

\* Chat keeps up: whoever opens the thread first, no request of the other is refused
\* and no message is stored outside it; and whatever comes in between two pages, each
\* notice there at the beginning is seen exactly once.
THEOREM ChatHasKeptUp == ChatSpec => []ChatKeepsUp
<1> QED
  BY ChatKept, ChatInvInit, ChatInvNext, PTL DEF ChatSpec

(***************************************************************************)
(* Sums.  SumFunctionOnSet folds a function over a finite set in an order of  *)
(* its choice; what it returns does not depend on the order.                  *)
(***************************************************************************)
Some(s) == CHOOSE x \in s : TRUE

\* g sums f over the subsets of T, one element after the other.
Sums(g, f, T) ==
  g = [s \in SUBSET T |-> IF s = {} THEN 0 ELSE f[Some(s)] + g[s \ {Some(s)}]]

LEMMA SumIsFold ==
  ASSUME NEW f, NEW T
  PROVE  SumFunctionOnSet(f, T) = (CHOOSE g : Sums(g, f, T))[T]
  BY DEF SumFunctionOnSet, FoldFunctionOnSet, MapThenFoldSet, Sums, Some

LEMMA SomeIn == ASSUME NEW s, s # {} PROVE Some(s) \in s
  BY DEF Some

LEMMA SumsExist ==
  ASSUME NEW f, NEW T, IsFiniteSet(T)
  PROVE  \E g : Sums(g, f, T)
<1> DEFINE Small(n) == {s \in SUBSET T : Cardinality(s) <= n}
           Step(g, s) == IF s = {} THEN 0 ELSE f[Some(s)] + g[s \ {Some(s)}]
           Good(n) == \E g : g = [s \in Small(n) |-> Step(g, s)]
           Bad == {n \in Nat : ~Good(n)}
<1>1. ASSUME NEW n \in Bad, \A m \in Bad : n <= m
      PROVE  FALSE
  <2>1. CASE n = 0
    <3> DEFINE g == [s \in Small(0) |-> 0]
    <3>1. \A s \in Small(0) : s = {}
      <4> SUFFICES ASSUME NEW s \in Small(0)
                   PROVE  s = {}
        OBVIOUS
      <4>1. IsFiniteSet(s) /\ Cardinality(s) \in Nat /\ Cardinality(s) <= 0
        BY FS_Subset, FS_CardinalityType
      <4> QED
        BY <4>1, FS_EmptySet
    <3>2. g = [s \in Small(0) |-> Step(g, s)]
      BY <3>1
    <3> QED
      BY <2>1, <3>2
  <2>2. CASE n # 0
    <3>1. n \in Nat /\ n - 1 \in Nat /\ ~(n <= n - 1)
      BY <2>2
    <3>2. Good(n - 1)
      BY <1>1, <3>1
    <3>3. PICK g : g = [s \in Small(n - 1) |-> Step(g, s)]
      BY <3>2
    <3> DEFINE k == [s \in Small(n) |-> Step(g, s)]
    <3>4. ASSUME NEW s \in Small(n), s # {}
          PROVE  k[s \ {Some(s)}] = g[s \ {Some(s)}]
      <4> DEFINE t == s \ {Some(s)}
      <4>1. IsFiniteSet(s) /\ Cardinality(s) \in Nat /\ Cardinality(s) <= n
        BY FS_Subset, FS_CardinalityType
      <4>2. Cardinality(t) = Cardinality(s) - 1
        BY <3>4, <4>1, SomeIn, FS_RemoveElement
      <4>3. t \in Small(n - 1) /\ t \in Small(n)
        BY <3>1, <4>1, <4>2
      <4>4. g[t] = Step(g, t) /\ k[t] = Step(g, t)
        BY <3>3, <4>3
      <4> QED
        BY <4>4
    <3>5. k = [s \in Small(n) |-> Step(k, s)]
      BY <3>4
    <3> QED
      BY <3>5
  <2> QED
    BY <2>1, <2>2
<1>2. Bad = {}
  <2> SUFFICES ASSUME Bad # {}
               PROVE  FALSE
    OBVIOUS
  <2>1. PICK n \in Bad : \A m \in Bad : n <= m
    BY LeastNatural
  <2> QED
    BY <1>1, <2>1
<1>3. Cardinality(T) \in Nat /\ Small(Cardinality(T)) = SUBSET T
  BY FS_CardinalityType, FS_Subset
<1>4. Good(Cardinality(T))
  BY <1>2, <1>3
<1> QED
  BY <1>3, <1>4 DEF Sums

\* What a sum comes to depends on the values of the set alone.
LEMMA SumsAgree ==
  ASSUME NEW f, NEW T, NEW g, Sums(g, f, T), NEW e, NEW U, NEW k, Sums(k, e, U),
         NEW S, IsFiniteSet(S), S \subseteq T, S \subseteq U, \A x \in S : f[x] = e[x]
  PROVE  g[S] = k[S]
<1> DEFINE Bad == {n \in Nat : \E s \in SUBSET S : Cardinality(s) = n /\ g[s] # k[s]}
<1>1. ASSUME NEW n \in Bad, \A m \in Bad : n <= m
      PROVE  FALSE
  <2>1. PICK s \in SUBSET S : Cardinality(s) = n /\ g[s] # k[s]
    OBVIOUS
  <2>2. s # {}
    BY <2>1 DEF Sums
  <2>3. /\ g[s] = f[Some(s)] + g[s \ {Some(s)}] /\ k[s] = e[Some(s)] + k[s \ {Some(s)}]
        /\ f[Some(s)] = e[Some(s)]
    BY <2>2, SomeIn DEF Sums
  <2>4. n \in Nat /\ IsFiniteSet(s) /\ Cardinality(s \ {Some(s)}) = n - 1 /\ Cardinality(s) # 0
    BY <2>1, <2>2, SomeIn, FS_Subset, FS_RemoveElement, FS_EmptySet
  <2>5. n - 1 \in Nat /\ ~(n <= n - 1)
    BY <2>1, <2>4
  <2>6. n - 1 \notin Bad
    BY <1>1, <2>5
  <2>7. g[s \ {Some(s)}] = k[s \ {Some(s)}]
    BY <2>4, <2>5, <2>6
  <2> QED
    BY <2>1, <2>3, <2>7
<1>2. Bad = {}
  BY <1>1, LeastNatural
<1> QED
  BY <1>2, FS_CardinalityType

LEMMA SumsOf ==
  ASSUME NEW f, NEW T, IsFiniteSet(T)
  PROVE  \E g : Sums(g, f, T) /\ SumFunctionOnSet(f, T) = g[T]
  BY SumIsFold, SumsExist

LEMMA SumSame ==
  ASSUME NEW T, IsFiniteSet(T), NEW f, NEW e, \A x \in T : f[x] = e[x]
  PROVE  SumFunctionOnSet(f, T) = SumFunctionOnSet(e, T)
<1>1. PICK g : Sums(g, f, T) /\ SumFunctionOnSet(f, T) = g[T]
  BY SumsOf
<1>2. PICK k : Sums(k, e, T) /\ SumFunctionOnSet(e, T) = k[T]
  BY SumsOf
<1> QED
  BY <1>1, <1>2, SumsAgree

LEMMA SumOfNone == ASSUME NEW f PROVE SumFunctionOnSet(f, {}) = 0
<1>1. PICK g : Sums(g, f, {}) /\ SumFunctionOnSet(f, {}) = g[{}]
  BY SumsOf, FS_EmptySet
<1> QED
  BY <1>1 DEF Sums

\* Any element may be taken first.
LEMMA SumsTake ==
  ASSUME NEW f, NEW T, IsFiniteSet(T), NEW g, Sums(g, f, T), \A x \in T : f[x] \in Int
  PROVE  \A s \in SUBSET T : g[s] \in Int /\ \A x \in s : g[s] = f[x] + g[s \ {x}]
<1> DEFINE Right(s) == g[s] \in Int /\ \A x \in s : g[s] = f[x] + g[s \ {x}]
           Bad == {n \in Nat : \E s \in SUBSET T : Cardinality(s) = n /\ ~Right(s)}
<1>1. ASSUME NEW n \in Bad, \A m \in Bad : n <= m
      PROVE  FALSE
  <2>1. PICK s \in SUBSET T : Cardinality(s) = n /\ ~Right(s)
    OBVIOUS
  <2>2. s # {}
    BY <2>1 DEF Sums
  <2> DEFINE y == Some(s)
  <2>3. y \in s /\ g[s] = f[y] + g[s \ {y}] /\ f[y] \in Int
    BY <2>2, SomeIn DEF Sums
  <2>4. n \in Nat /\ IsFiniteSet(s) /\ Cardinality(s) # 0
        /\ \A x \in s : Cardinality(s \ {x}) = n - 1
    BY <2>1, <2>2, FS_Subset, FS_RemoveElement, FS_EmptySet
  <2>5. n - 1 \in Nat /\ ~(n <= n - 1)
    BY <2>1, <2>4
  <2>6. n - 1 \notin Bad
    BY <1>1, <2>5
  <2>7. ASSUME NEW x \in s
        PROVE  Right(s \ {x})
    BY <2>4, <2>5, <2>6
  <2>8. g[s] \in Int
    <3>1. g[s \ {y}] \in Int
      BY <2>3, <2>7
    <3> QED
      BY <2>3, <3>1
  <2>9. ASSUME NEW x \in s
        PROVE  g[s] = f[x] + g[s \ {x}]
    <3>1. CASE x = y
      BY <2>3, <3>1
    <3>2. CASE x # y
      <4>1. g[s \ {y}] = f[x] + g[(s \ {y}) \ {x}]
        BY <2>3, <2>7, <3>2
      <4>2. g[s \ {x}] = f[y] + g[(s \ {x}) \ {y}]
        BY <2>3, <2>7, <2>9, <3>2
      <4>3. (s \ {y}) \ {x} = (s \ {x}) \ {y}
        OBVIOUS
      <4>4. g[s \ {x}] \in Int /\ g[s \ {y}] \in Int /\ f[x] \in Int
        BY <2>3, <2>7, <2>9
      <4>5. g[(s \ {x}) \ {y}] \in Int
        <5>1. IsFiniteSet(s \ {x}) /\ y \in s \ {x}
          BY <2>3, <2>4, <3>2, FS_RemoveElement
        <5>2. Cardinality((s \ {x}) \ {y}) = (n - 1) - 1 /\ n - 1 # 0
          <6>1. Cardinality(s \ {x}) = n - 1
            BY <2>4, <2>9
          <6>2. Cardinality((s \ {x}) \ {y}) = Cardinality(s \ {x}) - 1
            BY <5>1, FS_RemoveElement
          <6>3. Cardinality(s \ {x}) # 0
            BY <5>1, FS_EmptySet
          <6> QED
            BY <6>1, <6>2, <6>3
        <5>3. (n - 1) - 1 \in Nat /\ ~(n <= (n - 1) - 1)
          BY <2>4, <2>5, <5>2
        <5>4. (n - 1) - 1 \notin Bad
          BY <1>1, <5>3
        <5> QED
          BY <5>2, <5>3, <5>4
      <4>6. g[s] = f[y] + (f[x] + g[(s \ {x}) \ {y}])
        BY <2>3, <4>1, <4>3
      <4> QED
        BY <2>3, <4>2, <4>4, <4>5, <4>6
    <3> QED
      BY <3>1, <3>2
  <2> QED
    BY <2>1, <2>8, <2>9
<1>2. Bad = {}
  BY <1>1, LeastNatural
<1> QED
  BY <1>2, FS_Subset, FS_CardinalityType

LEMMA SumIsInt ==
  ASSUME NEW T, IsFiniteSet(T), NEW f, \A x \in T : f[x] \in Int
  PROVE  SumFunctionOnSet(f, T) \in Int
  BY SumsOf, SumsTake

LEMMA SumTake ==
  ASSUME NEW T, IsFiniteSet(T), NEW f, \A x \in T : f[x] \in Int, NEW x \in T
  PROVE  SumFunctionOnSet(f, T) = f[x] + SumFunctionOnSet(f, T \ {x})
<1>1. PICK g : Sums(g, f, T) /\ SumFunctionOnSet(f, T) = g[T]
  BY SumsOf
<1>2. IsFiniteSet(T \ {x})
  BY FS_RemoveElement
<1>3. PICK k : Sums(k, f, T \ {x}) /\ SumFunctionOnSet(f, T \ {x}) = k[T \ {x}]
  BY <1>2, SumsOf
<1>4. g[T \ {x}] = k[T \ {x}]
  BY <1>1, <1>2, <1>3, SumsAgree
<1>5. g[T] = f[x] + g[T \ {x}]
  BY <1>1, SumsTake
<1> QED
  BY <1>1, <1>3, <1>4, <1>5

\* A sum over two sets that share nothing.
LEMMA SumTogether ==
  ASSUME NEW S, IsFiniteSet(S), NEW T, IsFiniteSet(T), S \cap T = {},
         NEW f, \A x \in S \cup T : f[x] \in Int
  PROVE  SumFunctionOnSet(f, S \cup T) = SumFunctionOnSet(f, S) + SumFunctionOnSet(f, T)
<1> DEFINE Sum(U) == SumFunctionOnSet(f, U)
           Right(U) == Sum(S \cup U) = Sum(S) + Sum(U)
           Bad == {n \in Nat : \E U \in SUBSET T : Cardinality(U) = n /\ ~Right(U)}
<1>1. ASSUME NEW n \in Bad, \A m \in Bad : n <= m
      PROVE  FALSE
  <2>1. PICK U \in SUBSET T : Cardinality(U) = n /\ ~Right(U)
    OBVIOUS
  <2>2. IsFiniteSet(U) /\ IsFiniteSet(S \cup U) /\ \A x \in S \cup U : f[x] \in Int
    BY FS_Subset, FS_Union
  <2>3. Sum(S) \in Int
    BY SumIsInt
  <2>4. U # {}
    <3> SUFFICES ASSUME U = {}
                 PROVE  FALSE
      OBVIOUS
    <3>1. S \cup U = S /\ Sum(U) = 0
      BY SumOfNone
    <3> QED
      BY <2>1, <2>3, <3>1
  <2>5. PICK x \in U : TRUE
    BY <2>4
  <2>6. Sum(U) = f[x] + Sum(U \ {x}) /\ Sum(S \cup U) = f[x] + Sum((S \cup U) \ {x})
    <3> HIDE DEF Bad, Right
    <3> QED
      BY <2>2, SumTake
  <2>7. (S \cup U) \ {x} = S \cup (U \ {x})
    OBVIOUS
  <2>8. Cardinality(U \ {x}) = n - 1 /\ n # 0 /\ n \in Nat
    BY <2>1, <2>2, <2>4, FS_RemoveElement, FS_EmptySet
  <2>9. n - 1 \in Nat /\ ~(n <= n - 1)
    BY <2>8
  <2>10. n - 1 \notin Bad
    BY <1>1, <2>9
  <2>11. Sum(S \cup (U \ {x})) = Sum(S) + Sum(U \ {x})
    BY <2>8, <2>9, <2>10
  <2>12. IsFiniteSet(U \ {x})
    BY <2>2, FS_RemoveElement
  <2>13. Sum(U \ {x}) \in Int /\ f[x] \in Int
    BY <2>12, SumIsInt
  <2>14. Sum(S \cup U) = Sum(S) + Sum(U)
    <3> HIDE DEF Sum
    <3>1. Sum((S \cup U) \ {x}) = Sum(S) + Sum(U \ {x})
      BY <2>7, <2>11
    <3>2. Sum(S \cup U) = f[x] + (Sum(S) + Sum(U \ {x}))
      BY <2>6, <3>1
    <3> QED
      BY ONLY <2>3, <2>6, <3>2, <2>13
  <2> QED
    BY <2>1, <2>14
<1>2. Bad = {}
  BY <1>1, LeastNatural
<1> QED
  BY <1>2, FS_CardinalityType

\* A sum over the places of the elements is the sum over the elements.
LEMMA SumAlong ==
  ASSUME NEW S, IsFiniteSet(S), NEW V, NEW j \in Bijection(S, V),
         NEW f, NEW e, \A x \in S : f[x] \in Int /\ f[x] = e[j[x]]
  PROVE  SumFunctionOnSet(f, S) = SumFunctionOnSet(e, V)
<1> DEFINE Image(U) == {j[x] : x \in U}
           Right(U) == /\ IsFiniteSet(Image(U))
                       /\ SumFunctionOnSet(f, U) = SumFunctionOnSet(e, Image(U))
           Bad == {n \in Nat : \E U \in SUBSET S : Cardinality(U) = n /\ ~Right(U)}
<1>0. /\ \A x \in S : j[x] \in V
      /\ \A x, y \in S : j[x] = j[y] => x = y
      /\ \A y \in V : \E x \in S : y = j[x]
  BY DEF Bijection, Injection, Surjection, IsInjective
<1>1. ASSUME NEW n \in Bad, \A m \in Bad : n <= m
      PROVE  FALSE
  <2>1. PICK U \in SUBSET S : Cardinality(U) = n /\ ~Right(U)
    OBVIOUS
  <2>2. IsFiniteSet(U) /\ \A x \in U : f[x] \in Int
    BY FS_Subset
  <2>3. U # {}
    <3> SUFFICES ASSUME U = {}
                 PROVE  FALSE
      OBVIOUS
    <3>1. Image(U) = {}
      OBVIOUS
    <3> QED
      BY <2>1, <3>1, SumOfNone, FS_EmptySet
  <2>4. PICK x \in U : TRUE
    BY <2>3
  <2>5. Cardinality(U \ {x}) = n - 1 /\ n # 0 /\ n \in Nat
    BY <2>1, <2>2, <2>3, FS_RemoveElement, FS_EmptySet
  <2>6. n - 1 \in Nat /\ ~(n <= n - 1)
    BY <2>5
  <2>7. n - 1 \notin Bad
    BY <1>1, <2>6
  <2>8. Right(U \ {x})
    BY <2>5, <2>6, <2>7
  <2>9. Image(U \ {x}) = Image(U) \ {j[x]} /\ j[x] \in Image(U)
    BY <1>0
  <2>10. IsFiniteSet(Image(U))
    <3>1. Image(U) = Image(U \ {x}) \cup {j[x]} /\ IsFiniteSet(Image(U \ {x}))
      BY <2>8, <2>9
    <3>2. PICK W : W = Image(U \ {x}) /\ IsFiniteSet(W)
      BY <3>1
    <3>3. IsFiniteSet(W \cup {j[x]})
      BY <3>2, FS_AddElement
    <3> QED
      BY <3>1, <3>2, <3>3
  <2>11. \A y \in Image(U) : e[y] \in Int
    OBVIOUS
  <2>12. SumFunctionOnSet(f, U) = f[x] + SumFunctionOnSet(f, U \ {x})
    <3> HIDE DEF Bad, Right
    <3> QED
      BY <2>2, SumTake
  <2>13. SumFunctionOnSet(e, Image(U)) = e[j[x]] + SumFunctionOnSet(e, Image(U) \ {j[x]})
    <3> HIDE DEF Bad, Right, Image
    <3> QED
      BY <2>9, <2>10, <2>11, SumTake
  <2> QED
    BY <2>1, <2>8, <2>9, <2>10, <2>12, <2>13
<1>2. Bad = {}
  <2> SUFFICES ASSUME Bad # {}
               PROVE  FALSE
    OBVIOUS
  <2>1. PICK n \in Bad : \A m \in Bad : n <= m
    BY LeastNatural
  <2> QED
    BY <1>1, <2>1
<1>3. Cardinality(S) \in Nat
  BY FS_CardinalityType
<1>4. Right(S)
  BY <1>2, <1>3
<1>5. Image(S) = V
  BY <1>0
<1> QED
  BY <1>4, <1>5

(***************************************************************************)
(* Books: the rows the books are made of.                                    *)
(***************************************************************************)
bookVars == <<regime, h, booksVars>>

BooksStart ==
  /\ regime \in Regimes
  /\ h = [p \in Procs |-> Idle]
  /\ BooksInit

BooksSpec == BooksStart /\ [][BooksNext]_bookVars

SaleRows == [party : Buyers \cup {NoOne}, amount : Amounts \cup {0},
             delivered : Days \cup {Unset}, paid : Days \cup {Unset},
             refunded : Days \cup {Unset}, replaced : Days \cup {Unset}]

BooksInv ==
  /\ day \in Days /\ sale \in [Sales -> SaleRows]
  /\ fee \subseteq [at : Days, charge : Charges] /\ \A f, g \in fee : f = g
  /\ h = [p \in Procs |-> Idle]

LEMMA SaleFacts ==
  ASSUME NEW r \in SaleRows
  PROVE  /\ \A b \in Buyers, a \in Amounts : [r EXCEPT !.party = b, !.amount = a] \in SaleRows
         /\ \A d \in Days : /\ [r EXCEPT !.delivered = d] \in SaleRows
                            /\ [r EXCEPT !.paid = d] \in SaleRows
                            /\ [r EXCEPT !.refunded = d] \in SaleRows
                            /\ [r EXCEPT !.replaced = d] \in SaleRows
<1>1. \A b \in Buyers : [r EXCEPT !.party = b] \in SaleRows
  BY DEF SaleRows
<1>2. ASSUME NEW q \in SaleRows
      PROVE  \A a \in Amounts : [q EXCEPT !.amount = a] \in SaleRows
  BY DEF SaleRows
<1>3. \A b \in Buyers, a \in Amounts : [r EXCEPT !.party = b, !.amount = a] \in SaleRows
  BY <1>1, <1>2
<1>4. \A d \in Days : [r EXCEPT !.delivered = d] \in SaleRows
  BY DEF SaleRows
<1>5. \A d \in Days : [r EXCEPT !.paid = d] \in SaleRows
  BY DEF SaleRows
<1>6. \A d \in Days : [r EXCEPT !.refunded = d] \in SaleRows
  BY DEF SaleRows
<1>7. \A d \in Days : [r EXCEPT !.replaced = d] \in SaleRows
  BY DEF SaleRows
<1> QED
  BY <1>3, <1>4, <1>5, <1>6, <1>7

LEMMA BooksInvInit == BooksStart => BooksInv
<1> SUFFICES ASSUME BooksStart
             PROVE  BooksInv
  OBVIOUS
<1>1. 0 \in Days
  BY BooksAssumption DEF BooksAssumption, Days
<1>2. NoSale \in SaleRows
  BY DEF NoSale, SaleRows
<1> QED
  BY <1>1, <1>2 DEF BooksStart, BooksInit, BooksInv

LEMMA BooksInvNext == BooksInv /\ [BooksNext]_bookVars => BooksInv'
<1>1. ASSUME BooksInv, NEW s \in Sales, NEW r \in SaleRows,
             sale' = [sale EXCEPT ![s] = r], UNCHANGED <<day, fee, h>>
      PROVE  BooksInv'
  BY <1>1 DEF BooksInv
<1>2. ASSUME BooksInv, NEW s \in Sales, NEW buyer \in Buyers, NEW amount \in Amounts,
             Order(s, buyer, amount)
      PROVE  BooksInv'
  <2> PICK old \in SaleRows : old = sale[s]
    BY <1>2 DEF BooksInv
  <2> PICK r \in SaleRows : r = [old EXCEPT !.party = buyer, !.amount = amount]
    BY SaleFacts
  <2>1. sale' = [sale EXCEPT ![s] = r]
    BY <1>2 DEF Order
  <2> QED
    BY <1>1, <1>2, <2>1 DEF Order
<1>3. ASSUME BooksInv, NEW s \in Sales,
             Deliver(s) \/ Settle(s) \/ RefundSale(s) \/ ReplaceSale(s)
      PROVE  BooksInv'
  <2> PICK old \in SaleRows : old = sale[s]
    BY <1>3 DEF BooksInv
  <2> PICK d \in Days : d = day
    BY <1>3 DEF BooksInv
  <2>1. CASE Deliver(s)
    <3> PICK r \in SaleRows : r = [old EXCEPT !.delivered = d]
      BY SaleFacts
    <3> QED
      BY <1>1, <1>3, <2>1 DEF Deliver, Happens
  <2>2. CASE Settle(s)
    <3> PICK r \in SaleRows : r = [old EXCEPT !.paid = d]
      BY SaleFacts
    <3> QED
      BY <1>1, <1>3, <2>2 DEF Settle, Happens
  <2>3. CASE RefundSale(s)
    <3> PICK r \in SaleRows : r = [old EXCEPT !.refunded = d]
      BY SaleFacts
    <3> QED
      BY <1>1, <1>3, <2>3 DEF RefundSale, Happens
  <2>4. CASE ReplaceSale(s)
    <3> PICK r \in SaleRows : r = [old EXCEPT !.replaced = d]
      BY SaleFacts
    <3> QED
      BY <1>1, <1>3, <2>4 DEF ReplaceSale, Happens
  <2> QED
    BY <1>3, <2>1, <2>2, <2>3, <2>4
<1>4. ASSUME BooksInv, NEW charge \in Charges, BuyPlan(charge)
      PROVE  BooksInv'
  BY <1>4 DEF BooksInv, BuyPlan
<1>5. ASSUME BooksInv, DayCloses
      PROVE  BooksInv'
  BY <1>5, BooksAssumption DEF BooksAssumption, BooksInv, DayCloses, Days
<1>6. ASSUME BooksInv, UNCHANGED bookVars
      PROVE  BooksInv'
  BY <1>6 DEF BooksInv, bookVars, booksVars
<1> QED
  BY <1>2, <1>3, <1>4, <1>5, <1>6 DEF BooksNext

LEMMA BooksTyped == BooksInv => BooksTypeOK
  BY DEF BooksInv, BooksTypeOK, SaleRows

(***************************************************************************)
(* The order of a book.                                                      *)
(***************************************************************************)
\* A sale gives a book one line of each kind at most.
WellKept(S) ==
  /\ \A l \in S : /\ l.at \in Days /\ l.sale \in 1..(MaxSales + 1)
                  /\ l.kind \in DOMAIN Pushed /\ l.delta \in Int
  /\ \A l, m \in S : l.sale = m.sale /\ l.kind = m.kind => l = m

Rank(S, l) == Cardinality({m \in S : Before(m, l)})

LEMMA PushedFacts ==
  /\ IsFiniteSet(DOMAIN Pushed)
  /\ \A k \in DOMAIN Pushed : Pushed[k] \in Nat
  /\ \A k, i \in DOMAIN Pushed : Pushed[k] = Pushed[i] => k = i
<1> DEFINE All == {"delivery", "payment", "return", "replacement", "subscription"}
<1>1. DOMAIN Pushed = All
  BY DEF Pushed
<1>2. Pushed["delivery"] = 0 /\ Pushed["payment"] = 1 /\ Pushed["return"] = 2
      /\ Pushed["replacement"] = 3 /\ Pushed["subscription"] = 4
  BY DEF Pushed
<1>3. IsFiniteSet(All)
  <2>1. IsFiniteSet({"delivery"})
    BY FS_Singleton
  <2>2. IsFiniteSet({"delivery"} \cup {"payment"})
    BY <2>1, FS_AddElement
  <2>3. IsFiniteSet(({"delivery"} \cup {"payment"}) \cup {"return"})
    BY <2>2, FS_AddElement
  <2>4. IsFiniteSet((({"delivery"} \cup {"payment"}) \cup {"return"}) \cup {"replacement"})
    BY <2>3, FS_AddElement
  <2>5. IsFiniteSet(((({"delivery"} \cup {"payment"}) \cup {"return"}) \cup {"replacement"})
                    \cup {"subscription"})
    BY <2>4, FS_AddElement
  <2>6. All = (((({"delivery"} \cup {"payment"}) \cup {"return"}) \cup {"replacement"})
               \cup {"subscription"})
    OBVIOUS
  <2> QED
    BY <2>5, <2>6
<1>4. ASSUME NEW k \in DOMAIN Pushed
      PROVE  Pushed[k] \in Nat
  BY <1>1, <1>2
<1>5. ASSUME NEW k \in DOMAIN Pushed, NEW i \in DOMAIN Pushed, Pushed[k] = Pushed[i]
      PROVE  k = i
  BY <1>1, <1>2, <1>5
<1> QED
  BY <1>1, <1>3, <1>4, <1>5

LEMMA LinesFinite ==
  ASSUME NEW S, WellKept(S)
  PROVE  IsFiniteSet(S)
<1> DEFINE T == (1..(MaxSales + 1)) \X (DOMAIN Pushed)
           f == [l \in S |-> <<l.sale, l.kind>>]
<1>1. IsFiniteSet(T)
  <2>1. 1 \in Int /\ MaxSales + 1 \in Int
    BY BooksAssumption DEF BooksAssumption
  <2>2. IsFiniteSet(1..(MaxSales + 1))
    BY <2>1, FS_Interval
  <2> QED
    BY <2>2, FS_Product, PushedFacts
<1>2. f \in [S -> T]
  BY DEF WellKept
<1>3. \A l, m \in S : f[l] = f[m] => l = m
  BY DEF WellKept
<1>4. f \in Injection(S, T)
  BY <1>2, <1>3 DEF Injection, IsInjective
<1> QED
  BY <1>1, <1>4, FS_Injection

LEMMA BeforeOrders ==
  ASSUME NEW S, WellKept(S)
  PROVE  /\ \A l \in S : ~Before(l, l)
         /\ \A l, m, i \in S : Before(l, m) /\ Before(m, i) => Before(l, i)
         /\ \A l, m \in S : l # m => Before(l, m) \/ Before(m, l)
         /\ \A l, m \in S : Before(l, m) => l.at <= m.at
<1>1. \A l \in S : /\ l.at \in Int /\ l.sale \in Int /\ Pushed[l.kind] \in Int
                   /\ l.kind \in DOMAIN Pushed
  BY PushedFacts, BooksAssumption DEF WellKept, BooksAssumption, Days
<1>2. \A l, m \in S : l.sale = m.sale /\ Pushed[l.kind] = Pushed[m.kind] => l = m
  BY <1>1, PushedFacts DEF WellKept
<1>3. \A l \in S : ~Before(l, l)
  BY <1>1 DEF Before
<1>4. ASSUME NEW l \in S, NEW m \in S, NEW i \in S, Before(l, m), Before(m, i)
      PROVE  Before(l, i)
  BY <1>1, <1>4 DEF Before
<1>5. ASSUME NEW l \in S, NEW m \in S, l # m
      PROVE  Before(l, m) \/ Before(m, l)
  BY <1>1, <1>2, <1>5 DEF Before
<1>6. \A l, m \in S : Before(l, m) => l.at <= m.at
  BY <1>1 DEF Before
<1> QED
  BY <1>3, <1>4, <1>5, <1>6

LEMMA RankGrows ==
  ASSUME NEW S, WellKept(S)
  PROVE  /\ \A l \in S : Rank(S, l) \in 0..(Cardinality(S) - 1)
         /\ \A l, m \in S : Before(m, l) => Rank(S, m) < Rank(S, l)
<1>1. IsFiniteSet(S) /\ Cardinality(S) \in Nat
  BY LinesFinite, FS_CardinalityType
<1> DEFINE Ahead(l) == {m \in S : Before(m, l)}
<1>2. \A l \in S : IsFiniteSet(Ahead(l)) /\ Cardinality(Ahead(l)) \in Nat
  BY <1>1, FS_Subset, FS_CardinalityType
<1>3. ASSUME NEW l \in S
      PROVE  Cardinality(Ahead(l)) <= Cardinality(S) - 1
  <2>1. Ahead(l) \in SUBSET (S \ {l})
    BY BeforeOrders
  <2>2. IsFiniteSet(S \ {l}) /\ Cardinality(S \ {l}) = Cardinality(S) - 1
    BY <1>1, FS_RemoveElement
  <2> QED
    BY <2>1, <2>2, FS_Subset
<1>4. ASSUME NEW l \in S, NEW m \in S, Before(m, l)
      PROVE  Cardinality(Ahead(m)) < Cardinality(Ahead(l))
  <2>1. Ahead(m) \in SUBSET (Ahead(l) \ {m}) /\ m \in Ahead(l)
    BY <1>4, BeforeOrders
  <2>2. IsFiniteSet(Ahead(l) \ {m}) /\ Cardinality(Ahead(l) \ {m}) = Cardinality(Ahead(l)) - 1
    BY <1>2, <2>1, FS_RemoveElement
  <2>3. Cardinality(Ahead(m)) <= Cardinality(Ahead(l)) - 1
    BY <2>1, <2>2, FS_Subset
  <2> QED
    BY <1>2, <2>3
<1> QED
  BY <1>1, <1>2, <1>3, <1>4 DEF Rank

LEMMA RankOnto ==
  ASSUME NEW S, WellKept(S)
  PROVE  /\ \A l, m \in S : Rank(S, l) = Rank(S, m) => l = m
         /\ \A k \in 0..(Cardinality(S) - 1) : \E l \in S : Rank(S, l) = k
<1> DEFINE N == Cardinality(S)
           T == 0..(N - 1)
           f == [l \in S |-> Rank(S, l)]
<1>1. IsFiniteSet(S) /\ N \in Nat
  BY LinesFinite, FS_CardinalityType
<1>2. IsFiniteSet(T) /\ Cardinality(T) = N
  BY <1>1, FS_Interval
<1>3. f \in [S -> T]
  BY RankGrows
<1>4. ASSUME NEW l \in S, NEW m \in S, Rank(S, l) = Rank(S, m)
      PROVE  l = m
  <2>1. Rank(S, l) \in Int
    BY RankGrows
  <2>2. ~Before(l, m) /\ ~Before(m, l)
    BY <1>4, <2>1, RankGrows
  <2> QED
    BY <2>2, BeforeOrders
<1>5. f \in Injection(S, T)
  BY <1>3, <1>4 DEF Injection, IsInjective
<1>6. f \in Surjection(S, T)
  <2> HIDE DEF f, T
  <2> QED
    BY <1>2, <1>5, FS_Injection
<1> QED
  BY <1>4, <1>6 DEF Surjection

\* Sorted lists every line once, in the order of the days.
LEMMA SortedFacts ==
  ASSUME NEW S, WellKept(S), NEW N, N = Cardinality(S), NEW line, line = Sorted(S)
  PROVE  /\ IsFiniteSet(S) /\ N \in Nat
         /\ line \in [1..N -> S] /\ line \in Seq(S) /\ Len(line) = N /\ DOMAIN line = 1..N
         /\ \A n, k \in 1..N : line[n] = line[k] => n = k
         /\ \A l \in S : \E n \in 1..N : line[n] = l
         /\ \A n, k \in 1..N : n <= k => line[n].at <= line[k].at
<1>1. IsFiniteSet(S) /\ N \in Nat
  BY LinesFinite, FS_CardinalityType
<1>2. ASSUME NEW n \in 1..N
      PROVE  line[n] \in S /\ Rank(S, line[n]) = n - 1
  <2>1. n - 1 \in 0..(N - 1)
    BY <1>1
  <2>2. \E l \in S : Rank(S, l) = n - 1
    BY <2>1, RankOnto
  <2>3. line[n] = CHOOSE l \in S : Rank(S, l) = n - 1
    BY DEF Sorted, Rank
  <2> QED
    BY <2>2, <2>3
<1>3. line = [n \in 1..N |-> line[n]]
  <2> DEFINE row(n) == CHOOSE l \in S : Cardinality({m \in S : Before(m, l)}) = n - 1
  <2>1. line = [n \in 1..N |-> row(n)]
    BY DEF Sorted
  <2> HIDE DEF row
  <2> QED
    BY <2>1
<1>4. line \in [1..N -> S]
  BY <1>2, <1>3
<1>5. line \in Seq(S) /\ Len(line) = N /\ DOMAIN line = 1..N
  BY <1>1, <1>4
<1>6. \A n, k \in 1..N : line[n] = line[k] => n = k
  BY <1>1, <1>2
<1>7. ASSUME NEW l \in S
      PROVE  \E n \in 1..N : line[n] = l
  <2>1. Rank(S, l) \in 0..(N - 1)
    BY RankGrows
  <2>2. PICK n \in 1..N : n - 1 = Rank(S, l)
    BY <1>1, <2>1
  <2> QED
    BY <1>2, <2>2, RankOnto
<1>8. ASSUME NEW n \in 1..N, NEW k \in 1..N, n <= k
      PROVE  line[n].at <= line[k].at
  <2>1. line[n] \in S /\ line[k] \in S /\ line[n].at \in Int
    BY <1>2, BooksAssumption DEF WellKept, BooksAssumption, Days
  <2>2. CASE line[n] = line[k]
    BY <2>1, <2>2
  <2>3. CASE line[n] # line[k]
    <3>1. ~Before(line[k], line[n])
      <4> SUFFICES ASSUME Before(line[k], line[n])
                   PROVE  FALSE
        OBVIOUS
      <4>1. Rank(S, line[k]) < Rank(S, line[n])
        BY <2>1, RankGrows
      <4> QED
        BY <1>1, <1>2, <1>8, <4>1
    <3> QED
      BY <2>1, <2>3, <3>1, BeforeOrders
  <2> QED
    BY <2>2, <2>3
<1> QED
  BY <1>1, <1>4, <1>5, <1>6, <1>7, <1>8

(***************************************************************************)
(* The walk over a book.                                                     *)
(***************************************************************************)
Deltas(line) == [n \in DOMAIN line |-> line[n].delta]

\* What the places A of a book come to is what the lines there come to.
LEMMA SumOfLines ==
  ASSUME NEW S, WellKept(S), NEW line, line = Sorted(S), NEW A \in SUBSET (DOMAIN line)
  PROVE  /\ IsFiniteSet(A) /\ \A n \in A : Deltas(line)[n] \in Int
         /\ \A B : B = {line[n] : n \in A} => SumFunctionOnSet(Deltas(line), A) = Total(B)
<1> DEFINE N == Cardinality(S)
<1>1. N \in Nat /\ line \in [1..N -> S] /\ DOMAIN line = 1..N
      /\ \A n, k \in 1..N : line[n] = line[k] => n = k
  BY SortedFacts
<1>2. IsFiniteSet(A)
  <2>1. IsFiniteSet(1..N)
    BY <1>1, FS_Interval
  <2> QED
    BY <1>1, <2>1, FS_Subset
<1> SUFFICES ASSUME NEW B, B = {line[n] : n \in A}
             PROVE  /\ \A n \in A : Deltas(line)[n] \in Int
                    /\ SumFunctionOnSet(Deltas(line), A) = Total(B)
  BY <1>2
<1> PICK f : f = Deltas(line)
  OBVIOUS
<1> PICK e : e = [l \in B |-> l.delta]
  OBVIOUS
<1> PICK j : j = [n \in A |-> line[n]]
  OBVIOUS
<1>3. \A n \in A : f[n] \in Int /\ f[n] = e[j[n]]
  BY <1>1 DEF Deltas, WellKept
<1>4. j \in [A -> B] /\ \A n, k \in A : j[n] = j[k] => n = k
  BY <1>1
<1>5. j \in Bijection(A, B)
  BY <1>4 DEF Bijection, Injection, Surjection, IsInjective
<1>6. SumFunctionOnSet(f, A) = SumFunctionOnSet(e, B)
  BY ONLY <1>2, <1>3, <1>5, SumAlong
<1>7. DOMAIN e = B
  OBVIOUS
<1>8. SumFunctionOnSet(f, A) = SumFunctionOnSet(e, DOMAIN e)
  BY <1>6, <1>7
<1> QED
  BY <1>2, <1>3, <1>8 DEF Total, SumFunction

Walks(b, line) == b = [n \in 0..Len(line) |-> IF n = 0 THEN 0 ELSE b[n - 1] + line[n].delta]

\* The running balance is the sum of the lines so far.
LEMMA BalanceFacts ==
  ASSUME NEW N \in Nat, NEW line, Len(line) = N, DOMAIN line = 1..N,
         \A n \in 1..N : line[n].delta \in Int
  PROVE  \A n \in 0..N : Balance(line)[n] = SumFunctionOnSet(Deltas(line), 1..n)
<1> DEFINE f == Deltas(line)
           Sum(n) == SumFunctionOnSet(f, 1..n)
           g == [n \in 0..N |-> Sum(n)]
<1>1. ASSUME NEW n \in 1..N
      PROVE  Sum(n) = Sum(n - 1) + line[n].delta
  <2>1. IsFiniteSet(1..n) /\ IsFiniteSet(1..(n - 1))
    <3>1. n \in Int /\ n - 1 \in Int /\ 1 \in Int
      OBVIOUS
    <3> QED
      BY ONLY <3>1, FS_Interval
  <2>2. n \in 1..n /\ (1..n) \ {n} = 1..(n - 1) /\ f[n] = line[n].delta /\ f[n] \in Int
    <3>1. n \in 1..n /\ (1..n) \ {n} = 1..(n - 1)
      <4>1. n \in Int /\ n >= 1
        OBVIOUS
      <4> QED
        BY ONLY <4>1
    <3>2. f[n] = line[n].delta /\ f[n] \in Int
      BY DEF Deltas
    <3> QED
      BY <3>1, <3>2
  <2>3. \A x \in 1..n : f[x] \in Int
    BY DEF Deltas
  <2>4. SumFunctionOnSet(f, 1..n) = f[n] + SumFunctionOnSet(f, (1..n) \ {n})
    <3> HIDE DEF f
    <3> QED
      BY <2>1, <2>2, <2>3, SumTake
  <2>5. \A x \in 1..(n - 1) : f[x] \in Int
    BY <2>3
  <2>6. SumFunctionOnSet(f, 1..(n - 1)) \in Int
    <3> HIDE DEF f
    <3> QED
      BY <2>1, <2>5, SumIsInt
  <2>7. Sum(n) = f[n] + Sum(n - 1)
    BY <2>2, <2>4
  <2> QED
    BY ONLY <2>2, <2>6, <2>7
<1>2. Sum(0) = 0
  <2>1. 1..0 = {}
    OBVIOUS
  <2> QED
    BY <2>1, SumOfNone
<1>3. Walks(g, line)
  <2> DEFINE k == [n \in 0..N |-> IF n = 0 THEN 0 ELSE g[n - 1] + line[n].delta]
  <2> SUFFICES ASSUME NEW n \in 0..N
               PROVE  g[n] = k[n]
    BY DEF Walks
  <2>1. CASE n = 0
    BY <1>2, <2>1
  <2>2. CASE n # 0
    <3>1. n \in 1..N /\ n - 1 \in 0..N
      BY <2>2
    <3>2. g[n - 1] = Sum(n - 1) /\ g[n] = Sum(n) /\ k[n] = g[n - 1] + line[n].delta
      BY <2>2, <3>1
    <3> QED
      BY <1>1, <3>1, <3>2
  <2> QED
    BY <2>1, <2>2
<1>4. Balance(line) = CHOOSE b : Walks(b, line)
  BY DEF Balance, Walks
<1>5. Walks(Balance(line), line)
  BY <1>3, <1>4
<1> DEFINE Bad == {n \in Nat : n <= N /\ Balance(line)[n] # Sum(n)}
<1>6. Bad = {}
  <2> SUFFICES ASSUME Bad # {}
               PROVE  FALSE
    OBVIOUS
  <2>1. PICK n \in Bad : \A m \in Bad : n <= m
    BY LeastNatural
  <2>2. n \in 0..N
    OBVIOUS
  <2>3. Balance(line)[n] = IF n = 0 THEN 0 ELSE Balance(line)[n - 1] + line[n].delta
    BY <1>5, <2>2 DEF Walks
  <2>4. n # 0
    BY <1>2, <2>3
  <2>5. n - 1 \in Nat /\ ~(n <= n - 1) /\ n \in 1..N
    BY <2>2, <2>4
  <2>6. n - 1 \notin Bad
    BY <2>1, <2>5
  <2>7. Balance(line)[n - 1] = Sum(n - 1)
    BY <2>5, <2>6
  <2> QED
    BY <1>1, <2>3, <2>4, <2>5, <2>7
<1> QED
  BY <1>6

\* The days of a book are whole numbers, and so is what its lines come to.
LEMMA LinesTyped ==
  ASSUME NEW S, WellKept(S), NEW line, line = Sorted(S), NEW N, N = Cardinality(S)
  PROVE  /\ N \in Nat /\ Len(line) = N /\ DOMAIN line = 1..N /\ IsFiniteSet(1..N)
         /\ \A n \in 1..N : line[n] \in S /\ line[n].at \in Int /\ line[n].delta \in Int
         /\ \A n, k \in 1..N : n <= k => line[n].at <= line[k].at
         /\ \A n \in 0..N : Balance(line)[n] = SumFunctionOnSet(Deltas(line), 1..n)
<1>1. /\ N \in Nat /\ Len(line) = N /\ DOMAIN line = 1..N /\ line \in [1..N -> S]
      /\ \A n, k \in 1..N : n <= k => line[n].at <= line[k].at
  BY SortedFacts
<1>2. \A n \in 1..N : line[n] \in S /\ line[n].at \in Int /\ line[n].delta \in Int
  BY <1>1, BooksAssumption DEF WellKept, BooksAssumption, Days
<1>3. \A n \in 0..N : Balance(line)[n] = SumFunctionOnSet(Deltas(line), 1..n)
  BY <1>1, <1>2, BalanceFacts
<1> QED
  BY <1>1, <1>2, <1>3, FS_Interval

\* The book opens on what the lines before its first day come to.
LEMMA OpeningFacts ==
  ASSUME NEW S, WellKept(S), NEW line, line = Sorted(S), NEW from \in Days,
         NEW A \in SUBSET (DOMAIN line), \A n \in DOMAIN line : n \in A <=> line[n].at < from
  PROVE  /\ Opening(line, Balance(line), from) = SumFunctionOnSet(Deltas(line), A)
         /\ Opening(line, Balance(line), from) = Total({l \in S : l.at < from})
<1> DEFINE N == Cardinality(S)
           later == {n \in DOMAIN line : line[n].at >= from}
<1>1. /\ N \in Nat /\ Len(line) = N /\ DOMAIN line = 1..N
      /\ \A n \in 1..N : line[n] \in S /\ line[n].at \in Int
      /\ \A n, k \in 1..N : n <= k => line[n].at <= line[k].at
      /\ \A n \in 0..N : Balance(line)[n] = SumFunctionOnSet(Deltas(line), 1..n)
  BY LinesTyped
<1>2. from \in Int
  BY BooksAssumption DEF BooksAssumption, Days
<1>3. ASSUME later = {}
      PROVE  Opening(line, Balance(line), from) = SumFunctionOnSet(Deltas(line), A)
  <2>1. A = 1..N
    <3>1. \A n \in 1..N : n \in A
      BY <1>1, <1>2, <1>3
    <3>2. \A n : n \in A <=> n \in 1..N
      BY <1>1, <3>1
    <3> QED
      BY <3>2
  <2>2. Opening(line, Balance(line), from) = Balance(line)[N]
    BY <1>1, <1>3 DEF Opening
  <2>3. Balance(line)[N] = SumFunctionOnSet(Deltas(line), 1..N)
    BY <1>1
  <2> QED
    BY ONLY <2>1, <2>2, <2>3
<1>4. ASSUME later # {}
      PROVE  Opening(line, Balance(line), from) = SumFunctionOnSet(Deltas(line), A)
  <2>1. later \in SUBSET Nat
    BY <1>1
  <2>2. PICK k \in later : \A n \in later : k <= n
    BY <1>4, <2>1, LeastNatural
  <2>3. Min(later) \in later /\ \A n \in later : Min(later) <= n
    BY <2>2 DEF Min
  <2>4. Min(later) = k
    BY <2>1, <2>2, <2>3
  <2>5. k - 1 \in 0..N
    BY <1>1
  <2>6. A = 1..(k - 1)
    <3>1. ASSUME NEW n \in 1..N, n < k
          PROVE  line[n].at < from
      BY <1>1, <1>2, <2>2, <3>1
    <3>2. ASSUME NEW n \in 1..N, k <= n
          PROVE  ~(line[n].at < from)
      BY <1>1, <1>2, <3>2
    <3>3. 1..(k - 1) = {n \in 1..N : n < k}
      BY <1>1, <2>5
    <3>4. \A n : n \in A <=> n \in {i \in 1..N : i < k}
      BY <1>1, <3>1, <3>2
    <3> QED
      BY <3>3, <3>4
  <2>7. Opening(line, Balance(line), from) = Balance(line)[k - 1]
    BY <1>4, <2>4 DEF Opening
  <2> QED
    BY <1>1, <2>5, <2>6, <2>7
<1>5. Opening(line, Balance(line), from) = SumFunctionOnSet(Deltas(line), A)
  BY <1>3, <1>4
<1>6. PICK L : L = {l \in S : l.at < from}
  OBVIOUS
<1>7. L = {line[n] : n \in A}
  <2>1. \A l \in S : \E n \in DOMAIN line : line[n] = l
    BY SortedFacts
  <2>2. ASSUME NEW l
        PROVE  l \in L <=> \E n \in A : l = line[n]
    BY <1>1, <1>6, <2>1
  <2> QED
    BY <2>2
<1>8. SumFunctionOnSet(Deltas(line), A) = Total(L)
  <2>1. A \in SUBSET (DOMAIN line)
    OBVIOUS
  <2> QED
    BY <1>7, <2>1, SumOfLines
<1> QED
  BY <1>5, <1>6, <1>8

\* It closes on what the lines up to its last day come to, whichever kind is shown.
LEMMA ClosingFacts ==
  ASSUME NEW S, WellKept(S), NEW line, line = Sorted(S), NEW from \in Days, NEW to \in Days,
         from <= to, NEW kind, NEW due, due = Book(line, from, to, kind).due,
         NEW A \in SUBSET (DOMAIN line), \A n \in DOMAIN line : n \in A <=> line[n].at <= to
  PROVE  due = SumFunctionOnSet(Deltas(line), A) /\ due = Total({l \in S : l.at <= to})
<1> DEFINE N == Cardinality(S)
<1> PICK B \in SUBSET (DOMAIN line) : \A n \in DOMAIN line : n \in B <=> line[n].at < from
  <2> DEFINE E == {n \in DOMAIN line : line[n].at < from}
  <2>1. E \in SUBSET (DOMAIN line) /\ \A n \in DOMAIN line : n \in E <=> line[n].at < from
    OBVIOUS
  <2> QED
    BY <2>1
<1> PICK C : C = Inside(line, from, to)
  OBVIOUS
<1>1. /\ N \in Nat /\ DOMAIN line = 1..N
      /\ \A n \in 1..N : line[n] \in S /\ line[n].at \in Int
  BY LinesTyped
<1>2. from \in Int /\ to \in Int
  BY BooksAssumption DEF BooksAssumption, Days
<1>3. A = B \cup C /\ B \cap C = {}
  BY <1>1, <1>2 DEF Inside, InWindow
<1>4. Opening(line, Balance(line), from) = SumFunctionOnSet(Deltas(line), B)
  BY OpeningFacts
<1>5. Moved(line, from, to, kind) = SumFunctionOnSet(Deltas(line), C)
  <2>1. {n \in C : Counted(kind, line[n])} = C
    BY DEF Counted
  <2> QED
    BY <2>1 DEF Moved, Deltas
<1>6. due = SumFunctionOnSet(Deltas(line), B) + SumFunctionOnSet(Deltas(line), C)
  BY <1>4, <1>5 DEF Book
<1>7. /\ IsFiniteSet(B) /\ \A n \in B : Deltas(line)[n] \in Int
      /\ IsFiniteSet(C) /\ \A n \in C : Deltas(line)[n] \in Int
  <2>1. B \in SUBSET (DOMAIN line) /\ C \in SUBSET (DOMAIN line)
    BY DEF Inside
  <2> QED
    BY <2>1, SumOfLines
<1>8. SumFunctionOnSet(Deltas(line), B \cup C)
        = SumFunctionOnSet(Deltas(line), B) + SumFunctionOnSet(Deltas(line), C)
  BY <1>3, <1>7, SumTogether
<1>9. due = SumFunctionOnSet(Deltas(line), A)
  BY <1>3, <1>6, <1>8
<1>10. PICK L : L = {l \in S : l.at <= to}
  OBVIOUS
<1>11. L = {line[n] : n \in A}
  <2>1. \A l \in S : \E n \in DOMAIN line : line[n] = l
    BY SortedFacts
  <2>2. ASSUME NEW l
        PROVE  l \in L <=> \E n \in A : l = line[n]
    BY <1>1, <1>10, <2>1
  <2> QED
    BY <2>2
<1>12. SumFunctionOnSet(Deltas(line), A) = Total(L)
  <2>1. A \in SUBSET (DOMAIN line)
    OBVIOUS
  <2> QED
    BY <1>11, <2>1, SumOfLines
<1> QED
  BY <1>9, <1>10, <1>12

LEMMA GreatestPlace ==
  ASSUME NEW N \in Nat, NEW T \in SUBSET (1..N), T # {}
  PROVE  \E k \in T : \A n \in T : n <= k
<1> DEFINE D == {d \in Nat : N - d \in T}
<1>1. D # {}
  <2> PICK n \in T : TRUE
    OBVIOUS
  <2>1. n \in Int /\ N - n \in Nat /\ N - (N - n) = n
    OBVIOUS
  <2> QED
    BY <2>1
<1>2. PICK d \in D : \A c \in D : d <= c
  BY <1>1, LeastNatural
<1>3. ASSUME NEW n \in T
      PROVE  n <= N - d
  <2>1. n \in Int /\ N - n \in Nat /\ N - (N - n) = n
    OBVIOUS
  <2>2. d <= N - n
    BY <1>2, <2>1
  <2> QED
    BY <2>1, <2>2
<1> QED
  BY <1>2, <1>3

LEMMA LastOfFacts ==
  ASSUME NEW X, NEW q \in Seq(X), NEW r, r = LastOf(q), r # <<>>
  PROVE  Len(q) # 0 /\ r[Len(r)] = q[Len(q)]
<1>1. EntryCap \in Nat /\ Len(q) \in Nat /\ (q = <<>> <=> Len(q) = 0)
  BY EmptySeq, LenProperties, BooksAssumption DEF BooksAssumption
<1>2. CASE Len(q) > EntryCap
  <2> DEFINE m == Len(q) - EntryCap + 1
  <2>1. r = SubSeq(q, m, Len(q)) /\ m \in Int /\ m >= 1
    BY <1>1, <1>2 DEF LastOf
  <2>2. EntryCap # 0
    <3> SUFFICES ASSUME EntryCap = 0
                 PROVE  FALSE
      OBVIOUS
    <3>1. m > Len(q)
      BY <1>1
    <3> QED
      BY <1>1, <2>1, <3>1
  <2>3. Len(r) = EntryCap /\ r[EntryCap] = q[m + EntryCap - 1]
    BY <1>1, <1>2, <2>1, <2>2
  <2>4. m + EntryCap - 1 = Len(q)
    BY <1>1
  <2> QED
    BY <1>1, <1>2, <2>3, <2>4
<1>3. CASE ~(Len(q) > EntryCap)
  BY <1>1, <1>3 DEF LastOf
<1> QED
  BY <1>2, <1>3

\* The last row of a book where no kind is hidden carries the closing.
LEMMA LastRowFacts ==
  ASSUME NEW S, WellKept(S), NEW line, line = Sorted(S), NEW from \in Days, NEW to \in Days,
         NEW rows, rows = RowBalances(line, Balance(line), from, to, "all"), rows # <<>>,
         NEW A \in SUBSET (DOMAIN line), \A n \in DOMAIN line : n \in A <=> line[n].at <= to
  PROVE  rows[Len(rows)] = SumFunctionOnSet(Deltas(line), A)
<1> DEFINE N == Cardinality(S)
<1> PICK T : T = Inside(line, from, to)
  OBVIOUS
<1> PICK c : c = Cardinality(T)
  OBVIOUS
<1> DEFINE place(i) == CHOOSE n \in T : Cardinality({m \in T : m < n}) = i - 1
           entries == [i \in 1..c |-> Balance(line)[place(i)]]
<1>1. /\ N \in Nat /\ DOMAIN line = 1..N /\ IsFiniteSet(1..N)
      /\ \A n \in 1..N : line[n] \in S /\ line[n].at \in Int
      /\ \A n, k \in 1..N : n <= k => line[n].at <= line[k].at
      /\ \A n \in 0..N : Balance(line)[n] = SumFunctionOnSet(Deltas(line), 1..n)
  BY LinesTyped
<1>2. from \in Int /\ to \in Int /\ EntryCap \in Nat
  BY BooksAssumption DEF BooksAssumption, Days
<1>3. T \in SUBSET (1..N) /\ IsFiniteSet(T) /\ c \in Nat
  BY <1>1, FS_Subset, FS_CardinalityType DEF Inside
<1>4. PICK q : q = entries
  OBVIOUS
<1>5. rows = LastOf(q)
  <2>1. PICK shown : shown = {n \in Inside(line, from, to) : KindOk("all", line[n])}
    OBVIOUS
  <2>2. rows = LastOf([i \in 1..Cardinality(shown) |->
           Balance(line)[CHOOSE n \in shown : Cardinality({m \in shown : m < n}) = i - 1]])
    BY <2>1 DEF RowBalances
  <2>3. shown = T
    BY <2>1 DEF KindOk
  <2> QED
    BY <1>4, <2>2, <2>3
<1>6. rows[Len(rows)] = Balance(line)[place(c)] /\ c # 0
  <2> HIDE DEF place
  <2>1. PICK X : X = {Balance(line)[place(i)] : i \in 1..c}
    OBVIOUS
  <2>2. q \in Seq(X) /\ Len(q) = c /\ \A i \in 1..c : q[i] = Balance(line)[place(i)]
    BY <1>3, <1>4, <2>1
  <2>3. Len(q) # 0 /\ rows[Len(rows)] = q[Len(q)]
    BY ONLY <1>5, <2>2, rows # <<>>, LastOfFacts
  <2> QED
    BY <1>3, <2>2, <2>3
<1>7. PICK k \in T : \A n \in T : n <= k
  <2>1. T # {}
    BY <1>3, <1>6, FS_EmptySet
  <2> QED
    BY <1>1, <1>3, <2>1, GreatestPlace
<1>8. place(c) = k
  <2> DEFINE Ahead(n) == {m \in T : m < n}
  <2>1. Cardinality(Ahead(k)) = c - 1
    <3>1. Ahead(k) = T \ {k}
      <4>1. \A n \in T : n < k <=> n # k
        BY <1>3, <1>7
      <4> QED
        BY <4>1
    <3>2. Cardinality(T \ {k}) = c - 1
      BY <1>3, FS_RemoveElement
    <3> QED
      BY <3>1, <3>2
  <2>2. ASSUME NEW n \in T, Cardinality(Ahead(n)) = c - 1
        PROVE  n = k
    <3> SUFFICES ASSUME n # k
                 PROVE  FALSE
      OBVIOUS
    <3>1. n < k /\ k \notin Ahead(n) /\ n \notin Ahead(n)
      BY <1>3, <1>7
    <3>2. Ahead(n) \in SUBSET ((T \ {k}) \ {n})
      BY <3>1
    <3>3. IsFiniteSet(T \ {k}) /\ Cardinality(T \ {k}) = c - 1 /\ n \in T \ {k}
      BY <1>3, FS_RemoveElement
    <3>4. IsFiniteSet((T \ {k}) \ {n}) /\ Cardinality((T \ {k}) \ {n}) = (c - 1) - 1
      <4>1. PICK U : U = T \ {k}
        OBVIOUS
      <4> QED
        BY <3>3, <4>1, FS_RemoveElement
    <3>5. Cardinality(Ahead(n)) <= (c - 1) - 1
      BY <3>2, <3>4, FS_Subset
    <3> QED
      BY <1>3, <2>2, <3>5
  <2> QED
    BY <2>1, <2>2
<1>9. A = 1..k
  <2>1. k \in 1..N /\ line[k].at <= to /\ line[k].at >= from
    BY <1>3 DEF Inside, InWindow
  <2>2. ASSUME NEW n \in 1..N, n <= k
        PROVE  line[n].at <= to
    BY <1>1, <1>2, <2>1, <2>2
  <2>3. ASSUME NEW n \in 1..N, line[n].at <= to
        PROVE  n <= k
    <3> SUFFICES ASSUME k < n
                 PROVE  FALSE
      BY <2>1
    <3>1. line[n].at >= from
      BY <1>1, <1>2, <2>1
    <3>2. n \in T
      BY <1>1, <2>3, <3>1 DEF Inside, InWindow
    <3> QED
      BY <1>7, <2>1, <3>2
  <2>4. 1..k = {n \in 1..N : n <= k}
    BY <1>1, <2>1
  <2>5. \A n : n \in A <=> n \in {i \in 1..N : i <= k}
    BY <1>1, <2>2, <2>3
  <2> QED
    BY <2>4, <2>5
<1>10. Balance(line)[k] = SumFunctionOnSet(Deltas(line), 1..k)
  BY <1>1, <1>3
<1> QED
  BY <1>6, <1>8, <1>9, <1>10

\* Any book whose lines are well kept adds up.
LEMMA WellKeptAddsUp ==
  ASSUME NEW S, WellKept(S)
  PROVE  AddsUp(S)
<1> PICK line : line = Sorted(S)
  OBVIOUS
<1> SUFFICES ASSUME NEW from \in Days, NEW to \in Days, from <= to
             PROVE  LET book == Book(line, from, to, "all")
                    IN  /\ book.opening = Total({l \in S : l.at < from})
                        /\ book.due = Total({l \in S : l.at <= to})
                        /\ book.due = Book(line, from, to, "payment").due
                        /\ book.entries # <<>> => book.entries[Len(book.entries)] = book.due
  BY DEF AddsUp
<1> DEFINE book == Book(line, from, to, "all")
           A == {n \in DOMAIN line : line[n].at <= to}
           B == {n \in DOMAIN line : line[n].at < from}
<1>1. A \in SUBSET (DOMAIN line) /\ \A n \in DOMAIN line : n \in A <=> line[n].at <= to
  OBVIOUS
<1>2. B \in SUBSET (DOMAIN line) /\ \A n \in DOMAIN line : n \in B <=> line[n].at < from
  OBVIOUS
<1>3. book.opening = Total({l \in S : l.at < from})
  <2>1. Opening(line, Balance(line), from) = Total({l \in S : l.at < from})
    <3> HIDE DEF B
    <3> QED
      BY <1>2, OpeningFacts
  <2> QED
    BY <2>1 DEF Book
<1>4. ASSUME NEW kind
      PROVE  LET due == Book(line, from, to, kind).due
             IN  due = SumFunctionOnSet(Deltas(line), A) /\ due = Total({l \in S : l.at <= to})
  <2> PICK due : due = Book(line, from, to, kind).due
    OBVIOUS
  <2> HIDE DEF A
  <2>1. due = SumFunctionOnSet(Deltas(line), A) /\ due = Total({l \in S : l.at <= to})
    BY <1>1, ClosingFacts
  <2> QED
    BY <2>1
<1>5. book.entries # <<>> => book.entries[Len(book.entries)] = SumFunctionOnSet(Deltas(line), A)
  <2> PICK rows : rows = RowBalances(line, Balance(line), from, to, "all")
    OBVIOUS
  <2>1. rows # <<>> => rows[Len(rows)] = SumFunctionOnSet(Deltas(line), A)
    <3> HIDE DEF A
    <3> QED
      BY <1>1, LastRowFacts
  <2>2. book.entries = rows
    BY DEF Book
  <2> QED
    BY <2>1, <2>2
<1> QED
  BY <1>3, <1>4, <1>5

(***************************************************************************)
(* The books of the rows.                                                    *)
(***************************************************************************)
LinesOf(s, sign) == DeliveryLines(s) \cup PaymentLines(s, sign) \cup ReturnLines(s)

SaleLines(sign) == UNION {LinesOf(s, sign) : s \in Sales}
FeeLines == {FeeLine(f) : f \in fee}
CashSales == UNION {SaleCash(s) : s \in Ordered}
AllLines(sign) == SaleLines(sign) \cup FeeLines

\* The one line of a kind that a sale gives.
TheLine(s, sign, kind) ==
  CASE kind = "delivery" -> Line(sale[s].delivered, s, "delivery", sale[s].amount)
    [] kind = "payment" -> Line(sale[s].paid, s, "payment", sign * sale[s].amount)
    [] kind = "return" -> Line(sale[s].refunded, s, "return", -RefundPaise)
    [] kind = "replacement" -> Line(sale[s].replaced, s, "replacement", 0)

LEMMA LineFacts ==
  ASSUME BooksInv, NEW s \in Sales, NEW sign \in {1, -1}, NEW l \in LinesOf(s, sign)
  PROVE  /\ l.at \in Days /\ l.sale = s /\ l.delta \in Int
         /\ l.kind \in {"delivery", "payment", "return", "replacement"}
         /\ l = TheLine(s, sign, l.kind)
<1> PICK r \in SaleRows : r = sale[s]
  BY DEF BooksInv
<1>1. /\ r.amount \in Int /\ sign * r.amount \in Int /\ RefundPaise \in Int /\ -RefundPaise \in Int
      /\ {r.delivered, r.paid, r.refunded, r.replaced} \subseteq Days \cup {Unset}
  <2>1. r.amount \in Int
    <3>1. Amounts \cup {0} \subseteq Int
      BY BooksAssumption DEF BooksAssumption
    <3>2. r.amount \in Amounts \cup {0}
      BY DEF SaleRows
    <3> QED
      BY <3>1, <3>2
  <2>2. sign * r.amount \in Int
    BY <2>1
  <2> QED
    BY <2>1, <2>2, BooksAssumption DEF SaleRows, BooksAssumption
<1>2. CASE l \in DeliveryLines(s)
  <2>1. l = Line(r.delivered, s, "delivery", r.amount) /\ r.delivered \in Days
    BY <1>1, <1>2 DEF DeliveryLines
  <2> QED
    BY <1>1, <2>1 DEF Line, TheLine
<1>3. CASE l \in PaymentLines(s, sign)
  <2>1. l = Line(r.paid, s, "payment", sign * r.amount) /\ r.paid \in Days
    BY <1>1, <1>3 DEF PaymentLines
  <2> QED
    BY <1>1, <2>1 DEF Line, TheLine
<1>4. CASE l \in ReturnLines(s)
  <2>1. \/ l = Line(r.refunded, s, "return", -RefundPaise) /\ r.refunded \in Days
        \/ l = Line(r.replaced, s, "replacement", 0) /\ r.replaced \in Days
    BY <1>1, <1>4 DEF ReturnLines
  <2> QED
    BY <1>1, <2>1 DEF Line, TheLine
<1> QED
  BY <1>2, <1>3, <1>4 DEF LinesOf

LEMMA AllLinesKept ==
  ASSUME BooksInv, NEW sign \in {1, -1}, NEW S \in SUBSET AllLines(sign)
  PROVE  AddsUp(S)
<1>1. ASSUME NEW l \in S
      PROVE  \/ \E s \in Sales : l \in LinesOf(s, sign)
             \/ \E f \in fee : l = FeeLine(f)
  <2>1. l \in SaleLines(sign) \/ l \in FeeLines
    BY DEF AllLines
  <2> QED
    BY <2>1, Zenon DEF SaleLines, FeeLines
<1>2. ASSUME NEW f \in fee
      PROVE  /\ FeeLine(f).at \in Days /\ FeeLine(f).sale = MaxSales + 1 /\ FeeLine(f).delta \in Int
             /\ FeeLine(f).kind = "subscription"
  <2>1. f.at \in Days /\ f.charge \in Int
    <3>1. Charges \subseteq Int
      BY BooksAssumption DEF BooksAssumption
    <3>2. f.at \in Days /\ f.charge \in Charges
      BY DEF BooksInv
    <3> QED
      BY <3>1, <3>2
  <2> QED
    BY <2>1 DEF FeeLine
<1>3. /\ MaxSales + 1 \notin Sales /\ Sales \subseteq 1..(MaxSales + 1)
      /\ MaxSales + 1 \in 1..(MaxSales + 1)
  BY BooksAssumption DEF BooksAssumption, Sales
<1>4. DOMAIN Pushed = {"delivery", "payment", "return", "replacement", "subscription"}
  BY DEF Pushed
<1>5. ASSUME NEW l \in S
      PROVE  /\ l.at \in Days /\ l.sale \in 1..(MaxSales + 1) /\ l.kind \in DOMAIN Pushed
             /\ l.delta \in Int
  <2>1. CASE \E s \in Sales : l \in LinesOf(s, sign)
    BY <1>3, <1>4, <2>1, LineFacts
  <2>2. CASE \E f \in fee : l = FeeLine(f)
    BY <1>2, <1>3, <1>4, <2>2
  <2> QED
    BY <1>1, <2>1, <2>2
<1>6. ASSUME NEW l \in S, NEW m \in S, l.sale = m.sale, l.kind = m.kind
      PROVE  l = m
  <2>1. ASSUME NEW s \in Sales, l \in LinesOf(s, sign)
        PROVE  l = m
    <3>1. l.sale = s /\ s # MaxSales + 1 /\ l = TheLine(s, sign, l.kind)
      BY <1>3, <2>1, LineFacts
    <3>2. PICK t \in Sales : m \in LinesOf(t, sign)
      BY <1>1, <1>2, <1>6, <3>1
    <3>3. m.sale = t /\ m = TheLine(t, sign, m.kind)
      BY <3>2, LineFacts
    <3> QED
      BY <1>6, <3>1, <3>3
  <2>2. ASSUME NEW f \in fee, l = FeeLine(f)
        PROVE  l = m
    <3>1. l.sale = MaxSales + 1
      BY <1>2, <2>2
    <3>2. ~\E t \in Sales : m \in LinesOf(t, sign)
      BY <1>3, <1>6, <3>1, LineFacts
    <3>3. PICK g \in fee : m = FeeLine(g)
      BY <1>1, <3>2
    <3>4. f = g
      BY DEF BooksInv
    <3> QED
      BY <2>2, <3>3, <3>4
  <2> QED
    BY <1>1, <2>1, <2>2
<1>7. WellKept(S)
  BY <1>5, <1>6 DEF WellKept
<1> QED
  BY <1>7, WellKeptAddsUp

LEMMA BooksKept == BooksInv => BooksAddUp
<1> SUFFICES ASSUME BooksInv
             PROVE  BooksAddUp
  OBVIOUS
<1>1. Ordered \subseteq Sales
  BY DEF Ordered
<1>2. \A sign : \A s \in Sales : LinesOf(s, sign) \subseteq AllLines(sign)
  BY DEF AllLines, SaleLines
<1>3. ASSUME NEW parties
      PROVE  AddsUp(SupplierLines(parties))
  <2> DEFINE T == {r \in Ordered : sale[r].party \in parties}
             lines(s) == DeliveryLines(s) \cup PaymentLines(s, -1) \cup ReturnLines(s)
  <2>1. \A s \in T : s \in Sales /\ lines(s) \subseteq AllLines(-1)
    BY <1>1, <1>2 DEF LinesOf
  <2>2. UNION {lines(s) : s \in T} \subseteq AllLines(-1)
    <3> HIDE DEF lines, T
    <3> QED
      BY <2>1, Zenon
  <2>3. SupplierLines(parties) \in SUBSET AllLines(-1)
    BY <2>2 DEF SupplierLines
  <2> QED
    BY <2>3, AllLinesKept
<1>4. ASSUME NEW shop
      PROVE  AddsUp(ShopLines(shop))
  <2> DEFINE T == {r \in Ordered : sale[r].party = shop}
             lines(s) == PaymentLines(s, 1) \cup ReturnLines(s)
  <2>1. \A s \in T : s \in Sales /\ lines(s) \subseteq AllLines(1)
    BY <1>1, <1>2 DEF LinesOf
  <2>2. UNION {lines(s) : s \in T} \subseteq AllLines(1)
    <3> HIDE DEF lines, T
    <3> QED
      BY <2>1, Zenon
  <2>3. ShopLines(shop) \in SUBSET AllLines(1)
    BY <2>2 DEF ShopLines
  <2> QED
    BY <2>3, AllLinesKept
<1>5. AddsUp(CashLines)
  <2>1. \A s \in Ordered : s \in Sales /\ SaleCash(s) \subseteq AllLines(1)
    BY <1>1, <1>2 DEF LinesOf, SaleCash
  <2>2. CashSales \subseteq AllLines(1)
    BY <2>1, Zenon DEF CashSales
  <2>3. FeeLines \subseteq AllLines(1)
    BY DEF AllLines
  <2>4. CashLines = CashSales \cup FeeLines
    BY DEF CashLines, CashSales, FeeLines
  <2>5. CashLines \in SUBSET AllLines(1)
    BY <2>2, <2>3, <2>4
  <2> QED
    BY <2>5, AllLinesKept
<1> QED
  BY <1>3, <1>4, <1>5 DEF BooksAddUp

\* Type correctness of the rows the books are made of.
THEOREM BooksTypeCorrect == BooksSpec => []BooksTypeOK
<1> QED
  BY BooksTyped, BooksInvInit, BooksInvNext, PTL DEF BooksSpec

\* The books add up: whatever was ordered, delivered, paid, refunded and replaced on
\* whichever days, the supplier's ledger, a shop's and the cash book open, in whatever
\* window they are read, on what all earlier lines come to and close on what the lines
\* to its end come to, and their last row carries that sum.
THEOREM TheBooksAddUp == BooksSpec => []BooksAddUp
<1> QED
  BY BooksKept, BooksInvInit, BooksInvNext, PTL DEF BooksSpec

(***************************************************************************)
(* All of them: the component in focus keeps its invariant, and the others    *)
(* stay as they began, whatever slots its handlers take.                      *)
(***************************************************************************)
HandlersInFlight ==
  {Idle} \cup SubscriptionHandlers \cup AddressHandlers \cup HandoffHandlers
         \cup TrackingHandlers \cup AuthHandlers \cup PagesHandlers
         \cup StandingHandlers \cup DeskHandlers \cup ChatHandlers

FocusInv ==
  /\ TypesOK
  /\ focus = "subscriptions" => PaidInv
  /\ focus = "addresses" => AddressInv
  /\ focus = "handoff" => LinkInv
  /\ focus = "tracking" => ToldInv
  /\ focus = "auth" => CacheInv
  /\ focus = "pages" => PagesInv
  /\ focus = "standing" => StandInv
  /\ focus = "desk" => DeskInv
  /\ focus = "chat" => ChatInv
  /\ focus = "books" => BooksInv

LEMMA SubscriptionsFlight ==
  ASSUME PaidInv
  PROVE  SubscriptionsTypeOK /\ h \in [Procs -> HandlersInFlight]
<1>1. SubscriptionsTypeOK /\ h \in [Procs -> {Idle} \cup SubscriptionHandlers]
  BY DEF PaidInv, LiveInv, SubsTypeOK
<1>2. h \in [Procs -> HandlersInFlight]
  BY <1>1 DEF HandlersInFlight
<1> QED
  BY <1>1, <1>2

LEMMA AddressesFlight ==
  ASSUME AddressInv
  PROVE  AddressesTypeOK /\ h \in [Procs -> HandlersInFlight]
<1>1. AddressesTypeOK /\ h \in [Procs -> {Idle} \cup AddressHandlers]
  BY DEF AddressInv, SavedTypeOK
<1>2. h \in [Procs -> HandlersInFlight]
  BY <1>1 DEF HandlersInFlight
<1> QED
  BY <1>1, <1>2

LEMMA HandoffFlight ==
  ASSUME LinkInv
  PROVE  HandoffTypeOK /\ h \in [Procs -> HandlersInFlight]
<1>1. HandoffTypeOK /\ h \in [Procs -> {Idle} \cup HandoffHandlers]
  BY DEF LinkInv, LinkTypeOK
<1>2. h \in [Procs -> HandlersInFlight]
  BY <1>1 DEF HandlersInFlight
<1> QED
  BY <1>1, <1>2

LEMMA TrackingFlight ==
  ASSUME ToldInv
  PROVE  TrackingTypeOK /\ h \in [Procs -> HandlersInFlight]
<1>1. TrackingTypeOK /\ h \in [Procs -> {Idle} \cup TrackingHandlers]
  BY DEF ToldInv, TrackTypeOK
<1>2. h \in [Procs -> HandlersInFlight]
  BY <1>1 DEF HandlersInFlight
<1> QED
  BY <1>1, <1>2

LEMMA AuthCacheFlight ==
  ASSUME CacheInv
  PROVE  AuthCacheTypeOK /\ h \in [Procs -> HandlersInFlight]
<1>1. AuthCacheTypeOK /\ h \in [Procs -> {Idle} \cup AuthHandlers]
  BY DEF CacheInv, CacheTypeOK
<1>2. h \in [Procs -> HandlersInFlight]
  BY <1>1 DEF HandlersInFlight
<1> QED
  BY <1>1, <1>2

LEMMA PagesFlight ==
  ASSUME PagesInv
  PROVE  PagesTypeOK /\ h \in [Procs -> HandlersInFlight]
<1>1. PagesTypeOK /\ h \in [Procs -> {Idle} \cup PagesHandlers]
  BY DEF PagesInv, PagesTypes
<1>2. h \in [Procs -> HandlersInFlight]
  BY <1>1 DEF HandlersInFlight
<1> QED
  BY <1>1, <1>2

LEMMA StandingFlight ==
  ASSUME StandInv
  PROVE  StandingTypeOK /\ h \in [Procs -> HandlersInFlight]
<1>1. StandingTypeOK /\ h \in [Procs -> {Idle} \cup StandingHandlers]
  BY DEF StandInv, StandTypeOK
<1>2. h \in [Procs -> HandlersInFlight]
  BY <1>1 DEF HandlersInFlight
<1> QED
  BY <1>1, <1>2

LEMMA DeskFlight ==
  ASSUME DeskInv
  PROVE  DeskTypeOK /\ h \in [Procs -> HandlersInFlight]
<1>1. DeskTypeOK /\ h \in [Procs -> {Idle} \cup DeskHandlers]
  BY DEF DeskInv, StaffTypeOK
<1>2. h \in [Procs -> HandlersInFlight]
  BY <1>1 DEF HandlersInFlight
<1> QED
  BY <1>1, <1>2

LEMMA ChatFlight ==
  ASSUME ChatInv
  PROVE  ChatTypeOK /\ h \in [Procs -> HandlersInFlight]
<1>1. ChatTypeOK /\ h \in [Procs -> {Idle} \cup ChatHandlers]
  BY DEF ChatInv, ChatTypes
<1>2. h \in [Procs -> HandlersInFlight]
  BY <1>1 DEF HandlersInFlight
<1> QED
  BY <1>1, <1>2

LEMMA BooksFlight ==
  ASSUME BooksInv
  PROVE  BooksTypeOK /\ h \in [Procs -> HandlersInFlight]
<1>1. h \in [Procs -> HandlersInFlight]
  BY DEF BooksInv, HandlersInFlight
<1> QED
  BY <1>1, BooksTyped

LEMMA FocusInit == Init => FocusInv
<1> SUFFICES ASSUME Init
             PROVE  FocusInv
  OBVIOUS
<1>1. PaidInv
  BY PaidInvInit DEF Init, SubsInit
<1>2. AddressInv
  BY AddressInvInit DEF Init, SavedInit
<1>3. LinkInv
  BY LinkInvInit DEF Init, LinkInit
<1>4. ToldInv
  BY TrackInitInv DEF Init, TrackInit
<1>5. CacheInv
  BY CacheInvInit DEF Init, CacheInit
<1>6. PagesInv
  BY PagesInvInit DEF Init, PagesStart
<1>7. StandInv
  BY StandInvInit DEF Init, StandInit
<1>8. DeskInv
  BY DeskInvInit DEF Init, StaffInit
<1>9. ChatInv
  BY ChatInvInit DEF Init, ChatStarts
<1>10. BooksInv
  BY BooksInvInit DEF Init, BooksStart
<1>11. TypesOK
  BY <1>1, <1>2, <1>3, <1>4, <1>5, <1>6, <1>7, <1>8, <1>9, <1>10,
     SubscriptionsFlight, AddressesFlight, HandoffFlight, TrackingFlight, AuthCacheFlight, PagesFlight, StandingFlight, DeskFlight, ChatFlight, BooksFlight
     DEF TypesOK, HandlersInFlight
<1> QED
  BY <1>1, <1>2, <1>3, <1>4, <1>5, <1>6, <1>7, <1>8, <1>9, <1>10, <1>11 DEF FocusInv

LEMMA SubscriptionsStill == SubscriptionsTypeOK /\ UNCHANGED subscriptionVars => SubscriptionsTypeOK'
  BY DEF SubscriptionsTypeOK, subscriptionVars

LEMMA AddressesStill == AddressesTypeOK /\ UNCHANGED addressVars => AddressesTypeOK'
  BY DEF AddressesTypeOK, addressVars

LEMMA HandoffStill == HandoffTypeOK /\ UNCHANGED handoffVars => HandoffTypeOK'
  BY DEF HandoffTypeOK, handoffVars

LEMMA TrackingStill == TrackingTypeOK /\ UNCHANGED trackingVars => TrackingTypeOK'
  BY DEF TrackingTypeOK, trackingVars

LEMMA AuthCacheStill == AuthCacheTypeOK /\ UNCHANGED authVars => AuthCacheTypeOK'
  BY DEF AuthCacheTypeOK, authVars

LEMMA PagesStill == PagesTypeOK /\ UNCHANGED pagesVars => PagesTypeOK'
  BY DEF PagesTypeOK, pagesVars

LEMMA StandingStill == StandingTypeOK /\ UNCHANGED standingVars => StandingTypeOK'
  BY DEF StandingTypeOK, standingVars

LEMMA DeskStill == DeskTypeOK /\ UNCHANGED deskVars => DeskTypeOK'
  BY DEF DeskTypeOK, deskVars

LEMMA ChatStill == ChatTypeOK /\ UNCHANGED chatVars => ChatTypeOK'
  BY DEF ChatTypeOK, chatVars

LEMMA BooksStill == BooksTypeOK /\ UNCHANGED booksVars => BooksTypeOK'
  BY DEF BooksTypeOK, booksVars

LEMMA SubscriptionsFocus ==
  ASSUME FocusInv, focus = "subscriptions", SubscriptionsNext, Frame
  PROVE  FocusInv'
<1>1. PaidInv' /\ focus' = "subscriptions"
  BY PaidInvNext DEF FocusInv, Frame
<1>2. SubscriptionsTypeOK' /\ h' \in [Procs -> {Idle} \cup SubscriptionHandlers]
  BY <1>1 DEF PaidInv, LiveInv, SubsTypeOK
<1>3. h' \in [Procs -> HandlersInFlight]
  BY <1>2 DEF HandlersInFlight
<1>4. TypesOK'
  BY <1>2, <1>3,
     AddressesStill, HandoffStill, TrackingStill, AuthCacheStill, PagesStill, StandingStill, DeskStill, ChatStill, BooksStill
     DEF FocusInv, TypesOK, HandlersInFlight, Frame, Only
<1> QED
  BY <1>1, <1>4 DEF FocusInv

LEMMA AddressesFocus ==
  ASSUME FocusInv, focus = "addresses", AddressesNext, Frame
  PROVE  FocusInv'
<1>1. AddressInv' /\ focus' = "addresses"
  BY AddressInvNext DEF FocusInv, Frame
<1>2. AddressesTypeOK' /\ h' \in [Procs -> {Idle} \cup AddressHandlers]
  BY <1>1 DEF AddressInv, SavedTypeOK
<1>3. h' \in [Procs -> HandlersInFlight]
  BY <1>2 DEF HandlersInFlight
<1>4. TypesOK'
  BY <1>2, <1>3,
     SubscriptionsStill, HandoffStill, TrackingStill, AuthCacheStill, PagesStill, StandingStill, DeskStill, ChatStill, BooksStill
     DEF FocusInv, TypesOK, HandlersInFlight, Frame, Only
<1> QED
  BY <1>1, <1>4 DEF FocusInv

LEMMA HandoffFocus ==
  ASSUME FocusInv, focus = "handoff", HandoffNext, Frame
  PROVE  FocusInv'
<1>1. LinkInv' /\ focus' = "handoff"
  BY LinkInvNext DEF FocusInv, Frame
<1>2. HandoffTypeOK' /\ h' \in [Procs -> {Idle} \cup HandoffHandlers]
  BY <1>1 DEF LinkInv, LinkTypeOK
<1>3. h' \in [Procs -> HandlersInFlight]
  BY <1>2 DEF HandlersInFlight
<1>4. TypesOK'
  BY <1>2, <1>3,
     SubscriptionsStill, AddressesStill, TrackingStill, AuthCacheStill, PagesStill, StandingStill, DeskStill, ChatStill, BooksStill
     DEF FocusInv, TypesOK, HandlersInFlight, Frame, Only
<1> QED
  BY <1>1, <1>4 DEF FocusInv

LEMMA TrackingFocus ==
  ASSUME FocusInv, focus = "tracking", TrackingNext, Frame
  PROVE  FocusInv'
<1>1. ToldInv' /\ focus' = "tracking"
  BY ToldNext DEF FocusInv, Frame
<1>2. TrackingTypeOK' /\ h' \in [Procs -> {Idle} \cup TrackingHandlers]
  BY <1>1 DEF ToldInv, TrackTypeOK
<1>3. h' \in [Procs -> HandlersInFlight]
  BY <1>2 DEF HandlersInFlight
<1>4. TypesOK'
  BY <1>2, <1>3,
     SubscriptionsStill, AddressesStill, HandoffStill, AuthCacheStill, PagesStill, StandingStill, DeskStill, ChatStill, BooksStill
     DEF FocusInv, TypesOK, HandlersInFlight, Frame, Only
<1> QED
  BY <1>1, <1>4 DEF FocusInv

LEMMA AuthCacheFocus ==
  ASSUME FocusInv, focus = "auth", AuthCacheNext, Frame
  PROVE  FocusInv'
<1>1. CacheInv' /\ focus' = "auth"
  BY CacheInvNext DEF FocusInv, Frame
<1>2. AuthCacheTypeOK' /\ h' \in [Procs -> {Idle} \cup AuthHandlers]
  BY <1>1 DEF CacheInv, CacheTypeOK
<1>3. h' \in [Procs -> HandlersInFlight]
  BY <1>2 DEF HandlersInFlight
<1>4. TypesOK'
  BY <1>2, <1>3,
     SubscriptionsStill, AddressesStill, HandoffStill, TrackingStill, PagesStill, StandingStill, DeskStill, ChatStill, BooksStill
     DEF FocusInv, TypesOK, HandlersInFlight, Frame, Only
<1> QED
  BY <1>1, <1>4 DEF FocusInv

LEMMA PagesFocus ==
  ASSUME FocusInv, focus = "pages", PagesNext, Frame
  PROVE  FocusInv'
<1>1. PagesInv' /\ focus' = "pages"
  BY PagesInvNext DEF FocusInv, Frame
<1>2. PagesTypeOK' /\ h' \in [Procs -> {Idle} \cup PagesHandlers]
  BY <1>1 DEF PagesInv, PagesTypes
<1>3. h' \in [Procs -> HandlersInFlight]
  BY <1>2 DEF HandlersInFlight
<1>4. TypesOK'
  BY <1>2, <1>3,
     SubscriptionsStill, AddressesStill, HandoffStill, TrackingStill, AuthCacheStill, StandingStill, DeskStill, ChatStill, BooksStill
     DEF FocusInv, TypesOK, HandlersInFlight, Frame, Only
<1> QED
  BY <1>1, <1>4 DEF FocusInv

LEMMA StandingFocus ==
  ASSUME FocusInv, focus = "standing", StandingNext, Frame
  PROVE  FocusInv'
<1>1. StandInv' /\ focus' = "standing"
  BY StandInvNext DEF FocusInv, Frame
<1>2. StandingTypeOK' /\ h' \in [Procs -> {Idle} \cup StandingHandlers]
  BY <1>1 DEF StandInv, StandTypeOK
<1>3. h' \in [Procs -> HandlersInFlight]
  BY <1>2 DEF HandlersInFlight
<1>4. TypesOK'
  BY <1>2, <1>3,
     SubscriptionsStill, AddressesStill, HandoffStill, TrackingStill, AuthCacheStill, PagesStill, DeskStill, ChatStill, BooksStill
     DEF FocusInv, TypesOK, HandlersInFlight, Frame, Only
<1> QED
  BY <1>1, <1>4 DEF FocusInv

LEMMA DeskFocus ==
  ASSUME FocusInv, focus = "desk", DeskNext, Frame
  PROVE  FocusInv'
<1>1. DeskInv' /\ focus' = "desk"
  BY DeskInvNext DEF FocusInv, Frame
<1>2. DeskTypeOK' /\ h' \in [Procs -> {Idle} \cup DeskHandlers]
  BY <1>1 DEF DeskInv, StaffTypeOK
<1>3. h' \in [Procs -> HandlersInFlight]
  BY <1>2 DEF HandlersInFlight
<1>4. TypesOK'
  BY <1>2, <1>3,
     SubscriptionsStill, AddressesStill, HandoffStill, TrackingStill, AuthCacheStill, PagesStill, StandingStill, ChatStill, BooksStill
     DEF FocusInv, TypesOK, HandlersInFlight, Frame, Only
<1> QED
  BY <1>1, <1>4 DEF FocusInv

LEMMA ChatFocus ==
  ASSUME FocusInv, focus = "chat", ChatNext, Frame
  PROVE  FocusInv'
<1>1. ChatInv' /\ focus' = "chat"
  BY ChatInvNext DEF FocusInv, Frame
<1>2. ChatTypeOK' /\ h' \in [Procs -> {Idle} \cup ChatHandlers]
  BY <1>1 DEF ChatInv, ChatTypes
<1>3. h' \in [Procs -> HandlersInFlight]
  BY <1>2 DEF HandlersInFlight
<1>4. TypesOK'
  BY <1>2, <1>3,
     SubscriptionsStill, AddressesStill, HandoffStill, TrackingStill, AuthCacheStill, PagesStill, StandingStill, DeskStill, BooksStill
     DEF FocusInv, TypesOK, HandlersInFlight, Frame, Only
<1> QED
  BY <1>1, <1>4 DEF FocusInv

LEMMA BooksFocus ==
  ASSUME FocusInv, focus = "books", BooksNext, Frame
  PROVE  FocusInv'
<1>1. BooksInv' /\ focus' = "books"
  BY BooksInvNext DEF FocusInv, Frame
<1>2. BooksTypeOK' /\ h' \in [Procs -> {Idle}]
  BY <1>1 DEF BooksInv, BooksTypeOK, SaleRows
<1>3. h' \in [Procs -> HandlersInFlight]
  BY <1>2 DEF HandlersInFlight
<1>4. TypesOK'
  BY <1>2, <1>3,
     SubscriptionsStill, AddressesStill, HandoffStill, TrackingStill, AuthCacheStill, PagesStill, StandingStill, DeskStill, ChatStill
     DEF FocusInv, TypesOK, HandlersInFlight, Frame, Only
<1> QED
  BY <1>1, <1>4 DEF FocusInv

LEMMA FocusNext == FocusInv /\ [Next]_vars => FocusInv'
<1>1. ASSUME FocusInv, UNCHANGED vars
      PROVE  FocusInv'
  <2>1. SubscriptionsTypeOK' /\ (PaidInv => PaidInv')
    BY <1>1, PaidInvNext, SubscriptionsStill DEF vars, subsVars, FocusInv, TypesOK
  <2>2. AddressesTypeOK' /\ (AddressInv => AddressInv')
    BY <1>1, AddressInvNext, AddressesStill DEF vars, savedVars, FocusInv, TypesOK
  <2>3. HandoffTypeOK' /\ (LinkInv => LinkInv')
    BY <1>1, LinkInvNext, HandoffStill DEF vars, linkVars, FocusInv, TypesOK
  <2>4. TrackingTypeOK' /\ (ToldInv => ToldInv')
    BY <1>1, ToldNext, TrackingStill DEF vars, trackVars, FocusInv, TypesOK
  <2>5. AuthCacheTypeOK' /\ (CacheInv => CacheInv')
    BY <1>1, CacheInvNext, AuthCacheStill DEF vars, cacheVars, FocusInv, TypesOK
  <2>6. PagesTypeOK' /\ (PagesInv => PagesInv')
    BY <1>1, PagesInvNext, PagesStill DEF vars, pageVars, FocusInv, TypesOK
  <2>7. StandingTypeOK' /\ (StandInv => StandInv')
    BY <1>1, StandInvNext, StandingStill DEF vars, standVars, FocusInv, TypesOK
  <2>8. DeskTypeOK' /\ (DeskInv => DeskInv')
    BY <1>1, DeskInvNext, DeskStill DEF vars, staffVars, FocusInv, TypesOK
  <2>9. ChatTypeOK' /\ (ChatInv => ChatInv')
    BY <1>1, ChatInvNext, ChatStill DEF vars, chatsVars, FocusInv, TypesOK
  <2>10. BooksTypeOK' /\ (BooksInv => BooksInv')
    BY <1>1, BooksInvNext, BooksStill DEF vars, bookVars, FocusInv, TypesOK
  <2>11. TypesOK'
    BY <1>1, <2>1, <2>2, <2>3, <2>4, <2>5, <2>6, <2>7, <2>8, <2>9, <2>10 DEF FocusInv, TypesOK, vars
  <2> QED
    BY <1>1, <2>1, <2>2, <2>3, <2>4, <2>5, <2>6, <2>7, <2>8, <2>9, <2>10, <2>11 DEF FocusInv, vars
<1> QED
  BY <1>1, SubscriptionsFocus, AddressesFocus, HandoffFocus, TrackingFocus, AuthCacheFocus, PagesFocus, StandingFocus, DeskFocus, ChatFocus, BooksFocus DEF Next

\* Every component's rows, caches and handlers in flight have their types in
\* the specification the runs check, for any slots, rows and bounds: a handler
\* of subscription/routes.ts, addresses/routes.ts, chat/routes.ts and the rest
\* is only ever at a step of its own, with what that step reads.
THEOREM AccountsTypeCorrect == Spec => []TypesOK
<1>1. FocusInv => TypesOK
  BY DEF FocusInv
<1> QED
  BY <1>1, FocusInit, FocusNext, PTL DEF Spec


\* A component that is not in focus is as it began, and the handlers of the one
\* that is are at no step of its own.
AtRest ==
  /\ focus # "subscriptions" => SubscriptionsInit
  /\ focus # "addresses" => AddressesInit
  /\ focus # "handoff" => HandoffInit
  /\ focus # "auth" => AuthCacheInit
  /\ focus # "pages" => PagesInit
  /\ focus # "standing" => StandingInit
  /\ focus # "desk" => DeskInit
  /\ focus # "chat" => ChatInit
  /\ focus # "books" => BooksInit

Elsewhere ==
  \A p \in Procs :
    /\ focus # "handoff" => h[p].at \notin {"courierStatus", "courierConfirm"}
    /\ focus # "auth" => h[p].at # "sessionPublish"
    /\ focus # "tracking" => h[p].at # "staleNotify"

RestInv == FocusInv /\ AtRest /\ Elsewhere

LEMMA StepsElsewhere ==
  ASSUME NEW s
  PROVE  /\ s \in {Idle} \cup SubscriptionHandlers => s.at \notin {"courierStatus", "courierConfirm", "sessionPublish", "staleNotify"}
         /\ s \in {Idle} \cup AddressHandlers => s.at \notin {"courierStatus", "courierConfirm", "sessionPublish", "staleNotify"}
         /\ s \in {Idle} \cup HandoffHandlers => s.at \notin {"sessionPublish", "staleNotify"}
         /\ s \in {Idle} \cup TrackingHandlers => s.at \notin {"courierStatus", "courierConfirm", "sessionPublish"}
         /\ s \in {Idle} \cup AuthHandlers => s.at \notin {"courierStatus", "courierConfirm", "staleNotify"}
         /\ s \in {Idle} \cup PagesHandlers => s.at \notin {"courierStatus", "courierConfirm", "sessionPublish", "staleNotify"}
         /\ s \in {Idle} \cup StandingHandlers => s.at \notin {"courierStatus", "courierConfirm", "sessionPublish", "staleNotify"}
         /\ s \in {Idle} \cup DeskHandlers => s.at \notin {"courierStatus", "courierConfirm", "sessionPublish", "staleNotify"}
         /\ s \in {Idle} \cup ChatHandlers => s.at \notin {"courierStatus", "courierConfirm", "sessionPublish", "staleNotify"}
<1>1. s \in {Idle} \cup SubscriptionHandlers => s.at \notin {"courierStatus", "courierConfirm", "sessionPublish", "staleNotify"}
  BY DEF SubscriptionHandlers, Idle
<1>2. s \in {Idle} \cup AddressHandlers => s.at \notin {"courierStatus", "courierConfirm", "sessionPublish", "staleNotify"}
  BY DEF AddressHandlers, Idle
<1>3. s \in {Idle} \cup HandoffHandlers => s.at \notin {"sessionPublish", "staleNotify"}
  BY DEF HandoffHandlers, Idle
<1>4. s \in {Idle} \cup TrackingHandlers => s.at \notin {"courierStatus", "courierConfirm", "sessionPublish"}
  BY DEF TrackingHandlers, Idle
<1>5. s \in {Idle} \cup AuthHandlers => s.at \notin {"courierStatus", "courierConfirm", "staleNotify"}
  BY DEF AuthHandlers, Idle
<1>6. s \in {Idle} \cup PagesHandlers => s.at \notin {"courierStatus", "courierConfirm", "sessionPublish", "staleNotify"}
  BY DEF PagesHandlers, Idle
<1>7. s \in {Idle} \cup StandingHandlers => s.at \notin {"courierStatus", "courierConfirm", "sessionPublish", "staleNotify"}
  BY DEF StandingHandlers, Idle
<1>8. s \in {Idle} \cup DeskHandlers => s.at \notin {"courierStatus", "courierConfirm", "sessionPublish", "staleNotify"}
  BY DEF DeskHandlers, Idle
<1>9. s \in {Idle} \cup ChatHandlers => s.at \notin {"courierStatus", "courierConfirm", "sessionPublish", "staleNotify"}
  BY DEF ChatHandlers, Idle
<1> QED
  BY <1>1, <1>2, <1>3, <1>4, <1>5, <1>6, <1>7, <1>8, <1>9

LEMMA RestStart == Init => RestInv
<1> SUFFICES ASSUME Init
             PROVE  RestInv
  OBVIOUS
<1>1. AtRest
  BY DEF Init, AtRest
<1>2. Elsewhere
  BY DEF Init, Elsewhere, Idle
<1> QED
  BY <1>1, <1>2, FocusInit DEF RestInv

LEMMA RestNext == RestInv /\ [Next]_vars => RestInv'
<1> SUFFICES ASSUME RestInv, [Next]_vars
             PROVE  RestInv'
  OBVIOUS
<1>1. FocusInv'
  BY FocusNext DEF RestInv
<1>2. focus' = focus
  BY DEF Next, Frame, vars
<1>3. focus # "subscriptions" => SubscriptionsInit'
  <2>1. focus # "subscriptions" => SubscriptionsInit /\ UNCHANGED subscriptionVars
    BY DEF RestInv, AtRest, Next, Frame, Only, vars
  <2> QED
    BY <2>1 DEF SubscriptionsInit, subscriptionVars
<1>4. focus # "addresses" => AddressesInit'
  <2>1. focus # "addresses" => AddressesInit /\ UNCHANGED addressVars
    BY DEF RestInv, AtRest, Next, Frame, Only, vars
  <2> QED
    BY <2>1 DEF AddressesInit, addressVars
<1>5. focus # "handoff" => HandoffInit'
  <2>1. focus # "handoff" => HandoffInit /\ UNCHANGED handoffVars
    BY DEF RestInv, AtRest, Next, Frame, Only, vars
  <2> QED
    BY <2>1 DEF HandoffInit, handoffVars
<1>6. focus # "auth" => AuthCacheInit'
  <2>1. focus # "auth" => AuthCacheInit /\ UNCHANGED authVars
    BY DEF RestInv, AtRest, Next, Frame, Only, vars
  <2> QED
    BY <2>1 DEF AuthCacheInit, authVars
<1>7. focus # "pages" => PagesInit'
  <2>1. focus # "pages" => PagesInit /\ UNCHANGED pagesVars
    BY DEF RestInv, AtRest, Next, Frame, Only, vars
  <2> QED
    BY <2>1 DEF PagesInit, pagesVars, Shows, Writes, Clears
<1>8. focus # "standing" => StandingInit'
  <2>1. focus # "standing" => StandingInit /\ UNCHANGED standingVars
    BY DEF RestInv, AtRest, Next, Frame, Only, vars
  <2> QED
    BY <2>1 DEF StandingInit, standingVars
<1>9. focus # "desk" => DeskInit'
  <2>1. focus # "desk" => DeskInit /\ UNCHANGED deskVars
    BY DEF RestInv, AtRest, Next, Frame, Only, vars
  <2> QED
    BY <2>1 DEF DeskInit, deskVars
<1>10. focus # "chat" => ChatInit'
  <2>1. focus # "chat" => ChatInit /\ UNCHANGED chatVars
    BY DEF RestInv, AtRest, Next, Frame, Only, vars
  <2> QED
    BY <2>1 DEF ChatInit, chatVars
<1>11. focus # "books" => BooksInit'
  <2>1. focus # "books" => BooksInit /\ UNCHANGED booksVars
    BY DEF RestInv, AtRest, Next, Frame, Only, vars
  <2> QED
    BY <2>1 DEF BooksInit, booksVars
<1>12. AtRest'
  BY <1>2, <1>3, <1>4, <1>5, <1>6, <1>7, <1>8, <1>9, <1>10, <1>11 DEF AtRest
<1>13. Elsewhere'
  <2>1. CASE UNCHANGED vars
    BY <2>1 DEF RestInv, Elsewhere, vars
  <2>2. ASSUME focus = "subscriptions"
        PROVE  Elsewhere'
    <3>1. h' \in [Procs -> {Idle} \cup SubscriptionHandlers]
      BY <1>1, <1>2, <2>2 DEF FocusInv, PaidInv, LiveInv, SubsTypeOK
    <3> QED
      BY <1>2, <2>2, <3>1, StepsElsewhere DEF Elsewhere
  <2>3. ASSUME focus = "addresses"
        PROVE  Elsewhere'
    <3>1. h' \in [Procs -> {Idle} \cup AddressHandlers]
      BY <1>1, <1>2, <2>3 DEF FocusInv, AddressInv, SavedTypeOK
    <3> QED
      BY <1>2, <2>3, <3>1, StepsElsewhere DEF Elsewhere
  <2>4. ASSUME focus = "handoff"
        PROVE  Elsewhere'
    <3>1. h' \in [Procs -> {Idle} \cup HandoffHandlers]
      BY <1>1, <1>2, <2>4 DEF FocusInv, LinkInv, LinkTypeOK
    <3> QED
      BY <1>2, <2>4, <3>1, StepsElsewhere DEF Elsewhere
  <2>5. ASSUME focus = "tracking"
        PROVE  Elsewhere'
    <3>1. h' \in [Procs -> {Idle} \cup TrackingHandlers]
      BY <1>1, <1>2, <2>5 DEF FocusInv, ToldInv, TrackTypeOK
    <3> QED
      BY <1>2, <2>5, <3>1, StepsElsewhere DEF Elsewhere
  <2>6. ASSUME focus = "auth"
        PROVE  Elsewhere'
    <3>1. h' \in [Procs -> {Idle} \cup AuthHandlers]
      BY <1>1, <1>2, <2>6 DEF FocusInv, CacheInv, CacheTypeOK
    <3> QED
      BY <1>2, <2>6, <3>1, StepsElsewhere DEF Elsewhere
  <2>7. ASSUME focus = "pages"
        PROVE  Elsewhere'
    <3>1. h' \in [Procs -> {Idle} \cup PagesHandlers]
      BY <1>1, <1>2, <2>7 DEF FocusInv, PagesInv, PagesTypes
    <3> QED
      BY <1>2, <2>7, <3>1, StepsElsewhere DEF Elsewhere
  <2>8. ASSUME focus = "standing"
        PROVE  Elsewhere'
    <3>1. h' \in [Procs -> {Idle} \cup StandingHandlers]
      BY <1>1, <1>2, <2>8 DEF FocusInv, StandInv, StandTypeOK
    <3> QED
      BY <1>2, <2>8, <3>1, StepsElsewhere DEF Elsewhere
  <2>9. ASSUME focus = "desk"
        PROVE  Elsewhere'
    <3>1. h' \in [Procs -> {Idle} \cup DeskHandlers]
      BY <1>1, <1>2, <2>9 DEF FocusInv, DeskInv, StaffTypeOK
    <3> QED
      BY <1>2, <2>9, <3>1, StepsElsewhere DEF Elsewhere
  <2>10. ASSUME focus = "chat"
        PROVE  Elsewhere'
    <3>1. h' \in [Procs -> {Idle} \cup ChatHandlers]
      BY <1>1, <1>2, <2>10 DEF FocusInv, ChatInv, ChatTypes
    <3> QED
      BY <1>2, <2>10, <3>1, StepsElsewhere DEF Elsewhere
  <2>11. ASSUME focus = "books"
        PROVE  Elsewhere'
    BY <1>1, <1>2, <2>11 DEF FocusInv, BooksInv, Elsewhere, Idle
  <2> QED
    BY <2>1, <2>2, <2>3, <2>4, <2>5, <2>6, <2>7, <2>8, <2>9, <2>10, <2>11 DEF Next
<1> QED
  BY <1>1, <1>12, <1>13 DEF RestInv

LEMMA KeptInFocus ==
  ASSUME RestInv
  PROVE  /\ OneLiveSubscription /\ DefaultsAgree /\ LinkOpensOneOrder /\ StaleRoleExpires
         /\ PagesCatchUp /\ StandingAgrees /\ DeskAgrees /\ ChatKeepsUp /\ BooksAddUp
<1>1. OneLiveSubscription
  <2>1. CASE focus = "subscriptions"
    BY <2>1 DEF RestInv, FocusInv, PaidInv, LiveInv
  <2>2. CASE SubscriptionsInit
    BY <2>2 DEF SubscriptionsInit, OneLiveSubscription, ActiveRows, Rows
  <2> QED
    BY <2>1, <2>2 DEF RestInv, AtRest
<1>2. DefaultsAgree
  <2>1. CASE focus = "addresses"
    BY <2>1, AddressesKept DEF RestInv, FocusInv
  <2>2. CASE AddressesInit
    <3>1. Defaults = {}
      BY <2>2, AddressConstants DEF AddressesInit, Defaults, Saved, NoRow
    <3> QED
      BY <3>1 DEF DefaultsAgree
  <2> QED
    BY <2>1, <2>2 DEF RestInv, AtRest
<1>3. LinkOpensOneOrder
  <2>1. CASE focus = "handoff"
    BY <2>1 DEF RestInv, FocusInv, LinkInv, MatchInv, LinkAloneInv, Courier, LinkOpensOneOrder
  <2>2. ASSUME focus # "handoff"
        PROVE  LinkOpensOneOrder
    <3>1. {p \in Procs : h[p].at \in {"courierStatus", "courierConfirm"}} = {}
      BY <2>2 DEF RestInv, Elsewhere
    <3>2. \A l \in Links : ~Live(l)
      BY <2>2 DEF RestInv, AtRest, HandoffInit, Live, Minted
    <3> QED
      BY <3>1, <3>2 DEF LinkOpensOneOrder
  <2> QED
    BY <2>1, <2>2
<1>4. StaleRoleExpires
  <2>1. CASE focus = "auth"
    BY <2>1, CacheKept DEF RestInv, FocusInv
  <2>2. ASSUME focus # "auth"
        PROVE  StaleRoleExpires
    BY <2>2 DEF RestInv, AtRest, Elsewhere, AuthCacheInit, Empty, StaleRoleExpires
  <2> QED
    BY <2>1, <2>2
<1>5. PagesCatchUp
  <2>1. CASE focus = "pages"
    BY <2>1, PagesKept DEF RestInv, FocusInv
  <2>2. CASE PagesInit
    <3>1. pageMemory = NoCopy /\ pageRedis = NoCopy
      BY <2>2 DEF PagesInit
    <3>2. ~NoCopy.copy.own /\ NoCopy.copy.behind = -1
      BY DEF NoCopy, Fresh, UpToDate
    <3>3. -1 <= StaleLimit
      BY PagesConstants
    <3> QED
      BY <3>1, <3>2, <3>3 DEF PagesCatchUp, StaleResponseExpires, ReadsOwnWrites
  <2> QED
    BY <2>1, <2>2 DEF RestInv, AtRest
<1>6. StandingAgrees
  <2>1. CASE focus = "standing"
    BY <2>1, StandKept DEF RestInv, FocusInv
  <2>2. CASE StandingInit
    <3>1. Given = {} /\ profile.rating = 50 /\ profile.count = 0
      BY <2>2 DEF StandingInit, Given
    <3> QED
      BY <3>1, FS_EmptySet DEF StandingAgrees
  <2> QED
    BY <2>1, <2>2 DEF RestInv, AtRest
<1>7. DeskAgrees
  <2>1. CASE focus = "desk"
    BY <2>1, DeskKept DEF RestInv, FocusInv
  <2>2. CASE DeskInit
    BY <2>2 DEF DeskInit, DeskAgrees, Decisions, Announced, User, Staff
  <2> QED
    BY <2>1, <2>2 DEF RestInv, AtRest
<1>8. ChatKeepsUp
  <2>1. CASE focus = "chat"
    BY <2>1, ChatKept DEF RestInv, FocusInv
  <2>2. CASE ChatInit
    <3>1. /\ Written = {} /\ refused = FALSE
          /\ pager = [who |-> "shop", there |-> {}, cursor |-> 0, saw |-> <<>>]
      BY <2>2 DEF ChatInit, Written, NotPaging
    <3> QED
      BY <3>1 DEF ChatKeepsUp
  <2> QED
    BY <2>1, <2>2 DEF RestInv, AtRest
<1>9. BooksAddUp
  <2>1. CASE focus = "books"
    BY <2>1, BooksKept DEF RestInv, FocusInv
  <2>2. CASE BooksInit
    <3>1. Ordered = {}
      BY <2>2 DEF BooksInit, Ordered
    <3> QED
      BY <3>1 DEF BooksAddUp
  <2> QED
    BY <2>1, <2>2 DEF RestInv, AtRest
<1> QED
  BY <1>1, <1>2, <1>3, <1>4, <1>5, <1>6, <1>7, <1>8, <1>9

\* What each component promises holds of the specification the runs check, in which
\* the handlers of the component in focus take the slots and the rest stands still:
\* one live subscription, one agreed default address, a link for one order, roles and
\* pages that expire, ratings, desk and chat that agree with what was done, and books
\* that add up.
THEOREM AccountsAgree ==
  Spec => [](/\ OneLiveSubscription /\ DefaultsAgree /\ LinkOpensOneOrder /\ StaleRoleExpires
             /\ PagesCatchUp /\ StandingAgrees /\ DeskAgrees /\ ChatKeepsUp /\ BooksAddUp)
<1> QED
  BY KeptInFocus, RestStart, RestNext, PTL DEF Spec

\* And so do the promises about steps: a term paid for ends with its month or its
\* replacement, and a stream gone quiet is told of once.
THEOREM AccountsStepsStand == Spec => PaidTermStands /\ StaleIsToldOnce
<1>1. RestInv /\ [Next]_vars => [PaidTermStep]_<<subscriptionVars>>
  <2> SUFFICES ASSUME RestInv, [Next]_vars
               PROVE  [PaidTermStep]_<<subscriptionVars>>
    OBVIOUS
  <2>1. CASE focus = "subscriptions"
    <3>1. PaidInv /\ [SubscriptionsNext]_subsVars
      BY <2>1 DEF RestInv, FocusInv, Next, vars, subsVars
    <3> QED
      BY <3>1, PaidTermNext
  <2>2. CASE focus # "subscriptions"
    BY <2>2 DEF Next, Frame, Only, vars
  <2> QED
    BY <2>1, <2>2
<1>2. RestInv /\ [Next]_vars => [StaleIsToldOnceStep]_<<regime, h, trackingVars>>
  <2> SUFFICES ASSUME RestInv, [Next]_vars
               PROVE  StaleIsToldOnceStep
    OBVIOUS
  <2>1. CASE focus = "tracking"
    BY <2>1, ToldOnce DEF RestInv, FocusInv
  <2>2. CASE focus # "tracking"
    BY <2>2 DEF RestInv, Elsewhere, StaleIsToldOnceStep
  <2> QED
    BY <2>1, <2>2
<1> QED
  BY <1>1, <1>2, RestStart, RestNext, PTL DEF Spec, PaidTermStands, StaleIsToldOnce

=============================================================================
