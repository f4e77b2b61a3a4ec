-------------------------- MODULE SubscriptionsProofs --------------------------
(***************************************************************************)
(* Theorems about Subscriptions, for any number of rows, handler slots and   *)
(* days, and any months.                                                   *)
(***************************************************************************)
EXTENDS Subscriptions, FiniteSetTheorems, WellFoundedInduction, TLAPS

subsVars == <<subscriptionVars, regime, h>>

SubsInit ==
  /\ regime \in Regimes
  /\ h = [p \in Procs |-> Idle]
  /\ SubscriptionsInit

SubsSpec == SubsInit /\ [][SubscriptionsNext]_subsVars

(***************************************************************************)
(* Months.                                                                 *)
(***************************************************************************)
LEMMA LeastNatural ==
  ASSUME NEW T \in SUBSET Nat, T # {}
  PROVE  \E x \in T : \A y \in T : x <= y
<1> DEFINE R == {ss \in Nat \X Nat : ss[1] < ss[2]}
<1>1. IsWellFoundedOn(R, Nat)
  BY NatLessThanWellFounded DEF OpToRel
<1>2. \E x \in T : \A y \in T : ~ (<<y, x>> \in R)
  <2> HIDE DEF R
  <2> QED
    BY <1>1, WFMin
<1>3. \A x, y \in T : y < x => <<y, x>> \in R
  OBVIOUS
<1>4. PICK x \in T : \A y \in T : ~ (<<y, x>> \in R)
  BY <1>2
<1>5. \A y \in T : ~ (y < x)
  <2> HIDE DEF R
  <2> QED
    BY <1>3, <1>4, Zenon
<1>6. \A y \in T : x \in Nat /\ y \in Nat
  OBVIOUS
<1> HIDE DEF R
<1> QED
  BY <1>5, <1>6

LEMMA GreatestNatural ==
  ASSUME NEW T \in SUBSET Nat, T # {}, NEW b \in Nat, \A y \in T : y <= b
  PROVE  \E x \in T : \A y \in T : x >= y
<1> DEFINE D == {d \in Nat : \E y \in T : d = b - y}
<1>1. PICK z \in T : TRUE
  OBVIOUS
<1>2. b - z \in D
  BY <1>1
<1>3. PICK x \in D : \A y \in D : x <= y
  BY <1>2, LeastNatural
<1>4. PICK w \in T : x = b - w
  BY <1>3
<1>5. \A y \in T : b - y \in D
  OBVIOUS
<1> QED
  BY <1>3, <1>4, <1>5

\* MonthOf is the last month that has begun.
LEMMA MonthOfFacts ==
  ASSUME NEW day \in Nat
  PROVE  /\ MonthOf(day) \in MonthStarts
         /\ MonthOf(day) \in Nat
         /\ MonthOf(day) <= day
         /\ \A d \in MonthStarts : d <= day => d <= MonthOf(day)
<1> DEFINE T == {d \in MonthStarts : d <= day}
<1>1. T \in SUBSET Nat /\ T # {}
  <2>1. MonthStarts \subseteq Nat /\ 0 \in MonthStarts /\ 0 <= day
    BY SubscriptionsAssumption DEF SubscriptionsAssumption
  <2> QED
    BY <2>1
<1>2. \E x \in T : \A y \in T : x >= y
  BY <1>1, GreatestNatural
<1>3. Max(T) \in T /\ \A y \in T : Max(T) >= y
  BY <1>2 DEF Max
<1>4. MonthOf(day) = Max(T)
  BY DEF MonthOf
<1> QED
  BY <1>1, <1>3, <1>4

\* MonthAfter is the next one that begins.
LEMMA MonthAfterFacts ==
  ASSUME NEW day \in Nat, NEW m \in MonthStarts, day < m
  PROVE  /\ MonthAfter(day) \in MonthStarts
         /\ MonthAfter(day) \in Nat
         /\ day < MonthAfter(day)
         /\ \A d \in MonthStarts : day < d => MonthAfter(day) <= d
<1> DEFINE T == {d \in MonthStarts : d > day}
<1>1. T \in SUBSET Nat /\ T # {}
  BY SubscriptionsAssumption DEF SubscriptionsAssumption
<1>2. \E x \in T : \A y \in T : x <= y
  BY <1>1, LeastNatural
<1>3. Min(T) \in T /\ \A y \in T : Min(T) <= y
  BY <1>2 DEF Min
<1>4. MonthAfter(day) = Min(T)
  BY DEF MonthAfter
<1> QED
  BY <1>1, <1>3, <1>4

LEMMA LastEndFacts == LastEnd \in Nat /\ \A d \in MonthStarts : d <= LastEnd
<1>1. \E x \in MonthStarts : \A y \in MonthStarts : x >= y
  BY SubscriptionsAssumption DEF SubscriptionsAssumption
<1>2. LastEnd \in MonthStarts /\ \A y \in MonthStarts : LastEnd >= y
  BY <1>1 DEF LastEnd, Max
<1> QED
  BY <1>2, SubscriptionsAssumption DEF SubscriptionsAssumption

LEMMA MinOfTwo ==
  ASSUME NEW a \in Int, NEW b \in Int
  PROVE  Min({a, b}) = IF a <= b THEN a ELSE b
<1> DEFINE m == IF a <= b THEN a ELSE b
<1>1. m \in {a, b} /\ \A y \in {a, b} : m <= y
  OBVIOUS
<1>2. Min({a, b}) \in {a, b} /\ \A y \in {a, b} : Min({a, b}) <= y
  BY <1>1 DEF Min
<1> QED
  BY <1>2

\* A term ends in the month after the one it began in, even from the 31st.
LEMMA TermFacts ==
  ASSUME NEW from \in 0..Horizon
  PROVE  /\ AddOneMonth(from) \in 0..LastEnd
         /\ MonthOf(AddOneMonth(from)) = MonthAfter(from)
<1>a. PICK next \in MonthStarts, after \in MonthStarts : Horizon < next /\ next < after
  BY SubscriptionsAssumption DEF SubscriptionsAssumption
<1>b. from \in Nat /\ from < next /\ next \in Nat /\ after \in Nat
  BY <1>a, SubscriptionsAssumption DEF SubscriptionsAssumption
<1> DEFINE m == MonthAfter(from)
<1>1. m \in MonthStarts /\ m \in Nat /\ from < m /\ m <= next
  BY <1>a, <1>b, MonthAfterFacts
<1> DEFINE e == MonthAfter(m)
<1>2. e \in MonthStarts /\ e \in Nat /\ m < e /\ \A d \in MonthStarts : m < d => e <= d
  <2>1. m < after
    BY <1>a, <1>b, <1>1
  <2> QED
    BY <1>1, <2>1, MonthAfterFacts
<1>3. MonthOf(from) \in Nat /\ MonthOf(from) <= from
  BY <1>b, MonthOfFacts
<1> DEFINE t == m + (from - MonthOf(from))
<1>4. t \in Nat /\ m <= t
  BY <1>1, <1>3, <1>b
<1>5. AddOneMonth(from) = IF t <= e - 1 THEN t ELSE e - 1
  <2>1. AddOneMonth(from) = Min({t, e - 1})
    BY DEF AddOneMonth, Clamped
  <2>2. t \in Int /\ e - 1 \in Int
    BY <1>2, <1>4
  <2> HIDE DEF t, e, m
  <2> QED
    BY <2>1, <2>2, MinOfTwo
<1> HIDE DEF t, e
<1>6. AddOneMonth(from) \in Nat /\ m <= AddOneMonth(from) /\ AddOneMonth(from) < e
  BY <1>1, <1>2, <1>4, <1>5
<1>7. e <= LastEnd /\ LastEnd \in Nat
  BY <1>2, LastEndFacts
<1>8. MonthOf(AddOneMonth(from)) = m
  <2>1. /\ MonthOf(AddOneMonth(from)) \in MonthStarts
        /\ MonthOf(AddOneMonth(from)) \in Nat
        /\ MonthOf(AddOneMonth(from)) <= AddOneMonth(from)
        /\ m <= MonthOf(AddOneMonth(from))
    BY <1>1, <1>6, MonthOfFacts
  <2> HIDE DEF m
  <2> QED
    BY <1>1, <1>2, <1>6, <2>1
<1> QED
  BY <1>2, <1>6, <1>7, <1>8

(***************************************************************************)
(* Type correctness.                                                       *)
(***************************************************************************)
SubsTypeOK ==
  /\ SubscriptionsTypeOK
  /\ regime \in Regimes
  /\ h \in [Procs -> {Idle} \cup SubscriptionHandlers]

Terms == [plan : Plans \cup {Never}, active : BOOLEAN, startsAt : 0..Horizon, endsAt : 0..LastEnd]

\* What the step a handler is about to take says of the record's fields.
LEMMA SubsHandlerFields ==
  ASSUME NEW s \in {Idle} \cup SubscriptionHandlers
  PROVE  /\ s.at = "subscribeLock" => s.plan \in Plans
         /\ s.at = "subscribeWrite" => /\ s.plan \in Plans
                                       /\ s.live \in SUBSET Subs
                                       /\ s.time \in 0..Horizon
         /\ s.at = "expireOne" => s.row \in Subs
         /\ s.at = "sweep" => s.time \in 0..Horizon
         /\ s.at = "idle" <=> s = Idle
  BY DEF SubscriptionHandlers, Idle

\* The records the handlers go on with.
LEMMA SubsHandlerForms ==
  /\ \A plan \in Plans : [at |-> "subscribeLock", plan |-> plan] \in SubscriptionHandlers
  /\ \A plan \in Plans, live \in SUBSET Subs, time \in 0..Horizon :
       [at |-> "subscribeWrite", plan |-> plan, live |-> live, time |-> time]
         \in SubscriptionHandlers
  /\ \A row \in Subs : [at |-> "expireOne", row |-> row] \in SubscriptionHandlers
  /\ \A time \in 0..Horizon : [at |-> "sweep", time |-> time] \in SubscriptionHandlers
  BY DEF SubscriptionHandlers

LEMMA ConstantFacts ==
  /\ MaxSubs \in Nat /\ Horizon \in Nat
  /\ Never \notin Plans
  /\ IsFiniteSet(Procs) /\ Nobody \notin Procs
  BY SubscriptionsAssumption DEF SubscriptionsAssumption

LEMMA EndedType ==
  ASSUME NEW row \in Terms, NEW time \in 0..Horizon
  PROVE  /\ Ended(row, time) \in Terms
         /\ Ended(row, time).plan = row.plan
         /\ Ended(row, time).startsAt = row.startsAt
         /\ Ended(row, time).active = FALSE
         /\ Ended(row, time).endsAt = IF row.endsAt <= time THEN row.endsAt ELSE time
<1>1. row.endsAt \in 0..LastEnd /\ LastEnd \in Nat /\ Horizon \in Nat
  BY LastEndFacts, ConstantFacts DEF Terms
<1>2. (IF row.endsAt <= time THEN row.endsAt ELSE time) \in 0..LastEnd
  BY <1>1
<1> QED
  BY <1>2 DEF Ended, Terms

\* The row that a write creates.
FreshTerm(plan, time) == [plan |-> plan, active |-> TRUE, startsAt |-> time, endsAt |-> AddOneMonth(time)]

LEMMA FreshType ==
  ASSUME NEW plan \in Plans, NEW time \in 0..Horizon
  PROVE  FreshTerm(plan, time) \in Terms
  BY TermFacts DEF FreshTerm, Terms

LEMMA SubsTypeInit == SubsInit => SubsTypeOK
<1> SUFFICES ASSUME SubsInit PROVE SubsTypeOK
  OBVIOUS
<1>1. Absent \in Terms
  BY LastEndFacts, ConstantFacts DEF Absent, Terms
<1>2. 0 \in 0..Horizon
  BY ConstantFacts
<1> QED
  BY <1>1, <1>2 DEF SubsInit, SubscriptionsInit, SubsTypeOK, SubscriptionsTypeOK, Terms

\* A step that leaves the rows, the clock and the lock alone.
LEMMA SubsTypeMove ==
  ASSUME SubsTypeOK, NEW p \in Procs, NEW s \in {Idle} \cup SubscriptionHandlers,
         Goto(p, s), UNCHANGED regime, UNCHANGED <<now, sub>>,
         userLock' \in Procs \cup {Nobody}
  PROVE  SubsTypeOK'
  BY DEF SubsTypeOK, SubscriptionsTypeOK, Goto

LEMMA SubsTypeStep ==
  ASSUME SubsTypeOK, NEW p \in Procs, SubscriptionsStep(p), UNCHANGED regime
  PROVE  SubsTypeOK'
<1> USE SubsHandlerForms
<1>h. /\ h[p] \in {Idle} \cup SubscriptionHandlers
      /\ userLock \in Procs \cup {Nobody}
      /\ now \in 0..Horizon
      /\ sub \in [Subs -> Terms]
  BY DEF SubsTypeOK, SubscriptionsTypeOK, Terms
<1>1. ASSUME NEW plan \in Plans, SubscribeStart(p, plan)
      PROVE  SubsTypeOK'
  BY <1>1, <1>h, SubsTypeMove DEF SubscribeStart, Start, subscriptionVars
<1>2. CASE SubscribeRead(p)
  <2>1. ActiveRows \in SUBSET Subs
    BY DEF ActiveRows, Rows
  <2>2. \E s \in SubscriptionHandlers : Goto(p, s)
    BY <1>2, <1>h, <2>1, SubsHandlerFields DEF SubscribeRead
  <2> QED
    BY <1>2, <2>2, SubsTypeMove DEF SubscribeRead
<1>3. CASE SubscribeWrite(p)
  <2>1. h[p].plan \in Plans /\ h[p].time \in 0..Horizon
    BY <1>3, <1>h, SubsHandlerFields DEF SubscribeWrite
  <2>2. sub' \in [Subs -> Terms]
    <3>1. FreshTerm(h[p].plan, h[p].time) \in Terms
      BY <2>1, FreshType
    <3>2. \A s \in Subs : Ended(sub[s], h[p].time) \in Terms /\ sub[s] \in Terms
      BY <1>h, <2>1, EndedType
    <3> QED
      BY <1>3, <3>1, <3>2 DEF SubscribeWrite, FreshTerm
  <2> QED
    BY <1>3, <1>h, <2>2 DEF SubscribeWrite, SubsTypeOK, SubscriptionsTypeOK, Terms, End, Goto
<1>4. CASE SubscriptionStop(p)
  BY <1>4, <1>h, SubsTypeMove DEF SubscriptionStop, Stop, End
<1>5. ASSUME NEW s \in Subs, ActiveRead(p, s)
      PROVE  SubsTypeOK'
  BY <1>5, <1>h, SubsTypeMove DEF ActiveRead, Start, subscriptionVars
<1>6. CASE ExpireOne(p)
  <2>1. sub' \in [Subs -> Terms]
    BY <1>6, <1>h DEF ExpireOne, Terms
  <2> QED
    BY <1>6, <1>h, <2>1 DEF ExpireOne, SubsTypeOK, SubscriptionsTypeOK, Terms, End, Goto
<1>7. CASE SweepStart(p)
  BY <1>7, <1>h, SubsTypeMove DEF SweepStart, Start, subscriptionVars
<1>8. CASE Sweep(p)
  <2>1. sub' \in [Subs -> Terms]
    BY <1>8, <1>h DEF Sweep, Terms
  <2> QED
    BY <1>8, <1>h, <2>1 DEF Sweep, SubsTypeOK, SubscriptionsTypeOK, Terms, End, Goto
<1> QED
  BY <1>1, <1>2, <1>3, <1>4, <1>5, <1>6, <1>7, <1>8 DEF SubscriptionsStep

LEMMA SubsTypeNext == SubsTypeOK /\ [SubscriptionsNext]_subsVars => SubsTypeOK'
<1> SUFFICES ASSUME SubsTypeOK, [SubscriptionsNext]_subsVars PROVE SubsTypeOK'
  OBVIOUS
<1>1. CASE DayPasses
  <2>1. now' \in 0..Horizon
    BY <1>1, ConstantFacts DEF DayPasses, SubsTypeOK, SubscriptionsTypeOK
  <2> QED
    BY <1>1, <2>1 DEF DayPasses, SubsTypeOK, SubscriptionsTypeOK
<1>2. ASSUME NEW p \in Procs, SubscriptionsStep(p) /\ UNCHANGED regime
      PROVE  SubsTypeOK'
  BY <1>2, SubsTypeStep
<1>3. CASE UNCHANGED subsVars
  BY <1>3 DEF subsVars, subscriptionVars, SubsTypeOK, SubscriptionsTypeOK
<1> QED
  BY <1>1, <1>2, <1>3 DEF SubscriptionsNext

\* Every row, the clock, the lock and every handler in flight has its type.
THEOREM SubscriptionsTypeCorrect == SubsSpec => []SubsTypeOK
<1>1. SubsInit => SubsTypeOK
  BY SubsTypeInit
<1>2. SubsTypeOK /\ [SubscriptionsNext]_subsVars => SubsTypeOK'
  BY SubsTypeNext
<1> QED
  BY <1>1, <1>2, PTL DEF SubsSpec

(***************************************************************************)
(* One live subscription.  A handler about to write holds the lock and has   *)
(* seen every live row: the lock keeps other writers out, and reads and      *)
(* sweeps only switch rows off.                                            *)
(***************************************************************************)
LockInv ==
  \A p \in Procs :
    h[p].at = "subscribeWrite" =>
      /\ userLock = p
      /\ ActiveRows \subseteq h[p].live
      /\ \A r, s \in h[p].live : r = s

LiveInv == SubsTypeOK /\ LockInv /\ OneLiveSubscription

LEMMA ActiveRowsForm == ActiveRows = {s \in Subs : sub[s].active}
  BY DEF ActiveRows, Rows, Absent

\* A step that switches no row on and gives no slot a write to do keeps LiveInv.
LEMMA LiveShrinks ==
  ASSUME LiveInv, SubsTypeOK', ActiveRows' \subseteq ActiveRows,
         \A p \in Procs : h'[p].at = "subscribeWrite" => h'[p] = h[p] /\ userLock' = userLock
  PROVE  LiveInv'
  BY DEF LiveInv, LockInv, OneLiveSubscription

\* What a write does: it renews the plan that runs, or starts a fresh row and
\* ends what it has seen.
Renews(p) == sub' = sub

New == Cardinality(Rows) + 1

Starts(p) ==
  /\ sub' = [s \in Subs |-> IF s = New THEN FreshTerm(h[p].plan, h[p].time)
                            ELSE IF s \in h[p].live THEN Ended(sub[s], h[p].time) ELSE sub[s]]
  /\ \A s \in h[p].live : sub[s].endsAt > h[p].time => sub[s].plan # h[p].plan

LEMMA WriteForm ==
  ASSUME LiveInv, NEW p \in Procs, SubscribeWrite(p)
  PROVE  Renews(p) \/ Starts(p)
<1>1. /\ h[p].at = "subscribeWrite"
      /\ h[p].live \in SUBSET Subs /\ \A r, s \in h[p].live : r = s
      /\ sub \in [Subs -> Terms]
  BY SubsHandlerFields
  DEF SubscribeWrite, LiveInv, LockInv, SubsTypeOK, SubscriptionsTypeOK, Terms
<1> DEFINE time == h[p].time
           kept == Kept(Current(h[p].live, time), h[p].plan)
           created == IF kept = {} THEN {New} ELSE {}
<1>2. sub' = [s \in Subs |->
           IF s \in created THEN FreshTerm(h[p].plan, time)
           ELSE IF s \in h[p].live \ kept THEN Ended(sub[s], time) ELSE sub[s]]
  BY DEF SubscribeWrite, FreshTerm, New
<1>3. kept \subseteq h[p].live
  BY DEF Kept, Current
<1>4. CASE kept # {}
  <2>1. h[p].live \ kept = {} /\ created = {}
    BY <1>1, <1>3, <1>4
  <2>2. sub' = [s \in Subs |-> sub[s]]
    BY <1>2, <2>1
  <2> QED
    BY <1>1, <2>2 DEF Renews
<1>5. CASE kept = {}
  <2>1. created = {New} /\ h[p].live \ kept = h[p].live
    BY <1>5
  <2>2. sub' = [s \in Subs |->
           IF s = New THEN FreshTerm(h[p].plan, time)
           ELSE IF s \in h[p].live THEN Ended(sub[s], time) ELSE sub[s]]
    BY <1>2, <2>1
  <2>3. ASSUME NEW s \in h[p].live, sub[s].endsAt > time
        PROVE  sub[s].plan # h[p].plan
    <3>1. \A r \in h[p].live : r <= s
      BY <1>1 DEF Subs
    <3>2. s \in Current(h[p].live, time)
      BY <2>3, <3>1 DEF Current
    <3> QED
      BY <1>5, <3>2 DEF Kept
  <2> QED
    BY <2>2, <2>3 DEF Starts
<1> QED
  BY <1>4, <1>5

LEMMA LiveInvInit == SubsInit => LiveInv
<1> SUFFICES ASSUME SubsInit PROVE LiveInv
  OBVIOUS
<1>1. SubsTypeOK
  BY SubsTypeInit
<1>2. ActiveRows = {}
  BY ActiveRowsForm DEF SubsInit, SubscriptionsInit, Absent
<1>3. \A p \in Procs : h[p].at = "idle"
  BY DEF SubsInit, Idle
<1> QED
  BY <1>1, <1>2, <1>3 DEF LiveInv, LockInv, OneLiveSubscription

LEMMA LiveInvStep ==
  ASSUME LiveInv, NEW p \in Procs, SubscriptionsStep(p), SubsTypeOK'
  PROVE  LiveInv'
<1>h. /\ h \in [Procs -> {Idle} \cup SubscriptionHandlers]
      /\ sub \in [Subs -> Terms]
      /\ Idle.at = "idle"
  BY DEF LiveInv, SubsTypeOK, SubscriptionsTypeOK, Terms, Idle
<1>a. ASSUME NEW s, Goto(p, s), s.at # "subscribeWrite", userLock' = userLock
      PROVE  \A q \in Procs : h'[q].at = "subscribeWrite" => h'[q] = h[q] /\ userLock' = userLock
  BY <1>a, <1>h DEF Goto
<1>b. sub' = sub => ActiveRows' = ActiveRows
  BY DEF ActiveRows, Rows
<1>1. ASSUME NEW plan \in Plans, SubscribeStart(p, plan)
      PROVE  LiveInv'
  BY <1>1, <1>a, <1>b, LiveShrinks DEF SubscribeStart, Start, subscriptionVars
<1>2. CASE SubscribeRead(p)
  <2>1. \A q \in Procs : h[q].at # "subscribeWrite"
    BY <1>2, ConstantFacts DEF SubscribeRead, LiveInv, LockInv
  <2>2. /\ userLock' = p
        /\ h' = [h EXCEPT ![p] = [at |-> "subscribeWrite", plan |-> h[p].plan,
                                  live |-> ActiveRows, time |-> now]]
        /\ sub' = sub
    BY <1>2 DEF SubscribeRead, Goto
  <2>3. ASSUME NEW q \in Procs, h'[q].at = "subscribeWrite"
        PROVE  q = p /\ h'[q].live = ActiveRows
    BY <1>h, <2>1, <2>2, <2>3
  <2>4. LockInv'
    BY <1>b, <2>2, <2>3 DEF LockInv, LiveInv, OneLiveSubscription
  <2> QED
    BY <1>b, <2>2, <2>4 DEF LiveInv, OneLiveSubscription
<1>3. CASE SubscribeWrite(p)
  <2>1. /\ h[p].at = "subscribeWrite" /\ userLock = p
        /\ ActiveRows \subseteq h[p].live
        /\ h' = [h EXCEPT ![p] = Idle]
    BY <1>3 DEF SubscribeWrite, LiveInv, LockInv, End, Goto
  <2>2. \A q \in Procs : h'[q].at # "subscribeWrite"
    BY <1>h, <2>1 DEF LiveInv, LockInv
  <2>3. \A r, s \in ActiveRows' : r = s
    <3>1. CASE Renews(p)
      BY <1>b, <3>1 DEF Renews, LiveInv, OneLiveSubscription
    <3>2. CASE Starts(p)
      <4>1. h[p].time \in 0..Horizon /\ h[p].live \in SUBSET Subs
        BY <1>h, <2>1, SubsHandlerFields
      <4>2. ASSUME NEW s \in ActiveRows', s # New
            PROVE  FALSE
        <5>1. s \in Subs /\ sub'[s].active
          BY <4>2 DEF ActiveRows, Rows
        <5>2. CASE s \in h[p].live
          <6>1. sub'[s] = Ended(sub[s], h[p].time)
            BY <3>2, <4>2, <5>1, <5>2 DEF Starts
          <6>2. Ended(sub[s], h[p].time).active = FALSE
            BY <1>h, <4>1, <5>1, EndedType
          <6> QED
            BY <5>1, <6>1, <6>2
        <5>3. CASE s \notin h[p].live
          <6>1. sub'[s] = sub[s]
            BY <3>2, <4>2, <5>1, <5>3 DEF Starts
          <6>2. s \in ActiveRows
            BY <5>1, <6>1, ActiveRowsForm
          <6> QED
            BY <2>1, <5>3, <6>2
        <5> QED
          BY <5>2, <5>3
      <4> QED
        BY <4>2
    <3> QED
      BY <1>3, <3>1, <3>2, WriteForm
  <2> QED
    BY <2>2, <2>3 DEF LiveInv, LockInv, OneLiveSubscription
<1>4. CASE SubscriptionStop(p)
  <2>1. h' = [h EXCEPT ![p] = Idle] /\ sub' = sub
    BY <1>4 DEF SubscriptionStop, Stop, End, Goto
  <2>2. ASSUME NEW q \in Procs, h'[q].at = "subscribeWrite"
        PROVE  h'[q] = h[q] /\ userLock' = userLock
    <3>1. q # p /\ h'[q] = h[q]
      BY <1>h, <2>1, <2>2
    <3>2. userLock = q
      BY <2>2, <3>1 DEF LiveInv, LockInv
    <3> QED
      BY <1>4, <3>1, <3>2 DEF SubscriptionStop
  <2> QED
    BY <1>b, <2>1, <2>2, LiveShrinks
<1>5. ASSUME NEW s \in Subs, ActiveRead(p, s)
      PROVE  LiveInv'
  BY <1>5, <1>a, <1>b, LiveShrinks DEF ActiveRead, Start, subscriptionVars
<1>6. CASE ExpireOne(p)
  <2>1. ActiveRows' \subseteq ActiveRows
    <3>1. \A s \in Subs : sub'[s].active => sub[s].active
      BY <1>6, <1>h DEF ExpireOne, Terms
    <3> QED
      BY <3>1, ActiveRowsForm DEF ActiveRows, Rows
  <2> QED
    BY <1>6, <1>a, <1>h, <2>1, LiveShrinks DEF ExpireOne, End
<1>7. CASE SweepStart(p)
  BY <1>7, <1>a, <1>b, LiveShrinks DEF SweepStart, Start, subscriptionVars
<1>8. CASE Sweep(p)
  <2>1. ActiveRows' \subseteq ActiveRows
    <3>1. \A s \in Subs : sub'[s].active => sub[s].active
      BY <1>8, <1>h DEF Sweep, Terms
    <3> QED
      BY <3>1, ActiveRowsForm DEF ActiveRows, Rows
  <2> QED
    BY <1>8, <1>a, <1>h, <2>1, LiveShrinks DEF Sweep, End
<1> QED
  BY <1>1, <1>2, <1>3, <1>4, <1>5, <1>6, <1>7, <1>8 DEF SubscriptionsStep

LEMMA LiveInvNext == LiveInv /\ [SubscriptionsNext]_subsVars => LiveInv'
<1> SUFFICES ASSUME LiveInv, [SubscriptionsNext]_subsVars PROVE LiveInv'
  OBVIOUS
<1>1. SubsTypeOK'
  BY SubsTypeNext DEF LiveInv
<1>2. CASE DayPasses \/ UNCHANGED subsVars
  BY <1>1, <1>2, LiveShrinks DEF DayPasses, subsVars, subscriptionVars, ActiveRows, Rows
<1>3. ASSUME NEW p \in Procs, SubscriptionsStep(p)
      PROVE  LiveInv'
  BY <1>1, <1>3, LiveInvStep
<1> QED
  BY <1>2, <1>3 DEF SubscriptionsNext

\* However taps, renewals, reads and sweeps overlap or fail, one row at most is
\* flagged active.
THEOREM OneSubscriptionIsLive == SubsSpec => []OneLiveSubscription
<1>1. SubsInit => LiveInv
  BY LiveInvInit
<1>2. LiveInv /\ [SubscriptionsNext]_subsVars => LiveInv'
  BY LiveInvNext
<1>3. LiveInv => OneLiveSubscription
  BY DEF LiveInv
<1> QED
  BY <1>1, <1>2, <1>3, PTL DEF SubsSpec

(***************************************************************************)
(* Paid terms.  Rows are numbered in the order of their creation, and a slot  *)
(* that subscribes has a row reserved for it by the bound.                   *)
(***************************************************************************)
Room ==
  /\ \E n \in 0..MaxSubs : Rows = 1..n
  /\ Cardinality(Rows) + Cardinality(Subscribing) <= MaxSubs

\* What is known of a row: a live one runs its month, another is over, at its
\* month's end or where a newer one took over.
TermInv(s) ==
  /\ sub[s].plan # Never
  /\ sub[s].startsAt <= now
  /\ sub[s].endsAt <= AddOneMonth(sub[s].startsAt)
  /\ sub[s].active => sub[s].endsAt = AddOneMonth(sub[s].startsAt)
  /\ ~sub[s].active =>
       /\ sub[s].endsAt <= now
       /\ \/ sub[s].endsAt = AddOneMonth(sub[s].startsAt)
          \/ \E r \in Rows : r > s /\ sub[r].startsAt = sub[s].endsAt

\* What a handler in flight has read.
ReadInv(p) ==
  /\ h[p].at = "subscribeWrite" => h[p].live \subseteq Rows /\ h[p].time <= now
  /\ h[p].at = "expireOne" => h[p].row \in Rows /\ sub[h[p].row].endsAt < now
  /\ h[p].at = "sweep" => h[p].time <= now

PaidInv ==
  /\ LiveInv
  /\ Room
  /\ \A s \in Rows : TermInv(s)
  /\ \A p \in Procs : ReadInv(p)

LEMMA RoomFacts ==
  ASSUME Room
  PROVE  /\ Rows = 1..Cardinality(Rows)
         /\ Cardinality(Rows) \in 0..MaxSubs
         /\ IsFiniteSet(Subscribing) /\ Cardinality(Subscribing) \in Nat
<1>1. PICK n \in 0..MaxSubs : Rows = 1..n
  BY DEF Room
<1>2. n \in Nat /\ n \in Int /\ 1 \in Int
  BY <1>1, ConstantFacts
<1>3. Cardinality(1..n) = IF 1 > n THEN 0 ELSE n - 1 + 1
  BY <1>2, FS_Interval
<1>4. Cardinality(Rows) = n
  BY <1>1, <1>2, <1>3
<1>5. Subscribing \in SUBSET Procs
  BY DEF Subscribing
<1>6. IsFiniteSet(Subscribing)
  BY <1>5, ConstantFacts, FS_Subset
<1> QED
  BY <1>1, <1>4, <1>6, FS_CardinalityType

\* A step that changes no row and adds no subscriber leaves room.
LEMMA RoomShrinks ==
  ASSUME Room, Rows' = Rows, Subscribing' \subseteq Subscribing
  PROVE  Room'
<1>1. Rows' = Rows
  OBVIOUS
<1>2. IsFiniteSet(Subscribing) /\ Cardinality(Subscribing) \in Nat
  BY RoomFacts
<1>3. /\ IsFiniteSet(Subscribing')
      /\ Cardinality(Subscribing') <= Cardinality(Subscribing)
  BY <1>2, FS_Subset
<1>4. Cardinality(Subscribing') \in Nat
  BY <1>3, FS_CardinalityType
<1>5. Cardinality(Rows) \in Nat /\ MaxSubs \in Nat
  BY RoomFacts, ConstantFacts
<1>6. \E n \in 0..MaxSubs : Rows' = 1..n
  BY <1>1 DEF Room
<1>7. Cardinality(Rows) + Cardinality(Subscribing') <= MaxSubs
  <2>1. Cardinality(Rows) + Cardinality(Subscribing) <= MaxSubs
    BY DEF Room
  <2> QED
    BY <1>2, <1>3, <1>4, <1>5, <2>1
<1>8. Cardinality(Rows') + Cardinality(Subscribing') <= MaxSubs
  BY <1>1, <1>7
<1> QED
  BY <1>6, <1>8 DEF Room

LEMMA RowTypes ==
  ASSUME SubsTypeOK, NEW s \in Subs
  PROVE  /\ sub[s] \in Terms
         /\ sub[s].active \in BOOLEAN
         /\ sub[s].startsAt \in Int /\ sub[s].endsAt \in Int
         /\ sub[s].startsAt \in 0..Horizon
         /\ AddOneMonth(sub[s].startsAt) \in Int
         /\ now \in Int /\ now \in 0..Horizon
<1>1. sub[s] \in Terms /\ now \in 0..Horizon
  BY DEF SubsTypeOK, SubscriptionsTypeOK, Terms
<1>2. LastEnd \in Nat /\ Horizon \in Nat
  BY LastEndFacts, ConstantFacts
<1>3. sub[s].startsAt \in 0..Horizon /\ sub[s].endsAt \in 0..LastEnd /\ sub[s].active \in BOOLEAN
  BY <1>1 DEF Terms
<1>4. AddOneMonth(sub[s].startsAt) \in 0..LastEnd
  BY <1>3, TermFacts
<1> HIDE DEF Terms
<1> QED
  BY <1>1, <1>2, <1>3, <1>4

\* A handler whose slot is untouched still holds what it read.
LEMMA ReadKept ==
  ASSUME SubsTypeOK, SubsTypeOK', NEW q \in Procs, ReadInv(q), h'[q] = h[q], now <= now',
         Rows \subseteq Rows', \A s \in Rows : sub'[s].endsAt <= sub[s].endsAt
  PROVE  ReadInv(q)'
<1>1. now \in Int /\ now' \in Int
  BY ConstantFacts DEF SubsTypeOK, SubscriptionsTypeOK
<1>2. h[q].at \in {"subscribeWrite", "sweep"} => h[q].time \in Int
  BY SubsHandlerFields, ConstantFacts DEF SubsTypeOK
<1>3. \A s \in Rows : s \in Subs
  BY DEF Rows
<1>4. \A s \in Rows : sub[s].endsAt \in Int
  BY <1>3, RowTypes
<1>5. \A s \in Rows : sub'[s].endsAt \in Int
  <2>1. sub' \in [Subs -> Terms]
    BY DEF SubsTypeOK, SubscriptionsTypeOK, Terms
  <2>2. \A t \in Terms : t.endsAt \in Int
    BY LastEndFacts DEF Terms
  <2> QED
    BY <1>3, <2>1, <2>2
<1>6. h'[q].at = "subscribeWrite" => h'[q].live \subseteq Rows' /\ h'[q].time <= now'
  BY <1>1, <1>2 DEF ReadInv
<1>7. h'[q].at = "expireOne" => h'[q].row \in Rows' /\ sub'[h'[q].row].endsAt < now'
  BY <1>1, <1>4, <1>5 DEF ReadInv
<1>8. h'[q].at = "sweep" => h'[q].time <= now'
  BY <1>1, <1>2 DEF ReadInv
<1> QED
  BY <1>6, <1>7, <1>8 DEF ReadInv

\* Switching off rows that are over, or none, keeps every row's history.
SwitchesOff ==
  \A s \in Subs :
    \/ sub'[s] = sub[s]
    \/ /\ s \in Rows
       /\ sub'[s].plan = sub[s].plan
       /\ sub'[s].startsAt = sub[s].startsAt
       /\ sub'[s].endsAt = sub[s].endsAt
       /\ ~sub'[s].active
       /\ sub[s].endsAt <= now

LEMMA RowsSwitchedOff ==
  ASSUME PaidInv, SwitchesOff
  PROVE  Rows' = Rows
<1>1. \A s \in Rows : sub[s].plan # Never
  BY DEF PaidInv, TermInv
<1>2. \A s \in Rows : sub'[s].plan # Never
  BY <1>1 DEF SwitchesOff, Rows
<1>3. \A s \in Subs \ Rows : sub'[s] = sub[s]
  BY DEF SwitchesOff
<1>4. Absent' = Absent /\ Absent.plan = Never
  BY DEF Absent
<1> QED
  BY <1>2, <1>3, <1>4 DEF Rows

LEMMA TermsKept ==
  ASSUME PaidInv, SubsTypeOK', SwitchesOff, now <= now'
  PROVE  \A s \in Rows' : TermInv(s)'
<1>1. Rows' = Rows
  BY RowsSwitchedOff
<1> SUFFICES ASSUME NEW s \in Rows PROVE TermInv(s)'
  BY <1>1
<1>2. s \in Subs /\ SubsTypeOK /\ TermInv(s)
  BY DEF PaidInv, LiveInv, Rows
<1>3. \A r \in Rows : sub'[r].startsAt = sub[r].startsAt
  BY DEF SwitchesOff, Rows
<1>4. /\ sub'[s].plan = sub[s].plan
      /\ sub'[s].startsAt = sub[s].startsAt
      /\ sub'[s].endsAt = sub[s].endsAt
      /\ sub'[s].active => sub[s].active
      /\ ~sub'[s].active /\ sub[s].active => sub[s].endsAt <= now
  BY <1>2 DEF SwitchesOff
<1>5. /\ sub[s].startsAt \in Int /\ sub[s].endsAt \in Int /\ now \in Int
      /\ AddOneMonth(sub[s].startsAt) \in Int /\ sub[s].active \in BOOLEAN
  BY <1>2, RowTypes
<1>6. now' \in Int
  BY ConstantFacts DEF SubsTypeOK, SubscriptionsTypeOK
<1>7. AddOneMonth(sub'[s].startsAt) = AddOneMonth(sub[s].startsAt)
  BY <1>4
<1>8. /\ sub'[s].plan # Never
      /\ sub'[s].startsAt <= now'
      /\ sub'[s].endsAt <= AddOneMonth(sub'[s].startsAt)
      /\ sub'[s].active => sub'[s].endsAt = AddOneMonth(sub'[s].startsAt)
  BY <1>2, <1>4, <1>5, <1>6, <1>7 DEF TermInv
<1>9. ASSUME ~sub'[s].active
      PROVE  /\ sub'[s].endsAt <= now'
             /\ \/ sub'[s].endsAt = AddOneMonth(sub'[s].startsAt)
                \/ \E r \in Rows : r > s /\ sub'[r].startsAt = sub'[s].endsAt
  <2>1. CASE sub[s].active
    BY <1>2, <1>4, <1>5, <1>6, <1>7, <1>9, <2>1 DEF TermInv
  <2>2. CASE ~sub[s].active
    <3>1. sub[s].endsAt <= now
      BY <1>2, <2>2 DEF TermInv
    <3>2. \/ sub[s].endsAt = AddOneMonth(sub[s].startsAt)
          \/ \E r \in Rows : r > s /\ sub[r].startsAt = sub[s].endsAt
      BY <1>2, <2>2 DEF TermInv
    <3> QED
      BY <1>3, <1>4, <1>5, <1>6, <1>7, <3>1, <3>2
  <2> QED
    BY <2>1, <2>2
<1>10. AddOneMonth(sub[s].startsAt)' = AddOneMonth(sub'[s].startsAt)
  BY DEF AddOneMonth, MonthOf, MonthAfter, Clamped
<1> QED
  BY <1>1, <1>8, <1>9, <1>10 DEF TermInv

LEMMA RoomKept ==
  ASSUME Room, sub' = sub, Subscribing' \subseteq Subscribing
  PROVE  Room'
<1>1. Rows' = Rows
  BY DEF Rows
<1> QED
  BY <1>1, RoomShrinks

\* A step of slot p that switches off rows and adds no subscriber.
LEMMA PaidQuiet ==
  ASSUME PaidInv, LiveInv', SwitchesOff, Room', now <= now', NEW p \in Procs,
         \A q \in Procs : q # p => h'[q] = h[q], ReadInv(p)'
  PROVE  PaidInv'
<1>1. SubsTypeOK /\ SubsTypeOK'
  BY DEF PaidInv, LiveInv
<1>2. \A s \in Rows' : TermInv(s)'
  BY <1>1, TermsKept
<1>3. Rows' = Rows
  BY RowsSwitchedOff
<1>4. \A s \in Rows : sub'[s].endsAt <= sub[s].endsAt
  <2> SUFFICES ASSUME NEW s \in Rows PROVE sub'[s].endsAt <= sub[s].endsAt
    OBVIOUS
  <2>1. s \in Subs /\ sub[s].endsAt \in Int
    BY <1>1, RowTypes DEF Rows
  <2>2. sub'[s].endsAt = sub[s].endsAt
    BY <2>1 DEF SwitchesOff
  <2> QED
    BY <2>1, <2>2
<1>5. ASSUME NEW q \in Procs
      PROVE  ReadInv(q)'
  <2>1. CASE q = p
    BY <2>1
  <2>2. CASE q # p
    BY <1>1, <1>3, <1>4, <2>2, ReadKept DEF PaidInv
  <2> QED
    BY <2>1, <2>2
<1> QED
  BY <1>2, <1>5 DEF PaidInv

LEMMA RowSwitchedOff ==
  ASSUME NEW row \in Terms, NEW other, other = [row EXCEPT !.active = FALSE]
  PROVE  /\ other.plan = row.plan
         /\ other.startsAt = row.startsAt
         /\ other.endsAt = row.endsAt
         /\ ~other.active
  BY DEF Terms

\* The row that a write creates is the next one.
LEMMA NewRow ==
  ASSUME PaidInv, NEW p \in Procs, h[p].at = "subscribeWrite"
  PROVE  /\ New \in Subs /\ New \notin Rows
         /\ \A s \in Rows : s < New
         /\ Rows \cup {New} = 1..New
         /\ Subscribing = (Subscribing \ {p}) \cup {p}
         /\ Cardinality(Subscribing) = Cardinality(Subscribing \ {p}) + 1
         /\ Cardinality(Subscribing \ {p}) \in Nat
<1>1. /\ Rows = 1..Cardinality(Rows) /\ Cardinality(Rows) \in Nat
      /\ IsFiniteSet(Subscribing) /\ Cardinality(Subscribing) \in Nat
  BY RoomFacts, ConstantFacts DEF PaidInv
<1>2. p \in Subscribing
  BY DEF Subscribing
<1>3. /\ IsFiniteSet(Subscribing \ {p})
      /\ Cardinality(Subscribing \ {p}) = Cardinality(Subscribing) - 1
  BY <1>1, <1>2, FS_RemoveElement
<1>4. Cardinality(Subscribing \ {p}) \in Nat
  BY <1>3, FS_CardinalityType
<1>5. Cardinality(Rows) + Cardinality(Subscribing) <= MaxSubs /\ MaxSubs \in Nat
  BY ConstantFacts DEF PaidInv, Room
<1>6. New \in Subs
  BY <1>1, <1>3, <1>4, <1>5 DEF New, Subs
<1>7. New \notin Rows /\ (\A s \in Rows : s < New) /\ Rows \cup {New} = 1..New
  BY <1>1 DEF New
<1> QED
  BY <1>1, <1>2, <1>3, <1>4, <1>6, <1>7

LEMMA PaidStarts ==
  ASSUME PaidInv, LiveInv', NEW p \in Procs, SubscribeWrite(p), Starts(p)
  PROVE  PaidInv'
<1>1. /\ SubsTypeOK /\ SubsTypeOK' /\ LiveInv /\ Room
      /\ \A s \in Rows : TermInv(s)
      /\ \A q \in Procs : ReadInv(q)
      /\ sub \in [Subs -> Terms] /\ now \in 0..Horizon /\ now \in Int
      /\ h \in [Procs -> {Idle} \cup SubscriptionHandlers]
  BY ConstantFacts DEF PaidInv, LiveInv, SubsTypeOK, SubscriptionsTypeOK, Terms
<1>n. PICK n : n = New
  OBVIOUS
<1> DEFINE time == h[p].time
           plan == h[p].plan
           live == h[p].live
<1>2. /\ h[p].at = "subscribeWrite" /\ now' = now
      /\ h' = [h EXCEPT ![p] = Idle]
  BY DEF SubscribeWrite, End, Goto
<1>3. /\ time \in 0..Horizon /\ time \in Int /\ plan \in Plans /\ live \in SUBSET Subs
      /\ live \subseteq Rows /\ time <= now
      /\ \A r, s \in live : r = s
  BY <1>1, <1>2, SubsHandlerFields, ConstantFacts DEF ReadInv, LiveInv, LockInv
<1>4. /\ n \in Subs /\ n \notin Rows
      /\ \A s \in Rows : s < n
      /\ Rows \cup {n} = 1..n
      /\ Cardinality(Subscribing) = Cardinality(Subscribing \ {p}) + 1
      /\ Cardinality(Subscribing \ {p}) \in Nat
  BY <1>2, <1>n, NewRow
<1>5. sub'[n] = FreshTerm(plan, time)
  BY <1>4, <1>n DEF Starts
<1>6. /\ sub'[n].plan = plan /\ sub'[n].active = TRUE
      /\ sub'[n].startsAt = time /\ sub'[n].endsAt = AddOneMonth(time)
  BY <1>5 DEF FreshTerm
<1>7. ASSUME NEW s \in Rows \cap live
      PROVE  /\ sub'[s].plan = sub[s].plan
             /\ sub'[s].startsAt = sub[s].startsAt
             /\ sub'[s].active = FALSE
             /\ sub'[s].endsAt = IF sub[s].endsAt <= time THEN sub[s].endsAt ELSE time
  <2>1. s \in Subs /\ s # n /\ sub[s] \in Terms
    BY <1>1, <1>4 DEF Rows
  <2>2. sub'[s] = Ended(sub[s], time)
    BY <2>1, <1>n DEF Starts
  <2>3. /\ Ended(sub[s], time).plan = sub[s].plan
        /\ Ended(sub[s], time).startsAt = sub[s].startsAt
        /\ Ended(sub[s], time).active = FALSE
        /\ Ended(sub[s], time).endsAt = IF sub[s].endsAt <= time THEN sub[s].endsAt ELSE time
    BY <1>3, <2>1, EndedType
  <2> QED
    BY <2>2, <2>3
<1>8. ASSUME NEW s \in Subs, s # n, s \notin live
      PROVE  sub'[s] = sub[s]
  BY <1>8, <1>n DEF Starts
<1> HIDE DEF time, plan, live
<1>9. Rows' = Rows \cup {n}
  <2>1. Absent' = Absent /\ Absent.plan = Never
    BY DEF Absent
  <2>2. \A s \in Rows \cap live : sub'[s].plan # Never /\ s \in Subs
    BY <1>1, <1>7 DEF TermInv, Rows
  <2>3. sub'[n].plan # Never
    BY <1>3, <1>6, ConstantFacts
  <2>4. \A s \in Subs : s # n /\ s \notin live => sub'[s] = sub[s]
    BY <1>8
  <2>5. live \subseteq Rows /\ n \in Subs
    BY <1>3, <1>4
  <2> QED
    BY <2>1, <2>2, <2>3, <2>4, <2>5 DEF Rows
<1>10. Room'
  <2>1. Subscribing' = Subscribing \ {p}
    BY <1>1, <1>2 DEF Subscribing, Idle
  <2>2. Cardinality(Rows) \in Nat /\ MaxSubs \in Nat /\ n = Cardinality(Rows) + 1
    BY <1>1, <1>n, RoomFacts, ConstantFacts DEF New
  <2>3. n \in Nat /\ n \in 0..MaxSubs
    BY <1>4, <2>2 DEF Subs
  <2>4. Rows' = 1..n
    BY <1>4, <1>9
  <2>5. Cardinality(1..n) = n
    <3>1. Cardinality(1..n) = IF 1 > n THEN 0 ELSE n - 1 + 1
      BY <2>3, FS_Interval
    <3> QED
      BY <2>2, <3>1
  <2>6. Cardinality(Rows) + Cardinality(Subscribing) <= MaxSubs
    BY <1>1 DEF Room
  <2>7. n + Cardinality(Subscribing \ {p}) <= MaxSubs
    BY <1>4, <2>2, <2>6
  <2>8. Cardinality(Rows') + Cardinality(Subscribing') <= MaxSubs
    BY <2>1, <2>4, <2>5, <2>7
  <2> QED
    BY <2>3, <2>4, <2>8 DEF Room
<1>m. \A x : AddOneMonth(x)' = AddOneMonth(x')
  BY DEF AddOneMonth, MonthOf, MonthAfter, Clamped
<1>11. TermInv(n)'
  <2>1. AddOneMonth(time) \in Int
    BY <1>3, TermFacts, LastEndFacts
  <2>2. sub'[n].plan # Never
    BY <1>3, <1>6, ConstantFacts
  <2> QED
    BY <1>2, <1>3, <1>6, <2>1, <2>2 DEF TermInv
<1>12. ASSUME NEW s \in Rows
       PROVE  /\ sub'[s].plan = sub[s].plan
              /\ sub'[s].startsAt = sub[s].startsAt
              /\ sub'[s].endsAt <= sub[s].endsAt /\ sub'[s].endsAt \in Int
              /\ sub[s].startsAt \in Int /\ sub[s].endsAt \in Int
              /\ AddOneMonth(sub[s].startsAt) \in Int
  <2>1. s \in Subs /\ s # n
    BY <1>4 DEF Rows
  <2>2. /\ sub[s].startsAt \in Int /\ sub[s].endsAt \in Int
        /\ AddOneMonth(sub[s].startsAt) \in Int
    BY <1>1, <2>1, RowTypes
  <2>3. CASE s \in live
    <3>1. /\ sub'[s].plan = sub[s].plan
          /\ sub'[s].startsAt = sub[s].startsAt
          /\ sub'[s].endsAt = IF sub[s].endsAt <= time THEN sub[s].endsAt ELSE time
      BY <1>7, <2>3
    <3>2. sub'[s].endsAt <= sub[s].endsAt /\ sub'[s].endsAt \in Int
      BY <1>3, <2>2, <3>1
    <3> QED
      BY <2>2, <3>1, <3>2
  <2>4. CASE s \notin live
    <3>1. sub'[s] = sub[s]
      BY <1>8, <2>1, <2>4
    <3> QED
      BY <2>2, <3>1
  <2> QED
    BY <2>3, <2>4
<1>13. ASSUME NEW s \in Rows
       PROVE  TermInv(s)'
  <2>1. s \in Subs /\ s # n /\ s < n
    BY <1>4 DEF Rows
  <2>2. TermInv(s)
    BY <1>1
  <2>3. AddOneMonth(sub'[s].startsAt) = AddOneMonth(sub[s].startsAt)
    BY <1>12
  <2>4. sub[s].active \in BOOLEAN
    BY <1>1, <2>1, RowTypes
  <2>5. /\ sub'[s].plan # Never
        /\ sub'[s].startsAt <= now
        /\ sub'[s].endsAt <= AddOneMonth(sub[s].startsAt)
    <3>1. /\ sub[s].plan # Never /\ sub[s].startsAt <= now
          /\ sub[s].endsAt <= AddOneMonth(sub[s].startsAt)
      BY <2>2 DEF TermInv
    <3> QED
      BY <1>12, <3>1
  <2>6. ASSUME ~sub[s].active, sub'[s].endsAt = sub[s].endsAt
        PROVE  /\ sub[s].endsAt <= now
               /\ \/ sub[s].endsAt = AddOneMonth(sub[s].startsAt)
                  \/ \E r \in Rows : r > s /\ sub'[r].startsAt = sub[s].endsAt
    <3>1. /\ sub[s].endsAt <= now
          /\ \/ sub[s].endsAt = AddOneMonth(sub[s].startsAt)
             \/ \E r \in Rows : r > s /\ sub[r].startsAt = sub[s].endsAt
      BY <2>2, <2>6 DEF TermInv
    <3> QED
      BY <1>12, <3>1
  <2>7. /\ ~sub'[s].active
        /\ sub'[s].endsAt <= now
        /\ \/ sub'[s].endsAt = AddOneMonth(sub[s].startsAt)
           \/ \E r \in Rows' : r > s /\ sub'[r].startsAt = sub'[s].endsAt
    <3>1. CASE s \notin live
      <4>1. sub'[s] = sub[s]
        BY <1>8, <2>1, <3>1
      <4>2. ~sub[s].active
        <5>1. ActiveRows \subseteq live
          BY <1>1, <1>2 DEF LiveInv, LockInv, live
        <5> QED
          BY <2>1, <3>1, <5>1, ActiveRowsForm
      <4> QED
        BY <1>9, <2>6, <4>1, <4>2
    <3>2. CASE s \in live /\ sub[s].endsAt <= time
      <4>1. ~sub'[s].active /\ sub'[s].endsAt = sub[s].endsAt
        BY <1>7, <3>2
      <4>2. CASE sub[s].active
        <5>1. sub[s].endsAt = AddOneMonth(sub[s].startsAt)
          BY <2>2, <4>2 DEF TermInv
        <5> QED
          BY <1>1, <1>3, <1>12, <3>2, <4>1, <5>1
      <4>3. CASE ~sub[s].active
        BY <1>9, <2>6, <4>1, <4>3
      <4> QED
        BY <4>2, <4>3
    <3>3. CASE s \in live /\ ~(sub[s].endsAt <= time)
      <4>1. ~sub'[s].active /\ sub'[s].endsAt = time
        BY <1>7, <3>3
      <4>2. n \in Rows' /\ n > s /\ sub'[n].startsAt = time
        BY <1>6, <1>9, <2>1
      <4> QED
        BY <1>3, <4>1, <4>2
    <3> QED
      BY <3>1, <3>2, <3>3
  <2>8. AddOneMonth(sub[s].startsAt)' = AddOneMonth(sub'[s].startsAt)
    BY <1>m
  <2> QED
    BY <1>2, <2>3, <2>5, <2>7, <2>8 DEF TermInv
<1>14. ASSUME NEW q \in Procs
       PROVE  ReadInv(q)'
  <2>1. CASE q = p
    BY <1>1, <1>2, <2>1 DEF ReadInv, Idle
  <2>2. CASE q # p
    <3>1. h'[q] = h[q]
      BY <1>1, <1>2, <2>2
    <3>2. now <= now' /\ Rows \subseteq Rows' /\ \A s \in Rows : sub'[s].endsAt <= sub[s].endsAt
      BY <1>1, <1>2, <1>9, <1>12
    <3> QED
      BY <1>1, <3>1, <3>2, ReadKept
  <2> QED
    BY <2>1, <2>2
<1> QED
  BY <1>9, <1>10, <1>11, <1>13, <1>14 DEF PaidInv

LEMMA PaidInvInit == SubsInit => PaidInv
<1> SUFFICES ASSUME SubsInit PROVE PaidInv
  OBVIOUS
<1>1. LiveInv
  BY LiveInvInit
<1>2. Rows = {} /\ Subscribing = {}
  BY DEF SubsInit, SubscriptionsInit, Rows, Subscribing, Idle
<1>3. Room
  <2>1. Rows = 1..0 /\ 0 \in 0..MaxSubs
    BY <1>2, ConstantFacts
  <2>2. Cardinality(Rows) = 0 /\ Cardinality(Subscribing) = 0
    BY <1>2, FS_EmptySet
  <2> QED
    BY <2>1, <2>2, ConstantFacts DEF Room
<1>4. \A p \in Procs : ReadInv(p)
  BY DEF SubsInit, ReadInv, Idle
<1> QED
  BY <1>1, <1>2, <1>3, <1>4 DEF PaidInv

LEMMA PaidInvStep ==
  ASSUME PaidInv, NEW p \in Procs, SubscriptionsStep(p), LiveInv'
  PROVE  PaidInv'
<1>h. /\ h \in [Procs -> {Idle} \cup SubscriptionHandlers]
      /\ sub \in [Subs -> Terms] /\ now \in Int
      /\ SubsTypeOK /\ LiveInv /\ Room /\ ReadInv(p)
      /\ Idle.at = "idle"
  BY ConstantFacts DEF PaidInv, LiveInv, SubsTypeOK, SubscriptionsTypeOK, Terms, Idle
<1>a. ASSUME NEW s, Goto(p, s)
      PROVE  /\ \A q \in Procs : q # p => h'[q] = h[q]
             /\ h'[p] = s
             /\ s.at \notin {"subscribeLock", "subscribeWrite"} => Subscribing' \subseteq Subscribing
  BY <1>a, <1>h DEF Goto, Subscribing
<1>b. sub' = sub => SwitchesOff
  BY DEF SwitchesOff
<1>c. now <= now
  BY <1>h
<1>1. ASSUME NEW plan \in Plans, SubscribeStart(p, plan)
      PROVE  PaidInv'
  <2> DEFINE s == [at |-> "subscribeLock", plan |-> plan]
  <2>1. Goto(p, s) /\ sub' = sub /\ now' = now
    BY <1>1 DEF SubscribeStart, Start, subscriptionVars
  <2>2. Subscribing' = Subscribing \cup {p}
    BY <1>h, <2>1 DEF Goto, Subscribing
  <2>3. IsFiniteSet(Subscribing) /\ Cardinality(Subscribing) \in Nat /\ Cardinality(Rows) \in Nat
    BY <1>h, RoomFacts, ConstantFacts
  <2>4. /\ Cardinality(Subscribing') \in Nat
        /\ Cardinality(Subscribing') <= Cardinality(Subscribing) + 1
    <3>1. Cardinality(Subscribing') = IF p \in Subscribing THEN Cardinality(Subscribing)
                                      ELSE Cardinality(Subscribing) + 1
      BY <2>2, <2>3, FS_AddElement
    <3> QED
      BY <2>3, <3>1
  <2>5. Rows' = Rows
    BY <2>1 DEF Rows
  <2>6. Room'
    <3>1. Cardinality(Rows) + Cardinality(Subscribing) < MaxSubs /\ MaxSubs \in Nat
      BY <1>1, ConstantFacts DEF SubscribeStart
    <3>2. Cardinality(Rows') + Cardinality(Subscribing') <= MaxSubs
      BY <2>3, <2>4, <2>5, <3>1
    <3>3. \E n \in 0..MaxSubs : Rows' = 1..n
      BY <1>h, <2>5 DEF Room
    <3> QED
      BY <3>2, <3>3 DEF Room
  <2>7. ReadInv(p)'
    BY <1>a, <2>1 DEF ReadInv
  <2> QED
    BY <1>a, <1>b, <1>c, <2>1, <2>6, <2>7, PaidQuiet
<1>2. CASE SubscribeRead(p)
  <2> DEFINE s == [at |-> "subscribeWrite", plan |-> h[p].plan, live |-> ActiveRows, time |-> now]
  <2>1. Goto(p, s) /\ sub' = sub /\ now' = now /\ h[p].at = "subscribeLock"
    BY <1>2 DEF SubscribeRead
  <2>2. Subscribing' = Subscribing
    BY <1>h, <2>1 DEF Goto, Subscribing
  <2>3. Room'
    BY <1>h, <2>1, <2>2, RoomKept
  <2>4. ReadInv(p)'
    <3>1. h'[p] = s
      BY <1>a, <2>1
    <3>2. ActiveRows \subseteq Rows' /\ s.time <= now'
      BY <1>c, <2>1 DEF ActiveRows, Rows
    <3> QED
      BY <3>1, <3>2 DEF ReadInv
  <2> QED
    BY <1>a, <1>b, <1>c, <2>1, <2>3, <2>4, PaidQuiet
<1>3. CASE SubscribeWrite(p)
  <2>1. CASE Renews(p)
    <3>1. Goto(p, Idle) /\ sub' = sub /\ now' = now
      BY <1>3, <2>1 DEF SubscribeWrite, Renews, End
    <3>2. Room'
      BY <1>a, <1>h, <3>1, RoomKept
    <3>3. ReadInv(p)'
      BY <1>a, <1>h, <3>1 DEF ReadInv
    <3> QED
      BY <1>a, <1>b, <1>c, <3>1, <3>2, <3>3, PaidQuiet
  <2>2. CASE Starts(p)
    BY <1>3, <2>2, PaidStarts
  <2> QED
    BY <1>3, <1>h, <2>1, <2>2, WriteForm
<1>4. CASE SubscriptionStop(p)
  <2>1. Goto(p, Idle) /\ sub' = sub /\ now' = now
    BY <1>4 DEF SubscriptionStop, Stop, End
  <2>2. Room'
    BY <1>a, <1>h, <2>1, RoomKept
  <2>3. ReadInv(p)'
    BY <1>a, <1>h, <2>1 DEF ReadInv
  <2> QED
    BY <1>a, <1>b, <1>c, <2>1, <2>2, <2>3, PaidQuiet
<1>5. ASSUME NEW s \in Subs, ActiveRead(p, s)
      PROVE  PaidInv'
  <2>1. /\ Goto(p, [at |-> "expireOne", row |-> s]) /\ sub' = sub /\ now' = now
        /\ s \in Rows /\ sub[s].endsAt < now
    BY <1>5 DEF ActiveRead, Start, subscriptionVars, Newest, ActiveRows
  <2>2. Room'
    BY <1>a, <1>h, <2>1, RoomKept
  <2>3. ReadInv(p)'
    <3>1. Rows' = Rows
      BY <2>1 DEF Rows
    <3> QED
      BY <1>a, <2>1, <3>1 DEF ReadInv
  <2> QED
    BY <1>a, <1>b, <1>c, <2>1, <2>2, <2>3, PaidQuiet
<1>6. CASE ExpireOne(p)
  <2>1. Goto(p, Idle) /\ now' = now /\ h[p].at = "expireOne" /\ h[p].row \in Rows
    BY <1>6, <1>h DEF ExpireOne, End, ReadInv
  <2>2. SwitchesOff
    <3> SUFFICES ASSUME NEW s \in Subs, s = h[p].row
                 PROVE  /\ sub'[s].plan = sub[s].plan
                        /\ sub'[s].startsAt = sub[s].startsAt
                        /\ sub'[s].endsAt = sub[s].endsAt
                        /\ ~sub'[s].active
                        /\ sub[s].endsAt <= now
      BY <1>6, <1>h, <2>1 DEF ExpireOne, SwitchesOff
    <3>1. sub[s] \in Terms /\ sub[s].endsAt \in Int
      BY <1>h, RowTypes
    <3>2. sub'[s] = [sub[s] EXCEPT !.active = FALSE]
      BY <1>6, <1>h, Zenon DEF ExpireOne
    <3>3. sub[s].endsAt <= now
      BY <1>h, <2>1, <3>1 DEF ReadInv
    <3> QED
      BY <3>1, <3>2, <3>3, RowSwitchedOff
  <2>3. Room'
    <3>1. Rows' = Rows
      BY <2>2, RowsSwitchedOff
    <3> QED
      BY <1>a, <1>h, <2>1, <3>1, RoomShrinks
  <2>4. ReadInv(p)'
    BY <1>a, <1>h, <2>1 DEF ReadInv
  <2> QED
    BY <1>a, <1>c, <2>1, <2>2, <2>3, <2>4, PaidQuiet
<1>7. CASE SweepStart(p)
  <2>1. Goto(p, [at |-> "sweep", time |-> now]) /\ sub' = sub /\ now' = now
    BY <1>7 DEF SweepStart, Start, subscriptionVars
  <2>2. Room'
    BY <1>a, <1>h, <2>1, RoomKept
  <2>3. ReadInv(p)'
    BY <1>a, <1>c, <2>1 DEF ReadInv
  <2> QED
    BY <1>a, <1>b, <1>c, <2>1, <2>2, <2>3, PaidQuiet
<1>8. CASE Sweep(p)
  <2>1. Goto(p, Idle) /\ now' = now /\ h[p].at = "sweep" /\ h[p].time <= now /\ h[p].time \in Int
    BY <1>8, <1>h, SubsHandlerFields, ConstantFacts DEF Sweep, End, ReadInv
  <2>2. SwitchesOff
    <3> SUFFICES ASSUME NEW s \in Swept(h[p].time)
                 PROVE  /\ s \in Rows
                        /\ sub'[s].plan = sub[s].plan
                        /\ sub'[s].startsAt = sub[s].startsAt
                        /\ sub'[s].endsAt = sub[s].endsAt
                        /\ ~sub'[s].active
                        /\ sub[s].endsAt <= now
      BY <1>8, <1>h DEF Sweep, SwitchesOff
    <3>1. s \in Rows /\ s \in Subs /\ sub[s].endsAt < h[p].time
      BY DEF Swept, ActiveRows, Rows
    <3>2. sub[s] \in Terms /\ sub[s].endsAt \in Int
      BY <1>h, <3>1, RowTypes
    <3>3. sub'[s] = [sub[s] EXCEPT !.active = FALSE]
      BY <1>8, <3>1, Zenon DEF Sweep
    <3>4. sub[s].endsAt <= now
      BY <1>h, <2>1, <3>1, <3>2
    <3> QED
      BY <3>1, <3>2, <3>3, <3>4, RowSwitchedOff
  <2>3. Room'
    <3>1. Rows' = Rows
      BY <2>2, RowsSwitchedOff
    <3> QED
      BY <1>a, <1>h, <2>1, <3>1, RoomShrinks
  <2>4. ReadInv(p)'
    BY <1>a, <1>h, <2>1 DEF ReadInv
  <2> QED
    BY <1>a, <1>c, <2>1, <2>2, <2>3, <2>4, PaidQuiet
<1> QED
  BY <1>1, <1>2, <1>3, <1>4, <1>5, <1>6, <1>7, <1>8 DEF SubscriptionsStep

LEMMA PaidInvNext == PaidInv /\ [SubscriptionsNext]_subsVars => PaidInv'
<1> SUFFICES ASSUME PaidInv, [SubscriptionsNext]_subsVars PROVE PaidInv'
  OBVIOUS
<1>1. LiveInv' /\ SubsTypeOK /\ SubsTypeOK'
  BY LiveInvNext DEF PaidInv, LiveInv
<1>2. CASE DayPasses \/ UNCHANGED subsVars
  <2>1. sub' = sub /\ h' = h /\ now <= now'
    BY <1>1, <1>2, ConstantFacts
    DEF DayPasses, subsVars, subscriptionVars, SubsTypeOK, SubscriptionsTypeOK
  <2>2. SwitchesOff /\ Rows' = Rows /\ Subscribing' \subseteq Subscribing
    BY <2>1 DEF SwitchesOff, Rows, Subscribing
  <2>3. Room'
    BY <2>2, RoomShrinks DEF PaidInv
  <2>4. \A s \in Rows' : TermInv(s)'
    BY <1>1, <2>1, <2>2, TermsKept
  <2>5. \A s \in Rows : sub'[s].endsAt <= sub[s].endsAt
    <3>1. \A s \in Rows : s \in Subs
      BY DEF Rows
    <3> QED
      BY <1>1, <2>1, <3>1, RowTypes
  <2>6. ASSUME NEW q \in Procs
        PROVE  ReadInv(q)'
    <3>1. ReadInv(q) /\ h'[q] = h[q]
      BY <2>1 DEF PaidInv
    <3> QED
      BY <1>1, <2>1, <2>2, <2>5, <3>1, ReadKept
  <2> QED
    BY <1>1, <2>3, <2>4, <2>6 DEF PaidInv
<1>3. ASSUME NEW p \in Procs, SubscriptionsStep(p)
      PROVE  PaidInv'
  BY <1>1, <1>3, PaidInvStep
<1> QED
  BY <1>2, <1>3 DEF SubscriptionsNext

\* The status that the history shows is what happened to the row.
LEMMA HistoryTells ==
  ASSUME PaidInv, NEW s \in Rows
  PROVE  IF Status(sub[s]) = "replaced"
         THEN \E r \in Rows : r > s /\ sub[r].startsAt = sub[s].endsAt
         ELSE MonthOf(sub[s].endsAt) = MonthAfter(sub[s].startsAt)
<1>1. TermInv(s) /\ SubsTypeOK /\ s \in Subs
  BY DEF PaidInv, LiveInv, Rows
<1>2. /\ sub[s].startsAt \in 0..Horizon /\ sub[s].endsAt \in Int /\ now \in Int
      /\ AddOneMonth(sub[s].startsAt) \in Int /\ sub[s].active \in BOOLEAN
  BY <1>1, RowTypes
<1>3. MonthOf(AddOneMonth(sub[s].startsAt)) = MonthAfter(sub[s].startsAt)
  BY <1>2, TermFacts
<1>4. CASE sub[s].endsAt = AddOneMonth(sub[s].startsAt)
  <2>1. Status(sub[s]) # "replaced"
    <3>1. sub[s].active \/ sub[s].endsAt <= now
      BY <1>1 DEF TermInv
    <3> QED
      BY <1>2, <1>4, <3>1 DEF Status
  <2> QED
    BY <1>3, <1>4, <2>1
<1>5. CASE sub[s].endsAt # AddOneMonth(sub[s].startsAt)
  <2>1. ~sub[s].active /\ sub[s].endsAt < AddOneMonth(sub[s].startsAt)
    BY <1>1, <1>2, <1>5 DEF TermInv
  <2>2. \E r \in Rows : r > s /\ sub[r].startsAt = sub[s].endsAt
    BY <1>1, <1>5, <2>1 DEF TermInv
  <2>3. Status(sub[s]) = "replaced"
    BY <2>1 DEF Status
  <2> QED
    BY <2>2, <2>3
<1> QED
  BY <1>4, <1>5

\* What a step does to a row that has been paid for.
Stands(s) ==
  /\ sub[s].active /\ sub[s].endsAt > now /\ ~sub'[s].active =>
       \E r \in Subs \ Rows : sub'[r].active /\ sub'[r].plan # sub[s].plan
  /\ ~sub[s].active => ~sub'[s].active

LEMMA StartStands ==
  ASSUME PaidInv, NEW p \in Procs, SubscribeWrite(p), Starts(p), NEW s \in Rows
  PROVE  Stands(s)
<1>1. /\ s \in Subs /\ SubsTypeOK /\ LiveInv /\ ReadInv(p)
      /\ h[p].at = "subscribeWrite"
      /\ sub \in [Subs -> Terms]
      /\ h[p] \in {Idle} \cup SubscriptionHandlers
  BY DEF PaidInv, LiveInv, Rows, SubscribeWrite, SubsTypeOK, SubscriptionsTypeOK, Terms
<1>2. sub[s].endsAt \in Int /\ now \in Int /\ sub[s] \in Terms
  BY <1>1, RowTypes
<1>3. h[p].time <= now /\ h[p].time \in 0..Horizon /\ h[p].time \in Int
  BY <1>1, SubsHandlerFields, ConstantFacts DEF ReadInv
<1>n. PICK n : n = New
  OBVIOUS
<1>4. n \in Subs /\ n \notin Rows /\ s # n
  BY <1>1, <1>n, NewRow
<1>5. sub'[n].active /\ sub'[n].plan = h[p].plan
  BY <1>4, <1>n DEF Starts, FreshTerm
<1>6. CASE s \in h[p].live
  <2>1. sub'[s] = Ended(sub[s], h[p].time)
    BY <1>1, <1>4, <1>6, <1>n DEF Starts
  <2>2. ~sub'[s].active
    BY <1>2, <1>3, <2>1, EndedType
  <2>3. sub[s].endsAt > now => sub[s].plan # h[p].plan
    <3>1. sub[s].endsAt > now => sub[s].endsAt > h[p].time
      BY <1>2, <1>3
    <3> QED
      BY <1>6, <3>1 DEF Starts
  <2> QED
    BY <1>4, <1>5, <2>2, <2>3 DEF Stands
<1>7. CASE s \notin h[p].live
  <2>1. sub'[s] = sub[s]
    BY <1>1, <1>4, <1>7, <1>n DEF Starts
  <2> QED
    BY <2>1 DEF Stands
<1> QED
  BY <1>6, <1>7

\* A step of any handler switches off rows that are over, or starts a new one.
LEMMA StepStands ==
  ASSUME PaidInv, NEW p \in Procs, SubscriptionsStep(p), NEW s \in Rows
  PROVE  Stands(s)
<1>h. SubsTypeOK /\ LiveInv /\ ReadInv(p) /\ sub \in [Subs -> Terms] /\ s \in Subs
  BY DEF PaidInv, LiveInv, Rows, SubsTypeOK, SubscriptionsTypeOK, Terms
<1>b. sub' = sub => Stands(s)
  BY DEF Stands
<1>1. CASE SubscribeWrite(p)
  <2>1. CASE Renews(p)
    BY <1>b, <2>1 DEF Renews
  <2>2. CASE Starts(p)
    BY <1>1, <2>2, StartStands
  <2> QED
    BY <1>1, <1>h, <2>1, <2>2, WriteForm
<1>2. CASE ExpireOne(p)
  <2>1. /\ h[p].row \in Rows /\ sub[h[p].row].endsAt < now
        /\ sub' = [sub EXCEPT ![h[p].row].active = FALSE]
    BY <1>2, <1>h DEF ExpireOne, ReadInv
  <2>2. CASE s = h[p].row
    <3>1. sub[s] \in Terms /\ sub[s].endsAt \in Int /\ now \in Int
      BY <1>h, RowTypes
    <3>2. sub'[s] = [sub[s] EXCEPT !.active = FALSE]
      BY <1>h, <2>1, <2>2, Zenon
    <3>3. ~sub'[s].active
      BY <3>1, <3>2, RowSwitchedOff
    <3>4. ~(sub[s].endsAt > now)
      BY <2>1, <2>2, <3>1
    <3> QED
      BY <3>3, <3>4 DEF Stands
  <2>3. CASE s # h[p].row
    <3>1. sub'[s] = sub[s]
      BY <1>h, <2>1, <2>3, Zenon
    <3> QED
      BY <3>1 DEF Stands
  <2> QED
    BY <2>2, <2>3
<1>3. CASE Sweep(p)
  <2>1. h[p].time <= now /\ h[p].time \in Int
    BY <1>3, <1>h, SubsHandlerFields, ConstantFacts DEF Sweep, ReadInv, SubsTypeOK
  <2>2. CASE s \in Swept(h[p].time)
    <3>1. sub[s] \in Terms /\ sub[s].endsAt \in Int /\ now \in Int
      BY <1>h, RowTypes
    <3>2. sub'[s] = [sub[s] EXCEPT !.active = FALSE]
      BY <1>3, <1>h, <2>2, Zenon DEF Sweep
    <3>3. ~sub'[s].active
      BY <3>1, <3>2, RowSwitchedOff
    <3>4. ~(sub[s].endsAt > now)
      BY <2>1, <2>2, <3>1 DEF Swept
    <3> QED
      BY <3>3, <3>4 DEF Stands
  <2>3. CASE s \notin Swept(h[p].time)
    <3>1. sub'[s] = sub[s]
      BY <1>3, <1>h, <2>3, Zenon DEF Sweep
    <3> QED
      BY <3>1 DEF Stands
  <2> QED
    BY <2>2, <2>3
<1>4. CASE sub' = sub
  BY <1>b, <1>4
<1> QED
  BY <1>1, <1>2, <1>3, <1>4
  DEF SubscriptionsStep, SubscribeStart, SubscribeRead, SubscriptionStop, ActiveRead, SweepStart,
      subscriptionVars

LEMMA PaidTermNext == PaidInv /\ [SubscriptionsNext]_subsVars => [PaidTermStep]_<<subscriptionVars>>
<1> SUFFICES ASSUME PaidInv, [SubscriptionsNext]_subsVars PROVE [PaidTermStep]_<<subscriptionVars>>
  OBVIOUS
<1>1. CASE UNCHANGED subsVars
  BY <1>1 DEF subsVars
<1>2. CASE DayPasses
  <2>1. \A s \in Rows : Stands(s)
    BY <1>2 DEF DayPasses, Stands
  <2> QED
    BY <2>1, HistoryTells DEF PaidTermStep, Stands
<1>3. ASSUME NEW p \in Procs, SubscriptionsStep(p)
      PROVE  PaidTermStep
  <2>1. \A s \in Rows : Stands(s)
    BY <1>3, StepStands
  <2> QED
    BY <2>1, HistoryTells DEF PaidTermStep, Stands
<1> QED
  BY <1>1, <1>2, <1>3 DEF SubscriptionsNext

\* A running term is switched off only by starting another plan, no row runs
\* again, and the history shows what happened to each.
THEOREM PaidTermsStand == SubsSpec => PaidTermStands
<1>1. SubsInit => PaidInv
  BY PaidInvInit
<1>2. PaidInv /\ [SubscriptionsNext]_subsVars => PaidInv'
  BY PaidInvNext
<1>3. PaidInv /\ [SubscriptionsNext]_subsVars => [PaidTermStep]_<<subscriptionVars>>
  BY PaidTermNext
<1> QED
  BY <1>1, <1>2, <1>3, PTL DEF SubsSpec, PaidTermStands
=============================================================================
