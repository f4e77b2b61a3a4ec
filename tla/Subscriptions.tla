----------------------------- MODULE Subscriptions -----------------------------
(***************************************************************************)
(* The platform subscriptions of one user: subscriptions/service.ts, its    *)
(* routes and the worker's expiry sweep.  Row n of Subs is the n-th created. *)
(***************************************************************************)
EXTENDS InFlight, FiniteSets, FiniteSetsExt

CONSTANTS
  MaxSubs,     \* bound: subscriptions of the user
  Plans,       \* plans the user's role may subscribe to
  MonthStarts, \* the first days of the months
  Horizon      \* bound: the clock, in days

Subs == 1..MaxSubs
Never == "never"
LastEnd == Max(MonthStarts)
Nobody == "nobody"

ASSUME SubscriptionsAssumption ==
  /\ MaxSubs \in Nat
  /\ Horizon \in Nat
  /\ MonthStarts \subseteq Nat /\ 0 \in MonthStarts
  /\ \E last \in MonthStarts : \A month \in MonthStarts : month <= last
  /\ \E next, after \in MonthStarts : Horizon < next /\ next < after
  /\ Never \notin Plans
  /\ IsFiniteSet(Procs) /\ Nobody \notin Procs

VARIABLES
  now,       \* the clock
  sub,       \* Subscription rows: plan, active, startsAt, endsAt
  userLock   \* the slot whose transaction holds the lock of the User row

subscriptionVars == <<now, sub, userLock>>

Absent == [plan |-> Never, active |-> FALSE, startsAt |-> 0, endsAt |-> 0]
Rows == {s \in Subs : sub[s] # Absent}
ActiveRows == {s \in Rows : sub[s].active}

SubscriptionHandlers ==
  [at : {"subscribeLock"}, plan : Plans]
  \cup [at : {"subscribeWrite"}, plan : Plans, live : SUBSET Subs, time : 0..Horizon]
  \cup [at : {"expireOne"}, row : Subs]
  \cup [at : {"sweep"}, time : 0..Horizon]

SubscriptionsTypeOK ==
  /\ now \in 0..Horizon
  /\ sub \in [Subs -> [plan : Plans \cup {Never}, active : BOOLEAN,
                       startsAt : 0..Horizon, endsAt : 0..LastEnd]]
  /\ userLock \in Procs \cup {Nobody}

SubscriptionsInit ==
  /\ now = 0
  /\ sub = [s \in Subs |-> Absent]
  /\ userLock = Nobody

(***************************************************************************)
(* A term runs for one calendar month.                                     *)
(***************************************************************************)
MonthOf(day) == Max({d \in MonthStarts : d <= day})
MonthAfter(day) == Min({d \in MonthStarts : d > day})

\* Mutant: the 31st rolls over into the month after the next.
RolledOver(end, month) == end

\* No later than the last day of its month.
Clamped(end, month) == Min({end, MonthAfter(month) - 1})

AddOneMonth(from) ==
  LET month == MonthAfter(from)
  IN  Clamped(month + (from - MonthOf(from)), month)

\* subscriptionStatus.  Its tolerance, a minute short of the month, is less than a day.
Status(row) ==
  IF row.active /\ row.endsAt > now THEN "active"
  ELSE IF row.endsAt > now \/ row.endsAt < AddOneMonth(row.startsAt) THEN "replaced"
  ELSE "expired"

(***************************************************************************)
(* subscribe: one transaction, which locks the User row first.               *)
(***************************************************************************)
Subscribing == {p \in Procs : h[p].at \in {"subscribeLock", "subscribeWrite"}}

SubscribeStart(p, plan) ==
  /\ Cardinality(Rows) + Cardinality(Subscribing) < MaxSubs
  /\ Start(p, [at |-> "subscribeLock", plan |-> plan])
  /\ UNCHANGED subscriptionVars

\* Mutant: the transaction reads without the lock.
SubscribeReadUnlocked(p) ==
  /\ h[p].at = "subscribeLock"
  /\ Goto(p, [at |-> "subscribeWrite", plan |-> h[p].plan, live |-> ActiveRows, time |-> now])
  /\ UNCHANGED subscriptionVars

SubscribeRead(p) ==
  /\ h[p].at = "subscribeLock"
  /\ userLock = Nobody
  /\ userLock' = p
  /\ Goto(p, [at |-> "subscribeWrite", plan |-> h[p].plan, live |-> ActiveRows, time |-> now])
  /\ UNCHANGED <<now, sub>>

\* The live row to keep or to replace, at most one: the newest within its month.
Current(live, time) ==
  LET running == {s \in live : sub[s].endsAt > time}
  IN  {s \in running : \A r \in running : r <= s}

Ended(row, time) ==
  [row EXCEPT !.active = FALSE, !.endsAt = IF row.endsAt <= time THEN row.endsAt ELSE time]

\* Mutant: taking the running plan again starts a fresh month.
NeverKept(current, plan) == {}

\* A subscription to the plan that already runs.
Kept(current, plan) == {s \in current : sub[s].plan = plan}

SubscribeWrite(p) ==
  /\ h[p].at = "subscribeWrite"
  /\ LET time == h[p].time
         kept == Kept(Current(h[p].live, time), h[p].plan)
         created == IF kept = {} THEN {Cardinality(Rows) + 1} ELSE {}
     IN  sub' = [s \in Subs |->
           IF s \in created
           THEN [plan |-> h[p].plan, active |-> TRUE, startsAt |-> time, endsAt |-> AddOneMonth(time)]
           ELSE IF s \in h[p].live \ kept THEN Ended(sub[s], time) ELSE sub[s]]
  /\ userLock' = Nobody
  /\ End(p)
  /\ UNCHANGED now

\* A failed transaction rolls back and its lock is released.
SubscriptionStop(p) ==
  /\ Stop(p)
  /\ userLock' = IF userLock = p THEN Nobody ELSE userLock
  /\ UNCHANGED <<now, sub>>

(***************************************************************************)
(* Rows past their end are switched off by whoever meets them.               *)
(***************************************************************************)
Newest == {s \in ActiveRows : \A r \in ActiveRows : r <= s}

\* getActiveSubscription, read by GET /subscriptions/me and by every bid.
ActiveRead(p, s) ==
  /\ s \in Newest
  /\ sub[s].endsAt < now
  /\ Start(p, [at |-> "expireOne", row |-> s])
  /\ UNCHANGED subscriptionVars

ExpireOne(p) ==
  /\ h[p].at = "expireOne"
  /\ sub' = [sub EXCEPT ![h[p].row].active = FALSE]
  /\ End(p)
  /\ UNCHANGED <<now, userLock>>

\* expireSubscriptions
SweepStart(p) ==
  /\ Start(p, [at |-> "sweep", time |-> now])
  /\ UNCHANGED subscriptionVars

Swept(time) == {s \in ActiveRows : sub[s].endsAt < time}

Sweep(p) ==
  /\ h[p].at = "sweep"
  /\ sub' = [s \in Subs |-> IF s \in Swept(h[p].time)
                            THEN [sub[s] EXCEPT !.active = FALSE] ELSE sub[s]]
  /\ End(p)
  /\ UNCHANGED <<now, userLock>>

DayPasses ==
  /\ now < Horizon
  /\ now' = now + 1
  /\ UNCHANGED <<sub, userLock, regime, h>>

SubscriptionsStep(p) ==
  \/ \E plan \in Plans : SubscribeStart(p, plan)
  \/ SubscribeRead(p)
  \/ SubscribeWrite(p)
  \/ SubscriptionStop(p)
  \/ \E s \in Subs : ActiveRead(p, s)
  \/ ExpireOne(p)
  \/ SweepStart(p)
  \/ Sweep(p)

SubscriptionsNext ==
  \/ DayPasses
  \/ \E p \in Procs : SubscriptionsStep(p) /\ UNCHANGED regime

(***************************************************************************)
(* Properties.                                                             *)
(***************************************************************************)

\* One live subscription per user: however taps, renewals, reads and sweeps
\* overlap or fail, at most one row is flagged active.
OneLiveSubscription == \A r, s \in ActiveRows : r = s

\* A paid term runs to its end: a running row is switched off only by the
\* step that starts another plan, and a row switched off never runs again.
\* The history tells what happened: a term ends in the month after the one it
\* began in, unless another plan replaced it, and the row that reads "replaced"
\* is one that a newer row took over from.
PaidTermStep ==
  \A s \in Rows :
    /\ sub[s].active /\ sub[s].endsAt > now /\ ~sub'[s].active =>
         \E r \in Subs \ Rows : sub'[r].active /\ sub'[r].plan # sub[s].plan
    /\ ~sub[s].active => ~sub'[s].active
    /\ IF Status(sub[s]) = "replaced"
       THEN \E r \in Rows : r > s /\ sub[r].startsAt = sub[s].endsAt
       ELSE MonthOf(sub[s].endsAt) = MonthAfter(sub[s].startsAt)
PaidTermStands == [][PaidTermStep]_<<subscriptionVars>>
=============================================================================
