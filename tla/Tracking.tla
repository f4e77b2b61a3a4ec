-------------------------------- MODULE Tracking --------------------------------
(***************************************************************************)
(* The GPS sessions of orders on the road: the points a courier posts, and   *)
(* tickTrackingStale of workers/index.ts, which tells both parties that a    *)
(* stream has gone quiet and keeps what it has told in the process.          *)
(* Time is the age of a session's last point, up to the stale limit.         *)
(***************************************************************************)
EXTENDS InFlight, FiniteSets

CONSTANTS
  Sessions,     \* orders on the road
  StaleAge,     \* config.trackingStaleSec, in ticks
  StalePage     \* sessions a tick reads

ASSUME TrackingAssumption ==
  IsFiniteSet(Sessions) /\ StaleAge \in Nat /\ StalePage \in Nat

VARIABLES
  session,    \* TrackingSession rows: whether active, and the age of lastPointAt or startedAt
  notified,   \* staleTrackingNotified, in process memory
  told        \* history: the orders told of since their stream was last heard

trackingVars == <<session, notified, told>>

Stale(o) == session[o].active /\ session[o].age = StaleAge
Older(age) == IF age < StaleAge THEN age + 1 ELSE age

TrackingHandlers ==
  [at : {"trackingTouch"}, order : Sessions, age : 0..StaleAge]
  \cup [at : {"staleNotify"}, found : SUBSET Sessions]

TrackingTypeOK ==
  /\ session \in [Sessions -> [active : BOOLEAN, age : 0..StaleAge]]
  /\ notified \subseteq Sessions
  /\ told \subseteq Sessions

TrackingInit ==
  /\ session = [o \in Sessions |-> [active |-> FALSE, age |-> 0]]
  /\ notified = {}
  /\ told = {}

\* The status handler opens the session as the order goes out, and ends it at
\* arrival.  A session opened again keeps the point it had, if it had one.
SessionStarts(p, o) ==
  /\ Immediate(p)
  /\ ~session[o].active
  /\ \E age \in {0, session[o].age} : session' = [session EXCEPT ![o] = [active |-> TRUE, age |-> age]]
  /\ told' = told \ {o}
  /\ UNCHANGED notified

SessionEnds(p, o) ==
  /\ Immediate(p)
  /\ session[o].active
  /\ session' = [session EXCEPT ![o].active = FALSE]
  /\ told' = told \ {o}
  /\ UNCHANGED notified

\* POST /orders/:id/tracking: the point is inserted, then the session takes over
\* its recordedAt, which a device that was offline may have set long before.
PointPosted(p, o, age) ==
  /\ session[o].active
  /\ Start(p, [at |-> "trackingTouch", order |-> o, age |-> age])
  /\ UNCHANGED trackingVars

PointTouches(p) ==
  /\ h[p].at = "trackingTouch"
  /\ session' = [session EXCEPT ![h[p].order].age = h[p].age]
  /\ told' = IF h[p].age < StaleAge THEN told \ {h[p].order} ELSE told
  /\ End(p)
  /\ UNCHANGED notified

(***************************************************************************)
(* tickTrackingStale: one read, then a loop no other code of the process     *)
(* interrupts.  Its page is taken in no order.                               *)
(***************************************************************************)
StaleFind(p, found) ==
  /\ found \subseteq {o \in Sessions : Stale(o)}
  /\ Cardinality(found) <= StalePage
  /\ Cardinality(found) < StalePage => \A o \in Sessions : Stale(o) => o \in found
  /\ Start(p, [at |-> "staleNotify", found |-> found])
  /\ UNCHANGED trackingVars

\* Mutant: what a tick has told is forgotten with the tick.
KeptNone(found) == {}

\* Sessions heard again, or no longer listed, may be told of anew.
StillStale(found) == notified \cap found

StaleNotify(p) ==
  LET news == h[p].found \ StillStale(h[p].found)
  IN  /\ h[p].at = "staleNotify"
      /\ notified' = StillStale(h[p].found) \cup news
      /\ told' = told \cup news
      /\ End(p)
      /\ UNCHANGED session

\* A handler fails, or the process restarts and forgets whom it told.
TrackingStop(p) == Stop(p) /\ UNCHANGED trackingVars

Restart ==
  /\ MayFail
  /\ notified' = {}
  /\ h' = [p \in Procs |-> Idle]
  /\ UNCHANGED <<regime, session, told>>

TrackingTimePasses ==
  /\ session' = [o \in Sessions |-> [session[o] EXCEPT !.age = Older(@)]]
  /\ h' = [p \in Procs |-> IF h[p].at = "trackingTouch"
                           THEN [h[p] EXCEPT !.age = Older(@)] ELSE h[p]]
  /\ UNCHANGED <<regime, notified, told>>

TrackingStep(p) ==
  \/ \E o \in Sessions : SessionStarts(p, o)
  \/ \E o \in Sessions : SessionEnds(p, o)
  \/ \E o \in Sessions, age \in 0..StaleAge : PointPosted(p, o, age)
  \/ PointTouches(p)
  \/ \E found \in SUBSET Sessions : StaleFind(p, found)
  \/ StaleNotify(p)
  \/ TrackingStop(p)

TrackingNext ==
  \/ TrackingTimePasses
  \/ Restart
  \/ \E p \in Procs : TrackingStep(p) /\ UNCHANGED regime

(***************************************************************************)
(* Properties.                                                             *)
(***************************************************************************)

\* The parties hear of a quiet stream once per episode: while a page holds the
\* sessions there are and the process lives, a tick tells only of a session
\* that is active and quiet, and that has been heard since it was last told of.
StaleIsToldOnceStep ==
  regime = "undisturbed" /\ Cardinality(Sessions) <= StalePage =>
    \A o \in Sessions :
      \A p \in Procs :
        h[p].at = "staleNotify" /\ h'[p] = Idle /\ o \in h[p].found \ StillStale(h[p].found) =>
          o \notin told /\ session[o].active
StaleIsToldOnce == [][StaleIsToldOnceStep]_<<regime, h, trackingVars>>
=============================================================================
