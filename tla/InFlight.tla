-------------------------------- MODULE InFlight --------------------------------
(***************************************************************************)
(* Handlers in flight, for the components around the order: h[p] is the      *)
(* handler in slot p, the step it takes next and what it read before its     *)
(* last await.  The behaviours of one regime are checked at a time:          *)
(*   "overlapping"  handlers interleave at every await, and may fail there;  *)
(*   "crashing"     one handler at a time, which may stop at any await;      *)
(*   "undisturbed"  one handler at a time, and none fails.                   *)
(***************************************************************************)
EXTENDS Integers

CONSTANT Procs    \* slots for handlers in flight

VARIABLES
  regime,   \* how handlers interleave and fail
  h         \* handlers in flight

Regimes == {"overlapping", "crashing", "undisturbed"}

Idle == [at |-> "idle"]

Quiet == \A p \in Procs : h[p] = Idle

MayStart == regime = "overlapping" \/ Quiet

MayFail == regime # "undisturbed"

Goto(p, step) == h' = [h EXCEPT ![p] = step]
End(p) == Goto(p, Idle)

\* A handler that has passed its checks goes on to its first step.
Start(p, step) == /\ h[p] = Idle
                  /\ MayStart
                  /\ Goto(p, step)

\* A handler that answers, or an uninterrupted one that only writes.
Immediate(p) == /\ h[p] = Idle
                /\ MayStart
                /\ UNCHANGED h

\* A crash or a database error at an await.
Stop(p) == /\ MayFail
           /\ h[p] # Idle
           /\ End(p)
=============================================================================
