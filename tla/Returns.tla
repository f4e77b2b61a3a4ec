-------------------------------- MODULE Returns --------------------------------
(***************************************************************************)
(* The return claims of one delivered order: the handlers of                *)
(* returns/routes.ts and returns/service.ts.                               *)
(*                                                                         *)
(* h[p] is the handler in slot p: the step it takes next and what it read   *)
(* before its last await.  In a behaviour with overlap = FALSE at most one  *)
(* handler is in flight.                                                   *)
(***************************************************************************)
EXTENDS Integers

CONSTANTS
  Procs,    \* slots for handlers in flight
  Claims,   \* ids of ReturnClaim rows
  Lines     \* the items of the order, of one category: a claim names no other

VARIABLES
  overlap,      \* whether handlers overlap
  windowOpen,   \* whether the return window of the category has not passed
  claim,        \* ReturnClaim.status; absent or deleted without a row
  lineItems,    \* lineItemIds
  evidence,     \* the lines with a photo
  resolution,   \* resolutionType
  h             \* handlers in flight

claimVars == <<claim, lineItems, evidence, resolution>>
vars == <<overlap, windowOpen, claimVars, h>>

(***************************************************************************)
(* Types.                                                                  *)
(***************************************************************************)
ReturnClaimStatus ==
  {"draft", "submitted", "auto_approved", "supplier_review", "approved", "rejected",
   "pickup_scheduled", "picked_up", "refunded", "replaced", "closed"}
ReturnResolution == {"none", "refund", "replacement"}

\* What an update that does not name resolutionType writes to it.
Keep == "keep"

Idle == [at |-> "idle"]

Handlers ==
  {Idle}
  \cup [at : {"createCheck", "createInsert"}, claim : Claims, lines : SUBSET Lines]
  \cup [at : {"createDelete"}, claim : Claims, lines : SUBSET Lines, drafts : SUBSET Claims]
  \cup [at : {"evidence"}, claim : Claims, line : Lines]
  \cup [at : {"write"}, claim : Claims, to : ReturnClaimStatus, res : ReturnResolution \cup {Keep}]

TypeOK ==
  /\ overlap \in BOOLEAN
  /\ windowOpen \in BOOLEAN
  /\ claim \in [Claims -> ReturnClaimStatus \cup {"absent", "deleted"}]
  /\ lineItems \in [Claims -> SUBSET Lines]
  /\ evidence \in [Claims -> SUBSET Lines]
  /\ resolution \in [Claims -> ReturnResolution]
  /\ h \in [Procs -> Handlers]

Init ==
  /\ overlap \in BOOLEAN
  /\ windowOpen = TRUE
  /\ claim = [c \in Claims |-> "absent"]
  /\ lineItems = [c \in Claims |-> {}]
  /\ evidence = [c \in Claims |-> {}]
  /\ resolution = [c \in Claims |-> "none"]
  /\ h = [p \in Procs |-> Idle]

(***************************************************************************)
(* Handlers start in a free slot, go on to a next step, and end.            *)
(***************************************************************************)
MayStart == overlap \/ \A q \in Procs : h[q] = Idle

Goto(p, step) == h' = [h EXCEPT ![p] = step]
End(p) == Goto(p, Idle)

\* A handler that has read the order or the claim and goes on.
Start(p, step) ==
  /\ h[p] = Idle
  /\ MayStart
  /\ Goto(p, step)
  /\ UNCHANGED <<overlap, windowOpen, claimVars>>

\* A crash or a database error between two steps.
Abort(p) ==
  /\ h[p] # Idle
  /\ End(p)
  /\ UNCHANGED <<overlap, windowOpen, claimVars>>

WindowCloses ==
  /\ windowOpen
  /\ windowOpen' = FALSE
  /\ UNCHANGED <<overlap, claimVars, h>>

(***************************************************************************)
(* Claiming lines of the order.                                            *)
(***************************************************************************)
Creating(c) ==
  \E p \in Procs : /\ h[p].at \in {"createCheck", "createDelete", "createInsert"}
                   /\ h[p].claim = c

CreateRead(p, c, lines) ==
  /\ claim[c] = "absent" /\ ~Creating(c)
  /\ lines # {}
  /\ windowOpen
  /\ Start(p, [at |-> "createCheck", claim |-> c, lines |-> lines])

\* priorClaims
PriorClaims(lines) ==
  {c \in Claims : claim[c] \notin {"absent", "deleted"} /\ lineItems[c] \cap lines # {}}

\* Mutant: only claims under way stand in the way of a new one.
BlockedByOpen(lines) ==
  \E c \in PriorClaims(lines) :
    claim[c] \in {"supplier_review", "approved", "pickup_scheduled", "picked_up"}

Blocked(lines) == \E c \in PriorClaims(lines) : claim[c] \notin {"rejected", "draft"}

\* staleDraftIds
StaleDrafts(lines) == {c \in PriorClaims(lines) : claim[c] = "draft"}

CreateCheck(p) ==
  /\ h[p].at = "createCheck"
  /\ LET s == h[p]
         drafts == StaleDrafts(s.lines)
     IN \/ Blocked(s.lines) /\ End(p)
        \/ /\ ~Blocked(s.lines) /\ drafts # {}
           /\ Goto(p, [at |-> "createDelete", claim |-> s.claim, lines |-> s.lines,
                       drafts |-> drafts])
        \/ /\ ~Blocked(s.lines) /\ drafts = {}
           /\ Goto(p, [at |-> "createInsert", claim |-> s.claim, lines |-> s.lines])
  /\ UNCHANGED <<overlap, windowOpen, claimVars>>

\* Mutant: the drafts are deleted by id alone.
DeletedById(drafts) == drafts

\* The drafts that are drafts still.
Deleted(drafts) == {c \in drafts : claim[c] = "draft"}

CreateDelete(p) ==
  /\ h[p].at = "createDelete"
  /\ LET s == h[p] IN
       /\ claim' = [c \in Claims |-> IF c \in Deleted(s.drafts) THEN "deleted" ELSE claim[c]]
       /\ evidence' = [c \in Claims |-> IF c \in Deleted(s.drafts) THEN {} ELSE evidence[c]]
       /\ Goto(p, [at |-> "createInsert", claim |-> s.claim, lines |-> s.lines])
  /\ UNCHANGED <<overlap, windowOpen, lineItems, resolution>>

CreateInsert(p) ==
  /\ h[p].at = "createInsert"
  /\ claim' = [claim EXCEPT ![h[p].claim] = "draft"]
  /\ lineItems' = [lineItems EXCEPT ![h[p].claim] = h[p].lines]
  /\ End(p)
  /\ UNCHANGED <<overlap, windowOpen, evidence, resolution>>

(***************************************************************************)
(* Photos of the lines, added to a draft.                                  *)
(***************************************************************************)
EvidenceRead(p, c, line) ==
  /\ claim[c] = "draft"
  /\ windowOpen
  /\ line \in lineItems[c]
  /\ Start(p, [at |-> "evidence", claim |-> c, line |-> line])

\* The evidence of a claim deleted meanwhile violates its foreign key.
EvidenceInsert(p) ==
  /\ h[p].at = "evidence"
  /\ claim[h[p].claim] # "deleted"
  /\ evidence' = [evidence EXCEPT ![h[p].claim] = @ \cup {h[p].line}]
  /\ End(p)
  /\ UNCHANGED <<overlap, windowOpen, claim, lineItems, resolution>>

(***************************************************************************)
(* The claim's course: a check of the status that was read, then an update by  *)
(* id.                                                                     *)
(***************************************************************************)
\* A handler that has found the claim c in one of the statuses from.
Move(p, c, from, to, res) ==
  /\ claim[c] \in from
  /\ Start(p, [at |-> "write", claim |-> c, to |-> to, res |-> res])

\* Mutant: one photo is enough.
SomeEvidence(c) == evidence[c] # {}

Evidenced(c) == evidence[c] # {} /\ lineItems[c] \subseteq evidence[c]

Submit(p, c) ==
  /\ windowOpen
  /\ Evidenced(c)
  /\ Move(p, c, {"draft"}, "supplier_review", Keep)

\* Mutant: a dispute is written as it is called.
DecisionsInWords ==
  {<<"disputed", "none">>} \cup {"pickup_scheduled", "approved"} \X {"refund", "replacement"}

\* nextStatus and resolutionType: an accepted claim has a resolution.
Decisions ==
  {<<"rejected", "none">>} \cup {"pickup_scheduled", "approved"} \X {"refund", "replacement"}

Decide(p, c) ==
  \E d \in Decisions : Move(p, c, {"supplier_review"}, d[1], d[2])

\* Mutant: a pickup may be scheduled again after the goods were collected.
ScheduleAgain(p, c) ==
  Move(p, c, {"approved", "pickup_scheduled", "picked_up"}, "pickup_scheduled", Keep)

Schedule(p, c) ==
  Move(p, c, {"approved", "pickup_scheduled"}, "pickup_scheduled", Keep)

Pickup(p, c) == Move(p, c, {"approved", "pickup_scheduled"}, "picked_up", Keep)

\* Mutant: the resolution is not looked at.
RefundAny(p, c) == Move(p, c, {"picked_up"}, "refunded", "refund")

Refund(p, c) ==
  /\ resolution[c] # "replacement"
  /\ Move(p, c, {"picked_up"}, "refunded", "refund")

Replace(p, c) ==
  /\ resolution[c] # "refund"
  /\ Move(p, c, {"picked_up"}, "replaced", "replacement")

ConsumerAck(p, c) ==
  Move(p, c, {"refunded", "replaced", "rejected"}, "closed", Keep)

\* prisma.returnClaim.update: it fails for a row deleted meanwhile.
Write(p) ==
  /\ h[p].at = "write"
  /\ claim[h[p].claim] # "deleted"
  /\ LET s == h[p] IN
       /\ claim' = [claim EXCEPT ![s.claim] = s.to]
       /\ resolution' = [resolution EXCEPT ![s.claim] = IF s.res = Keep THEN @ ELSE s.res]
  /\ End(p)
  /\ UNCHANGED <<overlap, windowOpen, lineItems, evidence>>

(***************************************************************************)
(* Behaviours.                                                             *)
(***************************************************************************)
Create(p) ==
  \/ \E c \in Claims, lines \in SUBSET Lines : CreateRead(p, c, lines)
  \/ CreateCheck(p)
  \/ CreateDelete(p)
  \/ CreateInsert(p)

Photo(p) ==
  \/ \E c \in Claims, line \in Lines : EvidenceRead(p, c, line)
  \/ EvidenceInsert(p)

Proceed(p) ==
  \/ \E c \in Claims : Submit(p, c)
  \/ \E c \in Claims : Decide(p, c)
  \/ \E c \in Claims : Schedule(p, c)
  \/ \E c \in Claims : Pickup(p, c)
  \/ \E c \in Claims : Refund(p, c)
  \/ \E c \in Claims : Replace(p, c)
  \/ \E c \in Claims : ConsumerAck(p, c)
  \/ Write(p)

Next ==
  \/ \E p \in Procs : Create(p)
  \/ \E p \in Procs : Photo(p)
  \/ \E p \in Procs : Proceed(p)
  \/ \E p \in Procs : Abort(p)
  \/ WindowCloses

Spec == Init /\ [][Next]_vars

(***************************************************************************)
(* What holds whatever overlaps.                                           *)
(***************************************************************************)
Unsubmitted == {"absent", "draft", "deleted"}

\* A claim that left the draft has a photo of every line it claims: no photo is
\* lost to the retry that deletes stale drafts while the claim is submitted.
SubmittedIsEvidenced ==
  \A c \in Claims : claim[c] \notin Unsubmitted => lineItems[c] \subseteq evidence[c]

\* A retry that read a draft does not delete the claim submitted since, nor does
\* any stale write bring a submitted claim back to a draft.
SubmittedClaimStands ==
  [][\A c \in Claims : claim[c] \notin Unsubmitted => claim'[c] \notin Unsubmitted]_vars

(***************************************************************************)
(* What holds while handlers do not overlap, wherever they stop.            *)
(***************************************************************************)
\* A claim that may still be, or has been, made good.
Live(c) ==
  /\ claim[c] \notin {"absent", "deleted", "rejected"}
  /\ claim[c] = "closed" => resolution[c] # "none"

\* No item is returned twice: two claims that share a line are not both live,
\* whatever drafts were retried, refused or acknowledged in between.
OneClaimPerItem ==
  ~overlap =>
    \A c, d \in Claims : c # d /\ Live(c) /\ Live(d) => lineItems[c] \cap lineItems[d] = {}

\* The order of the statuses.
Rank(status) ==
  CASE status = "absent" -> 0
    [] status = "draft" -> 1
    [] status = "deleted" -> 8
    [] status = "supplier_review" -> 2
    [] status = "approved" -> 3
    [] status = "pickup_scheduled" -> 4
    [] status = "picked_up" -> 5
    [] status \in {"rejected", "refunded", "replaced"} -> 6
    [] status = "closed" -> 7

\* A claim never returns to a status it has left.
ClaimMovesForward ==
  [][~overlap => \A c \in Claims : \/ claim'[c] = claim[c]
                                   \/ Rank(claim[c]) < Rank(claim'[c])]_vars

\* What the supplier granted is what is handed over: a resolution once recorded is
\* never exchanged for the other one or taken back.
ResolutionStands ==
  [][~overlap => \A c \in Claims :
       resolution[c] # "none" => resolution'[c] = resolution[c]]_vars
=============================================================================
