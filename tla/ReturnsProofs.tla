----------------------------- MODULE ReturnsProofs -----------------------------
(***************************************************************************)
(* Theorems about Returns, for any claims, lines and handler slots.         *)
(***************************************************************************)
EXTENDS Returns, TLAPS

(***************************************************************************)
(* Type correctness.                                                       *)
(***************************************************************************)
\* What the step a handler is about to take says of the record's fields.
LEMMA ReturnHandlerFields ==
  ASSUME NEW s \in Handlers
  PROVE  /\ s # Idle => s.claim \in Claims
         /\ s.at \in {"createCheck", "createDelete", "createInsert"} => s.lines \in SUBSET Lines
         /\ s.at = "createDelete" => s.drafts \in SUBSET Claims
         /\ s.at = "evidence" => s.line \in Lines
         /\ s.at = "write" => /\ s.to \in ReturnClaimStatus
                              /\ s.res \in ReturnResolution \cup {Keep}
         /\ s.at = "idle" <=> s = Idle
  BY DEF Handlers, Idle

\* The records the handlers go on with.
LEMMA ReturnHandlerForms ==
  /\ Idle \in Handlers
  /\ \A c \in Claims, l \in SUBSET Lines :
       /\ [at |-> "createCheck", claim |-> c, lines |-> l] \in Handlers
       /\ [at |-> "createInsert", claim |-> c, lines |-> l] \in Handlers
       /\ \A d \in SUBSET Claims :
            [at |-> "createDelete", claim |-> c, lines |-> l, drafts |-> d] \in Handlers
  /\ \A c \in Claims, line \in Lines :
       [at |-> "evidence", claim |-> c, line |-> line] \in Handlers
  /\ \A c \in Claims, to \in ReturnClaimStatus, res \in ReturnResolution \cup {Keep} :
       [at |-> "write", claim |-> c, to |-> to, res |-> res] \in Handlers
  BY DEF Handlers

LEMMA ReturnTypeStart ==
  ASSUME TypeOK, NEW p \in Procs, NEW s \in Handlers, Start(p, s)
  PROVE  TypeOK'
  BY DEF TypeOK, Start, Goto, claimVars

LEMMA ReturnTypeInit == Init => TypeOK
  BY ReturnHandlerForms DEF Init, TypeOK, ReturnClaimStatus, ReturnResolution

LEMMA ReturnTypeCreate ==
  ASSUME TypeOK, NEW p \in Procs, Create(p)
  PROVE  TypeOK'
<1> USE ReturnHandlerForms
<1>h. /\ h[p] \in Handlers
      /\ h[p] # Idle => h[p].claim \in Claims
      /\ h[p].at \in {"createCheck", "createDelete", "createInsert"} =>
           h[p] # Idle /\ h[p].lines \in SUBSET Lines
  BY ReturnHandlerFields DEF TypeOK, Idle
<1>1. ASSUME NEW c \in Claims, NEW l \in SUBSET Lines, CreateRead(p, c, l)
      PROVE  TypeOK'
  BY <1>1, ReturnTypeStart DEF CreateRead
<1>2. CASE CreateCheck(p)
  <2>1. StaleDrafts(h[p].lines) \in SUBSET Claims
    BY DEF StaleDrafts, PriorClaims
  <2>2. \E s \in Handlers : Goto(p, s)
    BY <1>2, <1>h, <2>1 DEF CreateCheck, End
  <2> QED
    BY <1>2, <2>2 DEF CreateCheck, TypeOK, Goto, claimVars
<1>3. CASE CreateDelete(p)
  <2>1. \E s \in Handlers : Goto(p, s)
    BY <1>3, <1>h DEF CreateDelete
  <2> QED
    BY <1>3, <2>1 DEF CreateDelete, TypeOK, Goto
<1>4. CASE CreateInsert(p)
  BY <1>4, <1>h DEF CreateInsert, TypeOK, ReturnClaimStatus, End, Goto
<1> QED
  BY <1>1, <1>2, <1>3, <1>4 DEF Create

LEMMA ReturnTypePhoto ==
  ASSUME TypeOK, NEW p \in Procs, Photo(p)
  PROVE  TypeOK'
<1> USE ReturnHandlerForms
<1>1. ASSUME NEW c \in Claims, NEW line \in Lines, EvidenceRead(p, c, line)
      PROVE  TypeOK'
  BY <1>1, ReturnTypeStart DEF EvidenceRead
<1>2. CASE EvidenceInsert(p)
  <2>1. h[p].claim \in Claims /\ h[p].line \in Lines
    BY <1>2, ReturnHandlerFields DEF EvidenceInsert, TypeOK, Idle
  <2> QED
    BY <1>2, <2>1 DEF EvidenceInsert, TypeOK, End, Goto
<1> QED
  BY <1>1, <1>2 DEF Photo

Statuses == ReturnClaimStatus \ Unsubmitted
Resolutions == ReturnResolution \cup {Keep}

\* A claim goes from one status to the other, or stays.
Onward(from, to) == from = to \/ Rank(from) < Rank(to)

\* Where the handlers take a claim.
LEMMA Courses ==
  /\ Onward("absent", "draft")
  /\ Onward("draft", "deleted")
  /\ Onward("draft", "supplier_review")
  /\ \A to \in {"rejected", "approved", "pickup_scheduled"} : Onward("supplier_review", to)
  /\ \A from \in {"approved", "pickup_scheduled"}, to \in {"pickup_scheduled", "picked_up"} :
       Onward(from, to)
  /\ \A to \in {"refunded", "replaced"} : Onward("picked_up", to)
  /\ \A from \in {"refunded", "replaced", "rejected"} : Onward(from, "closed")
<1>1. /\ Rank("absent") = 0
      /\ Rank("draft") = 1
      /\ Rank("supplier_review") = 2
      /\ Rank("approved") = 3
      /\ Rank("pickup_scheduled") = 4
      /\ Rank("picked_up") = 5
      /\ \A s \in {"rejected", "refunded", "replaced"} : Rank(s) = 6
      /\ Rank("closed") = 7
      /\ Rank("deleted") = 8
  BY DEF Rank
<1> QED
  BY <1>1 DEF Onward

\* A handler of Proceed starts on the claim c, to write to and res: what it found.
Found(c, to, res) ==
  /\ Onward(claim[c], to)
  /\ \/ claim[c] = "draft" /\ Evidenced(c) /\ to = "supplier_review" /\ res = Keep
     \/ /\ claim[c] = "supplier_review"
        /\ to # "supplier_review"
        /\ to = "rejected" => res = "none"
     \/ /\ claim[c] \in {"approved", "pickup_scheduled", "picked_up", "refunded", "replaced"}
        /\ to \notin {"supplier_review", "rejected"}
        /\ resolution[c] # "none" => res \in {Keep, resolution[c]}
     \/ claim[c] = "rejected" /\ to = "closed" /\ res = Keep

Proceeds(p, c, to, res) ==
  /\ Start(p, [at |-> "write", claim |-> c, to |-> to, res |-> res])
  /\ Found(c, to, res)

LEMMA ProceedMoves ==
  ASSUME TypeOK, NEW p \in Procs, Proceed(p)
  PROVE  \/ Write(p)
         \/ \E c \in Claims, to \in Statuses, res \in Resolutions : Proceeds(p, c, to, res)
<1>r. \A c \in Claims : resolution[c] \in {"none", "refund", "replacement"}
  BY DEF TypeOK, ReturnResolution
<1>s. /\ {"supplier_review", "approved", "rejected", "pickup_scheduled", "picked_up",
          "refunded", "replaced", "closed"} \subseteq Statuses
      /\ {"none", "refund", "replacement", Keep} \subseteq Resolutions
  BY DEF Statuses, Resolutions, ReturnClaimStatus, ReturnResolution, Unsubmitted
<1>1. ASSUME NEW c \in Claims, Submit(p, c)
      PROVE  Proceeds(p, c, "supplier_review", Keep)
  BY <1>1, Courses DEF Submit, Move, Proceeds, Found
<1>2. ASSUME NEW c \in Claims, Decide(p, c)
      PROVE  \E to \in Statuses, res \in Resolutions : Proceeds(p, c, to, res)
  <2>1. PICK d \in Decisions : Move(p, c, {"supplier_review"}, d[1], d[2])
    BY <1>2 DEF Decide
  <2>2. /\ d[1] \in Statuses /\ d[2] \in Resolutions
        /\ d[1] \in {"rejected", "approved", "pickup_scheduled"}
        /\ d[1] = "rejected" => d[2] = "none"
    BY <1>s DEF Decisions
  <2>3. Proceeds(p, c, d[1], d[2])
    BY <2>1, <2>2, Courses DEF Move, Proceeds, Found
  <2> QED
    BY <2>2, <2>3
<1>3. ASSUME NEW c \in Claims, Schedule(p, c)
      PROVE  Proceeds(p, c, "pickup_scheduled", Keep)
  BY <1>3, Courses DEF Schedule, Move, Proceeds, Found
<1>4. ASSUME NEW c \in Claims, Pickup(p, c)
      PROVE  Proceeds(p, c, "picked_up", Keep)
  BY <1>4, Courses DEF Pickup, Move, Proceeds, Found
<1>5. ASSUME NEW c \in Claims, Refund(p, c)
      PROVE  Proceeds(p, c, "refunded", "refund")
  BY <1>5, <1>r, Courses DEF Refund, Move, Proceeds, Found
<1>6. ASSUME NEW c \in Claims, Replace(p, c)
      PROVE  Proceeds(p, c, "replaced", "replacement")
  BY <1>6, <1>r, Courses DEF Replace, Move, Proceeds, Found
<1>7. ASSUME NEW c \in Claims, ConsumerAck(p, c)
      PROVE  Proceeds(p, c, "closed", Keep)
  BY <1>7, Courses DEF ConsumerAck, Move, Proceeds, Found
<1> QED
  BY <1>s, <1>1, <1>2, <1>3, <1>4, <1>5, <1>6, <1>7 DEF Proceed

LEMMA ReturnTypeProceed ==
  ASSUME TypeOK, NEW p \in Procs, Proceed(p)
  PROVE  TypeOK'
<1> USE ReturnHandlerForms
<1>1. CASE Write(p)
  <2>1. /\ h[p].claim \in Claims /\ h[p].to \in ReturnClaimStatus
        /\ h[p].res \in ReturnResolution \cup {Keep}
    BY <1>1, ReturnHandlerFields DEF Write, TypeOK, Idle
  <2> QED
    BY <1>1, <2>1 DEF Write, TypeOK, End, Goto
<1>2. ASSUME NEW c \in Claims, NEW to \in Statuses, NEW res \in Resolutions,
             Proceeds(p, c, to, res)
      PROVE  TypeOK'
  BY <1>2, ReturnTypeStart DEF Proceeds, Statuses, Resolutions
<1> QED
  BY <1>1, <1>2, ProceedMoves

LEMMA ReturnTypeNext == TypeOK /\ [Next]_vars => TypeOK'
<1> SUFFICES ASSUME TypeOK, [Next]_vars
             PROVE  TypeOK'
  OBVIOUS
<1>1. ASSUME NEW p \in Procs, Create(p) \/ Photo(p) \/ Proceed(p)
      PROVE  TypeOK'
  BY <1>1, ReturnTypeCreate, ReturnTypePhoto, ReturnTypeProceed
<1>2. ASSUME NEW p \in Procs, Abort(p)
      PROVE  TypeOK'
  BY <1>2, ReturnHandlerForms DEF Abort, TypeOK, Goto, End, claimVars
<1>3. CASE WindowCloses
  BY <1>3 DEF WindowCloses, TypeOK, claimVars
<1>4. CASE UNCHANGED vars
  BY <1>4 DEF vars, TypeOK, claimVars
<1> QED
  BY <1>1, <1>2, <1>3, <1>4 DEF Next

\* Type correctness: every claim keeps a status and a resolution its enums allow, and
\* every handler the record its next step expects.
THEOREM ReturnTypeCorrect == Spec => []TypeOK
  BY ReturnTypeInit, ReturnTypeNext, PTL DEF Spec

(***************************************************************************)
(* What holds whatever overlaps.  A handler that writes has seen the claim  *)
(* evidenced; the evidence of a claim only grows until the claim is          *)
(* deleted, and its lines do not change once it exists.                      *)
(***************************************************************************)
Creates(s) == s.at \in {"createCheck", "createDelete", "createInsert"}

Known(s) ==
  /\ Creates(s) => claim[s.claim] = "absent"
  /\ s.at = "evidence" => claim[s.claim] # "absent"
  /\ s.at = "write" => /\ claim[s.claim] # "absent"
                       /\ s.to \in Statuses
                       /\ claim[s.claim] # "deleted" =>
                            lineItems[s.claim] \subseteq evidence[s.claim]

OwnClaim ==
  \A p, q \in Procs : p # q /\ Creates(h[p]) /\ Creates(h[q]) => h[p].claim # h[q].claim

RaceInv ==
  /\ SubmittedIsEvidenced
  /\ \A p \in Procs : Known(h[p])
  /\ OwnClaim

LEMMA ReturnRaceInit == Init => RaceInv
  BY DEF Init, RaceInv, SubmittedIsEvidenced, Unsubmitted, Known, OwnClaim, Creates, Idle

\* A handler that starts, other than a creation.
LEMMA ReturnRaceStart ==
  ASSUME TypeOK, RaceInv, NEW p \in Procs, NEW s, Start(p, s), Known(s), ~Creates(s)
  PROVE  RaceInv'
<1>1. \A q \in Procs : h'[q] = IF q = p THEN s ELSE h[q]
  BY DEF Start, Goto, TypeOK
<1>2. UNCHANGED claimVars
  BY DEF Start
<1> QED
  BY <1>1, <1>2 DEF RaceInv, SubmittedIsEvidenced, Known, OwnClaim, Creates, claimVars

\* A handler that ends.
LEMMA ReturnRaceSlots ==
  ASSUME TypeOK, OwnClaim, NEW p \in Procs, NEW s, Goto(p, s),
         Creates(s) => Creates(h[p]) /\ s.claim = h[p].claim
  PROVE  OwnClaim'
<1>1. \A q \in Procs : h'[q] = IF q = p THEN s ELSE h[q]
  BY DEF Goto, TypeOK
<1> QED
  BY <1>1 DEF OwnClaim, Creates

LEMMA ReturnRaceCreate ==
  ASSUME TypeOK, RaceInv, NEW p \in Procs, Create(p)
  PROVE  RaceInv'
<1>h. \A q \in Procs : h[q] # Idle => h[q].claim \in Claims
  BY ReturnHandlerFields DEF TypeOK
<1>1. ASSUME NEW c \in Claims, NEW l \in SUBSET Lines, CreateRead(p, c, l)
      PROVE  RaceInv'
  <2>1. /\ \A q \in Procs : h'[q] = IF q = p THEN [at |-> "createCheck", claim |-> c, lines |-> l]
                                    ELSE h[q]
        /\ UNCHANGED claimVars
    BY <1>1 DEF CreateRead, Start, Goto, TypeOK
  <2>2. \A q \in Procs : Creates(h[q]) => h[q].claim # c
    BY <1>1 DEF CreateRead, Creating, Creates
  <2>3. claim[c] = "absent"
    BY <1>1 DEF CreateRead
  <2> QED
    BY <2>1, <2>2, <2>3 DEF RaceInv, SubmittedIsEvidenced, Known, OwnClaim, Creates, claimVars
<1>2. CASE CreateCheck(p)
  <2>1. PICK s : Goto(p, s) /\ (Creates(s) => s.claim = h[p].claim) /\ s.at \notin {"evidence", "write"}
    BY <1>2 DEF CreateCheck, End, Idle, Creates
  <2>2. Creates(h[p]) /\ UNCHANGED claimVars
    BY <1>2 DEF CreateCheck, Creates
  <2>3. OwnClaim'
    BY <2>1, <2>2, ReturnRaceSlots DEF RaceInv
  <2>4. \A q \in Procs : h'[q] = IF q = p THEN s ELSE h[q]
    BY <2>1 DEF Goto, TypeOK
  <2> QED
    BY <2>1, <2>2, <2>3, <2>4 DEF RaceInv, SubmittedIsEvidenced, Known, claimVars
<1>3. CASE CreateDelete(p)
  <2> DEFINE s == [at |-> "createInsert", claim |-> h[p].claim, lines |-> h[p].lines]
             gone == Deleted(h[p].drafts)
  <2>1. /\ Goto(p, s)
        /\ claim' = [c \in Claims |-> IF c \in gone THEN "deleted" ELSE claim[c]]
        /\ evidence' = [c \in Claims |-> IF c \in gone THEN {} ELSE evidence[c]]
        /\ lineItems' = lineItems
        /\ Creates(h[p]) /\ h[p] # Idle
    BY <1>3 DEF CreateDelete, Creates, Idle
  <2>2. OwnClaim'
    BY <2>1, ReturnRaceSlots DEF RaceInv, Creates
  <2>3. \A q \in Procs : h'[q] = IF q = p THEN s ELSE h[q]
    BY <2>1 DEF Goto, TypeOK
  <2>4. \A c \in gone : claim[c] = "draft"
    BY DEF Deleted
  <2>5. SubmittedIsEvidenced'
    BY <2>1 DEF RaceInv, SubmittedIsEvidenced, Unsubmitted
  <2>6. ASSUME NEW q \in Procs
        PROVE  Known(h[q])'
    <3>1. CASE q = p
      BY <3>1, <2>1, <2>3, <2>4, <1>h DEF RaceInv, Known, Creates
    <3>2. CASE q # p /\ h[q] # Idle
      <4>1. h[q].claim \in Claims /\ h'[q] = h[q]
        BY <3>2, <1>h, <2>3
      <4> QED
        BY <4>1, <2>1, <2>4 DEF RaceInv, Known, Creates
    <3>3. CASE q # p /\ h[q] = Idle
      BY <3>3, <2>3 DEF Known, Creates, Idle
    <3> QED
      BY <3>1, <3>2, <3>3
  <2> QED
    BY <2>2, <2>5, <2>6 DEF RaceInv
<1>4. CASE CreateInsert(p)
  <2>1. /\ Goto(p, Idle)
        /\ claim' = [claim EXCEPT ![h[p].claim] = "draft"]
        /\ lineItems' = [lineItems EXCEPT ![h[p].claim] = h[p].lines]
        /\ evidence' = evidence
        /\ Creates(h[p]) /\ h[p] # Idle
    BY <1>4 DEF CreateInsert, Creates, Idle, End
  <2>2. OwnClaim'
    BY <2>1, ReturnRaceSlots DEF RaceInv, Creates, Idle
  <2>3. \A q \in Procs : h'[q] = IF q = p THEN Idle ELSE h[q]
    BY <2>1 DEF Goto, TypeOK
  <2>4. claim[h[p].claim] = "absent" /\ h[p].claim \in Claims
    BY <2>1, <1>h DEF RaceInv, Known
  <2>5. SubmittedIsEvidenced'
    BY <2>1, <2>4 DEF RaceInv, SubmittedIsEvidenced, Unsubmitted, TypeOK
  <2>6. ASSUME NEW q \in Procs
        PROVE  Known(h[q])'
    <3>1. CASE h'[q] = Idle
      BY <3>1 DEF Known, Creates, Idle
    <3>2. CASE q # p /\ h[q] # Idle
      <4>1. h[q].claim \in Claims /\ h'[q] = h[q] /\ Known(h[q])
        BY <3>2, <1>h, <2>3 DEF RaceInv
      <4>2. CASE h[q].claim = h[p].claim
        <5>1. ~Creates(h[q])
          BY <4>2, <3>2, <2>1 DEF RaceInv, OwnClaim
        <5>2. h[q].at \notin {"evidence", "write"}
          BY <4>1, <4>2, <2>4 DEF Known
        <5> QED
          BY <5>1, <5>2, <4>1 DEF Known
      <4>3. CASE h[q].claim # h[p].claim
        BY <4>1, <4>3, <2>1 DEF Known, TypeOK
      <4> QED
        BY <4>2, <4>3
    <3> QED
      BY <3>1, <3>2, <2>3
  <2> QED
    BY <2>2, <2>5, <2>6 DEF RaceInv
<1> QED
  BY <1>1, <1>2, <1>3, <1>4 DEF Create

LEMMA ReturnRacePhoto ==
  ASSUME TypeOK, RaceInv, NEW p \in Procs, Photo(p)
  PROVE  RaceInv'
<1>1. ASSUME NEW c \in Claims, NEW line \in Lines, EvidenceRead(p, c, line)
      PROVE  RaceInv'
  BY <1>1, ReturnRaceStart DEF EvidenceRead, Known, Creates
<1>2. CASE EvidenceInsert(p)
  <2>1. /\ \A q \in Procs : h'[q] = IF q = p THEN Idle ELSE h[q]
        /\ UNCHANGED <<claim, lineItems>>
        /\ \A c \in Claims : evidence[c] \subseteq evidence'[c]
    BY <1>2 DEF EvidenceInsert, End, Goto, TypeOK
  <2>2. \A q \in Procs : h[q].at = "write" => h[q].claim \in Claims
    BY ReturnHandlerFields DEF TypeOK, Idle
  <2>3. SubmittedIsEvidenced'
    BY <2>1 DEF RaceInv, SubmittedIsEvidenced
  <2>4. \A q \in Procs : Known(h[q])'
    BY <2>1, <2>2 DEF RaceInv, Known, Creates, Idle
  <2>5. OwnClaim'
    BY <2>1 DEF RaceInv, OwnClaim, Creates, Idle
  <2> QED
    BY <2>3, <2>4, <2>5 DEF RaceInv
<1> QED
  BY <1>1, <1>2 DEF Photo

LEMMA ReturnRaceProceed ==
  ASSUME TypeOK, RaceInv, NEW p \in Procs, Proceed(p)
  PROVE  RaceInv'
<1>1. ASSUME NEW c \in Claims, NEW to \in Statuses, NEW res \in Resolutions,
             Proceeds(p, c, to, res)
      PROVE  RaceInv'
  <2> DEFINE s == [at |-> "write", claim |-> c, to |-> to, res |-> res]
  <2>1. lineItems[c] \subseteq evidence[c] /\ claim[c] # "absent"
    BY <1>1 DEF Proceeds, Found, Evidenced, RaceInv, SubmittedIsEvidenced, Unsubmitted
  <2>2. Known(s) /\ ~Creates(s)
    BY <2>1 DEF Known, Creates
  <2> QED
    BY <1>1, <2>2, ReturnRaceStart DEF Proceeds
<1>2. CASE Write(p)
  <2>1. /\ h'[p] = Idle
        /\ \A q \in Procs : h'[q] = IF q = p THEN Idle ELSE h[q]
        /\ claim' = [claim EXCEPT ![h[p].claim] = h[p].to]
        /\ UNCHANGED <<lineItems, evidence>>
        /\ h[p].at = "write" /\ claim[h[p].claim] # "deleted"
    BY <1>2 DEF Write, End, Goto, TypeOK
  <2>2. /\ h[p].claim \in Claims /\ h[p].to \in Statuses
        /\ claim[h[p].claim] # "absent"
        /\ lineItems[h[p].claim] \subseteq evidence[h[p].claim]
    BY <2>1, ReturnHandlerFields DEF TypeOK, Idle, RaceInv, Known
  <2>3. SubmittedIsEvidenced'
    BY <2>1, <2>2 DEF RaceInv, SubmittedIsEvidenced, TypeOK
  <2>4. ASSUME NEW q \in Procs
        PROVE  Known(h[q])'
    <3>1. CASE h'[q] = Idle
      BY <3>1 DEF Known, Creates, Idle
    <3>2. CASE q # p /\ h[q] # Idle
      <4>1. h[q].claim \in Claims /\ h'[q] = h[q] /\ Known(h[q])
        BY <3>2, <2>1, ReturnHandlerFields DEF RaceInv, TypeOK
      <4>2. claim'[h[q].claim] = claim[h[q].claim]
            \/ (h[q].claim = h[p].claim /\ claim'[h[q].claim] \in Statuses)
        BY <4>1, <2>1, <2>2 DEF TypeOK
      <4> QED
        BY <4>1, <4>2, <2>1, <2>2
        DEF Known, Creates, Statuses, ReturnClaimStatus, Unsubmitted
    <3> QED
      BY <3>1, <3>2, <2>1
  <2>5. OwnClaim'
    BY <2>1 DEF RaceInv, OwnClaim, Creates, Idle
  <2> QED
    BY <2>3, <2>4, <2>5 DEF RaceInv
<1> QED
  BY <1>1, <1>2, ProceedMoves

LEMMA ReturnRaceNext == TypeOK /\ RaceInv /\ [Next]_vars => RaceInv'
<1> SUFFICES ASSUME TypeOK, RaceInv, [Next]_vars
             PROVE  RaceInv'
  OBVIOUS
<1>1. ASSUME NEW p \in Procs, Create(p) \/ Photo(p) \/ Proceed(p)
      PROVE  RaceInv'
  BY <1>1, ReturnRaceCreate, ReturnRacePhoto, ReturnRaceProceed
<1>2. ASSUME NEW p \in Procs, Abort(p)
      PROVE  RaceInv'
  <2>1. /\ \A q \in Procs : h'[q] = IF q = p THEN Idle ELSE h[q]
        /\ UNCHANGED claimVars
    BY <1>2 DEF Abort, End, Goto, TypeOK
  <2> QED
    BY <2>1 DEF RaceInv, SubmittedIsEvidenced, Known, OwnClaim, Creates, Idle, claimVars
<1>3. CASE WindowCloses \/ UNCHANGED vars
  BY <1>3 DEF WindowCloses, vars, RaceInv, SubmittedIsEvidenced, Known, OwnClaim, claimVars
<1> QED
  BY <1>1, <1>2, <1>3 DEF Next

LEMMA ReturnRaceHolds == Spec => []RaceInv
  BY ReturnRaceInit, ReturnRaceNext, ReturnTypeCorrect, PTL DEF Spec

\* A submitted claim has a photo of every line, however submissions, uploads and
\* retries overlap.
THEOREM SubmittedClaimsAreEvidenced == Spec => []SubmittedIsEvidenced
  BY ReturnRaceHolds, PTL DEF RaceInv

\* No retry deletes a claim submitted since it read its draft, and no write brings it
\* back to a draft.
THEOREM SubmittedClaimsStand == Spec => SubmittedClaimStands
<1> DEFINE Stands == \A c \in Claims : claim[c] \notin Unsubmitted => claim'[c] \notin Unsubmitted
<1>1. ASSUME TypeOK, RaceInv, NEW p \in Procs, Create(p)
      PROVE  Stands
  <2>1. CASE CreateInsert(p)
    <3>1. h[p].claim \in Claims /\ claim[h[p].claim] = "absent"
      BY <1>1, <2>1, ReturnHandlerFields DEF CreateInsert, RaceInv, Known, Creates, TypeOK, Idle
    <3> QED
      BY <1>1, <2>1, <3>1 DEF CreateInsert, Unsubmitted, TypeOK
  <2>2. CASE CreateDelete(p)
    BY <2>2 DEF CreateDelete, Deleted, Unsubmitted
  <2>3. CASE claim' = claim
    BY <2>3
  <2> QED
    BY <1>1, <2>1, <2>2, <2>3 DEF Create, CreateRead, CreateCheck, Start, claimVars
<1>2. ASSUME TypeOK, RaceInv, NEW p \in Procs, Proceed(p)
      PROVE  Stands
  <2>1. CASE Write(p)
    <3>1. h[p].claim \in Claims /\ h[p].to \in Statuses
      BY <1>2, <2>1, ReturnHandlerFields DEF Write, RaceInv, Known, TypeOK, Idle
    <3> QED
      BY <1>2, <2>1, <3>1 DEF Write, Statuses, TypeOK
  <2>2. CASE claim' = claim
    BY <2>2
  <2> QED
    BY <1>2, <2>1, <2>2, ProceedMoves DEF Proceeds, Start, claimVars
<1>3. ASSUME TypeOK, RaceInv, [Next]_vars
      PROVE  Stands
  <2>1. ASSUME NEW p \in Procs, Photo(p) \/ Abort(p)
        PROVE  claim' = claim
    BY <2>1 DEF Photo, EvidenceRead, EvidenceInsert, Start, Abort, claimVars
  <2>2. CASE WindowCloses \/ UNCHANGED vars
    BY <2>2 DEF WindowCloses, vars, claimVars
  <2> QED
    BY <1>1, <1>2, <1>3, <2>1, <2>2 DEF Next
<1>4. TypeOK /\ RaceInv /\ [Next]_vars => [Stands]_vars
  BY <1>3
<1> QED
  BY <1>4, ReturnTypeCorrect, ReturnRaceHolds, PTL DEF Spec, SubmittedClaimStands

(***************************************************************************)
(* What holds when handlers do not overlap (overlap is then FALSE for ever). *)
(* The handler in flight is alone, so what it has read still holds when it   *)
(* writes: Fresh says so of each step.                                      *)
(***************************************************************************)
Alone == \A p, q \in Procs : p # q => h[p] = Idle \/ h[q] = Idle

Free(lines) == \A c \in Claims : Live(c) => lineItems[c] \cap lines = {}

Fresh(s) ==
  /\ Creates(s) => claim[s.claim] = "absent"
  /\ s.at = "createDelete" => ~Blocked(s.lines) /\ s.drafts = StaleDrafts(s.lines)
  /\ s.at = "createInsert" => Free(s.lines)
  /\ s.at = "evidence" => claim[s.claim] # "absent"
  /\ s.at = "write" => /\ s.to \in Statuses /\ s.res \in Resolutions
                       /\ claim[s.claim] \notin {"absent", "deleted"}
                       /\ Found(s.claim, s.to, s.res)

Disjoint ==
  \A c, d \in Claims : c # d /\ Live(c) /\ Live(d) => lineItems[c] \cap lineItems[d] = {}

\* Nothing is granted before the supplier decides, nor by a refusal.
Ungranted ==
  \A c \in Claims :
    claim[c] \in {"absent", "draft", "supplier_review", "rejected"} => resolution[c] = "none"

SerialInv == Alone /\ (\A p \in Procs : Fresh(h[p])) /\ Disjoint /\ Ungranted

LEMMA ReturnSerialInit == Init => SerialInv
  BY DEF Init, SerialInv, Alone, Fresh, Creates, Disjoint, Live, Ungranted, Idle

\* The handler in flight moves on, or one starts: it is the only one.
LEMMA ReturnAlone ==
  ASSUME TypeOK, Alone, NEW p \in Procs, NEW s, Goto(p, s), Fresh(s)',
         \A q \in Procs : q # p => h[q] = Idle
  PROVE  Alone' /\ (\A q \in Procs : Fresh(h[q])')
<1>1. \A q \in Procs : h'[q] = IF q = p THEN s ELSE Idle
  BY DEF Goto, TypeOK
<1>2. Alone'
  BY <1>1 DEF Alone
<1>3. Fresh(Idle)'
  BY DEF Fresh, Creates, Idle
<1>4. ASSUME NEW q \in Procs
      PROVE  Fresh(h[q])'
  <2>1. CASE q = p
    BY <1>1, <2>1
  <2>2. CASE q # p
    <3>1. h'[q] = Idle
      BY <1>1, <2>2
    <3> QED
      BY <3>1, <1>3
  <2> QED
    BY <2>1, <2>2
<1> QED
  BY <1>2, <1>4

\* The claims are the same, so what was read still holds.
LEMMA ReturnFreshStays ==
  ASSUME NEW s, Fresh(s), UNCHANGED claimVars
  PROVE  Fresh(s)'
  BY DEF Fresh, Creates, Blocked, StaleDrafts, PriorClaims, Free, Live, Found, Evidenced,
         claimVars

LEMMA ReturnSerialStart ==
  ASSUME ~overlap, TypeOK, SerialInv, NEW p \in Procs, NEW s, Start(p, s), Fresh(s)
  PROVE  SerialInv'
<1>1. (\A q \in Procs : q # p => h[q] = Idle) /\ Goto(p, s) /\ UNCHANGED claimVars
  BY DEF Start, MayStart
<1>2. Fresh(s)'
  BY <1>1, ReturnFreshStays
<1>3. Alone' /\ (\A q \in Procs : Fresh(h[q])')
  BY <1>1, <1>2, ReturnAlone DEF SerialInv
<1> QED
  BY <1>1, <1>3 DEF SerialInv, Disjoint, Live, Ungranted, claimVars

LEMMA ReturnSerialCreate ==
  ASSUME ~overlap, TypeOK, SerialInv, NEW p \in Procs, Create(p)
  PROVE  SerialInv'
<1>f. Fresh(h[p])
  BY DEF SerialInv
<1>i. Fresh(Idle)'
  BY DEF Fresh, Creates, Idle
<1>a. h[p] # Idle => \A q \in Procs : q # p => h[q] = Idle
  BY DEF SerialInv, Alone
<1>1. ASSUME NEW c \in Claims, NEW l \in SUBSET Lines, CreateRead(p, c, l)
      PROVE  SerialInv'
  BY <1>1, ReturnSerialStart DEF CreateRead, Fresh, Creates
<1>2. CASE CreateCheck(p)
  <2> DEFINE c == h[p].claim
             l == h[p].lines
  <2>1. h[p] # Idle /\ UNCHANGED claimVars /\ claim[c] = "absent"
    BY <1>2, <1>f DEF CreateCheck, Fresh, Creates, Idle
  <2>2. CASE Goto(p, Idle)
    <3>1. Alone' /\ (\A q \in Procs : Fresh(h[q])')
      BY <2>1, <2>2, <1>i, <1>a, ReturnAlone DEF SerialInv
    <3> QED
      BY <2>1, <3>1 DEF SerialInv, Disjoint, Live, Ungranted, claimVars
  <2>3. ASSUME NEW s, Goto(p, s), Fresh(s)
        PROVE  SerialInv'
    <3>1. Fresh(s)'
      BY <2>1, <2>3, ReturnFreshStays
    <3>2. Alone' /\ (\A q \in Procs : Fresh(h[q])')
      BY <2>1, <2>3, <3>1, <1>a, ReturnAlone DEF SerialInv
    <3> QED
      BY <2>1, <3>2 DEF SerialInv, Disjoint, Live, Ungranted, claimVars
  <2>4. ~Blocked(l) => Fresh([at |-> "createDelete", claim |-> c, lines |-> l,
                              drafts |-> StaleDrafts(l)])
    BY <2>1 DEF Fresh, Creates
  <2>5. ~Blocked(l) /\ StaleDrafts(l) = {} => Free(l)
    BY DEF Blocked, StaleDrafts, PriorClaims, Free, Live
  <2>6. ~Blocked(l) /\ StaleDrafts(l) = {} =>
          Fresh([at |-> "createInsert", claim |-> c, lines |-> l])
    BY <2>1, <2>5 DEF Fresh, Creates
  <2> QED
    BY <1>2, <2>2, <2>3, <2>4, <2>6 DEF CreateCheck, End
<1>3. CASE CreateDelete(p)
  <2> PICK l, own : l = h[p].lines /\ own = h[p].claim
    OBVIOUS
  <2> DEFINE s == [at |-> "createInsert", claim |-> own, lines |-> l]
             gone == Deleted(h[p].drafts)
  <2>1. /\ Goto(p, s)
        /\ claim' = [c \in Claims |-> IF c \in gone THEN "deleted" ELSE claim[c]]
        /\ UNCHANGED <<lineItems, resolution>>
        /\ h[p] # Idle /\ claim[own] = "absent" /\ own \in Claims
        /\ ~Blocked(l) /\ h[p].drafts = StaleDrafts(l)
    BY <1>3, <1>f, ReturnHandlerFields DEF CreateDelete, Fresh, Creates, Idle, TypeOK
  <2>2. \A c \in Claims : Live(c)' => Live(c) /\ c \notin gone
    BY <2>1 DEF Live
  <2>3. Free(l)'
    BY <2>1, <2>2
    DEF Free, Blocked, StaleDrafts, PriorClaims, Deleted, Live
  <2>4. Fresh(s)'
    BY <2>1, <2>3 DEF Fresh, Creates, Deleted
  <2>5. Alone' /\ (\A q \in Procs : Fresh(h[q])')
    BY <2>1, <2>4, <1>a, ReturnAlone DEF SerialInv
  <2>6. Disjoint'
    BY <2>1, <2>2 DEF SerialInv, Disjoint
  <2>7. Ungranted'
    BY <2>1 DEF SerialInv, Ungranted
  <2> QED
    BY <2>5, <2>6, <2>7 DEF SerialInv
<1>4. CASE CreateInsert(p)
  <2> DEFINE new == h[p].claim
  <2>1. /\ Goto(p, Idle)
        /\ claim' = [claim EXCEPT ![new] = "draft"]
        /\ lineItems' = [lineItems EXCEPT ![new] = h[p].lines]
        /\ resolution' = resolution
        /\ h[p] # Idle /\ claim[new] = "absent" /\ new \in Claims
        /\ Free(h[p].lines)
    BY <1>4, <1>f, ReturnHandlerFields DEF CreateInsert, End, Fresh, Creates, Idle, TypeOK
  <2>2. Alone' /\ (\A q \in Procs : Fresh(h[q])')
    BY <2>1, <1>i, <1>a, ReturnAlone DEF SerialInv
  <2>3. \A c \in Claims : c # new => (Live(c)' => Live(c)) /\ lineItems'[c] = lineItems[c]
    BY <2>1 DEF Live, TypeOK
  <2>4. lineItems'[new] = h[p].lines
    BY <2>1 DEF TypeOK
  <2>5. Disjoint'
    BY <2>1, <2>3, <2>4 DEF SerialInv, Disjoint, Free
  <2>6. Ungranted'
    BY <2>1 DEF SerialInv, Ungranted, TypeOK
  <2> QED
    BY <2>2, <2>5, <2>6 DEF SerialInv
<1> QED
  BY <1>1, <1>2, <1>3, <1>4 DEF Create

LEMMA ReturnSerialPhoto ==
  ASSUME ~overlap, TypeOK, SerialInv, NEW p \in Procs, Photo(p)
  PROVE  SerialInv'
<1>1. ASSUME NEW c \in Claims, NEW line \in Lines, EvidenceRead(p, c, line)
      PROVE  SerialInv'
  BY <1>1, ReturnSerialStart DEF EvidenceRead, Fresh, Creates
<1>2. CASE EvidenceInsert(p)
  <2>1. Goto(p, Idle) /\ UNCHANGED <<claim, lineItems, resolution>> /\ h[p] # Idle
    BY <1>2 DEF EvidenceInsert, End, Idle
  <2>2. Fresh(Idle)'
    BY DEF Fresh, Creates, Idle
  <2>3. Alone' /\ (\A q \in Procs : Fresh(h[q])')
    BY <2>1, <2>2, ReturnAlone DEF SerialInv, Alone
  <2> QED
    BY <2>1, <2>3 DEF SerialInv, Disjoint, Live, Ungranted
<1> QED
  BY <1>1, <1>2 DEF Photo

\* What an update does to the claim of a handler that is alone.
LEMMA SerialWrite ==
  ASSUME TypeOK, SerialInv, NEW p \in Procs, Write(p)
  PROVE  \E c \in Claims, to \in Statuses, res \in Resolutions :
           /\ Found(c, to, res) /\ claim[c] \notin {"absent", "deleted"}
           /\ claim' = [claim EXCEPT ![c] = to]
           /\ resolution' = [resolution EXCEPT ![c] = IF res = Keep THEN @ ELSE res]
           /\ Goto(p, Idle) /\ h[p] # Idle /\ lineItems' = lineItems
<1>1. Fresh(h[p]) /\ h[p].at = "write" /\ h[p] # Idle
  BY DEF SerialInv, Write, Idle
<1>2. h[p].claim \in Claims
  BY <1>1, ReturnHandlerFields DEF TypeOK
<1> QED
  BY <1>1, <1>2 DEF Write, Fresh, End

LEMMA ReturnSerialProceed ==
  ASSUME ~overlap, TypeOK, SerialInv, NEW p \in Procs, Proceed(p)
  PROVE  SerialInv'
<1>1. ASSUME NEW c \in Claims, NEW to \in Statuses, NEW res \in Resolutions,
             Proceeds(p, c, to, res)
      PROVE  SerialInv'
  <2> DEFINE s == [at |-> "write", claim |-> c, to |-> to, res |-> res]
  <2>1. claim[c] \notin {"absent", "deleted"} /\ Found(c, to, res)
    BY <1>1 DEF Proceeds, Found
  <2>2. Fresh(s)
    BY <2>1 DEF Fresh, Creates
  <2> QED
    BY <1>1, <2>2, ReturnSerialStart DEF Proceeds
<1>2. CASE Write(p)
  <2>1. PICK c \in Claims, to \in Statuses, res \in Resolutions :
           /\ Found(c, to, res) /\ claim[c] \notin {"absent", "deleted"}
           /\ claim' = [claim EXCEPT ![c] = to]
           /\ resolution' = [resolution EXCEPT ![c] = IF res = Keep THEN @ ELSE res]
           /\ Goto(p, Idle) /\ h[p] # Idle /\ lineItems' = lineItems
    BY <1>2, SerialWrite
  <2>2. Fresh(Idle)'
    BY DEF Fresh, Creates, Idle
  <2>3. Alone' /\ (\A q \in Procs : Fresh(h[q])')
    BY <2>1, <2>2, ReturnAlone DEF SerialInv, Alone
  <2>4. claim'[c] = to /\ resolution'[c] = IF res = Keep THEN resolution[c] ELSE res
    BY <2>1 DEF TypeOK
  <2>5. \A d \in Claims : d # c => claim'[d] = claim[d] /\ resolution'[d] = resolution[d]
    BY <2>1 DEF TypeOK
  <2>6. Live(c)' => Live(c)
    BY <2>1, <2>4 DEF Live, Found, SerialInv, Ungranted
  <2>7. Disjoint'
    BY <2>1, <2>5, <2>6 DEF SerialInv, Disjoint, Live
  <2>8. Ungranted'
    <3>1. to \in {"absent", "draft", "supplier_review", "rejected"} => resolution'[c] = "none"
      BY <2>1, <2>4 DEF Found, SerialInv, Ungranted, Statuses, Unsubmitted
    <3> QED
      BY <2>4, <2>5, <3>1 DEF SerialInv, Ungranted
  <2> QED
    BY <2>3, <2>7, <2>8 DEF SerialInv
<1> QED
  BY <1>1, <1>2, ProceedMoves

LEMMA ReturnSerialNext ==
  ~overlap /\ TypeOK /\ SerialInv /\ [Next]_vars => SerialInv'
<1> SUFFICES ASSUME ~overlap, TypeOK, SerialInv, [Next]_vars
             PROVE  SerialInv'
  OBVIOUS
<1>1. ASSUME NEW p \in Procs, Create(p) \/ Photo(p) \/ Proceed(p)
      PROVE  SerialInv'
  BY <1>1, ReturnSerialCreate, ReturnSerialPhoto, ReturnSerialProceed
<1>2. ASSUME NEW p \in Procs, Abort(p)
      PROVE  SerialInv'
  <2>1. Goto(p, Idle) /\ UNCHANGED claimVars /\ h[p] # Idle
    BY <1>2 DEF Abort, End
  <2>2. Fresh(Idle)'
    BY DEF Fresh, Creates, Idle
  <2>3. Alone' /\ (\A q \in Procs : Fresh(h[q])')
    BY <2>1, <2>2, ReturnAlone DEF SerialInv, Alone
  <2> QED
    BY <2>1, <2>3 DEF SerialInv, Disjoint, Live, Ungranted, claimVars
<1>3. CASE WindowCloses \/ UNCHANGED vars
  <2>1. h' = h /\ UNCHANGED claimVars
    BY <1>3 DEF WindowCloses, vars
  <2>2. \A q \in Procs : Fresh(h[q])'
    BY <2>1, ReturnFreshStays DEF SerialInv
  <2> QED
    BY <2>1, <2>2 DEF SerialInv, Alone, Disjoint, Live, Ungranted, claimVars
<1> QED
  BY <1>1, <1>2, <1>3 DEF Next

\* Whether handlers overlap is settled at the start.
LEMMA OverlapStays == [Next]_vars => overlap' = overlap
  BY DEF Next, Create, CreateRead, CreateCheck, CreateDelete, CreateInsert, Photo,
         EvidenceRead, EvidenceInsert, Proceed, Submit, Decide, Schedule, Pickup, Refund,
         Replace, ConsumerAck, Move, Write, Abort, WindowCloses, Start, vars

LEMMA ReturnSerialHolds == Spec => [](~overlap => SerialInv)
<1>1. Init => (~overlap => SerialInv)
  BY ReturnSerialInit
<1>2. TypeOK /\ (~overlap => SerialInv) /\ [Next]_vars => (~overlap => SerialInv)'
  BY ReturnSerialNext, OverlapStays
<1> QED
  BY <1>1, <1>2, ReturnTypeCorrect, PTL DEF Spec

\* While handlers do not overlap, no line is in two claims that are live, whatever was
\* retried, refused, acknowledged or cut short.
THEOREM NoItemIsReturnedTwice == Spec => []OneClaimPerItem
<1>1. (~overlap => SerialInv) => OneClaimPerItem
  BY DEF SerialInv, Disjoint, OneClaimPerItem
<1> QED
  BY <1>1, ReturnSerialHolds, PTL

\* While handlers do not overlap, a recorded resolution is never exchanged or removed.
THEOREM ResolutionsStand == Spec => ResolutionStands
<1> DEFINE Stands == ~overlap => \A c \in Claims :
                       resolution[c] # "none" => resolution'[c] = resolution[c]
<1>1. ASSUME ~overlap, TypeOK, SerialInv, [Next]_vars
      PROVE  Stands
  <2>1. ASSUME NEW p \in Procs, Write(p)
        PROVE  Stands
    <3>1. PICK d \in Claims, to \in Statuses, res \in Resolutions :
            /\ Found(d, to, res)
            /\ resolution' = [resolution EXCEPT ![d] = IF res = Keep THEN @ ELSE res]
      BY <1>1, <2>1, SerialWrite
    <3>2. resolution[d] # "none" => res \in {Keep, resolution[d]}
      BY <1>1, <3>1 DEF Found, SerialInv, Ungranted
    <3> QED
      BY <1>1, <3>1, <3>2 DEF TypeOK
  <2>2. ASSUME NEW p \in Procs, Create(p) \/ Photo(p) \/ Abort(p)
        PROVE  resolution' = resolution
    BY <2>2 DEF Create, CreateRead, CreateCheck, CreateDelete, CreateInsert, Photo,
               EvidenceRead, EvidenceInsert, Abort, Start, claimVars
  <2>3. ASSUME NEW p \in Procs, Proceed(p)
        PROVE  Stands
    BY <1>1, <2>1, <2>3, ProceedMoves DEF Proceeds, Start, claimVars
  <2>4. CASE WindowCloses \/ UNCHANGED vars
    BY <2>4 DEF WindowCloses, vars, claimVars
  <2> QED
    BY <1>1, <2>2, <2>3, <2>4 DEF Next
<1>2. TypeOK /\ (~overlap => SerialInv) /\ [Next]_vars => [Stands]_vars
  BY <1>1
<1> QED
  BY <1>2, ReturnTypeCorrect, ReturnSerialHolds, PTL DEF Spec, ResolutionStands

\* What each step does to the status of a claim.
LEMMA ClaimStep ==
  ASSUME TypeOK, SerialInv, [Next]_vars, NEW c \in Claims
  PROVE  Onward(claim[c], claim'[c])
<1>s. claim'[c] = claim[c] => Onward(claim[c], claim'[c])
  BY DEF Onward
<1>1. ASSUME NEW p \in Procs, Write(p)
      PROVE  Onward(claim[c], claim'[c])
  <2>1. PICK d \in Claims, to \in Statuses, res \in Resolutions :
          Found(d, to, res) /\ claim' = [claim EXCEPT ![d] = to]
    BY <1>1, SerialWrite
  <2>2. claim'[c] = IF c = d THEN to ELSE claim[c]
    BY <2>1 DEF TypeOK
  <2> QED
    BY <2>1, <2>2, <1>s DEF Found
<1>2. ASSUME NEW p \in Procs, CreateDelete(p)
      PROVE  Onward(claim[c], claim'[c])
  <2>1. \/ claim'[c] = claim[c]
        \/ claim[c] = "draft" /\ claim'[c] = "deleted"
    BY <1>2 DEF CreateDelete, Deleted
  <2> QED
    BY <2>1, <1>s, Courses
<1>3. ASSUME NEW p \in Procs, CreateInsert(p)
      PROVE  Onward(claim[c], claim'[c])
  <2>1. \/ claim'[c] = claim[c]
        \/ claim[c] = "absent" /\ claim'[c] = "draft"
    BY <1>3 DEF CreateInsert, SerialInv, Fresh, Creates, TypeOK
  <2> QED
    BY <2>1, <1>s, Courses
<1>4. ASSUME NEW p \in Procs, Create(p) \/ Photo(p) \/ Abort(p),
             ~CreateDelete(p), ~CreateInsert(p)
      PROVE  claim' = claim
  BY <1>4 DEF Create, CreateRead, CreateCheck, Photo, EvidenceRead, EvidenceInsert, Abort,
              Start, claimVars
<1>5. ASSUME NEW p \in Procs, Proceed(p), ~Write(p)
      PROVE  claim' = claim
  BY <1>5, ProceedMoves DEF Proceeds, Start, claimVars
<1>6. CASE WindowCloses \/ UNCHANGED vars
  BY <1>6, <1>s DEF WindowCloses, vars, claimVars
<1> QED
  BY <1>s, <1>1, <1>2, <1>3, <1>4, <1>5, <1>6 DEF Next

\* While handlers do not overlap, a claim never returns to a status it has left: what a
\* handler writes is ranked above the status it read, and no other handler has written since.
THEOREM ClaimsMoveForward == Spec => ClaimMovesForward
<1> DEFINE Forward == ~overlap => \A c \in Claims :
                        \/ claim'[c] = claim[c]
                        \/ Rank(claim[c]) < Rank(claim'[c])
<1>1. TypeOK /\ (~overlap => SerialInv) /\ [Next]_vars => [Forward]_vars
  BY ClaimStep DEF Onward
<1> QED
  BY <1>1, ReturnTypeCorrect, ReturnSerialHolds, PTL DEF Spec, ClaimMovesForward
=============================================================================
