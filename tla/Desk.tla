----------------------------------- MODULE Desk -----------------------------------
(***************************************************************************)
(* The operations desk: the KYC review of one supplier or shop               *)
(* (supplier-kyc, consumer-kyc, admin) and one support ticket (support,      *)
(* admin).  Staff write a row, then the audit log, then tell the user.       *)
(***************************************************************************)
EXTENDS InFlight

VARIABLES
  side,      \* "supplier", "consumer": whose KYC; "ticket"
  kyc,       \* profile.kycStatus, "none" without a row
  complete,  \* a supplier's stock is not empty; a shop has its name, phone and address
  ticket,    \* SupportTicket.status, "none" without a row
  heard,     \* the last status the user was told of
  pushes,    \* UserPreference.pushEnabled, which lets notices of a ticket through
  missed,    \* history: the last notice of the ticket was withheld by preference
  spoke      \* history: who wrote to the ticket last

deskVars == <<side, kyc, complete, ticket, heard, pushes, missed, spoke>>

Decisions == {"verified", "rejected"}
KycStatuses == {"draft", "submitted"} \cup Decisions
TicketStatuses == {"open", "pending_user", "pending_ops", "resolved", "closed"}
Announced == {"resolved", "closed"}
Staff == "ops"
User == "user"

DeskHandlers ==
  [at : {"kycSave"}, exists : BOOLEAN, complete : BOOLEAN, keep : BOOLEAN]
  \cup [at : {"kycSubmit"}]
  \cup [at : {"kycAudit"}, decision : Decisions]
  \cup [at : {"kycDev"}, exists : BOOLEAN]
  \cup [at : {"ticketInsert", "ticketReply"}, from : {Staff, User}]
  \cup [at : {"ticketPush", "ticketInbox"}, what : Announced \cup {"reply"}]
  \cup [at : {"ticketPatch", "ticketAudit"}, status : TicketStatuses, changes : BOOLEAN]

DeskTypeOK ==
  /\ side \in {"supplier", "consumer", "ticket"}
  /\ kyc \in KycStatuses \cup {"none"}
  /\ complete \in BOOLEAN
  /\ ticket \in TicketStatuses \cup {"none"}
  /\ heard \in Decisions \cup Announced \cup {"none", "reply"}
  /\ pushes \in BOOLEAN /\ missed \in BOOLEAN
  /\ spoke \in {Staff, User, "none"}

DeskInit ==
  /\ side \in {"supplier", "consumer", "ticket"}
  /\ kyc = "none" /\ complete = FALSE /\ ticket = "none"
  /\ heard = "none" /\ spoke = "none"
  /\ pushes = TRUE /\ missed = FALSE

KycOnly == UNCHANGED <<side, ticket, pushes, missed, spoke>>
TicketOnly == UNCHANGED <<side, kyc, complete>>

(***************************************************************************)
(* KYC.                                                                    *)
(***************************************************************************)

\* POST .../kyc and .../kyc/categories.  A shop's form carries every field, and a
\* blank one passes; a supplier's may leave out its stock, or empty it.
KycSave(p, full, keep) ==
  /\ side # "ticket"
  /\ keep => side = "supplier" /\ ~full
  /\ Start(p, [at |-> "kycSave", exists |-> kyc # "none", complete |-> full, keep |-> keep])
  /\ UNCHANGED deskVars

\* The status of an existing row is kept; a second create of one fails.
KycSaved(p) ==
  /\ h[p].at = "kycSave"
  /\ IF h[p].exists = (kyc # "none")
     THEN /\ kyc' = IF h[p].exists THEN kyc ELSE "draft"
          /\ complete' = IF h[p].keep THEN complete ELSE h[p].complete
     ELSE UNCHANGED <<kyc, complete>>
  /\ End(p)
  /\ KycOnly /\ UNCHANGED heard

\* PUT /consumer/profile makes a row when there is none, and may blank a field.  The
\* handlers of Addresses do no more to it: they fill or erase the address.
KycProfilePut(p, full) ==
  /\ side = "consumer"
  /\ Immediate(p)
  /\ kyc' = IF kyc = "none" THEN "draft" ELSE kyc
  /\ complete' \in {complete, full}
  /\ KycOnly /\ UNCHANGED heard

\* POST .../kyc/submit, from any status.
KycSubmit(p) ==
  /\ kyc # "none" /\ complete
  /\ Start(p, [at |-> "kycSubmit"])
  /\ UNCHANGED deskVars

KycSubmitted(p) ==
  /\ h[p].at = "kycSubmit"
  /\ kyc' = "submitted"
  /\ End(p)
  /\ KycOnly /\ UNCHANGED <<complete, heard>>

\* POST .../verify and .../reject, from any status.
Decide(p, decision) ==
  /\ kyc # "none"
  /\ h[p] = Idle /\ MayStart
  /\ kyc' = decision
  /\ Goto(p, [at |-> "kycAudit", decision |-> decision])
  /\ KycOnly /\ UNCHANGED <<complete, heard>>

\* Mutant: the user hears only of a decision in their favour.
ToldOfSuccess(decision) == IF decision = "verified" THEN decision ELSE heard

\* emitUser(profile.updated)
ToldOf(decision) == decision

\* recordAdminAudit, which swallows its own error, comes between.
DecideTell(p) ==
  /\ h[p].at = "kycAudit"
  /\ heard' = ToldOf(h[p].decision)
  /\ End(p)
  /\ KycOnly /\ UNCHANGED <<kyc, complete>>

\* POST .../kyc/dev-verify, where DEV_AUTH_BYPASS allows it.
DevVerify(p) ==
  /\ side # "ticket"
  /\ Start(p, [at |-> "kycDev", exists |-> kyc # "none"])
  /\ UNCHANGED deskVars

DevVerified(p) ==
  /\ h[p].at = "kycDev"
  /\ IF h[p].exists = (kyc # "none")
     THEN /\ kyc' = "verified" /\ heard' = "verified"
          /\ complete' = IF h[p].exists THEN complete ELSE side = "consumer"
     ELSE UNCHANGED <<kyc, heard, complete>>
  /\ End(p)
  /\ KycOnly

(***************************************************************************)
(* The ticket.                                                             *)
(***************************************************************************)
TicketCreate(p) ==
  /\ side = "ticket" /\ ticket = "none"
  /\ Immediate(p)
  /\ ticket' = "open" /\ spoke' = User
  /\ TicketOnly /\ UNCHANGED <<heard, pushes, missed>>

TicketMessage(p, from) ==
  /\ ticket # "none"
  /\ Start(p, [at |-> "ticketInsert", from |-> from])
  /\ UNCHANGED deskVars

TicketInsert(p) ==
  /\ h[p].at = "ticketInsert"
  /\ spoke' = h[p].from
  /\ Goto(p, [h[p] EXCEPT !.at = "ticketReply"])
  /\ TicketOnly /\ UNCHANGED <<ticket, heard, pushes, missed>>

\* Mutant: a message leaves a ticket that was settled as it is.
WaitsUnlessSettled(from) ==
  IF ticket \in Announced THEN ticket ELSE IF from = Staff THEN "pending_user" ELSE "pending_ops"

\* A message makes the ticket wait for the other side, whatever its status.
WaitsFor(from) == IF from = Staff THEN "pending_user" ELSE "pending_ops"

TicketReply(p) ==
  /\ h[p].at = "ticketReply"
  /\ ticket' = WaitsFor(h[p].from)
  /\ IF h[p].from = Staff THEN Goto(p, [at |-> "ticketPush", what |-> "reply"]) ELSE End(p)
  /\ TicketOnly /\ UNCHANGED <<heard, pushes, missed, spoke>>

\* PATCH /admin/support/tickets/:id
TicketPatch(p, status) ==
  /\ ticket # "none"
  /\ Start(p, [at |-> "ticketPatch", status |-> status, changes |-> status # ticket])
  /\ UNCHANGED deskVars

TicketPatched(p) ==
  /\ h[p].at = "ticketPatch"
  /\ ticket' = h[p].status /\ spoke' = "none"
  /\ Goto(p, [h[p] EXCEPT !.at = "ticketAudit"])
  /\ TicketOnly /\ UNCHANGED <<heard, pushes, missed>>

TicketAudit(p) ==
  /\ h[p].at = "ticketAudit"
  /\ IF h[p].status \in Announced /\ h[p].changes
     THEN Goto(p, [at |-> "ticketPush", what |-> h[p].status]) ELSE End(p)
  /\ UNCHANGED deskVars

\* sendPush: prefsAllow, which allows when it cannot read, and persistInbox.
TicketPush(p) ==
  /\ h[p].at = "ticketPush"
  /\ \/ /\ pushes \/ MayFail
        /\ Goto(p, [h[p] EXCEPT !.at = "ticketInbox"])
        /\ UNCHANGED missed
     \/ /\ ~pushes
        /\ missed' = TRUE
        /\ End(p)
  /\ TicketOnly /\ UNCHANGED <<ticket, heard, pushes, spoke>>

TicketInbox(p) ==
  /\ h[p].at = "ticketInbox"
  /\ heard' = h[p].what /\ missed' = FALSE
  /\ End(p)
  /\ TicketOnly /\ UNCHANGED <<ticket, pushes, spoke>>

\* PUT /me/preferences
SetPushes(p) ==
  /\ side = "ticket"
  /\ Immediate(p)
  /\ pushes' = ~pushes
  /\ TicketOnly /\ UNCHANGED <<ticket, heard, missed, spoke>>

\* A query fails, or the push does: what was written stays.
DeskStop(p) == Stop(p) /\ UNCHANGED deskVars

DeskStep(p) ==
  \/ \E full, keep \in BOOLEAN : KycSave(p, full, keep)
  \/ KycSaved(p)
  \/ \E full \in BOOLEAN : KycProfilePut(p, full)
  \/ KycSubmit(p) \/ KycSubmitted(p)
  \/ \E decision \in Decisions : Decide(p, decision)
  \/ DecideTell(p)
  \/ DevVerify(p) \/ DevVerified(p)
  \/ TicketCreate(p)
  \/ \E from \in {Staff, User} : TicketMessage(p, from)
  \/ TicketInsert(p) \/ TicketReply(p)
  \/ \E status \in TicketStatuses : TicketPatch(p, status)
  \/ TicketPatched(p) \/ TicketAudit(p)
  \/ TicketPush(p) \/ TicketInbox(p) \/ SetPushes(p)
  \/ DeskStop(p)

DeskNext == \E p \in Procs : DeskStep(p) /\ UNCHANGED regime

(***************************************************************************)
(* Properties.                                                             *)
(***************************************************************************)

\* The user knows where they stand.  Where handlers neither overlap nor fail, the
\* last decision told is the one that stands, also after a form saved since; a
\* ticket's reply or end was told, unless pushes were off when it came; and a ticket
\* to which someone wrote waits for the other side, also one that was settled
\* before.  A handler that fails only ever leaves the user with an older status:
\* nobody is told of a decision that the row never had.
DeskAgrees ==
  /\ regime = "undisturbed" /\ Quiet =>
       /\ kyc \in Decisions => heard = kyc
       /\ ticket \in Announced => heard = ticket \/ missed
       /\ spoke = User /\ ticket # "open" => ticket = "pending_ops"
       /\ spoke = Staff => ticket = "pending_user" /\ (heard = "reply" \/ missed)
  /\ heard \in Decisions => kyc # "none"
=============================================================================
