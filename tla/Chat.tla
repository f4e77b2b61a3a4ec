---------------------------------- MODULE Chat ----------------------------------
(***************************************************************************)
(* The chat of one return claim and the notices it leaves in the inbox:     *)
(* messaging/routes.ts, notifications/routes.ts and lib/notify.ts.  The chat *)
(* of an order has its thread from the transaction that makes the order on;  *)
(* a claim's thread is opened by whichever request first needs it.           *)
(***************************************************************************)
EXTENDS InFlight, FiniteSets, FiniteSetsExt, Sequences

CONSTANTS
  MaxMessages,   \* bound: messages of the claim
  NoticePage     \* limit of GET /notifications

ASSUME ChatAssumption ==
  IsFiniteSet(Procs) /\ MaxMessages \in Nat /\ NoticePage \in Nat \ {0}

Members == {"shop", "seller"}
Peer(who) == IF who = "shop" THEN "seller" ELSE "shop"
Messages == 1..MaxMessages
NoSender == "no sender"

VARIABLES
  thread,    \* ChatThread of the claim: none or open (returnClaimId is unique)
  sender,    \* ChatMessage rows by creation: who wrote each
  inbox,     \* Notification rows of each party as created: whether each is read
  alerts,    \* UserPreference: what lets a chat notice through, orderAlerts or pushEnabled
  pager,     \* a party leafing through its notices: what was there, the cursor, what it saw
  refused    \* history: a request failed because the other party opened the thread

chatVars == <<thread, sender, inbox, alerts, pager, refused>>

Written == {m \in Messages : sender[m] # NoSender}
Notices(who) == DOMAIN inbox[who]

Wants == {"read", "post", "typing"}

ChatHandlers ==
  [at : {"chatCreate", "chatFind", "chatDo"}, who : Members, want : Wants]
  \cup [at : {"chatPush", "chatInbox"}, to : Members]

ChatTypeOK ==
  /\ thread \in {"none", "open"}
  /\ sender \in [Messages -> Members \cup {NoSender}]
  /\ \A who \in Members : inbox[who] \in Seq(BOOLEAN) /\ Len(inbox[who]) <= MaxMessages
  /\ alerts \in [Members -> BOOLEAN]
  /\ pager.who \in Members /\ pager.there \subseteq Messages
  /\ pager.cursor \in 0..(MaxMessages + 1) /\ pager.saw \in Seq(Messages)
  /\ refused \in BOOLEAN

NotPaging == [who |-> "shop", there |-> {}, cursor |-> 0, saw |-> <<>>]

ChatInit ==
  /\ thread = "none"
  /\ sender = [m \in Messages |-> NoSender]
  /\ inbox = [who \in Members |-> <<>>]
  /\ alerts = [who \in Members |-> TRUE]
  /\ pager = NotPaging
  /\ refused = FALSE

(***************************************************************************)
(* GET, POST messages and POST typing of /return-claims/:id/chat.            *)
(***************************************************************************)
Posting == {p \in Procs : h[p].at \in {"chatCreate", "chatFind", "chatDo"}
                          /\ h[p].want = "post"}

\* assertClaimMember reads the claim with its thread.
ChatStart(p, who, want) ==
  /\ want = "post" => Cardinality(Written) + Cardinality(Posting) < MaxMessages
  /\ Start(p, [at |-> IF thread = "open" THEN "chatDo" ELSE "chatCreate",
               who |-> who, want |-> want])
  /\ UNCHANGED chatVars

\* Mutant: a conflict on the thread is an error.
ConflictFails(p) == refused' = TRUE /\ End(p)

\* P2002 in ensureReturnThread: look for the other's thread, which stays.
Conflict(p) == UNCHANGED refused /\ Goto(p, [h[p] EXCEPT !.at = "chatFind"])

ChatCreate(p) ==
  /\ h[p].at = "chatCreate"
  /\ thread' = "open"
  /\ IF thread = "none"
     THEN UNCHANGED refused /\ Goto(p, [h[p] EXCEPT !.at = "chatDo"])
     ELSE Conflict(p)
  /\ UNCHANGED <<sender, inbox, alerts, pager>>

ChatFind(p) ==
  /\ h[p].at = "chatFind"
  /\ Goto(p, [h[p] EXCEPT !.at = "chatDo"])
  /\ UNCHANGED chatVars

\* The message is stored and the answer sent; the notice follows by itself.
ChatDo(p) ==
  /\ h[p].at = "chatDo"
  /\ IF h[p].want = "post"
     THEN /\ sender' = [sender EXCEPT ![Cardinality(Written) + 1] = h[p].who]
          /\ Goto(p, [at |-> "chatPush", to |-> Peer(h[p].who)])
     ELSE UNCHANGED sender /\ End(p)
  /\ UNCHANGED <<thread, inbox, alerts, pager, refused>>

\* sendPush: prefsAllow, which allows when it cannot read, then persistInbox.
PushStep(p) ==
  /\ h[p].at = "chatPush"
  /\ \/ (alerts[h[p].to] \/ MayFail) /\ Goto(p, [h[p] EXCEPT !.at = "chatInbox"])
     \/ ~alerts[h[p].to] /\ End(p)
  /\ UNCHANGED chatVars

InboxStep(p) ==
  /\ h[p].at = "chatInbox"
  /\ inbox' = [inbox EXCEPT ![h[p].to] = Append(@, FALSE)]
  /\ End(p)
  /\ UNCHANGED <<thread, sender, alerts, pager, refused>>

(***************************************************************************)
(* Preferences and the inbox.                                              *)
(***************************************************************************)
SetAlerts(p, who) ==
  /\ Immediate(p)
  /\ alerts' = [alerts EXCEPT ![who] = ~alerts[who]]
  /\ UNCHANGED <<thread, sender, inbox, pager, refused>>

MarkRead(p, who, m) ==
  /\ Immediate(p)
  /\ m \in Notices(who)
  /\ inbox' = [inbox EXCEPT ![who][m] = TRUE]
  /\ UNCHANGED <<thread, sender, alerts, pager, refused>>

MarkAllRead(p, who) ==
  /\ Immediate(p)
  /\ inbox' = [inbox EXCEPT ![who] = [m \in Notices(who) |-> TRUE]]
  /\ UNCHANGED <<thread, sender, alerts, pager, refused>>

\* Notices come newest first.
NewestFirst(S) ==
  [n \in 1..Cardinality(S) |-> CHOOSE m \in S : Cardinality({k \in S : k > m}) = n - 1]

PageAfter(S) == LET page == NewestFirst(S)
                IN  IF Len(page) > NoticePage THEN SubSeq(page, 1, NoticePage) ELSE page

\* Mutant: the next page skips as many notices as were shown.
SkippedBy(who, cursor, saw) ==
  {m \in Notices(who) : Cardinality({k \in Notices(who) : k > m}) >= Len(saw)}

\* cursor and skip 1: what is older than the last notice shown.  The sort is by
\* createdAt alone: two notices of one millisecond, whose order it leaves to the
\* database, are not modelled.
AfterCursor(who, cursor, saw) == {m \in Notices(who) : m < cursor}

\* Without a cursor the list starts at the newest.
FirstPage(p, who) ==
  /\ Immediate(p)
  /\ pager.cursor = 0
  /\ LET page == PageAfter(Notices(who))
     IN  pager' = [who |-> who, there |-> Notices(who), saw |-> page,
                   cursor |-> IF Len(page) = NoticePage THEN page[NoticePage] ELSE 0]
  /\ UNCHANGED <<thread, sender, inbox, alerts, refused>>

NextPage(p) ==
  /\ Immediate(p)
  /\ pager.cursor # 0
  /\ LET page == PageAfter(AfterCursor(pager.who, pager.cursor, pager.saw))
     IN  pager' = [pager EXCEPT !.saw = @ \o page,
                     !.cursor = IF Len(page) = NoticePage THEN page[NoticePage] ELSE 0]
  /\ UNCHANGED <<thread, sender, inbox, alerts, refused>>

ChatStop(p) == Stop(p) /\ UNCHANGED chatVars

ChatStep(p) ==
  \/ \E who \in Members, want \in Wants : ChatStart(p, who, want)
  \/ ChatCreate(p) \/ ChatFind(p) \/ ChatDo(p)
  \/ PushStep(p) \/ InboxStep(p)
  \/ \E who \in Members : SetAlerts(p, who) \/ MarkAllRead(p, who) \/ FirstPage(p, who)
  \/ \E who \in Members, m \in Messages : MarkRead(p, who, m)
  \/ NextPage(p)
  \/ ChatStop(p)

ChatNext == \E p \in Procs : ChatStep(p) /\ UNCHANGED regime

(***************************************************************************)
(* Properties.                                                             *)
(***************************************************************************)

\* Nobody's message, reading or typing is refused because the other party opened
\* the thread in the meantime, and a message is stored only in an open thread; a
\* party that leafs through its notices while new ones arrive, are written in any
\* order and are marked read sees each that was there when it began exactly once.
ChatKeepsUp ==
  /\ ~refused
  /\ Written # {} => thread = "open"
  /\ pager.cursor = 0 =>
       \A m \in pager.there : Cardinality({n \in DOMAIN pager.saw : pager.saw[n] = m}) = 1
=============================================================================
