---------------------------- MODULE AddressesProofs ----------------------------
(***************************************************************************)
(* Theorems about Addresses, for any addresses, lines, pins and handler slots. *)
(***************************************************************************)
EXTENDS Addresses, FiniteSetTheorems, TLAPS

savedVars == <<addressVars, regime, h>>

SavedInit ==
  /\ regime \in Regimes
  /\ h = [p \in Procs |-> Idle]
  /\ AddressesInit

SavedSpec == SavedInit /\ [][AddressesNext]_savedVars

RowPlaces == [line : Lines \cup {"unused", "deleted"}, pin : Pins \cup {None}]
Row == [place : RowPlaces, isDefault : BOOLEAN]
Points == [line : Lines \cup {None, Typed}, pin : Pins \cup {None, Typed}]

SavedTypeOK ==
  /\ AddressesTypeOK
  /\ h \in [Procs -> {Idle} \cup AddressHandlers]

LEMMA AddressConstants ==
  /\ MaxAddresses \in Nat
  /\ "unused" \notin Lines /\ "deleted" \notin Lines /\ None \notin Lines /\ Typed \notin Lines
  /\ None \notin Pins /\ Typed \notin Pins
  BY AddressesAssumption DEF AddressesAssumption

\* What the step a handler is about to take says of the record's fields.
LEMMA AddressHandlerFields ==
  ASSUME NEW s \in {Idle} \cup AddressHandlers
  PROVE  /\ s.at = "addressInsert" => s.makeDefault \in BOOLEAN /\ s.seen \in SUBSET Addresses
         /\ s.at = "addressUpdate" => s.id \in Addresses
         /\ s.at \in {"addressDefault", "addressPromoted"} =>
              s.id \in Addresses /\ s.place \in Places
         /\ s.at = "addressDelete" => s.id \in Addresses /\ s.wasDefault \in BOOLEAN
         /\ s.at = "addressMirror" => s.place \in Places
         /\ s.at = "idle" <=> s = Idle
  BY DEF AddressHandlers, Idle

\* The records the handlers go on with.
LEMMA AddressHandlerForms ==
  /\ \A makeDefault \in BOOLEAN, seen \in SUBSET Addresses :
       [at |-> "addressInsert", makeDefault |-> makeDefault, seen |-> seen] \in AddressHandlers
  /\ \A a \in Addresses : [at |-> "addressUpdate", id |-> a] \in AddressHandlers
  /\ \A a \in Addresses, place \in Places :
       /\ [at |-> "addressDefault", id |-> a, place |-> place] \in AddressHandlers
       /\ [at |-> "addressPromoted", id |-> a, place |-> place] \in AddressHandlers
  /\ \A a \in Addresses, wasDefault \in BOOLEAN :
       [at |-> "addressDelete", id |-> a, wasDefault |-> wasDefault] \in AddressHandlers
  /\ \A place \in Places : [at |-> "addressMirror", place |-> place] \in AddressHandlers
  /\ [at |-> "addressPromote"] \in AddressHandlers
  BY DEF AddressHandlers

\* The place of a saved row, as its line says it is one; and a row without one.
LEMMA PlaceOfRow ==
  /\ \A r \in Row : r.place.line \in Lines => r.place \in Places
  /\ \A place \in Places, d \in BOOLEAN : [place |-> place, isDefault |-> d] \in Row
  /\ NoRow("unused") \in Row /\ NoRow("deleted") \in Row
<1>1. ASSUME NEW r \in Row, r.place.line \in Lines
      PROVE  r.place \in Places
  <2>1. r.place \in RowPlaces
    BY DEF Row
  <2>2. PICK q : q = r.place /\ q \in RowPlaces /\ q.line \in Lines
    BY <1>1, <2>1
  <2>3. q \in Places
    BY <2>2 DEF RowPlaces, Places
  <2> QED
    BY <2>2, <2>3
<1>2. Places \subseteq RowPlaces
  BY DEF Places, RowPlaces
<1>3. [line |-> "unused", pin |-> None] \in RowPlaces /\ [line |-> "deleted", pin |-> None] \in RowPlaces
  BY DEF RowPlaces
<1> QED
  BY <1>1, <1>2, <1>3 DEF Row, NoRow

\* Clearing takes the flag off the rows it names and leaves their places.
LEMMA ClearedFacts ==
  ASSUME address \in [Addresses -> Row], NEW rows
  PROVE  /\ Cleared(rows) \in [Addresses -> Row]
         /\ \A a \in Addresses :
              /\ Cleared(rows)[a].place = address[a].place
              /\ Cleared(rows)[a].isDefault <=> address[a].isDefault /\ a \notin rows
<1>1. ASSUME NEW a \in Addresses
      PROVE  /\ Cleared(rows)[a] \in Row
             /\ Cleared(rows)[a].place = address[a].place
             /\ Cleared(rows)[a].isDefault <=> address[a].isDefault /\ a \notin rows
  <2>1. address[a] \in Row
    OBVIOUS
  <2>2. CASE a \in rows
    <3>1. Cleared(rows)[a] = [address[a] EXCEPT !.isDefault = FALSE]
      BY <2>2, Zenon DEF Cleared
    <3>2. /\ Cleared(rows)[a] \in Row /\ Cleared(rows)[a].place = address[a].place
          /\ ~Cleared(rows)[a].isDefault
      BY <2>1, <3>1 DEF Row
    <3> QED
      BY <2>2, <3>2
  <2>3. CASE a \notin rows
    <3>1. Cleared(rows)[a] = address[a]
      BY <2>3, Zenon DEF Cleared
    <3> QED
      BY <2>1, <2>3, <3>1
  <2> QED
    BY <2>2, <2>3
<1>2. Cleared(rows) = [a \in Addresses |-> Cleared(rows)[a]]
  BY DEF Cleared
<1>3. Cleared(rows) \in [Addresses -> Row]
  <2> DEFINE f == Cleared(rows)
  <2>1. f = [a \in Addresses |-> f[a]] /\ \A a \in Addresses : f[a] \in Row
    BY <1>1, <1>2
  <2> HIDE DEF f
  <2>2. f \in [Addresses -> Row]
    BY <2>1
  <2> QED
    BY <2>2 DEF f
<1> QED
  BY <1>1, <1>3

(***************************************************************************)
(* What each write does, row by row.                                         *)
(***************************************************************************)
\* Row a becomes row and, of the other rows, those cleared lose the flag.
RowWrites(a, row, clear) ==
  /\ a \in Addresses => address'[a] = row
  /\ \A b \in Addresses : b # a =>
       /\ address'[b].place = address[b].place
       /\ address'[b].isDefault <=> address[b].isDefault /\ b \notin clear

LEMMA WriteFacts ==
  ASSUME address \in [Addresses -> Row], NEW clear, NEW a, NEW row \in Row,
         address' = [Cleared(clear) EXCEPT ![a] = row]
  PROVE  RowWrites(a, row, clear) /\ address' \in [Addresses -> Row]
<1> DEFINE f == Cleared(clear)
<1>1. f \in [Addresses -> Row] /\ address' = [f EXCEPT ![a] = row]
  BY ClearedFacts
<1>2. \A b \in Addresses : /\ f[b].place = address[b].place
                           /\ f[b].isDefault <=> address[b].isDefault /\ b \notin clear
  BY ClearedFacts
<1> HIDE DEF f
<1>3. address' \in [Addresses -> Row]
  BY <1>1
<1>4. \A b \in Addresses : b # a => address'[b] = f[b]
  BY <1>1
<1>5. a \in Addresses => address'[a] = row
  BY <1>1
<1> QED
  BY <1>2, <1>3, <1>4, <1>5 DEF RowWrites

LEMMA FlagSet ==
  ASSUME NEW r \in Row, NEW s, s = [r EXCEPT !.isDefault = TRUE]
  PROVE  s = [place |-> r.place, isDefault |-> TRUE] /\ s \in Row
<1>1. /\ r = [place |-> r.place, isDefault |-> r.isDefault]
      /\ r.place \in RowPlaces
  BY DEF Row
<1>2. s = [place |-> r.place, isDefault |-> TRUE]
  BY <1>1 DEF Row
<1> QED
  BY <1>1, <1>2 DEF Row

\* A flag set on one row, where some were cleared.
LEMMA FlagFacts ==
  ASSUME address \in [Addresses -> Row], NEW clear, NEW a \in Addresses,
         address' = [Cleared(clear) EXCEPT ![a].isDefault = TRUE]
  PROVE  /\ RowWrites(a, [place |-> address[a].place, isDefault |-> TRUE], clear)
         /\ address' \in [Addresses -> Row]
<1> DEFINE f == Cleared(clear)
           row == [place |-> address[a].place, isDefault |-> TRUE]
<1>1. f \in [Addresses -> Row] /\ address' = [f EXCEPT ![a].isDefault = TRUE]
      /\ f[a].place = address[a].place
  BY ClearedFacts
<1> HIDE DEF f
<1>2. f[a] \in Row
  BY <1>1
<1>3. [f[a] EXCEPT !.isDefault = TRUE] = row /\ row \in Row
  <2>1. /\ [f[a] EXCEPT !.isDefault = TRUE] = [place |-> f[a].place, isDefault |-> TRUE]
        /\ [place |-> f[a].place, isDefault |-> TRUE] \in Row
    <3>1. PICK s : s = [f[a] EXCEPT !.isDefault = TRUE]
      OBVIOUS
    <3>2. s = [place |-> f[a].place, isDefault |-> TRUE] /\ s \in Row
      BY <1>2, <3>1, FlagSet, Zenon
    <3> QED
      BY <3>1, <3>2, Zenon
  <2>2. [place |-> f[a].place, isDefault |-> TRUE] = row
    BY <1>1
  <2> HIDE DEF row
  <2> QED
    BY <2>1, <2>2, Zenon
<1> HIDE DEF row
<1>4. address' = [f EXCEPT ![a] = row]
  BY <1>1, <1>3, Zenon
<1>5. RowWrites(a, row, clear) /\ address' \in [Addresses -> Row]
  BY <1>3, <1>4, WriteFacts DEF f
<1> QED
  BY <1>5 DEF row

LEMMA ClearedNothing ==
  ASSUME address \in [Addresses -> Row]
  PROVE  Cleared({}) = address
  BY DEF Cleared

(***************************************************************************)
(* The writes of the handlers.                                               *)
(***************************************************************************)
LEMMA InsertWrites ==
  ASSUME SavedTypeOK, NEW p \in Procs, NEW place \in Places, InsertAddress(p, place)
  PROVE  /\ RowWrites(Cardinality(Used) + 1, [place |-> place, isDefault |-> h[p].makeDefault],
                   IF h[p].makeDefault THEN h[p].seen ELSE {})
         /\ address' \in [Addresses -> Row]
<1>1. h[p].makeDefault \in BOOLEAN
  BY AddressHandlerFields DEF InsertAddress, SavedTypeOK
<1> DEFINE row == [place |-> place, isDefault |-> h[p].makeDefault]
           clear == IF h[p].makeDefault THEN h[p].seen ELSE {}
<1>2. row \in Row
  BY <1>1, PlaceOfRow
<1>3. address' = [Cleared(clear) EXCEPT ![Cardinality(Used) + 1] = row]
  BY DEF InsertAddress
<1>4. address \in [Addresses -> Row]
  BY DEF SavedTypeOK, AddressesTypeOK, Row, RowPlaces
<1>5. RowWrites(Cardinality(Used) + 1, row, clear) /\ address' \in [Addresses -> Row]
  <2> HIDE DEF row, clear
  <2> QED
    BY <1>2, <1>3, <1>4, WriteFacts
<1> QED
  BY <1>5

NewPlace(p, line, pin) == Patched(address[h[p].id].place, line, pin)
NewFlag(p, makeDefault, unset) == makeDefault \/ (address[h[p].id].isDefault /\ ~unset)

LEMMA UpdateWrites ==
  ASSUME SavedTypeOK, NEW p \in Procs, NEW line \in Lines \cup {None}, NEW pin \in Pins \cup {None},
         NEW makeDefault \in BOOLEAN, NEW unset \in BOOLEAN,
         UpdateAddress(p, line, pin, makeDefault, unset)
  PROVE  /\ RowWrites(h[p].id, [place |-> NewPlace(p, line, pin),
                                isDefault |-> NewFlag(p, makeDefault, unset)],
                   IF makeDefault THEN Saved ELSE {})
         /\ address' \in [Addresses -> Row]
         /\ h[p].id \in Addresses
         /\ NewPlace(p, line, pin) \in Places /\ NewFlag(p, makeDefault, unset) \in BOOLEAN
<1>1. h[p].id \in Saved /\ h[p].id \in Addresses
  BY DEF UpdateAddress, Saved
<1>2. address \in [Addresses -> Row]
  BY DEF SavedTypeOK, AddressesTypeOK, Row, RowPlaces
<1>3. NewPlace(p, line, pin) \in Places
  <2>1. address[h[p].id].place \in Places
    BY <1>1, <1>2, PlaceOfRow DEF Saved
  <2>2. \A place \in Places : Patched(place, line, pin) \in Places
    BY AddressConstants DEF Places, Patched
  <2> QED
    BY <2>1, <2>2 DEF NewPlace
<1>4. NewFlag(p, makeDefault, unset) \in BOOLEAN
  BY DEF NewFlag
<1> DEFINE row == [place |-> NewPlace(p, line, pin), isDefault |-> NewFlag(p, makeDefault, unset)]
           clear == IF makeDefault THEN Saved ELSE {}
<1>5. row \in Row
  BY <1>3, <1>4, PlaceOfRow
<1>6. address' = [Cleared(clear) EXCEPT ![h[p].id] = row]
  BY DEF UpdateAddress, NewPlace, NewFlag
<1>7. RowWrites(h[p].id, row, clear) /\ address' \in [Addresses -> Row]
  <2> HIDE DEF row, clear
  <2> QED
    BY <1>2, <1>5, <1>6, WriteFacts
<1> QED
  BY <1>1, <1>3, <1>4, <1>7

LEMMA DefaultWrites ==
  ASSUME SavedTypeOK, NEW p \in Procs, WriteDefault(p)
  PROVE  /\ RowWrites(h[p].id, [place |-> address[h[p].id].place, isDefault |-> TRUE], Saved)
         /\ address' \in [Addresses -> Row]
         /\ h[p].id \in Addresses
<1>1. h[p].id \in Addresses /\ address' = [Cleared(Saved) EXCEPT ![h[p].id].isDefault = TRUE]
  BY DEF WriteDefault, Saved
<1> QED
  BY <1>1, FlagFacts DEF SavedTypeOK, AddressesTypeOK, Row, RowPlaces

LEMMA RemoveWrites ==
  ASSUME SavedTypeOK, NEW p \in Procs, RemoveAddress(p)
  PROVE  /\ RowWrites(h[p].id, NoRow("deleted"), {})
         /\ address' \in [Addresses -> Row]
         /\ h[p].id \in Addresses
<1>1. h[p].id \in Addresses
  BY DEF RemoveAddress, Saved
<1>2. address \in [Addresses -> Row]
  BY DEF SavedTypeOK, AddressesTypeOK, Row, RowPlaces
<1> DEFINE row == NoRow("deleted")
<1>3. row \in Row
  BY PlaceOfRow
<1>4. address' = [Cleared({}) EXCEPT ![h[p].id] = row]
  BY <1>2, ClearedNothing DEF RemoveAddress
<1>5. RowWrites(h[p].id, row, {}) /\ address' \in [Addresses -> Row]
  <2> HIDE DEF row
  <2> QED
    BY <1>2, <1>3, <1>4, WriteFacts
<1> QED
  BY <1>1, <1>5

LEMMA PromoteWrites ==
  ASSUME SavedTypeOK, NEW p \in Procs, Promote(p)
  PROVE  /\ RowWrites(h[p].id, [place |-> address[h[p].id].place, isDefault |-> TRUE], {})
         /\ address' \in [Addresses -> Row]
         /\ h[p].id \in Addresses
<1>1. address \in [Addresses -> Row]
  BY DEF SavedTypeOK, AddressesTypeOK, Row, RowPlaces
<1>2. h[p].id \in Addresses /\ address' = [Cleared({}) EXCEPT ![h[p].id].isDefault = TRUE]
  BY <1>1, ClearedNothing DEF Promote, Saved
<1> QED
  BY <1>1, <1>2, FlagFacts

(***************************************************************************)
(* Type correctness.                                                       *)
(***************************************************************************)
LEMMA SavedTypeKept ==
  ASSUME SavedTypeOK, NEW p \in Procs, NEW s \in {Idle} \cup AddressHandlers,
         Goto(p, s) \/ UNCHANGED h,
         address' \in [Addresses -> Row], point' \in Points
  PROVE  SavedTypeOK'
  BY DEF SavedTypeOK, AddressesTypeOK, Row, RowPlaces, Points, Goto

LEMMA SavedTypeInit == SavedInit => SavedTypeOK
<1> SUFFICES ASSUME SavedInit PROVE SavedTypeOK
  OBVIOUS
<1>1. address \in [Addresses -> Row]
  BY PlaceOfRow DEF SavedInit, AddressesInit
<1>2. point \in Points
  BY DEF SavedInit, AddressesInit, NoPlace, Points
<1> QED
  BY <1>1, <1>2 DEF SavedInit, SavedTypeOK, AddressesTypeOK, Row, RowPlaces, Points

LEMMA SavedTypeStep ==
  ASSUME SavedTypeOK, NEW p \in Procs, AddressesStep(p)
  PROVE  SavedTypeOK'
<1> USE AddressHandlerForms
<1>h. /\ h[p] \in {Idle} \cup AddressHandlers
      /\ address \in [Addresses -> Row] /\ point \in Points
  BY DEF SavedTypeOK, AddressesTypeOK, Row, RowPlaces, Points
<1>s. Saved \subseteq Addresses /\ \A a \in Saved : address[a].place \in Places
  BY <1>h, PlaceOfRow DEF Saved
<1>1. ASSUME NEW line \in BOOLEAN, NEW pin \in BOOLEAN, ProfilePut(p, line, pin)
      PROVE  SavedTypeOK'
  <2>1. point' \in Points
    BY <1>1, <1>h DEF ProfilePut, Points
  <2> QED
    BY <1>1, <1>h, <2>1, SavedTypeKept DEF ProfilePut, Immediate
<1>15. ASSUME NEW pin \in BOOLEAN, KycForm(p, pin)
      PROVE  SavedTypeOK'
  <2>1. point' \in Points
    BY <1>15, <1>h DEF KycForm, Points
  <2> QED
    BY <1>15, <1>h, <2>1, SavedTypeKept DEF KycForm, Immediate
<1>2. ASSUME NEW d \in BOOLEAN, CreateAddress(p, d)
      PROVE  SavedTypeOK'
  <2>1. \E s \in AddressHandlers : Goto(p, s)
    BY <1>2, <1>s DEF CreateAddress, Start
  <2> QED
    BY <1>2, <1>h, <2>1, SavedTypeKept DEF CreateAddress, addressVars
<1>3. ASSUME NEW place \in Places, InsertAddress(p, place)
      PROVE  SavedTypeOK'
  <2>1. address' \in [Addresses -> Row]
    BY <1>3, InsertWrites
  <2>2. \E s \in {Idle} \cup AddressHandlers : Goto(p, s)
    BY <1>3 DEF InsertAddress, End
  <2> QED
    BY <1>3, <1>h, <2>1, <2>2, SavedTypeKept DEF InsertAddress
<1>4. ASSUME NEW a \in Addresses, PatchAddress(p, a)
      PROVE  SavedTypeOK'
  <2>1. \E s \in AddressHandlers : Goto(p, s)
    BY <1>4 DEF PatchAddress, Start
  <2> QED
    BY <1>4, <1>h, <2>1, SavedTypeKept DEF PatchAddress, addressVars
<1>5. ASSUME NEW line \in Lines \cup {None}, NEW pin \in Pins \cup {None},
             NEW makeDefault \in BOOLEAN, NEW unset \in BOOLEAN,
             UpdateAddress(p, line, pin, makeDefault, unset)
      PROVE  SavedTypeOK'
  <2>1. address' \in [Addresses -> Row] /\ NewPlace(p, line, pin) \in Places
    BY <1>5, UpdateWrites
  <2>2. \E s \in {Idle} \cup AddressHandlers : Goto(p, s)
    BY <1>5, <2>1 DEF UpdateAddress, End, NewPlace
  <2> QED
    BY <1>5, <1>h, <2>1, <2>2, SavedTypeKept DEF UpdateAddress
<1>6. ASSUME NEW a \in Addresses, SetDefault(p, a)
      PROVE  SavedTypeOK'
  <2>1. \E s \in AddressHandlers : Goto(p, s)
    BY <1>6, <1>s DEF SetDefault, Start
  <2> QED
    BY <1>6, <1>h, <2>1, SavedTypeKept DEF SetDefault, addressVars
<1>7. CASE WriteDefault(p)
  <2>1. address' \in [Addresses -> Row] /\ h[p].place \in Places
    BY <1>7, <1>h, DefaultWrites, AddressHandlerFields DEF WriteDefault
  <2> QED
    BY <1>7, <1>h, <2>1, SavedTypeKept DEF WriteDefault
<1>8. ASSUME NEW a \in Addresses, DeleteAddress(p, a)
      PROVE  SavedTypeOK'
  <2>1. address[a].isDefault \in BOOLEAN
    BY <1>h DEF Row
  <2>2. \E s \in AddressHandlers : Goto(p, s)
    BY <1>8, <2>1 DEF DeleteAddress, Start
  <2> QED
    BY <1>8, <1>h, <2>2, SavedTypeKept DEF DeleteAddress, addressVars
<1>9. CASE RemoveAddress(p)
  <2>1. \E s \in {Idle} \cup AddressHandlers : Goto(p, s)
    BY <1>9 DEF RemoveAddress, End
  <2> QED
    BY <1>9, <1>h, <2>1, RemoveWrites, SavedTypeKept DEF RemoveAddress
<1>10. CASE PromoteRead(p)
  <2>1. \E s \in {Idle} \cup AddressHandlers : Goto(p, s)
    BY <1>10, <1>s DEF PromoteRead, End
  <2>2. point' \in Points
    <3>1. point' = point \/ point' = NoPlace
      BY <1>10 DEF PromoteRead
    <3> QED
      BY <1>h, <3>1 DEF Points, NoPlace
  <2> QED
    BY <1>10, <1>h, <2>1, <2>2, SavedTypeKept DEF PromoteRead
<1>11. CASE Promote(p)
  <2>1. address' \in [Addresses -> Row] /\ h[p].place \in Places
    BY <1>11, <1>h, PromoteWrites, AddressHandlerFields DEF Promote
  <2> QED
    BY <1>11, <1>h, <2>1, SavedTypeKept DEF Promote
<1>12. CASE Mirror(p)
  <2>1. h[p].place \in Places
    BY <1>12, <1>h, AddressHandlerFields DEF Mirror
  <2>2. point' \in Points
    BY <1>12, <1>h, <2>1 DEF Mirror, Mirrored, Points, Places
  <2> QED
    BY <1>12, <1>h, <2>2, SavedTypeKept DEF Mirror, End
<1>13. CASE AddressGone(p)
  BY <1>13, <1>h, SavedTypeKept DEF AddressGone, End, addressVars
<1>14. CASE AddressStop(p)
  BY <1>14, <1>h, SavedTypeKept DEF AddressStop, Stop, End, addressVars
<1> QED
  BY <1>1, <1>2, <1>3, <1>4, <1>5, <1>6, <1>7, <1>8, <1>9, <1>10, <1>11, <1>12, <1>13, <1>14, <1>15
  DEF AddressesStep

LEMMA SavedTypeNext == SavedTypeOK /\ [AddressesNext]_savedVars => SavedTypeOK'
<1> SUFFICES ASSUME SavedTypeOK, [AddressesNext]_savedVars PROVE SavedTypeOK'
  OBVIOUS
<1>1. ASSUME NEW p \in Procs, AddressesStep(p)
      PROVE  SavedTypeOK'
  BY <1>1, SavedTypeStep
<1>2. CASE UNCHANGED savedVars
  BY <1>2 DEF savedVars, addressVars, SavedTypeOK, AddressesTypeOK
<1> QED
  BY <1>1, <1>2 DEF AddressesNext

\* Addresses, the delivery point and handlers in flight have their types.
THEOREM AddressesTypeCorrect == SavedSpec => []SavedTypeOK
<1>1. SavedInit => SavedTypeOK
  BY SavedTypeInit
<1>2. SavedTypeOK /\ [AddressesNext]_savedVars => SavedTypeOK'
  BY SavedTypeNext
<1> QED
  BY <1>1, <1>2, PTL DEF SavedSpec

(***************************************************************************)
(* The invariant.                                                          *)
(***************************************************************************)
OneDefault == \A a, b \in Defaults : a = b

At(place) ==
  /\ point.line \in {place.line, Typed}
  /\ place.pin # None => point.pin \in {place.pin, Typed} \/ point = [line |-> Typed, pin |-> None]

Agrees == \A a \in Defaults : At(address[a].place)

\* What handler s in flight relies on, where none overlaps.
Keeps(s) ==
  /\ s.at = "addressInsert" /\ s.makeDefault => Saved \subseteq s.seen
  /\ s.at = "addressDelete" /\ s.wasDefault => s.id \in Defaults
  /\ s.at \in {"addressPromote", "addressPromoted"} => Defaults = {}

\* What it still owes the delivery point, where none fails.
Carries(s) ==
  /\ s.at = "addressMirror" => \A a \in Defaults : address[a].place = s.place
  /\ s.at # "addressMirror" => Agrees
  /\ s.at \in {"addressDefault", "addressPromoted"} /\ s.id \in Saved =>
       s.place = address[s.id].place

AloneInv ==
  /\ \A p, q \in Procs : h[p] # Idle /\ h[q] # Idle => p = q
  /\ OneDefault
  /\ \A p \in Procs : h[p] # Idle => Keeps(h[p])

AgreeInv ==
  /\ Quiet => Agrees
  /\ \A p \in Procs : h[p] # Idle => Carries(h[p])

AddressInv ==
  /\ SavedTypeOK
  /\ regime # "overlapping" => AloneInv
  /\ regime = "undisturbed" => AgreeInv

\* The defaults after a write are those it spares, and its own row if it flags it.
LEMMA DefaultsAfter ==
  ASSUME NEW a, NEW row, NEW clear, RowWrites(a, row, clear)
  PROVE  \A b \in Defaults' :
           /\ b # a => b \in Defaults /\ b \notin clear /\ address'[b].place = address[b].place
           /\ b = a => row.isDefault /\ address'[b].place = row.place
  BY DEF Defaults, Saved, RowWrites

\* A step after which slot p alone may be busy.
LEMMA AloneKept ==
  ASSUME NEW p \in Procs, \A q \in Procs : q # p => h'[q] = Idle,
         OneDefault', h'[p] # Idle => Keeps(h[p])'
  PROVE  AloneInv'
<1>1. (\A q, r \in Procs : h[q] # Idle /\ h[r] # Idle => q = r)'
  BY DEF Idle
<1>2. (\A q \in Procs : h[q] # Idle => Keeps(h[q]))'
  BY DEF Idle
<1> QED
  BY <1>1, <1>2 DEF AloneInv

\* The step of slot p leaves the others idle.
LEMMA OthersIdle ==
  ASSUME SavedTypeOK, AloneInv, regime # "overlapping", NEW p \in Procs
  PROVE  /\ \A s : Start(p, s) => h'[p] = s /\ \A q \in Procs : q # p => h'[q] = Idle
         /\ Immediate(p) => \A q \in Procs : h'[q] = Idle
         /\ \A s : h[p] # Idle /\ Goto(p, s) =>
              h'[p] = s /\ \A q \in Procs : q # p => h'[q] = Idle
<1>1. h \in [Procs -> {Idle} \cup AddressHandlers]
  BY DEF SavedTypeOK
<1>2. ASSUME NEW s, Start(p, s)
      PROVE  h'[p] = s /\ \A q \in Procs : q # p => h'[q] = Idle
  BY <1>1, <1>2 DEF Start, MayStart, Quiet, Goto
<1>3. Immediate(p) => \A q \in Procs : h'[q] = Idle
  BY DEF Immediate, MayStart, Quiet
<1>4. ASSUME NEW s, h[p] # Idle, Goto(p, s)
      PROVE  h'[p] = s /\ \A q \in Procs : q # p => h'[q] = Idle
  BY <1>1, <1>4 DEF Goto, AloneInv
<1> QED
  BY <1>2, <1>3, <1>4

\* Where nothing overlaps, one address at most is the default.
LEMMA AloneStep ==
  ASSUME SavedTypeOK, AloneInv, regime # "overlapping", NEW p \in Procs, AddressesStep(p)
  PROVE  AloneInv'
<1>i. Idle.at = "idle"
  BY DEF Idle
<1>u. ASSUME addressVars' = addressVars
      PROVE  Saved' = Saved /\ Defaults' = Defaults /\ OneDefault'
  BY <1>u DEF addressVars, Saved, Defaults, AloneInv, OneDefault
<1>1. ASSUME NEW line \in BOOLEAN, NEW pin \in BOOLEAN, ProfilePut(p, line, pin)
      PROVE  AloneInv'
  <2>1. OneDefault'
    BY <1>1 DEF ProfilePut, Saved, Defaults, AloneInv, OneDefault
  <2> QED
    BY <1>1, <2>1, OthersIdle, AloneKept DEF ProfilePut
<1>15. ASSUME NEW pin \in BOOLEAN, KycForm(p, pin)
      PROVE  AloneInv'
  <2>1. OneDefault'
    BY <1>15 DEF KycForm, Saved, Defaults, AloneInv, OneDefault
  <2> QED
    BY <1>15, <2>1, OthersIdle, AloneKept DEF KycForm
<1>2. ASSUME NEW d \in BOOLEAN, CreateAddress(p, d)
      PROVE  AloneInv'
  <2>1. \E m : /\ h'[p] = [at |-> "addressInsert", makeDefault |-> m, seen |-> Saved]
               /\ \A q \in Procs : q # p => h'[q] = Idle
    BY <1>2, OthersIdle DEF CreateAddress
  <2>2. Keeps(h[p])'
    BY <1>2, <1>u, <2>1 DEF CreateAddress, Keeps
  <2> QED
    BY <1>2, <1>u, <2>1, <2>2, AloneKept DEF CreateAddress
<1>3. ASSUME NEW place \in Places, InsertAddress(p, place)
      PROVE  AloneInv'
  <2>1. PICK a, row, clear :
          /\ RowWrites(a, row, clear)
          /\ row.isDefault = h[p].makeDefault
          /\ clear = IF h[p].makeDefault THEN h[p].seen ELSE {}
    <3> DEFINE new == [place |-> place, isDefault |-> h[p].makeDefault]
               cleared == IF h[p].makeDefault THEN h[p].seen ELSE {}
    <3>1. RowWrites(Cardinality(Used) + 1, new, cleared) /\ new.isDefault = h[p].makeDefault
      BY <1>3, InsertWrites
    <3> HIDE DEF new
    <3> QED
      BY <3>1, Zenon
  <2>2. h[p] # Idle /\ h[p].makeDefault \in BOOLEAN
    BY <1>3, <1>i, AddressHandlerFields DEF InsertAddress, SavedTypeOK
  <2>3. h[p].makeDefault => Saved \subseteq clear
    BY <1>3, <2>1, <2>2 DEF InsertAddress, AloneInv, Keeps
  <2>4. OneDefault'
    BY <2>1, <2>2, <2>3, DefaultsAfter DEF OneDefault, AloneInv, Defaults
  <2>5. /\ h'[p].at \in {"idle", "addressMirror"}
        /\ \A q \in Procs : q # p => h'[q] = Idle
    BY <1>3, <1>i, <2>2, OthersIdle DEF InsertAddress, End
  <2>6. Keeps(h[p])'
    BY <2>5 DEF Keeps
  <2> QED
    BY <2>4, <2>5, <2>6, AloneKept
<1>4. ASSUME NEW a \in Addresses, PatchAddress(p, a)
      PROVE  AloneInv'
  <2>1. h'[p].at = "addressUpdate" /\ \A q \in Procs : q # p => h'[q] = Idle
    BY <1>4, OthersIdle DEF PatchAddress
  <2>2. Keeps(h[p])'
    BY <2>1 DEF Keeps
  <2> QED
    BY <1>4, <1>u, <2>1, <2>2, AloneKept DEF PatchAddress
<1>5. ASSUME NEW line \in Lines \cup {None}, NEW pin \in Pins \cup {None},
             NEW makeDefault \in BOOLEAN, NEW unset \in BOOLEAN,
             UpdateAddress(p, line, pin, makeDefault, unset)
      PROVE  AloneInv'
  <2>1. PICK row, clear :
          /\ RowWrites(h[p].id, row, clear)
          /\ row.isDefault = NewFlag(p, makeDefault, unset)
          /\ clear = IF makeDefault THEN Saved ELSE {}
    <3> DEFINE new == [place |-> NewPlace(p, line, pin), isDefault |-> NewFlag(p, makeDefault, unset)]
               cleared == IF makeDefault THEN Saved ELSE {}
    <3>1. RowWrites(h[p].id, new, cleared) /\ new.isDefault = NewFlag(p, makeDefault, unset)
      BY <1>5, UpdateWrites
    <3> HIDE DEF new
    <3> QED
      BY <3>1, Zenon
  <2>2. h[p] # Idle /\ makeDefault \in BOOLEAN
    BY <1>5, <1>i, AddressHandlerFields DEF UpdateAddress, SavedTypeOK
  <2>3. ASSUME makeDefault
        PROVE  OneDefault'
    BY <2>1, <2>3, DefaultsAfter DEF OneDefault, Defaults
  <2>4. ASSUME ~makeDefault
        PROVE  OneDefault'
    <3>1. NewFlag(p, makeDefault, unset) => h[p].id \in Defaults
      BY <1>5, <2>4 DEF NewFlag, UpdateAddress, Defaults
    <3>2. Defaults' \subseteq Defaults
      BY <2>1, <3>1, DefaultsAfter
    <3> QED
      BY <3>2 DEF OneDefault, AloneInv
  <2>5. /\ h'[p].at \in {"idle", "addressMirror"}
        /\ \A q \in Procs : q # p => h'[q] = Idle
    BY <1>5, <1>i, <2>2, OthersIdle DEF UpdateAddress, End
  <2>6. OneDefault' /\ Keeps(h[p])'
    BY <2>2, <2>3, <2>4, <2>5 DEF Keeps
  <2> QED
    BY <2>5, <2>6, AloneKept
<1>6. ASSUME NEW a \in Addresses, SetDefault(p, a)
      PROVE  AloneInv'
  <2>1. h'[p].at = "addressDefault" /\ \A q \in Procs : q # p => h'[q] = Idle
    BY <1>6, OthersIdle DEF SetDefault
  <2>2. Keeps(h[p])'
    BY <2>1 DEF Keeps
  <2> QED
    BY <1>6, <1>u, <2>1, <2>2, AloneKept DEF SetDefault
<1>7. CASE WriteDefault(p)
  <2>1. OneDefault'
    <3>1. PICK row : RowWrites(h[p].id, row, Saved)
      BY <1>7, DefaultWrites
    <3> QED
      BY <3>1, DefaultsAfter DEF OneDefault, Defaults
  <2>2. h'[p].at = "addressMirror" /\ \A q \in Procs : q # p => h'[q] = Idle
    BY <1>7, <1>i, OthersIdle DEF WriteDefault
  <2>3. Keeps(h[p])'
    BY <2>2 DEF Keeps
  <2> QED
    BY <2>1, <2>2, <2>3, AloneKept
<1>8. ASSUME NEW a \in Addresses, DeleteAddress(p, a)
      PROVE  AloneInv'
  <2>1. /\ h'[p] = [at |-> "addressDelete", id |-> a, wasDefault |-> address[a].isDefault]
        /\ \A q \in Procs : q # p => h'[q] = Idle
    BY <1>8, OthersIdle DEF DeleteAddress
  <2>2. a \in Saved /\ addressVars' = addressVars
    BY <1>8 DEF DeleteAddress
  <2>3. Keeps(h[p])'
    BY <1>u, <2>1, <2>2 DEF Keeps, Defaults
  <2> QED
    BY <1>u, <2>1, <2>2, <2>3, AloneKept
<1>9. CASE RemoveAddress(p)
  <2>1. PICK row : RowWrites(h[p].id, row, {}) /\ ~row.isDefault
    <3>1. ~NoRow("deleted").isDefault
      BY DEF NoRow
    <3> QED
      BY <1>9, <3>1, RemoveWrites
  <2>2. \A b \in Defaults' : b \in Defaults /\ b # h[p].id
    BY <2>1, DefaultsAfter
  <2>3. OneDefault'
    BY <2>2 DEF OneDefault, AloneInv
  <2>4. h[p] # Idle
    BY <1>9, <1>i DEF RemoveAddress
  <2>5. h[p].wasDefault => h[p].id \in Defaults
    BY <1>9, <2>4 DEF RemoveAddress, AloneInv, Keeps
  <2>6. h[p].wasDefault => Defaults' = {}
    BY <2>2, <2>5 DEF AloneInv, OneDefault
  <2>7. /\ h'[p] = IF h[p].wasDefault THEN [at |-> "addressPromote"] ELSE Idle
        /\ \A q \in Procs : q # p => h'[q] = Idle
    BY <1>9, <2>4, OthersIdle DEF RemoveAddress, End
  <2>8. Keeps(h[p])'
    BY <1>i, <2>6, <2>7 DEF Keeps
  <2> QED
    BY <2>3, <2>7, <2>8, AloneKept
<1>10. CASE PromoteRead(p)
  <2>1. h[p] # Idle
    BY <1>10, <1>i DEF PromoteRead
  <2>2. Defaults = {}
    BY <1>10, <2>1 DEF PromoteRead, AloneInv, Keeps
  <2>3. Defaults' = {}
    BY <1>10, <2>2 DEF PromoteRead, Defaults, Saved
  <2>4. /\ h'[p].at \in {"idle", "addressPromoted"}
        /\ \A q \in Procs : q # p => h'[q] = Idle
    <3>1. \E s : Goto(p, s) /\ s.at \in {"idle", "addressPromoted"}
      <4>1. CASE Saved = {}
        <5>1. Goto(p, Idle)
          BY <1>10, <4>1 DEF PromoteRead, End
        <5> QED
          BY <1>i, <5>1
      <4>2. CASE Saved # {}
        <5>1. PICK a \in Saved :
                Goto(p, [at |-> "addressPromoted", id |-> a, place |-> address[a].place])
          BY <1>10, <4>2 DEF PromoteRead
        <5> QED
          BY <5>1
      <4> QED
        BY <4>1, <4>2
    <3> QED
      BY <2>1, <3>1, OthersIdle
  <2>5. OneDefault' /\ Keeps(h[p])'
    BY <2>3, <2>4 DEF OneDefault, Keeps
  <2> QED
    BY <2>4, <2>5, AloneKept
<1>11. CASE Promote(p)
  <2>1. h[p] # Idle
    BY <1>11, <1>i DEF Promote
  <2>2. Defaults = {}
    BY <1>11, <2>1 DEF Promote, AloneInv, Keeps
  <2>3. OneDefault'
    <3>1. PICK row : RowWrites(h[p].id, row, {})
      BY <1>11, PromoteWrites
    <3> QED
      BY <2>2, <3>1, DefaultsAfter DEF OneDefault
  <2>4. h'[p].at = "addressMirror" /\ \A q \in Procs : q # p => h'[q] = Idle
    BY <1>11, <2>1, OthersIdle DEF Promote
  <2>5. Keeps(h[p])'
    BY <2>4 DEF Keeps
  <2> QED
    BY <2>3, <2>4, <2>5, AloneKept
<1>12. CASE Mirror(p)
  <2>1. OneDefault'
    BY <1>12 DEF Mirror, Saved, Defaults, AloneInv, OneDefault
  <2>2. h'[p] = Idle /\ \A q \in Procs : q # p => h'[q] = Idle
    BY <1>12, <1>i, OthersIdle DEF Mirror, End
  <2> QED
    BY <2>1, <2>2, AloneKept
<1>13. CASE AddressGone(p) \/ AddressStop(p)
  <2>1. h'[p] = Idle /\ \A q \in Procs : q # p => h'[q] = Idle
    BY <1>13, <1>i, OthersIdle DEF AddressGone, AddressStop, Stop, End
  <2> QED
    BY <1>13, <1>u, <2>1, AloneKept DEF AddressGone, AddressStop
<1> QED
  BY <1>1, <1>2, <1>3, <1>4, <1>5, <1>6, <1>7, <1>8, <1>9, <1>10, <1>11, <1>12, <1>13, <1>15
  DEF AddressesStep

LEMMA AgreeKept ==
  ASSUME NEW p \in Procs, \A q \in Procs : q # p => h'[q] = Idle,
         h'[p] = Idle => Agrees', h'[p] # Idle => Carries(h[p])'
  PROVE  AgreeInv'
<1>1. Quiet' => Agrees'
  BY DEF Quiet, Idle
<1>2. (\A q \in Procs : h[q] # Idle => Carries(h[q]))'
  BY DEF Idle
<1> QED
  BY <1>1, <1>2 DEF AgreeInv

LEMMA AgreesStays ==
  ASSUME Agrees, point' = point,
         \A a \in Defaults' : a \in Defaults /\ address'[a].place = address[a].place
  PROVE  Agrees'
<1>1. \A l : At(l) => At(l)'
  BY DEF At
<1> QED
  BY <1>1 DEF Agrees

\* A handler that starts finds the delivery point in agreement, and leaves it so.
LEMMA AgreeStart ==
  ASSUME SavedTypeOK, AloneInv, AgreeInv, regime # "overlapping", NEW p \in Procs, NEW s,
         Start(p, s), addressVars' = addressVars, s.at # "addressMirror", s.at # "addressPromoted",
         s.at = "addressDefault" => s.place = address[s.id].place
  PROVE  AgreeInv'
<1>1. h'[p] = s /\ \A q \in Procs : q # p => h'[q] = Idle
  BY OthersIdle
<1>2. Agrees
  BY DEF Start, MayStart, AgreeInv
<1>3. address' = address /\ point' = point
  BY DEF addressVars
<1>4. Agrees'
  BY <1>2, <1>3, AgreesStays DEF Defaults, Saved
<1>5. Carries(h[p])'
  BY <1>1, <1>3, <1>4 DEF Carries
<1> QED
  BY <1>1, <1>4, <1>5, AgreeKept

\* A write that leaves a default owes the point its place.
LEMMA AgreeWrite ==
  ASSUME NEW p \in Procs, \A q \in Procs : q # p => h'[q] = Idle,
         NEW place, h'[p] = [at |-> "addressMirror", place |-> place],
         \A a \in Defaults' : address'[a].place = place
  PROVE  AgreeInv'
<1>1. Carries(h[p])'
  BY DEF Carries
<1>2. h'[p] # Idle
  BY DEF Idle
<1> QED
  BY <1>1, <1>2, AgreeKept

\* A write that leaves no new default leaves the point as it agreed.
LEMMA AgreeEnd ==
  ASSUME Agrees, point' = point, NEW p \in Procs, \A q \in Procs : h'[q] = Idle,
         \A a \in Defaults' : a \in Defaults /\ address'[a].place = address[a].place
  PROVE  AgreeInv'
<1>1. Agrees'
  BY AgreesStays
<1> QED
  BY <1>1, AgreeKept

\* Where nothing fails either, the delivery point follows the default.
LEMMA AgreeStep ==
  ASSUME SavedTypeOK, AloneInv, AgreeInv, regime = "undisturbed", NEW p \in Procs,
         AddressesStep(p)
  PROVE  AgreeInv'
<1>i. Idle.at = "idle" /\ regime # "overlapping"
  BY DEF Idle
<1>c. h[p] # Idle => Carries(h[p])
  BY DEF AgreeInv
<1>1. ASSUME NEW line \in BOOLEAN, NEW pin \in BOOLEAN, ProfilePut(p, line, pin)
      PROVE  AgreeInv'
  <2>1. Agrees /\ \A q \in Procs : h'[q] = Idle
    BY <1>1, <1>i, OthersIdle DEF ProfilePut, Immediate, MayStart, AgreeInv
  <2>2. /\ point'.line \in {point.line, Typed} /\ point'.pin \in {point.pin, Typed}
        /\ point = [line |-> Typed, pin |-> None] => point' = point \/ point'.pin = Typed
        /\ address' = address
    BY <1>1 DEF ProfilePut
  <2>3. Agrees'
    <3>1. Defaults' = Defaults
      BY <2>2 DEF Defaults, Saved
    <3>2. \A l : At(l) => At(l)'
      BY <2>2 DEF At
    <3> QED
      BY <2>1, <2>2, <3>1, <3>2 DEF Agrees
  <2> QED
    BY <2>1, <2>3, AgreeKept
<1>15. ASSUME NEW pin \in BOOLEAN, KycForm(p, pin)
      PROVE  AgreeInv'
  <2>1. Agrees /\ \A q \in Procs : h'[q] = Idle
    BY <1>15, <1>i, OthersIdle DEF KycForm, Immediate, MayStart, AgreeInv
  <2>2. point'.line = Typed /\ (point'.pin = Typed \/ point' = [line |-> Typed, pin |-> None])
    BY <1>15 DEF KycForm
  <2>3. \A place : At(place)'
    BY <2>2 DEF At
  <2>4. Agrees'
    BY <2>3 DEF Agrees
  <2> QED
    BY <2>1, <2>4, AgreeKept
<1>2. ASSUME NEW d \in BOOLEAN, CreateAddress(p, d)
      PROVE  AgreeInv'
  <2>1. \E s : Start(p, s) /\ s.at = "addressInsert"
    BY <1>2 DEF CreateAddress
  <2> QED
    BY <1>2, <1>i, <2>1, AgreeStart DEF CreateAddress
<1>3. ASSUME NEW place \in Places, InsertAddress(p, place)
      PROVE  AgreeInv'
  <2>1. PICK a, row, clear :
          /\ RowWrites(a, row, clear)
          /\ row.isDefault = h[p].makeDefault /\ row.place = place
          /\ clear = IF h[p].makeDefault THEN h[p].seen ELSE {}
    <3> DEFINE new == [place |-> place, isDefault |-> h[p].makeDefault]
               cleared == IF h[p].makeDefault THEN h[p].seen ELSE {}
    <3>1. /\ RowWrites(Cardinality(Used) + 1, new, cleared)
          /\ new.isDefault = h[p].makeDefault /\ new.place = place
      BY <1>3, InsertWrites
    <3> HIDE DEF new
    <3> QED
      BY <3>1, Zenon
  <2>2. h[p] # Idle /\ h[p].makeDefault \in BOOLEAN
    BY <1>3, <1>i, AddressHandlerFields DEF InsertAddress, SavedTypeOK
  <2>3. ASSUME h[p].makeDefault
        PROVE  AgreeInv'
    <3>1. Saved \subseteq clear
      BY <1>3, <2>1, <2>2, <2>3 DEF InsertAddress, AloneInv, Keeps
    <3>2. \A b \in Defaults' : address'[b].place = place
      BY <2>1, <3>1, DefaultsAfter DEF Defaults
    <3>3. /\ h'[p] = [at |-> "addressMirror", place |-> place]
          /\ \A q \in Procs : q # p => h'[q] = Idle
      BY <1>3, <1>i, <2>2, <2>3, OthersIdle DEF InsertAddress
    <3> QED
      BY <3>2, <3>3, AgreeWrite
  <2>4. ASSUME ~h[p].makeDefault
        PROVE  AgreeInv'
    <3>1. \A b \in Defaults' : b \in Defaults /\ address'[b].place = address[b].place
      BY <2>1, <2>2, <2>4, DefaultsAfter
    <3>2. \A q \in Procs : h'[q] = Idle
      BY <1>3, <1>i, <2>2, <2>4, OthersIdle DEF InsertAddress, End
    <3>3. Agrees /\ point' = point
      BY <1>3, <1>c, <2>2 DEF InsertAddress, Carries
    <3> QED
      BY <3>1, <3>2, <3>3, AgreeEnd
  <2> QED
    BY <2>2, <2>3, <2>4
<1>4. ASSUME NEW a \in Addresses, PatchAddress(p, a)
      PROVE  AgreeInv'
  <2>1. \E s : Start(p, s) /\ s.at = "addressUpdate"
    BY <1>4 DEF PatchAddress
  <2> QED
    BY <1>4, <1>i, <2>1, AgreeStart DEF PatchAddress
<1>5. ASSUME NEW line \in Lines \cup {None}, NEW pin \in Pins \cup {None},
             NEW makeDefault \in BOOLEAN, NEW unset \in BOOLEAN,
             UpdateAddress(p, line, pin, makeDefault, unset)
      PROVE  AgreeInv'
  <2>1. PICK row, clear :
          /\ RowWrites(h[p].id, row, clear)
          /\ row.isDefault = NewFlag(p, makeDefault, unset) /\ row.place = NewPlace(p, line, pin)
          /\ clear = IF makeDefault THEN Saved ELSE {}
    <3> DEFINE new == [place |-> NewPlace(p, line, pin), isDefault |-> NewFlag(p, makeDefault, unset)]
               cleared == IF makeDefault THEN Saved ELSE {}
    <3>1. /\ RowWrites(h[p].id, new, cleared)
          /\ new.isDefault = NewFlag(p, makeDefault, unset) /\ new.place = NewPlace(p, line, pin)
      BY <1>5, UpdateWrites
    <3> HIDE DEF new
    <3> QED
      BY <3>1, Zenon
  <2>2. /\ h[p] # Idle /\ makeDefault \in BOOLEAN /\ NewFlag(p, makeDefault, unset) \in BOOLEAN
    BY <1>5, <1>i, AddressHandlerFields, UpdateWrites DEF UpdateAddress, SavedTypeOK
  <2>3. ASSUME NewFlag(p, makeDefault, unset)
        PROVE  AgreeInv'
    <3>1. makeDefault \/ h[p].id \in Defaults
      BY <1>5, <2>3 DEF NewFlag, UpdateAddress, Defaults
    <3>2. \A b \in Defaults' : b = h[p].id
      BY <2>1, <2>2, <3>1, DefaultsAfter DEF AloneInv, OneDefault, Defaults
    <3>3. \A b \in Defaults' : address'[b].place = NewPlace(p, line, pin)
      BY <2>1, <3>2, DefaultsAfter
    <3>4. /\ h'[p] = [at |-> "addressMirror", place |-> NewPlace(p, line, pin)]
          /\ \A q \in Procs : q # p => h'[q] = Idle
      <4>1. Goto(p, [at |-> "addressMirror", place |-> NewPlace(p, line, pin)])
        BY <1>5, <2>3 DEF UpdateAddress, NewFlag, NewPlace
      <4> QED
        BY <1>i, <2>2, <4>1, OthersIdle
    <3> QED
      BY <3>3, <3>4, AgreeWrite
  <2>4. ASSUME ~NewFlag(p, makeDefault, unset)
        PROVE  AgreeInv'
    <3>1. \A b \in Defaults' : b \in Defaults /\ address'[b].place = address[b].place
      BY <2>1, <2>4, DefaultsAfter
    <3>2. \A q \in Procs : h'[q] = Idle
      <4>1. Goto(p, Idle)
        BY <1>5, <2>4 DEF UpdateAddress, NewFlag, End
      <4> QED
        BY <1>i, <2>2, <4>1, OthersIdle
    <3>3. Agrees /\ point' = point
      BY <1>5, <1>c, <2>2 DEF UpdateAddress, Carries
    <3> QED
      BY <3>1, <3>2, <3>3, AgreeEnd
  <2> QED
    BY <2>2, <2>3, <2>4
<1>6. ASSUME NEW a \in Addresses, SetDefault(p, a)
      PROVE  AgreeInv'
  <2>1. \E s : Start(p, s) /\ s.at = "addressDefault" /\ s.place = address[s.id].place
    BY <1>6 DEF SetDefault
  <2> QED
    BY <1>6, <1>i, <2>1, AgreeStart DEF SetDefault
<1>7. CASE WriteDefault(p)
  <2>1. h[p] # Idle /\ h[p].place = address[h[p].id].place
    BY <1>7, <1>i, <1>c DEF WriteDefault, Carries
  <2>2. PICK row : RowWrites(h[p].id, row, Saved) /\ row.place = h[p].place
    <3> DEFINE new == [place |-> address[h[p].id].place, isDefault |-> TRUE]
    <3>1. RowWrites(h[p].id, new, Saved) /\ new.place = h[p].place
      BY <1>7, <2>1, DefaultWrites
    <3> HIDE DEF new
    <3> QED
      BY <3>1, Zenon
  <2>3. \A b \in Defaults' : address'[b].place = h[p].place
    BY <2>2, DefaultsAfter DEF Defaults
  <2>4. /\ h'[p] = [at |-> "addressMirror", place |-> h[p].place]
        /\ \A q \in Procs : q # p => h'[q] = Idle
    BY <1>7, <1>i, <2>1, OthersIdle DEF WriteDefault
  <2> QED
    BY <2>3, <2>4, AgreeWrite
<1>8. ASSUME NEW a \in Addresses, DeleteAddress(p, a)
      PROVE  AgreeInv'
  <2>1. \E s : Start(p, s) /\ s.at = "addressDelete"
    BY <1>8 DEF DeleteAddress
  <2> QED
    BY <1>8, <1>i, <2>1, AgreeStart DEF DeleteAddress
<1>9. CASE RemoveAddress(p)
  <2>1. PICK row : RowWrites(h[p].id, row, {}) /\ ~row.isDefault
    <3>1. ~NoRow("deleted").isDefault
      BY DEF NoRow
    <3> QED
      BY <1>9, <3>1, RemoveWrites
  <2>2. \A b \in Defaults' : /\ b \in Defaults /\ b # h[p].id
                             /\ address'[b].place = address[b].place
    BY <2>1, DefaultsAfter
  <2>3. h[p] # Idle
    BY <1>9, <1>i DEF RemoveAddress
  <2>4. Agrees' /\ (h[p].wasDefault => Defaults' = {})
    <3>1. Agrees /\ point' = point
      BY <1>9, <1>c, <2>3 DEF RemoveAddress, Carries
    <3>2. h[p].wasDefault => h[p].id \in Defaults
      BY <1>9, <2>3 DEF RemoveAddress, AloneInv, Keeps
    <3> QED
      BY <2>2, <3>1, <3>2, AgreesStays DEF AloneInv, OneDefault
  <2>5. /\ h'[p] = IF h[p].wasDefault THEN [at |-> "addressPromote"] ELSE Idle
        /\ \A q \in Procs : q # p => h'[q] = Idle
    BY <1>9, <1>i, <2>3, OthersIdle DEF RemoveAddress, End
  <2>6. h'[p] # Idle => Carries(h[p])'
    BY <2>4, <2>5 DEF Carries
  <2> QED
    BY <2>4, <2>5, <2>6, AgreeKept
<1>10. CASE PromoteRead(p)
  <2>1. h[p] # Idle /\ Defaults = {}
    BY <1>10, <1>i DEF PromoteRead, AloneInv, Keeps
  <2>2. Defaults' = {} /\ Agrees'
    BY <1>10, <2>1 DEF PromoteRead, Defaults, Saved, Agrees
  <2>3. CASE Saved = {}
    <3>1. Goto(p, Idle)
      BY <1>10, <2>3 DEF PromoteRead, End
    <3>2. h'[p] = Idle /\ \A q \in Procs : q # p => h'[q] = Idle
      BY <1>i, <2>1, <3>1, OthersIdle
    <3> QED
      BY <2>2, <3>2, AgreeKept
  <2>4. CASE Saved # {}
    <3>1. PICK a \in Saved :
            Goto(p, [at |-> "addressPromoted", id |-> a, place |-> address[a].place])
      BY <1>10, <2>4 DEF PromoteRead
    <3>2. /\ h'[p] = [at |-> "addressPromoted", id |-> a, place |-> address[a].place]
          /\ \A q \in Procs : q # p => h'[q] = Idle
      BY <1>i, <2>1, <3>1, OthersIdle
    <3>3. address' = address
      BY <1>10 DEF PromoteRead
    <3>4. Carries(h[p])'
      BY <2>2, <3>2, <3>3 DEF Carries
    <3> QED
      BY <2>2, <3>2, <3>4, AgreeKept
  <2> QED
    BY <2>3, <2>4
<1>11. CASE Promote(p)
  <2>1. h[p] # Idle /\ Defaults = {} /\ h[p].place = address[h[p].id].place
    BY <1>11, <1>i, <1>c DEF Promote, AloneInv, Keeps, Carries
  <2>2. PICK row : RowWrites(h[p].id, row, {}) /\ row.place = h[p].place
    <3> DEFINE new == [place |-> address[h[p].id].place, isDefault |-> TRUE]
    <3>1. RowWrites(h[p].id, new, {}) /\ new.place = h[p].place
      BY <1>11, <2>1, PromoteWrites
    <3> HIDE DEF new
    <3> QED
      BY <3>1, Zenon
  <2>3. \A b \in Defaults' : address'[b].place = h[p].place
    BY <2>1, <2>2, DefaultsAfter
  <2>4. /\ h'[p] = [at |-> "addressMirror", place |-> h[p].place]
        /\ \A q \in Procs : q # p => h'[q] = Idle
    BY <1>11, <1>i, <2>1, OthersIdle DEF Promote
  <2> QED
    BY <2>3, <2>4, AgreeWrite
<1>12. CASE Mirror(p)
  <2>1. h[p] # Idle /\ \A a \in Defaults : address[a].place = h[p].place
    BY <1>12, <1>i, <1>c DEF Mirror, Carries
  <2>2. /\ point'.line = h[p].place.line
        /\ h[p].place.pin # None => point'.pin = h[p].place.pin
        /\ address' = address
    <3>1. h[p].place \in Places
      BY <1>12, AddressHandlerFields DEF Mirror, SavedTypeOK
    <3> QED
      BY <1>12, <3>1 DEF Mirror, Mirrored, Places
  <2>3. Agrees'
    BY <2>1, <2>2 DEF Agrees, At, Defaults, Saved
  <2>4. h'[p] = Idle /\ \A q \in Procs : q # p => h'[q] = Idle
    BY <1>12, <1>i, <2>1, OthersIdle DEF Mirror, End
  <2> QED
    BY <2>3, <2>4, AgreeKept
<1>13. CASE AddressGone(p)
  <2>1. h[p] # Idle /\ Agrees
    BY <1>13, <1>i, <1>c DEF AddressGone, Carries
  <2>2. \A q \in Procs : h'[q] = Idle
    BY <1>13, <1>i, <2>1, OthersIdle DEF AddressGone, End
  <2>3. address' = address /\ point' = point
    BY <1>13 DEF AddressGone, addressVars
  <2> QED
    BY <2>1, <2>2, <2>3, AgreeEnd DEF Defaults, Saved
<1>14. CASE AddressStop(p)
  BY <1>14 DEF AddressStop, Stop, MayFail
<1> QED
  BY <1>1, <1>2, <1>3, <1>4, <1>5, <1>6, <1>7, <1>8, <1>9, <1>10, <1>11, <1>12, <1>13, <1>14, <1>15
  DEF AddressesStep

LEMMA AddressInvInit == SavedInit => AddressInv
<1> SUFFICES ASSUME SavedInit PROVE AddressInv
  OBVIOUS
<1>1. Defaults = {} /\ \A p \in Procs : h[p] = Idle
  BY AddressConstants DEF SavedInit, AddressesInit, Defaults, Saved, NoRow
<1> QED
  BY <1>1, SavedTypeInit DEF AddressInv, AloneInv, AgreeInv, OneDefault, Agrees

LEMMA AddressInvNext == AddressInv /\ [AddressesNext]_savedVars => AddressInv'
<1> SUFFICES ASSUME AddressInv, [AddressesNext]_savedVars PROVE AddressInv'
  OBVIOUS
<1>1. SavedTypeOK /\ SavedTypeOK'
  BY SavedTypeNext DEF AddressInv
<1>2. ASSUME NEW p \in Procs, AddressesStep(p), regime' = regime
      PROVE  AddressInv'
  BY <1>1, <1>2, AloneStep, AgreeStep DEF AddressInv
<1>3. CASE UNCHANGED savedVars
  <2>1. address' = address /\ point' = point /\ regime' = regime /\ h' = h
    BY <1>3 DEF savedVars, addressVars
  <2> QED
    BY <1>1, <2>1
    DEF AddressInv, AloneInv, AgreeInv, OneDefault, Agrees, At, Keeps, Carries, Defaults, Saved,
        Quiet, Idle
<1> QED
  BY <1>2, <1>3 DEF AddressesNext

LEMMA AddressesKept == AddressInv => DefaultsAgree
<1> SUFFICES ASSUME AddressInv PROVE DefaultsAgree
  OBVIOUS
<1>1. regime # "overlapping" => OneDefault
  BY DEF AddressInv, AloneInv
<1>2. regime = "undisturbed" /\ Quiet => Agrees
  BY DEF AddressInv, AgreeInv
<1> QED
  BY <1>1, <1>2, Zenon DEF OneDefault, Agrees, At, DefaultsAgree

\* One address at most is the default where no handlers overlap, whatever fails;
\* and where none fails, the delivery point orders read is the default's, or typed:
\* where the default has a pin, the point lacks one only by the form of the KYC.
THEOREM DefaultsStayAgreed == SavedSpec => []DefaultsAgree
<1>1. SavedInit => AddressInv
  BY AddressInvInit
<1>2. AddressInv /\ [AddressesNext]_savedVars => AddressInv'
  BY AddressInvNext
<1> QED
  BY <1>1, <1>2, AddressesKept, PTL DEF SavedSpec
=============================================================================
