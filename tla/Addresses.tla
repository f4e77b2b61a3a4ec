-------------------------------- MODULE Addresses --------------------------------
(***************************************************************************)
(* The saved addresses of one shop and the delivery point its orders read   *)
(* off the ConsumerProfile: the address handlers of identity/routes.ts, and  *)
(* the other writers of the point.  Address n is the n-th created.  A place   *)
(* is a line, which every address has, and a pin, which it may lack and which *)
(* may be changed without the line: lat, lng and city are columns that every  *)
(* handler writes alike, so one of them stands for the three.                *)
(***************************************************************************)
EXTENDS InFlight, FiniteSets

CONSTANTS
  MaxAddresses,   \* bound: addresses ever saved
  Lines,          \* address lines
  Pins            \* values of lat

Addresses == 1..MaxAddresses
None == "none"
Typed == "typed"     \* what a form of the shop's wrote

ASSUME AddressesAssumption ==
  /\ MaxAddresses \in Nat
  /\ Lines \cap {"unused", "deleted", None, Typed} = {}
  /\ Pins \cap {None, Typed} = {}

VARIABLES
  address,   \* Address rows: place and isDefault; unused and deleted without a row
  point      \* ConsumerProfile: addressLine and lat

addressVars == <<address, point>>

Places == [line : Lines, pin : Pins \cup {None}]
NoPlace == [line |-> None, pin |-> None]
NoRow(why) == [place |-> [line |-> why, pin |-> None], isDefault |-> FALSE]

Saved == {a \in Addresses : address[a].place.line \in Lines}
Used == {a \in Addresses : address[a].place.line # "unused"}
Defaults == {a \in Saved : address[a].isDefault}

AddressHandlers ==
  [at : {"addressInsert"}, makeDefault : BOOLEAN, seen : SUBSET Addresses]
  \cup [at : {"addressUpdate"}, id : Addresses]
  \cup [at : {"addressDefault", "addressPromoted"}, id : Addresses, place : Places]
  \cup [at : {"addressDelete"}, id : Addresses, wasDefault : BOOLEAN]
  \cup [at : {"addressMirror"}, place : Places]
  \cup [at : {"addressPromote"}]

AddressesTypeOK ==
  /\ address \in [Addresses -> [place : [line : Lines \cup {"unused", "deleted"},
                                        pin : Pins \cup {None}],
                                isDefault : BOOLEAN]]
  /\ point \in [line : Lines \cup {None, Typed}, pin : Pins \cup {None, Typed}]

AddressesInit ==
  /\ address = [a \in Addresses |-> NoRow("unused")]
  /\ point = NoPlace

(***************************************************************************)
(* The delivery point.                                                     *)
(***************************************************************************)

\* mirrorAddressToProfile: a missing pin keeps the one the profile has.
Mirrored(place) == [place EXCEPT !.pin = IF place.pin = None THEN point.pin ELSE place.pin]

Mirror(p) ==
  /\ h[p].at = "addressMirror"
  /\ point' = Mirrored(h[p].place)
  /\ End(p)
  /\ UNCHANGED address

\* PUT /consumer/profile with an addressLine, a pin, or both.
ProfilePut(p, line, pin) ==
  /\ Immediate(p)
  /\ point' = [line |-> IF line THEN Typed ELSE point.line,
               pin |-> IF pin THEN Typed ELSE point.pin]
  /\ UNCHANGED address

\* POST /consumer/kyc always has an address line; a pin it leaves out is erased.
KycForm(p, pin) ==
  /\ Immediate(p)
  /\ point' = [line |-> Typed, pin |-> IF pin THEN Typed ELSE None]
  /\ UNCHANGED address

(***************************************************************************)
(* POST /consumer/addresses.  The rows that updateMany clears are those its  *)
(* snapshot saw when the transaction began.  What else the body holds is       *)
(* named where it is written, here and in a PATCH.                           *)
(***************************************************************************)
Inserting == {p \in Procs : h[p].at = "addressInsert"}

\* Mutant: the defaults of other rows are left alone.
ClearedNone(rows) == address

Cleared(rows) ==
  [a \in Addresses |-> IF a \in rows THEN [address[a] EXCEPT !.isDefault = FALSE] ELSE address[a]]

CreateAddress(p, isDefault) ==
  /\ Cardinality(Used) + Cardinality(Inserting) < MaxAddresses
  /\ Start(p, [at |-> "addressInsert", makeDefault |-> isDefault \/ Saved = {}, seen |-> Saved])
  /\ UNCHANGED addressVars

InsertAddress(p, place) ==
  /\ h[p].at = "addressInsert"
  /\ address' = [Cleared(IF h[p].makeDefault THEN h[p].seen ELSE {})
                 EXCEPT ![Cardinality(Used) + 1] =
                   [place |-> place, isDefault |-> h[p].makeDefault]]
  /\ IF h[p].makeDefault
     THEN Goto(p, [at |-> "addressMirror", place |-> place])
     ELSE End(p)
  /\ UNCHANGED point

(***************************************************************************)
(* PATCH /consumer/addresses/:id, which keeps what the body leaves out: the  *)
(* line, the pin or isDefault; and POST .../default, which mirrors the row    *)
(* it read.                                                                *)
(***************************************************************************)
PatchAddress(p, a) ==
  /\ a \in Saved
  /\ Start(p, [at |-> "addressUpdate", id |-> a])
  /\ UNCHANGED addressVars

Patched(place, line, pin) == [line |-> IF line = None THEN place.line ELSE line,
                              pin |-> IF pin = None THEN place.pin ELSE pin]

UpdateAddress(p, line, pin, makeDefault, unset) ==
  LET a == h[p].id
      place == Patched(address[a].place, line, pin)
      default == makeDefault \/ (address[a].isDefault /\ ~unset)
  IN  /\ h[p].at = "addressUpdate"
      /\ a \in Saved
      /\ ~(makeDefault /\ unset)
      /\ address' = [Cleared(IF makeDefault THEN Saved ELSE {})
                     EXCEPT ![a] = [place |-> place, isDefault |-> default]]
      /\ IF default THEN Goto(p, [at |-> "addressMirror", place |-> place]) ELSE End(p)
      /\ UNCHANGED point

SetDefault(p, a) ==
  /\ a \in Saved
  /\ Start(p, [at |-> "addressDefault", id |-> a, place |-> address[a].place])
  /\ UNCHANGED addressVars

WriteDefault(p) ==
  /\ h[p].at = "addressDefault"
  /\ h[p].id \in Saved
  /\ address' = [Cleared(Saved) EXCEPT ![h[p].id].isDefault = TRUE]
  /\ Goto(p, [at |-> "addressMirror", place |-> h[p].place])
  /\ UNCHANGED point

(***************************************************************************)
(* DELETE /consumer/addresses/:id promotes the newest address that is left.  *)
(***************************************************************************)
DeleteAddress(p, a) ==
  /\ a \in Saved
  /\ Start(p, [at |-> "addressDelete", id |-> a, wasDefault |-> address[a].isDefault])
  /\ UNCHANGED addressVars

RemoveAddress(p) ==
  /\ h[p].at = "addressDelete"
  /\ h[p].id \in Saved
  /\ address' = [address EXCEPT ![h[p].id] = NoRow("deleted")]
  /\ IF h[p].wasDefault THEN Goto(p, [at |-> "addressPromote"]) ELSE End(p)
  /\ UNCHANGED point

\* The newest of the addresses left is read; without one the point is erased.
PromoteRead(p) ==
  /\ h[p].at = "addressPromote"
  /\ UNCHANGED address
  /\ \/ \E a \in Saved :
          /\ \A b \in Saved : b <= a
          /\ Goto(p, [at |-> "addressPromoted", id |-> a, place |-> address[a].place])
          /\ UNCHANGED point
     \/ /\ Saved = {}
        /\ point' = NoPlace
        /\ End(p)

Promote(p) ==
  /\ h[p].at = "addressPromoted"
  /\ h[p].id \in Saved
  /\ address' = [address EXCEPT ![h[p].id].isDefault = TRUE]
  /\ Goto(p, [at |-> "addressMirror", place |-> h[p].place])
  /\ UNCHANGED point

\* An update or a deletion of a row that is gone fails, in every regime.
AddressGone(p) ==
  /\ h[p].at \in {"addressUpdate", "addressDefault", "addressDelete", "addressPromoted"}
  /\ h[p].id \notin Saved
  /\ End(p)
  /\ UNCHANGED addressVars

AddressStop(p) == Stop(p) /\ UNCHANGED addressVars

AddressesStep(p) ==
  \/ \E line, pin \in BOOLEAN : ProfilePut(p, line, pin)
  \/ \E pin \in BOOLEAN : KycForm(p, pin)
  \/ \E d \in BOOLEAN : CreateAddress(p, d)
  \/ \E place \in Places : InsertAddress(p, place)
  \/ \E a \in Addresses : PatchAddress(p, a)
  \/ \E line \in Lines \cup {None}, pin \in Pins \cup {None}, makeDefault, unset \in BOOLEAN :
       UpdateAddress(p, line, pin, makeDefault, unset)
  \/ \E a \in Addresses : SetDefault(p, a)
  \/ WriteDefault(p)
  \/ \E a \in Addresses : DeleteAddress(p, a)
  \/ RemoveAddress(p)
  \/ PromoteRead(p)
  \/ Promote(p)
  \/ Mirror(p)
  \/ AddressGone(p)
  \/ AddressStop(p)

AddressesNext == \E p \in Procs : AddressesStep(p) /\ UNCHANGED regime

(***************************************************************************)
(* Properties.                                                             *)
(***************************************************************************)

\* The primary saved address is where orders go.  Unless handlers overlap, at
\* most one address is the default, whatever fails between two statements;
\* and when none failed, the delivery point is the default's, line and, where
\* it has one, pin, or what the shop has typed over it since.  Where it has one,
\* orders go without a pin only by the KYC form, which leaves its own line.
DefaultsAgree ==
  /\ regime # "overlapping" => \A a, b \in Defaults : a = b
  /\ regime = "undisturbed" /\ Quiet =>
       \A a \in Defaults :
         LET place == address[a].place
         IN  /\ point.line \in {place.line, Typed}
             /\ place.pin # None => \/ point.pin \in {place.pin, Typed}
                                   \/ point = [line |-> Typed, pin |-> None]
=============================================================================
