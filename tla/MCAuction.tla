------------------------------ MODULE MCAuction ------------------------------
(***************************************************************************)
(* Instances of Auction for TLC: one request of two items, with two or     *)
(* three bids of two suppliers.                                            *)
(***************************************************************************)
EXTENDS Auction, TLC

CONSTANTS r1, i1, i2, b1, b2, b3, s1, s2

MCItemOf == [i \in Items |-> r1]
MCBidOn == [b \in Bids |-> r1]

\* Two rivals with a bid each; one supplier with two bids and a rival with one.
Rivals == [b \in Bids |-> IF b = b1 THEN s1 ELSE s2]
RebidAndRival == [b \in Bids |-> IF b = b3 THEN s2 ELSE s1]

\* Slots and items are interchangeable, and so are the rivals with their bids.
SwapRivals == [x \in {b1, b2, s1, s2} |->
                 CASE x = b1 -> b2 [] x = b2 -> b1 [] x = s1 -> s2 [] x = s2 -> s1]
RaceSymmetry == Permutations(Procs) \cup Permutations(Items) \cup {SwapRivals}

\* The two bids of the supplier that rebids are interchangeable.
SerialSymmetry == Permutations(Items) \cup Permutations({b1, b2})
=============================================================================
