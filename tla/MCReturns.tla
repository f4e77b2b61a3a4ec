------------------------------- MODULE MCReturns -------------------------------
(* Instance of Returns for TLC: a claim, the claim that retries or contests it, *)
(* and two lines, so that claims may share all, some or none of their items.     *)
EXTENDS Returns, TLC

MCSymmetry == Permutations(Procs) \cup Permutations(Lines)
=============================================================================
