SPECIFICATION Spec
CONSTANTS
  Procs = {p1, p2}
  Claims = {c1, c2}
  Lines = {milk, bread}
INVARIANTS
  TypeOK
  SubmittedIsEvidenced
  OneClaimPerItem
PROPERTIES
  SubmittedClaimStands
  ClaimMovesForward
  ResolutionStands
CHECK_DEADLOCK FALSE
SYMMETRY MCSymmetry
