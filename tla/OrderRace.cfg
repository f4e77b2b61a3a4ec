SPECIFICATION FairSpec
CONSTANTS
  Procs = {p1, p2}
  Overlap = TRUE
  Snapshots <- MCSnapshots
  Won <- MCWon
  NoInvoice <- MCNoInvoice
INVARIANTS
  TypeOK
  MilestonesInOrder
PROPERTIES
  LateOrderIsFlagged
