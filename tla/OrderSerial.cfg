SPECIFICATION Spec
CONSTANTS
  Procs = {p1, p2}
  Overlap = FALSE
  Snapshots <- MCSnapshots
  Won <- MCWon
  NoInvoice <- MCNoInvoice
INVARIANTS
  ClosedOrderIsSettled
PROPERTIES
  KeepsPromise
  StatusMovesForward
  SlaVerdictIsFinal
