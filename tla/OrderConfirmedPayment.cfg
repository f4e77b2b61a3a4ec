SPECIFICATION Spec
CONSTANTS
  Procs = {p1, p2}
  Overlap = TRUE
  Snapshots <- MCSnapshots
  Won <- MCWon
  NoInvoice <- MCNoInvoice
PROPERTIES
  ConfirmedPaymentStands
