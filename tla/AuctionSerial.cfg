SPECIFICATION Spec
CONSTANTS
  r1 = r1
  i1 = i1
  i2 = i2
  b1 = b1
  b2 = b2
  b3 = b3
  s1 = s1
  s2 = s2
  p1 = p1
  NoBid = NoBid
  Requests = {r1}
  Items = {i1, i2}
  Bids = {b1, b2, b3}
  Suppliers = {s1, s2}
  Procs = {p1}
  Overlap = FALSE
  ItemOf <- MCItemOf
  BidOn <- MCBidOn
  BidBy <- RebidAndRival
  BidCap = 2
  Window = 2
  BidTtl = 1
  ExtendTrigger = 1
  ExtendBy = 1
  MaxExtends = 1
  EditWindow = 1
  Horizon = 4
SYMMETRY SerialSymmetry
INVARIANTS
  OneOrderPerItem
  PlannedItemIsOrdered
  ClosedRequestHasNoLiveBid
  OneLiveBidPerSupplier
PROPERTIES
  AcceptedBidIsBinding
  OutcomeIsFinal
CHECK_DEADLOCK FALSE
