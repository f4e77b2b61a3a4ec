SPECIFICATION Spec
CONSTANTS
  r1 = r1
  i1 = i1
  i2 = i2
  b1 = b1
  b2 = b2
  b3 = b3
  s1 = s1
  s2 = s2
  p1 = p1
  p2 = p2
  NoBid = NoBid
  Requests = {r1}
  Items = {i1, i2}
  Bids = {b1, b2}
  Suppliers = {s1, s2}
  Procs = {p1, p2}
  Overlap = TRUE
  ItemOf <- MCItemOf
  BidOn <- MCBidOn
  BidBy <- Rivals
  BidCap = 1
  Window = 2
  BidTtl = 1
  ExtendTrigger = 1
  ExtendBy = 1
  MaxExtends = 1
  EditWindow = 0
  Horizon = 4
SYMMETRY RaceSymmetry
INVARIANTS
  TypeOK
  OrderIsBacked
  AwardedRequestIsSettled
  BidWithinAuction
PROPERTIES
  AwardIsFinal
  OrderStands
  EndNeverMovesEarlier
CHECK_DEADLOCK FALSE
