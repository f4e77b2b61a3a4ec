SPECIFICATION Spec
CONSTANTS
  Procs = {p1, p2}
  MaxSubs = 3
  Plans = {standard, premium}
  MonthStarts = {0, 3, 5, 8, 10}
  Horizon = 4
  MaxAddresses = 2
  Lines = {home, yard}
  Pins = {gate, dock}
  Deliveries = {x, y}
  MaxLinks = 3
  LinkTtl = 1
  StaleAge = 2
  StalePage = 2
  Sessions = {x, y}
  Instances = {i1}
  Roles = {consumer, supplier}
  MemTtl = 1
  RedisTtl = 2
  PageTtl = 2
  RefillTtl = 1
  RatedOrders = {x, y}
  Stars = {1, 4, 5}
  MaxSamples = 2
  MaxSales = 2
  Buyers = {x, y}
  Amounts = {3}
  RefundPaise = 1
  EntryCap = 3
  LastDay = 2
  Charges = {2}
  MaxMessages = 2
  NoticePage = 1
  Checked = {"subscriptions", "addresses", "handoff", "tracking", "auth", "pages", "standing", "desk", "chat", "books"}
INVARIANTS
  TypesOK
  OneLiveSubscription
  DefaultsAgree
  LinkOpensOneOrder
  StaleRoleExpires
  PagesCatchUp
  StandingAgrees
  DeskAgrees
  ChatKeepsUp
  BooksAddUp
PROPERTIES
  PaidTermStands
  StaleIsToldOnce
CHECK_DEADLOCK FALSE
SYMMETRY MCSymmetry
