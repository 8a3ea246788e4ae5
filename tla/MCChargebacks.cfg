SPECIFICATION FairSpec
CONSTANTS
  c1 = c1
  c2 = c2
  w1 = w1
  e1 = e1
  e2 = e2
  o1 = o1
  o2 = o2
  r1 = r1
  a1 = a1
  a2 = a2
  None = None
  Credits = {c1, c2}
  Wallets = {w1}
  Names = {o1, o2, r1, a1, a2}
  TopUp <- MCTopUp
  Events = {e1, e2}
  Deliveries <- MCDeliveries
  Staff = {s1}
  Handlers = {h1, h2}
  MaxDeliveries = 2
  MaxFaults = 1
INVARIANTS
  ReversalsAgree
PROPERTIES
  DeliverySettles
  UnclearIsShown
CHECK_DEADLOCK FALSE
