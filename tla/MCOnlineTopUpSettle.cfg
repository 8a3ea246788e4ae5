SPECIFICATION Spec
CONSTANTS
  i1 = i1
  i2 = i2
  e1 = e1
  r1 = r1
  r2 = r2
  None = None
  Refs = {r1, r2}
  Intents = {i1, i2}
  Events = {e1}
  Deliveries <- TwoOrders
  Starters = {s1}
  Handlers = {h1, h2}
  MaxStarts = 2
  MaxDeliveries = 2
  MaxFaults = 1
INVARIANTS
  OneCreditPerIntent
  CreditIsPaid
  ArchivedIsSettled
  SettledIsCredited
  OneSessionPerIntent
PROPERTIES
  IntentLifecycle
CHECK_DEADLOCK FALSE
SYMMETRY Symmetry
