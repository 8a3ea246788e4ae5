SPECIFICATION FairSpec
CONSTANTS
  i1 = i1
  i2 = i2
  e1 = e1
  r1 = r1
  r2 = r2
  None = None
  Refs = {r1, r2}
  Intents = {i1}
  Events = {e1}
  Deliveries <- UnpaidThenPaid
  Starters = {s1}
  Handlers = {h1, h2}
  MaxStarts = 1
  MaxDeliveries = 2
  MaxFaults = 1
PROPERTIES
  PaidCallbackCredits
  StuckEventIsReported
  PendingEnds
CHECK_DEADLOCK FALSE
