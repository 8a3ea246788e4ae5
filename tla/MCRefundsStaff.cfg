CONSTANTS
  r1 = r1
  r2 = r2
  r3 = r3
  i1 = i1
  i2 = i2
  Refunds = {r1, r2, r3}
  Invoices = {i1}
  Staff = {s1, s2}
  BankRefs = {b1}
  Terms <- StaffTerms
  Paid <- PaidThree
  Funded <- AllFunded
  Thresholds = {0, 2}
  MaxAttempts = 2
  MaxChanges = 2
  None = None
CHECK_DEADLOCK FALSE
SPECIFICATION FairSpec
INVARIANTS
  BudgetKept
  InvoiceAgrees
PROPERTIES
  ImplementsBudget
  EveryJobEnds
