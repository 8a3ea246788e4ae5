CONSTANTS
  r1 = r1
  r2 = r2
  r3 = r3
  i1 = i1
  i2 = i2
  Refunds = {r1, r2, r3}
  Invoices = {i1, i2}
  Staff = {s1, s2, s3}
  BankRefs = {b1}
  Terms <- ContractTerms
  Paid <- PaidOneAndThree
  Funded <- FirstPartlyFunded
  Thresholds = {0, 2}
  MaxAttempts = 2
  MaxChanges = 1
  None = None
CHECK_DEADLOCK FALSE
SPECIFICATION Spec
SYMMETRY Symmetry
INVARIANTS
  MoneyOutOnce
  OneTransferPerReference
  PaidWithTwoMembers
