CONSTANTS
  r1 = r1
  r2 = r2
  i1 = i1
  i2 = i2
  None = None
  Staff = {s1, s2}
  Overriders = {s1, s2}
  Invoices = {i1, i2}
  Issued = {i1}
  Total <- MCTotal
  Receipts = {r1, r2}
  Terms <- MCTerms
  Keys = {k1}
  Thresholds = {0, 2}
  MaxChanges = 1
SPECIFICATION Spec
SYMMETRY Symmetry
INVARIANTS
  MoneyIsAccounted
  InvoiceAgrees
  ArchivedIsFrozen
PROPERTIES
  TwoMembersSettle
  ShownIsSettled
CHECK_DEADLOCK FALSE
