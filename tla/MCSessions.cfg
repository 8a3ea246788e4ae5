CONSTANTS
  Sids = {s1, s2, s3}
  Toks = {t1, t2, t3}
  Logins = {l1}
  Refreshers = {r1, r2}
  MaxSessions = 2
  AbsoluteTimeout = 3
  IdleTimeout = 2
  MaxClock = 3
  MaxVersion = 1
  None = None
SPECIFICATION Spec
SYMMETRY Symmetry
INVARIANTS
  SessionsAreCurrent
  ReplayedFamilyIsDead
  LoginsAreBounded
CHECK_DEADLOCK FALSE
