CONSTANTS
  Keys = {k1, k2}
  Readers = {r1, r2}
  MaxWrites = 3
  MaxFaults = 1
  Absent = Absent
SPECIFICATION CacheSpec
SYMMETRY Symmetry
INVARIANTS
  NoStaleAnswer
CHECK_DEADLOCK FALSE
