CONSTANTS
    Nil = Nil
    Challenges = {c1, c2}
    Deliveries = {d1, d2}
    Guesses = {g1, g2}
    Resends = {n1}
    Workers = {w1, w2}
    MAX_ATTEMPTS = 2
    MaxSends = 2
    MaxEvents = 1
SPECIFICATION CodesSpec
SYMMETRY MCSymmetry
INVARIANTS
  GuessesAreBounded
  CancelledIsVoid
PROPERTIES
  ResetsFollowTheLastRequest
CHECK_DEADLOCK FALSE
