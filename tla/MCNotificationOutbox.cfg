CONSTANTS
  Workers = {w1, w2}
  External = {"email"}
  MaxAttempts = 2
  MaxFaults = 2
  None = None
CHECK_DEADLOCK FALSE
SPECIFICATION FairSpec
INVARIANTS
  OutboxAgrees
  AtMostOneSend
  RecordsAgree
PROPERTIES
  EveryNoticeSettles
