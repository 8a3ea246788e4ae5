CONSTANTS
    w1 = w1
    w2 = w2
    k1 = k1
    k2 = k2
    k3 = k3
    r1 = r1
    None = None
    Wallets = {w1, w2}
    Keys = {k1, k2, k3}
    Refs = {r1}
    TxIds = {t1, t2, t3}
    Clients = {c1, c2}
    Requests <- MCRequests
SPECIFICATION FairSpec
INVARIANTS
  BalanceMatchesLedger
  EffectsAreSingle
  OkReplyIsBacked
PROPERTIES
  ImplementsAccounts
  EveryCallEnds
CHECK_DEADLOCK TRUE
