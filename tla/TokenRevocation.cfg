SPECIFICATION FairSpec
CONSTANTS
  w1 = w1
  w2 = w2
  j1 = j1
  j2 = j2
  Workers = {w1, w2}
  Jtis = {j1, j2}
  Exp <- ExpTwo
  MaxNow = 1
  Faults = {"crash", "load", "listener"}
INVARIANTS
  NoRevocationLost
  RevokedIsDurable
PROPERTIES
  ImplementsBlacklist
  RejectionStable
  HeardRevocationRejected
CHECK_DEADLOCK FALSE
