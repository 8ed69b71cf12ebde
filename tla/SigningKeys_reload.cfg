SPECIFICATION FairSpec
CONSTANTS
  w1 = w1
  w2 = w2
  k1 = k1
  k2 = k2
  k3 = k3
  k4 = k4
  NoKid = NoKid
  Workers = {w1, w2}
  Kids = {k1, k2, k3}
  Lifetime = 3
  Threshold = 1
  MaxNow = 2
  Faults = {}
PROPERTIES
  AllWorkersReload
CHECK_DEADLOCK FALSE
