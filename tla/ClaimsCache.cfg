SPECIFICATION Spec
CONSTANTS
  w1 = w1
  w2 = w2
  r1 = r1
  r2 = r2
  Workers = {w1, w2}
  Requests = {r1, r2}
  Canonical = canonical
  Spellings = {canonical, uppercase}
  TTL = 2
  MaxLoad = 1
  MaxVersion = 2
  MaxTime = 5
SYMMETRY Symmetry
INVARIANTS BoundedStaleness InvalidatedStaysGone
CHECK_DEADLOCK FALSE
