SPECIFICATION Spec
CONSTANTS
  w1 = w1
  w2 = w2
  c1 = c1
  c2 = c2
  c3 = c3
  Workers = {w1, w2}
  Callbacks = {c1, c2, c3}
  NoCallback = nocallback
  MaxAge = 3
  Second = 2
  MaxTime = 6
  Others = TRUE
SYMMETRY Symmetry
INVARIANTS OneLoginPerState
CHECK_DEADLOCK FALSE
