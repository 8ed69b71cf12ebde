SPECIFICATION Spec
CONSTANTS
  Parts = {"history"}
  Wide = {"lockout", "once"}
  Requests = {r1, r2}
  MaxTime = 2
  MaxFailures = 2
  Lockout = 1
  MaxCount = 3
  MaxTotpFailures = 2
  Window = 2
  MaxTotpCount = 5
  MaxAccepted = 2
  Secrets = {v1, v2, v3}
  Batches = {b1, b2}
  PerBatch = 2
  NoSecret = none
  Passwords = {v1, v2, v3}
  Depth = 3
  MaxPast = 5
  Ids = {v1, v2, v3}
  Authenticators = {a1, a2}
SYMMETRY Symmetry
INVARIANT ReuseRefused
CHECK_DEADLOCK FALSE
