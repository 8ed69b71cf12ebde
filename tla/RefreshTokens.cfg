SPECIFICATION FairSpec
CONSTANTS
  t1 = t1
  t2 = t2
  t3 = t3
  t4 = t4
  f1 = f1
  r1 = r1
  r2 = r2
  NoFamily = NoFamily
  NoToken = NoToken
  NoRequest = NoRequest
  Tokens = {t1, t2, t3, t4}
  Families = {f1}
  Requests = {r1, r2}
  SeedFamily <- SeedTwo
INVARIANTS
  NeverLiveWithSuccessor
  FamilyClosed
  EndedHasNoSuccessor
PROPERTIES
  RequestsEnd
CHECK_DEADLOCK FALSE
