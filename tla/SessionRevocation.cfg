SPECIFICATION FairSpec
CONSTANTS
  Requests = {r1, r2, r3}
  Kinds = {"access", "refresh", "session", "all", "logout"}
  NoRequest = norequest
INVARIANTS OnlyLogoutLeavesRow OkMeansRevoked FailureIsCovered
PROPERTY EveryRequestAnswered
CHECK_DEADLOCK FALSE
