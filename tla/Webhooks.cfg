SPECIFICATION EventFairSpec
CONSTANTS
  Events = {e1}
  Hooks = {h1, h2}
  Retry2 = 1
  Retry3 = 2
  Faults = {"crash", "database", "receiver"}
INVARIANTS LogIsComplete
PROPERTY EmittedIsHandled
