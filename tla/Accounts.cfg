SPECIFICATION Spec
CONSTANTS
  Parts = {"access", "rights", "signup", "invite", "tokens", "logins", "register"}
  Wide = {"signup", "tokens", "logins"}
  Requests = {r1, r2, r3}
  MaxTime = 4
  Devices = {d1}
  Users = {u1, u2}
  Slugs = {v1, v2}
  Emails = {e1, e2}
  MaxOrgs = 3
  Invites = {v1, v2}
  NoInvite = none
  HistoryDepth = 0
  TokenLimit = 2
  LoginLimit = 2
  MaxLogins = 5
  MaxRegistrations = 2
  HitWindow = 2
  MaxAttempts = 5
SYMMETRY Symmetry
INVARIANTS SecondFactorHad PolicyHoldsForPasswords ErasedIsGone AdminRemains OrganisationsOwned AcceptedHasAccount RevokedStaysOut BoundedExcess WindowIsExact
PROPERTY ExcessHeals
CHECK_DEADLOCK FALSE
