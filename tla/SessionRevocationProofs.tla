---------------------- MODULE SessionRevocationProofs ----------------------
(***************************************************************************)
(* Proofs about SessionRevocation, for any number of requests of any kinds.*)
(* A request that is about to commit holds the row or has found it revoked,*)
(* unless it is a logout, and one that presented an access token holds the *)
(* jti, unless it could not read it.                                       *)
(***************************************************************************)
EXTENDS SessionRevocation, TLAPS

\* What a request that is past its lookups relies on.
Covered ==
  \A r \in Requests :
    /\ pc[r] = "commit" /\ kind[r] # "logout" => row \/ rowLock = r
    /\ pc[r] = "insert" => kind[r] \in {"access", "session", "logout"}
    /\ pc[r] = "insert" /\ kind[r] = "session" => rowLock = r
    /\ pc[r] \in {"select", "update", "commit"} /\ kind[r] = "access" =>
         jtiLock = r \/ r \in unread
    /\ kind[r] = "logout" => rowLock # r /\ pc[r] \in {"new", "insert", "commit", "ok"}
    /\ pc[r] = "commit" /\ kind[r] = "logout" => jtiLock = r

IInv == TypeOK /\ Covered /\ OnlyLogoutLeavesRow /\ OkMeansRevoked

\* A step of one request keeps the types, and what the others rely on.
LEMMA StepTypeOK ==
  ASSUME TypeOK, NEW r \in Requests, Step(r) \/ Fault(r)
  PROVE  TypeOK'
<1> USE ConstantsAssumption DEF TypeOK, Active, Answers
<1>1. CASE RevokeToken(r)
  BY <1>1 DEF RevokeToken, Blacklist, Goto
<1>2. CASE RevokeSession(r)
  BY <1>2 DEF RevokeSession, Goto
<1>3. CASE Insert(r)
  BY <1>3 DEF Insert, Inserted, Goto, Blacklisted
<1>4. CASE InsertFails(r)
  BY <1>4 DEF InsertFails, Fail, Goto, Release, Blacklisted
<1>5. CASE Select(r)
  BY <1>5 DEF Select, Goto
<1>6. CASE Update(r)
  BY <1>6 DEF Update, Blacklist, Goto
<1>7. CASE Commit(r)
  BY <1>7 DEF Commit, Goto, Release
<1>8. CASE Deadlock(r)
  BY <1>8 DEF Deadlock, Fail, Goto, Release
<1>9. CASE RevokeAllSessions(r)
  BY <1>9 DEF RevokeAllSessions, Goto
<1>10. CASE Logout(r)
  BY <1>10 DEF Logout, Goto
<1>11. CASE Fault(r)
  BY <1>11 DEF Fault, Fail, Goto, Release
<1> QED
  BY <1>1, <1>2, <1>3, <1>4, <1>5, <1>6, <1>7, <1>8, <1>9, <1>10, <1>11 DEF Step

LEMMA StepCovered ==
  ASSUME IInv, NEW r \in Requests, Step(r) \/ Fault(r)
  PROVE  Covered'
<1> USE ConstantsAssumption DEF IInv, TypeOK, Active, Answers, Covered
<1>1. CASE RevokeToken(r)
  BY <1>1 DEF RevokeToken, Blacklist, Goto
<1>2. CASE RevokeSession(r)
  BY <1>2 DEF RevokeSession, Goto
<1>3. CASE Insert(r)
  BY <1>3 DEF Insert, Inserted, Goto, Blacklisted
<1>4. CASE InsertFails(r)
  BY <1>4 DEF InsertFails, Fail, Goto, Release, Blacklisted
<1>5. CASE Select(r)
  BY <1>5 DEF Select, Goto
<1>6. CASE Update(r)
  BY <1>6 DEF Update, Blacklist, Goto
<1>7. CASE Commit(r)
  BY <1>7 DEF Commit, Goto, Release
<1>8. CASE Deadlock(r)
  BY <1>8 DEF Deadlock, Fail, Goto, Release
<1>9. CASE RevokeAllSessions(r)
  BY <1>9 DEF RevokeAllSessions, Goto
<1>10. CASE Logout(r)
  BY <1>10 DEF Logout, Goto
<1>11. CASE Fault(r)
  BY <1>11 DEF Fault, Fail, Goto, Release
<1> QED
  BY <1>1, <1>2, <1>3, <1>4, <1>5, <1>6, <1>7, <1>8, <1>9, <1>10, <1>11 DEF Step

\* Only a commit changes the row and the jti, and if it is not a logout's it brings
\* both.
LEMMA StepBoth ==
  ASSUME IInv, NEW r \in Requests, Step(r) \/ Fault(r)
  PROVE  OnlyLogoutLeavesRow'
<1>1. CASE Commit(r)
  BY <1>1 DEF Commit, IInv, Covered, OnlyLogoutLeavesRow, Blacklisted
<1>2. CASE ~ Commit(r)
  BY <1>2 DEF IInv, OnlyLogoutLeavesRow, Blacklisted, Step, RevokeToken, RevokeSession,
              RevokeAllSessions, Logout, Insert, InsertFails, Select, Update, Deadlock, Fault, Fail
<1> QED
  BY <1>1, <1>2

LEMMA StepOk ==
  ASSUME IInv, NEW r \in Requests, Step(r) \/ Fault(r)
  PROVE  OkMeansRevoked'
<1> USE ConstantsAssumption DEF IInv, TypeOK, Active, Answers, Covered, OkMeansRevoked, Blacklisted
<1>1. CASE RevokeToken(r)
  BY <1>1 DEF RevokeToken, Blacklist, Goto
<1>2. CASE RevokeSession(r)
  BY <1>2 DEF RevokeSession, Goto
<1>3. CASE Insert(r)
  BY <1>3 DEF Insert, Inserted, Goto, Blacklisted
<1>4. CASE InsertFails(r)
  BY <1>4 DEF InsertFails, Fail, Goto
<1>5. CASE Select(r)
  BY <1>5 DEF Select, Goto
<1>6. CASE Update(r)
  BY <1>6 DEF Update, Blacklist, Goto
<1>7. CASE Commit(r)
  BY <1>7 DEF Commit, Goto
<1>8. CASE Deadlock(r)
  BY <1>8 DEF Deadlock, Fail, Goto
<1>9. CASE RevokeAllSessions(r)
  BY <1>9 DEF RevokeAllSessions, Goto
<1>10. CASE Logout(r)
  BY <1>10 DEF Logout, Goto
<1>11. CASE Fault(r)
  BY <1>11 DEF Fault, Fail, Goto, Release
<1> QED
  BY <1>1, <1>2, <1>3, <1>4, <1>5, <1>6, <1>7, <1>8, <1>9, <1>10, <1>11 DEF Step

\* The inductive invariant holds in every reachable state.
THEOREM Invariance == Spec => []IInv
<1>1. Init => IInv
  BY ConstantsAssumption
     DEF Init, IInv, TypeOK, Covered, OnlyLogoutLeavesRow, OkMeansRevoked, Blacklisted, Active, Answers
<1>2. IInv /\ [Next]_vars => IInv'
  <2> SUFFICES ASSUME IInv, [Next]_vars PROVE IInv'
    OBVIOUS
  <2>1. CASE UNCHANGED vars
    BY <2>1 DEF vars, IInv, TypeOK, Covered, OnlyLogoutLeavesRow, OkMeansRevoked, Blacklisted
  <2>2. ASSUME NEW r \in Requests, Step(r) \/ Fault(r) PROVE IInv'
    <3>1. TypeOK'
      BY <2>2, StepTypeOK DEF IInv
    <3>2. Covered' /\ OnlyLogoutLeavesRow' /\ OkMeansRevoked'
      BY <2>2, StepCovered, StepBoth, StepOk
    <3> QED
      BY <3>1, <3>2 DEF IInv
  <2> QED
    BY <2>1, <2>2 DEF Next
<1> QED
  BY <1>1, <1>2, PTL DEF Spec

\* Every variable keeps its type, and no lock outlives its request.
THEOREM TypeCorrect == Spec => []TypeOK
BY Invariance, PTL DEF IInv

\* Whatever requests revoke the session, in whatever order and with whatever
\* failures, its JWT is blacklisted without its row by a logout only.
THEOREM LogoutAloneLeavesRow == Spec => []OnlyLogoutLeavesRow
BY Invariance, PTL DEF IInv

\* A success means that the row is revoked, and that the access token which was
\* presented, if the worker could read it, is blacklisted; that of a logout means
\* the latter, unless the database failed.
THEOREM SuccessMeansRevoked == Spec => []OkMeansRevoked
BY Invariance, PTL DEF IInv
-----------------------------------------------------------------------------
(* What a failure leaves behind                                            *)

\* Once a request has failed, and none because of the database, the jti is
\* blacklisted or somebody is about to blacklist it: a deadlock aborts one of two,
\* and an INSERT fails only on a jti that is committed.
SomebodyGoesOn ==
  faulted = {} /\ (\E r \in Requests : pc[r] = "failed") =>
    Blacklisted \/ jtiLock # NoRequest \/ \E r \in Requests : pc[r] = "insert"

LEMMA StepGoesOn ==
  ASSUME IInv, SomebodyGoesOn, NEW r \in Requests, Step(r) \/ Fault(r)
  PROVE  SomebodyGoesOn'
<1> USE ConstantsAssumption DEF IInv, TypeOK, Active, Answers, SomebodyGoesOn, Blacklisted
<1>1. CASE RevokeToken(r)
  BY <1>1 DEF RevokeToken, Blacklist, Goto
<1>2. CASE RevokeSession(r)
  BY <1>2 DEF RevokeSession, Goto
<1>3. CASE Insert(r)
  BY <1>3 DEF Insert
<1>4. CASE InsertFails(r)
  BY <1>4 DEF InsertFails, Fail
<1>5. CASE Select(r)
  BY <1>5 DEF Select, Goto
<1>6. CASE Update(r)
  BY <1>6 DEF Update, Blacklist, Goto
<1>7. CASE Commit(r)
  BY <1>7 DEF Commit, Goto, Release
<1>8. CASE Deadlock(r)
  BY <1>8 DEF Deadlock, Fail, Goto, Release, Covered
<1>9. CASE RevokeAllSessions(r)
  BY <1>9 DEF RevokeAllSessions, Goto
<1>10. CASE Logout(r)
  BY <1>10 DEF Logout, Goto
<1>11. CASE Fault(r)
  BY <1>11 DEF Fault
<1> QED
  BY <1>1, <1>2, <1>3, <1>4, <1>5, <1>6, <1>7, <1>8, <1>9, <1>10, <1>11 DEF Step

\* Once no request is in flight, and the database has failed none, the session
\* that a failed one was about has its JWT blacklisted, and its row revoked unless a
\* logout did it.
THEOREM FailuresCovered == Spec => []FailureIsCovered
<1>1. Init => SomebodyGoesOn
  BY DEF Init, SomebodyGoesOn
<1>2. IInv /\ SomebodyGoesOn /\ [Next]_vars => SomebodyGoesOn'
  <2>1. CASE UNCHANGED vars
    BY <2>1 DEF vars, SomebodyGoesOn, Blacklisted
  <2>2. QED
    BY <2>1, StepGoesOn DEF Next
<1>3. IInv /\ SomebodyGoesOn => FailureIsCovered
  BY ConstantsAssumption
     DEF IInv, TypeOK, OnlyLogoutLeavesRow, SomebodyGoesOn, FailureIsCovered, Quiet, Active, Blacklisted
<1>4. QED
  BY <1>1, <1>2, <1>3, Invariance, PTL DEF Spec
=============================================================================
