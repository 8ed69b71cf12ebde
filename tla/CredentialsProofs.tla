------------------------- MODULE CredentialsProofs -------------------------
(***************************************************************************)
(* Proofs about the components that keep one user's credentials, for any   *)
(* number of requests and any value of the limits: the lockout, the TOTP   *)
(* step, the enrolment, the password history and the one-time credentials. *)
(*                                                                         *)
(* The invariants that hold as long as no two requests overlap all rest on *)
(* the same fact, HandlersOK: then at most one request is in flight, so its*)
(* copy of a row is what is committed, until it commits itself.            *)
(***************************************************************************)
EXTENDS PasswordLockout, TotpChallenge, TotpEnrolment, PasswordHistory,
        OneTimeCredentials, FiniteSetTheorems, TLAPS

-----------------------------------------------------------------------------
(* The requests                                                            *)

\* Every step of a handler keeps what overlap records: a request that comes in
\* beside another one sets it.
LEMMA HandlersStep ==
  ASSUME HandlersOK, NEW r \in Requests, NEW p, NEW x,
         Begin(r, p, x) \/ AtOnce(r) \/ (pc[r] # "idle" /\ Continue(r, p, x))
  PROVE  HandlersOK'
<1>1. CASE Begin(r, p, x)
  BY <1>1 DEF HandlersOK, Flying, Begin, Overlapping
<1>2. CASE AtOnce(r)
  BY <1>2 DEF HandlersOK, Flying, AtOnce, Overlapping
<1>3. CASE pc[r] # "idle" /\ Continue(r, p, x)
  BY <1>3 DEF HandlersOK, Flying, Continue
<1>4. QED
  BY <1>1, <1>2, <1>3
LEMMA HandlersStart == HandlersInit => HandlersOK
BY DEF HandlersInit, HandlersOK, Flying

LEMMA HandlersTick == ASSUME HandlersOK, Tick PROVE HandlersOK'
BY DEF HandlersOK, Flying, Tick

-----------------------------------------------------------------------------
(* PasswordLockout                                                         *)

\* What a request knows of the lock while it is alone: its copy is the row until
\* it has looked at it, and whoever has got past the check has found no lock.
LockSeen ==
  ~ overlap =>
    \A r \in Flying : IF pc[r] = "check" THEN local[r].row = lock ELSE ~ Locked

\* The rows that a WrongPassword writes are consistent in themselves, whichever
\* copy they are made from; so LockMatchesCount is inductive with the types.
LockInv == HandlersOK /\ LockTypeOK /\ LockMatchesCount /\ LockSeen

LEMMA LockInvInit == LockInit => LockInv
<1> SUFFICES ASSUME LockInit PROVE LockInv
  OBVIOUS
<1>1. HandlersOK
  BY HandlersStart DEF LockInit
<1>2. LockTypeOK
  <2>1. lock \in LockRow /\ now \in 0..MaxTime
    BY MaxTimeAssumption, LockoutAssumption DEF LockInit, HandlersInit, LockRow, NoLock
  <2>2. QED
    BY <2>1 DEF LockInit, HandlersInit, LockTypeOK
<1>3. LockMatchesCount /\ LockSeen
  BY LockoutAssumption DEF LockInit, HandlersInit, LockMatchesCount, LockSeen, Flying, NoLock
<1>4. QED
  BY <1>1, <1>2, <1>3 DEF LockInv

LEMMA LockInvNext ==
  ASSUME LockInv, [LockNext]_<<reqVars, lock>>
  PROVE  LockInv'
<1> USE MaxTimeAssumption, LockoutAssumption
<1> DEFINE Rest == LockTypeOK /\ LockMatchesCount /\ LockSeen
<1>1. CASE Tick /\ UNCHANGED lock
  <2>1. HandlersOK'
    BY <1>1, HandlersTick DEF LockInv
  <2>2. Rest'
    BY <1>1 DEF LockInv, Tick, LockTypeOK, LockRow, LockMatchesCount, LockSeen, Flying, Locked,
                NoLock
  <2>3. QED
    BY <2>1, <2>2 DEF LockInv
<1>2. ASSUME NEW r \in Requests, ReadLock(r) PROVE LockInv'
  <2>1. HandlersOK'
    BY <1>2, HandlersStep DEF LockInv, ReadLock
  <2>2. Rest'
    BY <1>2 DEF LockInv, HandlersOK, ReadLock, Begin, Overlapping, LockTypeOK, LockMatchesCount,
                LockSeen, Flying, Locked
  <2>3. QED
    BY <2>1, <2>2 DEF LockInv
<1>3. ASSUME NEW r \in Requests, CheckLock(r) PROVE LockInv'
  <2>1. HandlersOK'
    BY <1>3, HandlersStep DEF LockInv, CheckLock, End
  <2>2. Rest'
    BY <1>3 DEF LockInv, HandlersOK, CheckLock, Continue, End, LockTypeOK, LockRow,
                LockMatchesCount, LockSeen, Flying, Locked, NoLock
  <2>3. QED
    BY <2>1, <2>2 DEF LockInv
<1>4. ASSUME NEW r \in Requests, ClearLock(r) PROVE LockInv'
  <2>1. HandlersOK'
    BY <1>4, HandlersStep DEF LockInv, ClearLock
  <2>2. Rest'
    BY <1>4 DEF LockInv, HandlersOK, ClearLock, Unlocked, Continue, LockTypeOK, LockRow,
                LockMatchesCount, LockSeen, Flying, Locked, NoLock
  <2>3. QED
    BY <2>1, <2>2 DEF LockInv
<1>5. ASSUME NEW r \in Requests, RefreshLock(r) PROVE LockInv'
  <2>1. HandlersOK'
    BY <1>5, HandlersStep DEF LockInv, RefreshLock
  <2>2. Rest'
    BY <1>5 DEF LockInv, HandlersOK, RefreshLock, Continue, LockTypeOK, LockRow,
                LockMatchesCount, LockSeen, Flying, Locked
  <2>3. QED
    BY <2>1, <2>2 DEF LockInv
<1>6. ASSUME NEW r \in Requests, WrongPassword(r) PROVE LockInv'
  <2>1. HandlersOK'
    BY <1>6, HandlersStep DEF LockInv, WrongPassword, End
  <2>2. Rest'
    BY <1>6 DEF LockInv, HandlersOK, WrongPassword, Failed, End, Continue, LockTypeOK, LockRow,
                LockMatchesCount, LockSeen, Flying, NoLock
  <2>3. QED
    BY <2>1, <2>2 DEF LockInv
<1>7. ASSUME NEW r \in Requests, RightPassword(r) PROVE LockInv'
  <2>1. HandlersOK'
    BY <1>7, HandlersStep DEF LockInv, RightPassword, End
  <2>2. Rest'
    BY <1>7 DEF LockInv, HandlersOK, RightPassword, Unlocked, End, Continue, LockTypeOK, LockRow,
                LockMatchesCount, LockSeen, Flying, NoLock
  <2>3. QED
    BY <2>1, <2>2 DEF LockInv
<1>8. ASSUME NEW r \in Requests, Fail(r), UNCHANGED lock PROVE LockInv'
  <2>1. HandlersOK'
    BY <1>8, HandlersStep DEF LockInv, Fail, End
  <2>2. Rest'
    BY <1>8 DEF LockInv, HandlersOK, Fail, End, Continue, LockTypeOK, LockMatchesCount, LockSeen,
                Flying, Locked
  <2>3. QED
    BY <2>1, <2>2 DEF LockInv
<1>9. CASE UNCHANGED <<reqVars, lock>>
  BY <1>9 DEF reqVars, LockInv, HandlersOK, LockTypeOK, LockMatchesCount, LockSeen, Flying, Locked
<1>10. QED
  BY <1>1, <1>2, <1>3, <1>4, <1>5, <1>6, <1>7, <1>8, <1>9 DEF LockNext
LEMMA LockInvariant == LockSpec => []LockInv
<1>1. QED
  BY LockInvInit, LockInvNext, PTL DEF LockSpec

\* The lock's row, and what the requests know of it, keep their types.
THEOREM LockTypeCorrect == LockSpec => []LockTypeOK
<1>1. LockInv => LockTypeOK
  BY DEF LockInv
<1>2. QED
  BY <1>1, LockInvariant, PTL

\* In every committed row the count has reached the limit exactly when there is a
\* lock (login: the failure that reaches _MAX_FAILURES sets locked_until in the
\* same UPDATE), for any number of concurrent logins.
THEOREM LockConsistent == LockSpec => []LockMatchesCount
<1>1. LockInv => LockMatchesCount
  BY DEF LockInv
<1>2. QED
  BY <1>1, LockInvariant, PTL

\* As long as no two logins overlap, nothing takes a lock away before its time:
\* whoever writes has got past a check that found none.
THEOREM LockKept == LockSpec => LockHolds
<1>1. LockInv /\ [LockNext]_<<reqVars, lock>>
        => [~ overlap /\ Locked => lock' = lock]_lock
  <2> SUFFICES ASSUME LockInv, LockNext, ~ overlap, Locked PROVE lock' = lock
    BY DEF reqVars
  <2>1. CASE Tick /\ UNCHANGED lock
    BY <2>1
  <2>2. ASSUME NEW r \in Requests,
               ReadLock(r) \/ CheckLock(r) \/ RefreshLock(r) \/ (Fail(r) /\ UNCHANGED lock)
        PROVE  lock' = lock
    BY <2>2 DEF ReadLock, CheckLock, RefreshLock
  <2>3. ASSUME NEW r \in Requests, ClearLock(r) \/ WrongPassword(r) \/ RightPassword(r)
        PROVE  FALSE
    <3>1. r \in Flying /\ pc[r] # "check"
      BY <2>3 DEF ClearLock, WrongPassword, RightPassword, Flying
    <3>2. QED
      BY <3>1 DEF LockInv, LockSeen
  <2>4. QED
    BY <2>1, <2>2, <2>3 DEF LockNext
<1>2. QED
  BY <1>1, LockInvariant, PTL DEF LockSpec, LockHolds
-----------------------------------------------------------------------------
(* TotpChallenge                                                           *)

\* The requests that may still add a failure without looking at the count again.
Through ==
  {r \in Requests : \/ pc[r] \in {"refresh", "verify"}
                    \/ pc[r] = "check" /\ local[r].row.count < MaxTotpFailures}

\* BoundedOvershoot with the failures still to come: a request gets among them by
\* a copy under the limit, read when the count was under it too or before a reset.
Overshoot ==
  totp.count + Cardinality(Through) <= MaxTotpFailures - 1 + Cardinality(Requests)

\* LockSeen, for the cooldown.
CooldownSeen ==
  ~ overlap =>
    \A r \in Flying : IF pc[r] = "check" THEN local[r].row = totp ELSE ~ Cooling(totp, now)

TotpInv == HandlersOK /\ TotpTypeOK /\ Overshoot /\ CooldownSeen

LEMMA ThroughFinite ==
  /\ IsFiniteSet(Through) /\ Cardinality(Through) \in Nat
  /\ Cardinality(Requests) \in Nat /\ Cardinality(Through) <= Cardinality(Requests)
<1>1. Through \subseteq Requests
  BY DEF Through
<1>2. QED
  BY <1>1, RequestsAssumption, FS_Subset, FS_CardinalityType

\* A step after which no more requests are through leaves the bound as it was.
LEMMA OvershootKept ==
  ASSUME Overshoot, TotpTypeOK, Through' \subseteq Through, totp'.count <= totp.count,
         totp'.count \in Nat
  PROVE  Overshoot'
<1>1. /\ Cardinality(Through') \in Nat
      /\ Cardinality(Through') <= Cardinality(Through)
  BY ThroughFinite, FS_Subset, FS_CardinalityType
<1>2. totp.count \in Nat
  BY TotpAssumption DEF TotpTypeOK, TotpRow
<1>3. QED
  BY <1>1, <1>2, ThroughFinite, TotpAssumption DEF Overshoot

\* Under the limit there is room for every request there is.
LEMMA OvershootFar ==
  ASSUME totp'.count \in Nat, totp'.count < MaxTotpFailures, Through' \subseteq Requests
  PROVE  Overshoot'
<1>1. /\ Cardinality(Requests) \in Nat /\ Cardinality(Through') \in Nat
      /\ Cardinality(Through') <= Cardinality(Requests)
  BY RequestsAssumption, FS_Subset, FS_CardinalityType
<1>2. QED
  BY <1>1, TotpAssumption DEF Overshoot

LEMMA TotpInvInit == TotpInit => TotpInv
<1> SUFFICES ASSUME TotpInit PROVE TotpInv
  OBVIOUS
<1>1. HandlersOK
  BY HandlersStart DEF TotpInit
<1>2. TotpTypeOK
  <2>1. totp \in TotpRow /\ now \in Steps
    BY MaxTimeAssumption, TotpAssumption DEF TotpInit, HandlersInit, TotpRow, Steps, Never, NoCode
  <2>2. accepted \in Seq(StepCodes)
    BY DEF TotpInit
  <2>3. QED
    BY <2>1, <2>2 DEF TotpInit, HandlersInit, TotpTypeOK
<1>3. Overshoot
  BY ThroughFinite, TotpAssumption DEF TotpInit, Overshoot
<1>4. CooldownSeen
  BY DEF TotpInit, HandlersInit, CooldownSeen, Flying
<1>5. QED
  BY <1>1, <1>2, <1>3, <1>4 DEF TotpInv
LEMMA TotpInvNext ==
  ASSUME TotpInv, [TotpNext]_<<reqVars, totpVars>>
  PROVE  TotpInv'
<1> USE MaxTimeAssumption, TotpAssumption
<1> USE DEF TotpInv, totpVars
<1>1. CASE Tick /\ UNCHANGED totpVars
  <2>1. HandlersOK'
    BY <1>1, HandlersTick
  <2>2. TotpTypeOK'
    BY <1>1 DEF Tick, TotpTypeOK, TotpRow, Steps, StepCodes
  <2>3. Overshoot'
    <3>1. Through' = Through
      BY <1>1 DEF Tick, Through
    <3>2. QED
      BY <1>1, <3>1 DEF Overshoot
  <2>4. CooldownSeen'
    BY <1>1 DEF Tick, CooldownSeen, Flying, Cooling, TotpTypeOK, TotpRow, Steps, Never
  <2>5. QED
    BY <2>1, <2>2, <2>3, <2>4
<1>2. ASSUME NEW r \in Requests, NEW c \in ((now - 1)..(now + 1)) \union {BadCode}, ReadTotp(r, c)
      PROVE  TotpInv'
  <2>1. HandlersOK'
    BY <1>2, HandlersStep DEF ReadTotp
  <2>2. TotpTypeOK'
    BY <1>2 DEF HandlersOK, ReadTotp, Begin, Overlapping, TotpTypeOK, Steps, StepCodes
  <2>3. Overshoot'
    <3>1. CASE totp.count < MaxTotpFailures
      BY <1>2, <3>1, OvershootFar DEF ReadTotp, Begin, Through, TotpTypeOK, TotpRow
    <3>2. CASE totp.count >= MaxTotpFailures
      <4>1. Through' \subseteq Through
        BY <1>2, <3>2 DEF ReadTotp, Begin, Through, HandlersOK, TotpTypeOK, TotpRow
      <4>2. QED
        BY <1>2, <4>1, OvershootKept DEF ReadTotp, TotpTypeOK, TotpRow
    <3>3. QED
      BY <3>1, <3>2 DEF TotpTypeOK, TotpRow
  <2>4. CooldownSeen'
    BY <1>2 DEF ReadTotp, Begin, Overlapping, HandlersOK, CooldownSeen, Flying
  <2>5. QED
    BY <2>1, <2>2, <2>3, <2>4
<1>3. ASSUME NEW r \in Requests, CheckTotp(r) PROVE TotpInv'
  <2>1. HandlersOK'
    BY <1>3, HandlersStep DEF CheckTotp, End
  <2>2. TotpTypeOK'
    BY <1>3 DEF HandlersOK, CheckTotp, Continue, End, TotpTypeOK, Steps
  <2>3. Overshoot'
    <3>1. Through' \subseteq Through
      BY <1>3 DEF CheckTotp, Continue, End, Through, HandlersOK
    <3>2. QED
      BY <1>3, <3>1, OvershootKept DEF CheckTotp, TotpTypeOK, TotpRow
  <2>4. CooldownSeen'
    BY <1>3 DEF CheckTotp, Continue, End, HandlersOK, CooldownSeen, Flying, Cooling,
                TotpTypeOK, TotpRow
  <2>5. QED
    BY <2>1, <2>2, <2>3, <2>4
<1>4. ASSUME NEW r \in Requests, ResetTotp(r) PROVE TotpInv'
  <2>1. HandlersOK'
    BY <1>4, HandlersStep DEF ResetTotp
  <2>2. TotpTypeOK'
    <3>1. totp' \in TotpRow
      <4>1. totp' = [totp EXCEPT !.count = 0, !.last = Never]
        BY <1>4 DEF ResetTotp
      <4>2. totp' = [count |-> 0, last |-> Never, used |-> totp.used]
        BY <4>1 DEF TotpTypeOK, TotpRow
      <4>3. QED
        BY <4>2 DEF TotpTypeOK, TotpRow
    <3>2. QED
      BY <1>4, <3>1 DEF HandlersOK, ResetTotp, Continue, TotpTypeOK
  <2>3. Overshoot'
    BY <1>4, OvershootFar DEF ResetTotp, Continue, Through, TotpTypeOK, TotpRow
  <2>4. CooldownSeen'
    BY <1>4 DEF ResetTotp, Continue, HandlersOK, CooldownSeen, Flying, Cooling, TotpTypeOK, TotpRow
  <2>5. QED
    BY <2>1, <2>2, <2>3, <2>4
<1>5. ASSUME NEW r \in Requests, RefreshTotp(r) PROVE TotpInv'
  <2>1. HandlersOK'
    BY <1>5, HandlersStep DEF RefreshTotp
  <2>2. TotpTypeOK'
    BY <1>5 DEF HandlersOK, RefreshTotp, Continue, TotpTypeOK
  <2>3. Overshoot'
    <3>1. Through' \subseteq Through
      BY <1>5 DEF RefreshTotp, Continue, Through, HandlersOK
    <3>2. QED
      BY <1>5, <3>1, OvershootKept DEF RefreshTotp, TotpTypeOK, TotpRow
  <2>4. CooldownSeen'
    BY <1>5 DEF RefreshTotp, Continue, HandlersOK, CooldownSeen, Flying, Cooling
  <2>5. QED
    BY <2>1, <2>2, <2>3, <2>4
<1>6. ASSUME NEW r \in Requests, RejectCode(r) PROVE TotpInv'
  <2>1. HandlersOK'
    BY <1>6, HandlersStep DEF RejectCode, End
  <2>2. TotpTypeOK'
    <3>1. totp' \in TotpRow
      <4>1. /\ totp' = [totp EXCEPT !.count = @ + 1, !.last = local[r].at]
            /\ totp.count < MaxTotpCount /\ local[r].at \in Steps \union {Never}
        BY <1>6 DEF RejectCode, TotpTypeOK
      <4>2. totp' = [count |-> totp.count + 1, last |-> local[r].at, used |-> totp.used]
        BY <4>1 DEF TotpTypeOK, TotpRow
      <4>3. totp.count + 1 \in 0..MaxTotpCount /\ totp.used \in StepCodes \union {NoCode}
        BY <4>1 DEF TotpTypeOK, TotpRow
      <4>4. QED
        BY <4>1, <4>2, <4>3 DEF TotpRow
    <3>2. QED
      BY <1>6, <3>1 DEF HandlersOK, RejectCode, Continue, End, TotpTypeOK
  <2>3. Overshoot'
    <3>1. r \in Through /\ Through' = Through \ {r}
      BY <1>6 DEF RejectCode, Continue, End, Through, HandlersOK
    <3>2. Cardinality(Through') = Cardinality(Through) - 1
      BY <3>1, ThroughFinite, FS_RemoveElement
    <3>3. totp'.count = totp.count + 1 /\ totp.count \in Nat
      BY <1>6 DEF RejectCode, TotpTypeOK, TotpRow
    <3>4. QED
      BY <3>2, <3>3, ThroughFinite DEF Overshoot
  <2>4. CooldownSeen'
    BY <1>6 DEF RejectCode, Continue, End, HandlersOK, CooldownSeen, Flying
  <2>5. QED
    BY <2>1, <2>2, <2>3, <2>4
<1>7. ASSUME NEW r \in Requests, AcceptCode(r) PROVE TotpInv'
  <2>1. HandlersOK'
    BY <1>7, HandlersStep DEF AcceptCode, End
  <2>2. TotpTypeOK'
    BY <1>7 DEF HandlersOK, AcceptCode, Valid, Continue, End, TotpTypeOK, TotpRow, Steps, StepCodes
  <2>3. Overshoot'
    BY <1>7, OvershootFar DEF AcceptCode, Continue, End, Through
  <2>4. CooldownSeen'
    BY <1>7 DEF AcceptCode, Continue, End, HandlersOK, CooldownSeen, Flying
  <2>5. QED
    BY <2>1, <2>2, <2>3, <2>4
<1>8. ASSUME NEW r \in Requests, Fail(r), UNCHANGED totpVars PROVE TotpInv'
  <2>1. HandlersOK'
    BY <1>8, HandlersStep DEF Fail, End
  <2>2. TotpTypeOK'
    BY <1>8 DEF HandlersOK, Fail, Continue, End, TotpTypeOK
  <2>3. Overshoot'
    <3>1. Through' \subseteq Through
      BY <1>8 DEF Fail, Continue, End, Through, HandlersOK
    <3>2. QED
      BY <1>8, <3>1, OvershootKept DEF TotpTypeOK, TotpRow
  <2>4. CooldownSeen'
    BY <1>8 DEF Fail, Continue, End, HandlersOK, CooldownSeen, Flying, Cooling
  <2>5. QED
    BY <2>1, <2>2, <2>3, <2>4
<1>9. CASE UNCHANGED <<reqVars, totpVars>>
  BY <1>9 DEF reqVars, HandlersOK, TotpTypeOK, Overshoot, Through, CooldownSeen, Flying, Cooling
<1>10. QED
  BY <1>1, <1>2, <1>3, <1>4, <1>5, <1>6, <1>7, <1>8, <1>9 DEF TotpNext

LEMMA TotpInvariant == TotpSpec => []TotpInv
<1>1. QED
  BY TotpInvInit, TotpInvNext, PTL DEF TotpSpec

\* The row, the codes accepted and what the requests know keep their types.
THEOREM TotpTypeCorrect == TotpSpec => []TotpTypeOK
<1>1. TotpInv => TotpTypeOK
  BY DEF TotpInv
<1>2. QED
  BY <1>1, TotpInvariant, PTL

\* Before a cooldown stops them, no more failures are verified than the limit and
\* one for every other request there can be (verify_totp increases the count in
\* the database, past a check on a copy).
THEOREM TotpBounded == TotpSpec => []BoundedOvershoot
<1>1. TotpInv => BoundedOvershoot
  BY ThroughFinite, TotpAssumption
     DEF TotpInv, Overshoot, BoundedOvershoot, TotpTypeOK, TotpRow
<1>2. QED
  BY <1>1, TotpInvariant, PTL

\* As long as no two requests overlap, a cooldown is neither taken back nor got
\* round before its end.
THEOREM TotpCooldownKept == TotpSpec => CooldownHolds
<1>1. TotpInv /\ [TotpNext]_<<reqVars, totpVars>>
        => [~ overlap /\ Cooling(totp, now)
              => totp'.count >= MaxTotpFailures /\ UNCHANGED accepted]_totpVars
  <2> SUFFICES ASSUME TotpInv, TotpNext, ~ overlap, Cooling(totp, now)
               PROVE  totp'.count >= MaxTotpFailures /\ UNCHANGED accepted
    BY DEF reqVars
  <2>1. CASE UNCHANGED totpVars
    BY <2>1 DEF totpVars, Cooling
  <2>2. ASSUME NEW r \in Requests, ResetTotp(r) \/ RejectCode(r) \/ AcceptCode(r)
        PROVE  FALSE
    <3>1. r \in Flying /\ pc[r] # "check"
      BY <2>2 DEF ResetTotp, RejectCode, AcceptCode, Flying
    <3>2. QED
      BY <3>1 DEF TotpInv, CooldownSeen
  <2>3. QED
    BY <2>1, <2>2 DEF TotpNext, ReadTotp, CheckTotp, RefreshTotp
<1>2. QED
  BY <1>1, TotpInvariant, PTL DEF TotpSpec, CooldownHolds
-----------------------------------------------------------------------------
(* TotpEnrolment                                                           *)

\* What is activated has a secret: the copy was read with one.
ActivationHasSecret ==
  \A r \in Requests : pc[r] = "activate" => local[r].row.secret # NoSecret

\* A request that is alone has the row as it is, and goes by what it has seen.
MfaSeen ==
  ~ overlap =>
    \A r \in Flying : /\ local[r].row = mfa
                      /\ pc[r] = "enroll" => ~ mfa.enabled
                      /\ pc[r] = "redeem" => local[r].code \in mfa.backup

\* A code in the row has not been redeemed, and a batch not shown yet has none
\* redeemed: so a new batch may replace the old one.
CodesUnused ==
  ~ overlap =>
    /\ \A c \in mfa.backup : redeemed[c] = 0
    /\ \A c \in BackupCodes : redeemed[c] # 0 => c[1] \in shown
    /\ \A c \in mfa.backup : c[1] \in shown

EnrolmentInv ==
  /\ HandlersOK /\ EnrolmentTypeOK /\ ActivationHasSecret
  /\ MfaSeen /\ CodesUnused
  /\ ActiveSecretVerified /\ BackupSingleUse

LEMMA EnrolmentInvInit == EnrolmentInit => EnrolmentInv
<1> SUFFICES ASSUME EnrolmentInit PROVE EnrolmentInv
  OBVIOUS
<1>1. HandlersOK
  BY HandlersStart DEF EnrolmentInit
<1>2. EnrolmentTypeOK
  <2>1. mfa \in MfaRow
    BY DEF EnrolmentInit, MfaRow
  <2>2. redeemed \in [BackupCodes -> 0..2]
    BY DEF EnrolmentInit
  <2>3. QED
    BY <2>1, <2>2 DEF EnrolmentInit, HandlersInit, EnrolmentTypeOK
<1>3. ActivationHasSecret /\ MfaSeen
  BY DEF EnrolmentInit, HandlersInit, ActivationHasSecret, MfaSeen, Flying
<1>4. CodesUnused /\ ActiveSecretVerified /\ BackupSingleUse
  BY DEF EnrolmentInit, CodesUnused, ActiveSecretVerified, BackupSingleUse
<1>5. QED
  BY <1>1, <1>2, <1>3, <1>4 DEF EnrolmentInv

LEMMA EnrolmentInvNext ==
  ASSUME EnrolmentInv, [EnrolmentNext]_<<reqVars, mfaVars>>
  PROVE  EnrolmentInv'
<1> USE EnrolmentAssumption
<1> USE DEF EnrolmentInv, mfaVars
<1> DEFINE Seen == ActivationHasSecret /\ MfaSeen
           Codes == CodesUnused /\ BackupSingleUse
\* A request that reads the row.
<1>1. ASSUME NEW r \in Requests, EnrollRead(r) \/ ActivateRead(r) \/ DisableRead(r)
      PROVE  EnrolmentInv'
  <2>1. HandlersOK'
    BY <1>1, HandlersStep DEF EnrollRead, ActivateRead, DisableRead
  <2>2. EnrolmentTypeOK'
    <3>1. PICK p \in {"enroll", "activate", "disable"} : Begin(r, p, [row |-> mfa])
      BY <1>1 DEF EnrollRead, ActivateRead, DisableRead
    <3>2. UNCHANGED mfaVars
      BY <1>1 DEF EnrollRead, ActivateRead, DisableRead
    <3>3. QED
      BY <2>1, <3>1, <3>2 DEF HandlersOK, Begin, EnrolmentTypeOK
  <2>3. Seen'
    BY <1>1 DEF HandlersOK, EnrollRead, ActivateRead, DisableRead, Begin, Overlapping,
                ActivationHasSecret, MfaSeen, Flying
  <2>4. Codes' /\ ActiveSecretVerified'
    BY <1>1 DEF EnrollRead, ActivateRead, DisableRead, Begin, Overlapping,
                CodesUnused, BackupSingleUse, ActiveSecretVerified
  <2>5. QED
    BY <2>1, <2>2, <2>3, <2>4
<1>2. ASSUME NEW r \in Requests, NEW c \in BackupCodes, RedeemRead(r, c) PROVE EnrolmentInv'
  <2>1. HandlersOK'
    BY <1>2, HandlersStep DEF RedeemRead
  <2>2. EnrolmentTypeOK'
    BY <1>2 DEF HandlersOK, RedeemRead, Begin, Overlapping, EnrolmentTypeOK
  <2>3. Seen'
    BY <1>2 DEF HandlersOK, RedeemRead, Begin, Overlapping, ActivationHasSecret, MfaSeen, Flying
  <2>4. Codes' /\ ActiveSecretVerified'
    BY <1>2 DEF RedeemRead, Begin, Overlapping, CodesUnused, BackupSingleUse, ActiveSecretVerified
  <2>5. QED
    BY <2>1, <2>2, <2>3, <2>4
<1>3. ASSUME NEW r \in Requests, Enroll(r) PROVE EnrolmentInv'
  <2>1. HandlersOK'
    BY <1>3, HandlersStep DEF Enroll, End
  <2>2. PICK s \in Secrets \ issued : mfa' = [mfa EXCEPT !.secret = s] /\ issued' = issued \union {s}
    BY <1>3 DEF Enroll
  <2>3. mfa' = [secret |-> s, enabled |-> mfa.enabled, backup |-> mfa.backup]
    BY <2>2 DEF EnrolmentTypeOK, MfaRow
  <2>4. EnrolmentTypeOK'
    <3>1. mfa' \in MfaRow
      BY <2>3 DEF EnrolmentTypeOK, MfaRow
    <3>2. QED
      BY <1>3, <2>2, <3>1 DEF HandlersOK, Enroll, End, Continue, EnrolmentTypeOK
  <2>5. Seen'
    BY <1>3 DEF HandlersOK, Enroll, End, Continue, ActivationHasSecret, MfaSeen, Flying
  <2>6. Codes'
    BY <1>3, <2>3 DEF Enroll, End, Continue, CodesUnused, BackupSingleUse
  <2>7. ActiveSecretVerified'
    BY <1>3, <2>3 DEF Enroll, End, Continue, MfaSeen, Flying, ActiveSecretVerified
  <2>8. QED
    BY <2>1, <2>4, <2>5, <2>6, <2>7
<1>4. ASSUME NEW r \in Requests, NEW b \in Batches, Activate(r, b) PROVE EnrolmentInv'
  <2>1. HandlersOK'
    BY <1>4, HandlersStep DEF Activate, End
  <2>2. local[r].row \in MfaRow /\ local[r].row.secret # NoSecret
    BY <1>4 DEF Activate, EnrolmentTypeOK, ActivationHasSecret
  <2>3. mfa' = [secret |-> mfa.secret, enabled |-> TRUE, backup |-> Batch(b)]
    BY <1>4 DEF Activate, EnrolmentTypeOK, MfaRow
  <2>4. EnrolmentTypeOK'
    <3>1. Batch(b) \subseteq BackupCodes
      BY DEF Batch, BackupCodes
    <3>2. mfa' \in MfaRow
      BY <2>3, <3>1 DEF EnrolmentTypeOK, MfaRow
    <3>3. verified' \subseteq Secrets
      BY <1>4, <2>2 DEF Activate, EnrolmentTypeOK, MfaRow
    <3>4. QED
      BY <1>4, <3>2, <3>3 DEF HandlersOK, Activate, End, Continue, EnrolmentTypeOK
  <2>5. Seen'
    BY <1>4 DEF HandlersOK, Activate, End, Continue, ActivationHasSecret, MfaSeen, Flying
  <2>6. Codes'
    <3> SUFFICES ASSUME ~ overlap PROVE Codes'
      BY <1>4 DEF Activate, End, Continue, CodesUnused, BackupSingleUse
    <3>1. \A c \in Batch(b) : c \in BackupCodes /\ c[1] = b
      BY DEF Batch, BackupCodes
    <3>2. QED
      BY <1>4, <2>3, <3>1 DEF Activate, CodesUnused, BackupSingleUse
  <2>7. ActiveSecretVerified'
    BY <1>4, <2>3 DEF Activate, End, Continue, MfaSeen, Flying, ActiveSecretVerified
  <2>8. QED
    BY <2>1, <2>4, <2>5, <2>6, <2>7
<1>5. ASSUME NEW r \in Requests, Redeem(r) PROVE EnrolmentInv'
  <2>1. HandlersOK'
    BY <1>5, HandlersStep DEF Redeem, End
  <2>2. local[r].row \in MfaRow /\ local[r].code \in BackupCodes
    BY <1>5 DEF Redeem, EnrolmentTypeOK
  <2>3. mfa' = [secret |-> mfa.secret, enabled |-> mfa.enabled,
                backup |-> local[r].row.backup \ {local[r].code}]
    BY <1>5 DEF Redeem, EnrolmentTypeOK, MfaRow
  <2>4. EnrolmentTypeOK'
    <3>1. mfa' \in MfaRow
      BY <2>2, <2>3 DEF EnrolmentTypeOK, MfaRow
    <3>2. redeemed' \in [BackupCodes -> 0..2]
      BY <1>5 DEF Redeem, EnrolmentTypeOK
    <3>3. QED
      BY <1>5, <3>1, <3>2 DEF HandlersOK, Redeem, End, Continue, EnrolmentTypeOK
  <2>5. Seen'
    BY <1>5 DEF HandlersOK, Redeem, End, Continue, ActivationHasSecret, MfaSeen, Flying
  <2>6. Codes'
    <3> SUFFICES ASSUME ~ overlap PROVE Codes'
      BY <1>5 DEF Redeem, End, Continue, CodesUnused, BackupSingleUse
    <3>1. local[r].row = mfa /\ local[r].code \in mfa.backup
      BY <1>5 DEF Redeem, MfaSeen, Flying
    <3>2. redeemed[local[r].code] = 0
      BY <3>1 DEF CodesUnused
    <3>3. redeemed' = [redeemed EXCEPT ![local[r].code] = 1]
      BY <1>5, <3>2 DEF Redeem
    <3>4. QED
      BY <1>5, <2>2, <2>3, <3>1, <3>3 DEF Redeem, EnrolmentTypeOK, CodesUnused, BackupSingleUse
  <2>7. ActiveSecretVerified'
    BY <1>5, <2>3 DEF Redeem, End, Continue, ActiveSecretVerified
  <2>8. QED
    BY <2>1, <2>4, <2>5, <2>6, <2>7
\* A request that ends and has changed nothing.
<1>6. ASSUME NEW r \in Requests, DisableRaises(r) \/ (Fail(r) /\ UNCHANGED mfaVars)
      PROVE  EnrolmentInv'
  <2>1. HandlersOK'
    BY <1>6, HandlersStep DEF DisableRaises, Fail, End
  <2>2. EnrolmentTypeOK'
    BY <1>6 DEF HandlersOK, DisableRaises, Fail, End, Continue, EnrolmentTypeOK
  <2>3. Seen'
    BY <1>6 DEF HandlersOK, DisableRaises, Fail, End, Continue, ActivationHasSecret, MfaSeen, Flying
  <2>4. Codes' /\ ActiveSecretVerified'
    BY <1>6 DEF DisableRaises, Fail, End, Continue,
                CodesUnused, BackupSingleUse, ActiveSecretVerified
  <2>5. QED
    BY <2>1, <2>2, <2>3, <2>4
<1>7. CASE UNCHANGED <<reqVars, mfaVars>>
  BY <1>7 DEF reqVars, HandlersOK, EnrolmentTypeOK, ActivationHasSecret, MfaSeen, Flying,
              CodesUnused, BackupSingleUse, ActiveSecretVerified
<1>8. QED
  BY <1>1, <1>2, <1>3, <1>4, <1>5, <1>6, <1>7 DEF EnrolmentNext

LEMMA EnrolmentInvariant == EnrolmentSpec => []EnrolmentInv
<1>1. QED
  BY EnrolmentInvInit, EnrolmentInvNext, PTL DEF EnrolmentSpec

\* The row, the histories and the copies keep their types.
THEOREM EnrolmentTypeCorrect == EnrolmentSpec => []EnrolmentTypeOK
<1>1. EnrolmentInv => EnrolmentTypeOK
  BY DEF EnrolmentInv
<1>2. QED
  BY <1>1, EnrolmentInvariant, PTL

\* As long as no two requests overlap, the secret in force is one a code has been
\* verified for (verify_and_activate_totp).
THEOREM EnrolmentVerified == EnrolmentSpec => []ActiveSecretVerified
<1>1. EnrolmentInv => ActiveSecretVerified
  BY DEF EnrolmentInv
<1>2. QED
  BY <1>1, EnrolmentInvariant, PTL

\* As long as no two requests overlap, no backup code is redeemed twice, over any
\* number of enrolments and batches (verify_backup_code).
THEOREM BackupCodesSingleUse == EnrolmentSpec => []BackupSingleUse
<1>1. EnrolmentInv => BackupSingleUse
  BY DEF EnrolmentInv
<1>2. QED
  BY <1>1, EnrolmentInvariant, PTL
-----------------------------------------------------------------------------
(* OneTimeCredentials                                                      *)

\* What is about to leave the service has been stored.
DeliveryStored ==
  \A r \in Requests : pc[r] = "deliver" => local[r].id \in stored[local[r].kind]

\* A challenge that is stored, about to be stored or being answered has no
\* credential yet, and one that has a credential is not drawn again.
ChallengesUnused ==
  ~ overlap =>
    /\ \A i \in Ids : usedFor[i] # {} => i \in drawn
    /\ \A i \in Ids : <<"registration", i>> \in challenges => i \in drawn /\ usedFor[i] = {}
    /\ \A r \in Flying :
         /\ pc[r] \in {"respond", "store"} => local[r].id \in drawn /\ usedFor[local[r].id] = {}
         /\ pc[r] = "register" =>
              \E i \in Ids : /\ local[r].challenge = <<"registration", i>>
                             /\ local[r].gone = {<<"registration", i>>}
                             /\ i \in drawn /\ usedFor[i] = {}

\* OneCredentialPerChallenge without counting.
OneDevice ==
  ~ overlap => \A i \in Ids : usedFor[i] = {} \/ \E a \in Authenticators : usedFor[i] = {a}

OnceInv ==
  /\ HandlersOK /\ OnceTypeOK
  /\ DeliveryStored /\ HandedOutIsStored
  /\ ChallengesUnused /\ OneDevice

LEMMA OnceInvInit == OnceInit => OnceInv
<1> SUFFICES ASSUME OnceInit PROVE OnceInv
  OBVIOUS
<1>1. HandlersOK
  BY HandlersStart DEF OnceInit
<1>2. OnceTypeOK
  BY DEF OnceInit, HandlersInit, OnceTypeOK
<1>3. DeliveryStored /\ HandedOutIsStored
  BY DEF OnceInit, HandlersInit, DeliveryStored, HandedOutIsStored
<1>4. ChallengesUnused /\ OneDevice
  BY DEF OnceInit, HandlersInit, ChallengesUnused, OneDevice, Flying
<1>5. QED
  BY <1>1, <1>2, <1>3, <1>4 DEF OnceInv

LEMMA OnceInvNext ==
  ASSUME OnceInv, [OnceNext]_<<reqVars, onceVars>>
  PROVE  OnceInv'
<1> USE DEF OnceInv, onceVars
<1> DEFINE Stored == DeliveryStored /\ HandedOutIsStored
           Unused == ChallengesUnused /\ OneDevice
<1>1. ASSUME NEW r \in Requests, NEW k \in Kinds, Draw(r, k) PROVE OnceInv'
  <2>1. PICK i \in Ids \ drawn :
          /\ Begin(r, "commit", [kind |-> k, id |-> i])
          /\ drawn' = drawn \union {i}
          /\ UNCHANGED <<stored, challenges, passkeys, out, usedFor>>
    BY <1>1 DEF Draw
  <2>2. HandlersOK'
    BY <2>1, HandlersStep
  <2>3. OnceTypeOK'
    BY <2>1, <2>2 DEF HandlersOK, Begin, OnceTypeOK
  <2>4. Stored'
    BY <2>1 DEF HandlersOK, Begin, DeliveryStored, HandedOutIsStored
  <2>5. Unused'
    BY <2>1 DEF HandlersOK, Begin, Overlapping, ChallengesUnused, OneDevice, Flying
  <2>6. QED
    BY <2>2, <2>3, <2>4, <2>5
<1>2. ASSUME NEW r \in Requests, CommitDrawn(r) PROVE OnceInv'
  <2>1. HandlersOK'
    BY <1>2, HandlersStep DEF CommitDrawn
  <2>2. local[r] \in [kind : Kinds, id : Ids]
    BY <1>2 DEF CommitDrawn, OnceTypeOK
  <2>3. OnceTypeOK'
    BY <1>2, <2>1, <2>2 DEF HandlersOK, CommitDrawn, Continue, OnceTypeOK
  <2>4. Stored'
    BY <1>2, <2>2 DEF HandlersOK, CommitDrawn, Continue, OnceTypeOK, DeliveryStored, HandedOutIsStored
  <2>5. Unused'
    BY <1>2 DEF HandlersOK, CommitDrawn, Continue, ChallengesUnused, OneDevice, Flying
  <2>6. QED
    BY <2>1, <2>3, <2>4, <2>5
<1>3. ASSUME NEW r \in Requests, Deliver(r) PROVE OnceInv'
  <2>1. HandlersOK'
    BY <1>3, HandlersStep DEF Deliver, End
  <2>2. local[r] \in [kind : Kinds, id : Ids]
    BY <1>3 DEF Deliver, OnceTypeOK
  <2>3. OnceTypeOK'
    BY <1>3, <2>1, <2>2 DEF HandlersOK, Deliver, End, Continue, OnceTypeOK
  <2>4. Stored'
    BY <1>3, <2>2 DEF HandlersOK, Deliver, End, Continue, DeliveryStored, HandedOutIsStored
  <2>5. Unused'
    BY <1>3 DEF HandlersOK, Deliver, End, Continue, ChallengesUnused, OneDevice, Flying
  <2>6. QED
    BY <2>1, <2>3, <2>4, <2>5
\* A request that is refused after a lookup, or that revokes a credential.
<1>4. ASSUME NEW r \in Requests, AtOnce(r), UNCHANGED <<stored, challenges, drawn, out, usedFor>>,
             passkeys' \subseteq Authenticators \X BOOLEAN
      PROVE  OnceInv'
  <2>1. HandlersOK'
    BY <1>4, HandlersStep
  <2>2. OnceTypeOK'
    BY <1>4, <2>1 DEF HandlersOK, AtOnce, OnceTypeOK
  <2>3. Stored'
    BY <1>4 DEF AtOnce, DeliveryStored, HandedOutIsStored
  <2>4. Unused'
    BY <1>4 DEF AtOnce, Overlapping, ChallengesUnused, OneDevice, Flying
  <2>5. QED
    BY <2>1, <2>2, <2>3, <2>4
<1>5. ASSUME NEW r \in Requests, NEW p \in Purposes, BeginCeremony(r, p) PROVE OnceInv'
  <2>1. PICK i \in Ids \ drawn :
          /\ Begin(r, "respond",
                   [purpose |-> p, id |-> i, gone |-> {c \in challenges : c[1] = p}])
          /\ drawn' = drawn \union {i}
          /\ UNCHANGED <<stored, challenges, passkeys, out, usedFor>>
    BY <1>5 DEF BeginCeremony
  <2>2. HandlersOK'
    BY <2>1, HandlersStep
  <2>3. OnceTypeOK'
    BY <2>1, <2>2 DEF HandlersOK, Begin, OnceTypeOK
  <2>4. Stored'
    BY <2>1 DEF HandlersOK, Begin, DeliveryStored, HandedOutIsStored
  <2>5. Unused'
    BY <2>1 DEF HandlersOK, Begin, Overlapping, ChallengesUnused, OneDevice, Flying
  <2>6. QED
    BY <2>2, <2>3, <2>4, <2>5
<1>6. ASSUME NEW r \in Requests, RespondChallenge(r) PROVE OnceInv'
  <2>1. HandlersOK'
    BY <1>6, HandlersStep DEF RespondChallenge
  <2>2. local[r] \in [purpose : Purposes, id : Ids, gone : SUBSET Challenges]
    BY <1>6 DEF RespondChallenge, OnceTypeOK
  <2>3. OnceTypeOK'
    BY <1>6, <2>1, <2>2 DEF HandlersOK, RespondChallenge, Continue, OnceTypeOK
  <2>4. Stored'
    BY <1>6, <2>2 DEF HandlersOK, RespondChallenge, Continue, DeliveryStored, HandedOutIsStored,
                      Kinds, Purposes
  <2>5. Unused'
    BY <1>6 DEF HandlersOK, RespondChallenge, Continue, ChallengesUnused, OneDevice, Flying
  <2>6. QED
    BY <2>1, <2>3, <2>4, <2>5
<1>7. ASSUME NEW r \in Requests, StoreChallenge(r) PROVE OnceInv'
  <2>1. HandlersOK'
    BY <1>7, HandlersStep DEF StoreChallenge, End
  <2>2. local[r] \in [purpose : Purposes, id : Ids, gone : SUBSET Challenges]
    BY <1>7 DEF StoreChallenge, OnceTypeOK
  <2>3. OnceTypeOK'
    BY <1>7, <2>1, <2>2 DEF HandlersOK, StoreChallenge, End, Continue, OnceTypeOK, Challenges
  <2>4. Stored'
    BY <1>7 DEF HandlersOK, StoreChallenge, End, Continue, DeliveryStored, HandedOutIsStored
  <2>5. Unused'
    BY <1>7 DEF HandlersOK, StoreChallenge, End, Continue, ChallengesUnused, OneDevice, Flying
  <2>6. QED
    BY <2>1, <2>3, <2>4, <2>5
<1>8. ASSUME NEW r \in Requests, ConsumeChallenge(r) PROVE OnceInv'
  <2>1. PICK c \in challenges \intersect out, a \in Authenticators :
          /\ c[1] = "registration"
          /\ Begin(r, "register", [challenge |-> c, gone |-> {c}, device |-> a])
          /\ UNCHANGED onceVars
    BY <1>8 DEF ConsumeChallenge
  <2>2. PICK i \in Ids : c = <<"registration", i>>
    BY <2>1 DEF OnceTypeOK, Challenges
  <2>3. HandlersOK'
    BY <2>1, HandlersStep
  <2>4. OnceTypeOK'
    BY <2>1, <2>3 DEF HandlersOK, Begin, OnceTypeOK
  <2>5. Stored'
    BY <2>1 DEF HandlersOK, Begin, DeliveryStored, HandedOutIsStored
  <2>6. Unused'
    BY <2>1, <2>2 DEF HandlersOK, Begin, Overlapping, ChallengesUnused, OneDevice, Flying
  <2>7. QED
    BY <2>3, <2>4, <2>5, <2>6
<1>9. ASSUME NEW r \in Requests, CompleteRegistration(r) PROVE OnceInv'
  <2>1. HandlersOK'
    BY <1>9, HandlersStep DEF CompleteRegistration, End
  <2>2. local[r] \in [challenge : Challenges, gone : SUBSET Challenges, device : Authenticators]
    BY <1>9 DEF CompleteRegistration, OnceTypeOK
  <2>3. OnceTypeOK'
    <3>1. local[r].challenge[2] \in Ids
      BY <2>2 DEF Challenges
    <3>2. usedFor' \in [Ids -> SUBSET Authenticators]
      BY <1>9, <2>2, <3>1 DEF CompleteRegistration, OnceTypeOK
    <3>3. passkeys' \subseteq Authenticators \X BOOLEAN
      <4>1. local[r].device \in Authenticators
        BY <2>2
      <4>2. <<local[r].device, FALSE>> \in Authenticators \X BOOLEAN
        BY <4>1, Zenon
      <4>3. passkeys' = passkeys \union {<<local[r].device, FALSE>>}
        BY <1>9 DEF CompleteRegistration
      <4>4. QED
        BY <4>2, <4>3, Zenon DEF OnceTypeOK
    <3>4. QED
      BY <1>9, <2>1, <3>2, <3>3 DEF HandlersOK, CompleteRegistration, End, Continue, OnceTypeOK
  <2>4. Stored'
    BY <1>9 DEF HandlersOK, CompleteRegistration, End, Continue, DeliveryStored, HandedOutIsStored
  <2>5. Unused'
    <3> SUFFICES ASSUME ~ overlap PROVE Unused'
      BY <1>9 DEF CompleteRegistration, End, Continue, ChallengesUnused, OneDevice
    <3>1. PICK i \in Ids : /\ local[r].challenge = <<"registration", i>>
                           /\ local[r].gone = {<<"registration", i>>}
                           /\ i \in drawn /\ usedFor[i] = {}
      BY <1>9 DEF CompleteRegistration, ChallengesUnused, Flying
    <3>2. usedFor' = [usedFor EXCEPT ![i] = {local[r].device}]
      <4>1. usedFor' = [usedFor EXCEPT ![i] = usedFor[i] \union {local[r].device}]
        <5>1. local[r].challenge[2] = i
          BY <3>1
        <5>2. QED
          BY <1>9, <5>1, Zenon DEF CompleteRegistration
      <4>2. usedFor[i] \union {local[r].device} = {local[r].device}
        BY <3>1
      <4>3. QED
        BY <4>1, <4>2
    <3>3. challenges' = challenges \ {<<"registration", i>>}
      BY <1>9, <3>1 DEF CompleteRegistration
    <3>4. Flying' = {}
      BY <1>9 DEF HandlersOK, CompleteRegistration, End, Continue, Flying
    <3>5. QED
      BY <1>9, <2>2, <3>1, <3>2, <3>3, <3>4
         DEF CompleteRegistration, OnceTypeOK, ChallengesUnused, OneDevice
  <2>6. QED
    BY <2>1, <2>3, <2>4, <2>5
<1>10. ASSUME NEW r \in Requests, Fail(r), UNCHANGED onceVars PROVE OnceInv'
  <2>1. HandlersOK'
    BY <1>10, HandlersStep DEF Fail, End
  <2>2. OnceTypeOK'
    BY <1>10, <2>1 DEF HandlersOK, Fail, End, Continue, OnceTypeOK
  <2>3. Stored'
    BY <1>10 DEF HandlersOK, Fail, End, Continue, DeliveryStored, HandedOutIsStored
  <2>4. Unused'
    BY <1>10 DEF HandlersOK, Fail, End, Continue, ChallengesUnused, OneDevice, Flying
  <2>5. QED
    BY <2>1, <2>2, <2>3, <2>4
<1>11. CASE UNCHANGED <<reqVars, onceVars>>
  BY <1>11 DEF reqVars, HandlersOK, OnceTypeOK, DeliveryStored, HandedOutIsStored,
               ChallengesUnused, OneDevice, Flying
<1>12. ASSUME NEW r \in Requests,
              \/ SendMagicLink(r) \/ SendEmailOtp(r) \/ RequestEmailChange(r)
              \/ Authorize(r) \/ Consent(r)
       PROVE  OnceInv'
  BY <1>1, <1>12 DEF SendMagicLink, SendEmailOtp, RequestEmailChange, Authorize, Consent, Kinds
<1>13. ASSUME NEW r \in Requests,
              \/ VerifyMagicLink(r) \/ VerifyEmailOtp(r) \/ ConfirmEmailChange(r) \/ CodeGrant(r)
              \/ CompleteAuthentication(r) \/ RevokeCredential(r)
       PROVE  OnceInv'
  <2>1. AtOnce(r) /\ UNCHANGED <<stored, challenges, drawn, out, usedFor>>
    BY <1>13 DEF VerifyMagicLink, VerifyEmailOtp, ConfirmEmailChange, CodeGrant, TakeBack,
                 CompleteAuthentication, RevokeCredential
  <2>2. passkeys' \subseteq Authenticators \X BOOLEAN
    <3>1. CASE RevokeCredential(r)
      <4>1. PICK a \in Authenticators :
              passkeys' = (passkeys \ {<<a, FALSE>>}) \union {<<a, TRUE>>}
        BY <3>1, Zenon DEF RevokeCredential
      <4>2. <<a, TRUE>> \in Authenticators \X BOOLEAN
        BY Zenon
      <4>3. QED
        BY <4>1, <4>2, Zenon DEF OnceTypeOK
    <3>2. CASE UNCHANGED onceVars
      BY <3>2 DEF OnceTypeOK
    <3>3. QED
      BY <1>13, <3>1, <3>2 DEF VerifyMagicLink, VerifyEmailOtp, ConfirmEmailChange, CodeGrant,
                               TakeBack, CompleteAuthentication
  <2>3. QED
    BY <1>4, <2>1, <2>2
<1>14. ASSUME NEW r \in Requests, BeginRegistration(r) \/ BeginAuthentication(r) PROVE OnceInv'
  BY <1>5, <1>14 DEF BeginRegistration, BeginAuthentication, Purposes
<1>15. QED
  BY <1>2, <1>3, <1>6, <1>7, <1>8, <1>9, <1>10, <1>11, <1>12, <1>13, <1>14 DEF OnceNext

LEMMA OnceInvariant == OnceSpec => []OnceInv
<1>1. QED
  BY OnceInvInit, OnceInvNext, PTL DEF OnceSpec

\* The rows, the histories and the requests keep their types.
THEOREM OnceTypeCorrect == OnceSpec => []OnceTypeOK
<1>1. OnceInv => OnceTypeOK
  BY DEF OnceInv
<1>2. QED
  BY <1>1, OnceInvariant, PTL

\* No magic link, email code, confirmation or authorization code leaves the
\* service before its row has been committed.
THEOREM HandedOutStored == OnceSpec => []HandedOutIsStored
<1>1. OnceInv => HandedOutIsStored
  BY DEF OnceInv
<1>2. QED
  BY <1>1, OnceInvariant, PTL

\* As long as no two requests overlap, a challenge is answered by one registration
\* at most.
THEOREM ChallengeSingleUse == OnceSpec => []OneCredentialPerChallenge
<1>1. OnceInv => OneCredentialPerChallenge
  <2> SUFFICES ASSUME OnceInv, ~ overlap, NEW i \in Ids PROVE Cardinality(usedFor[i]) <= 1
    BY DEF OneCredentialPerChallenge
  <2>1. usedFor[i] = {} \/ \E a \in Authenticators : usedFor[i] = {a}
    BY DEF OnceInv, OneDevice
  <2>2. QED
    BY <2>1, FS_EmptySet, FS_Singleton
<1>2. QED
  BY <1>1, OnceInvariant, PTL
-----------------------------------------------------------------------------
(* PasswordHistory                                                         *)

\* What LastOf returns of a sequence that is too long.
LEMMA LastOfLong ==
  ASSUME NEW S, NEW s \in Seq(S), NEW n \in Nat \ {0}, Len(s) > n
  PROVE  /\ LastOf(s, n) \in Seq(S) /\ Len(LastOf(s, n)) = n
         /\ \A k \in 1..n : LastOf(s, n)[k] = s[(Len(s) - n) + k]
<1>1. LastOf(s, n) = SubSeq(s, Len(s) - n + 1, Len(s))
  BY DEF LastOf
<1>2. Len(s) - n + 1 \in 1..Len(s)
  OBVIOUS
<1>3. /\ SubSeq(s, Len(s) - n + 1, Len(s)) \in Seq(S)
      /\ Len(SubSeq(s, Len(s) - n + 1, Len(s))) = n
      /\ \A k \in 1..n : SubSeq(s, Len(s) - n + 1, Len(s))[k] = s[(Len(s) - n) + k]
  BY <1>2
<1>4. QED
  BY <1>1, <1>3

\* l is the end of the sequence h with x after it, as much as there is room for.
EndsWith(l, h, x) ==
  /\ l \in Seq(Passwords) /\ Len(l) \in Nat /\ Len(h) \in Nat
  /\ Len(h) < Depth => Len(l) = Len(h) + 1
  /\ Len(h) >= Depth => Len(l) = Depth
  /\ l[Len(l)] = x
  /\ \A k \in 1..(Len(l) - 1) : l[k] = h[(Len(h) + 1 - Len(l)) + k]

LEMMA LastOfAppend ==
  ASSUME NEW h \in Seq(Passwords), NEW x \in Passwords
  PROVE  EndsWith(LastOf(Append(h, x), Depth), h, x)
<1> USE HistoryAssumption
<1> DEFINE a == Append(h, x)
           l == LastOf(a, Depth)
<1> SUFFICES EndsWith(l, h, x)
  OBVIOUS
<1>1. /\ a \in Seq(Passwords) /\ Len(h) \in Nat
      /\ Len(a) = Len(h) + 1 /\ a[Len(h) + 1] = x
      /\ \A k \in 1..Len(h) : a[k] = h[k]
  OBVIOUS
<1> HIDE DEF a
<1>2. CASE Len(h) < Depth
  <2>1. l = a
    BY <1>1, <1>2 DEF LastOf
  <2>2. Len(l) = Len(h) + 1
    BY <1>1, <2>1
  <2>3. \A k \in 1..(Len(l) - 1) : l[k] = h[(Len(h) + 1 - Len(l)) + k]
    <3> SUFFICES ASSUME NEW k \in 1..Len(h) PROVE l[k] = h[k]
      BY <1>1, <2>2
    <3>1. QED
      BY <1>1, <2>1
  <2> HIDE DEF l
  <2>4. QED
    BY <1>1, <1>2, <2>1, <2>2, <2>3 DEF EndsWith
<1>3. CASE Len(h) >= Depth
  <2>1. Len(a) > Depth
    BY <1>1, <1>3
  <2>2. /\ l \in Seq(Passwords) /\ Len(l) = Depth
        /\ \A k \in 1..Depth : l[k] = a[(Len(a) - Depth) + k]
    <3>1. Depth \in Nat \ {0} /\ a \in Seq(Passwords)
      BY <1>1
    <3>2. QED
      BY <2>1, <3>1, LastOfLong, Zenon
  <2> HIDE DEF l
  <2>3. l[Depth] = x
    BY <1>1, <2>2
  <2>4. \A k \in 1..(Depth - 1) : l[k] = h[(Len(h) + 1 - Depth) + k]
    <3> SUFFICES ASSUME NEW k \in 1..(Depth - 1) PROVE l[k] = h[(Len(h) + 1 - Depth) + k]
      OBVIOUS
    <3>1. /\ (Len(h) + 1 - Depth) + k \in 1..Len(h)
          /\ (Len(a) - Depth) + k = (Len(h) + 1 - Depth) + k
      BY <1>1, <1>3
    <3>2. l[k] = a[(Len(a) - Depth) + k]
      BY <2>2
    <3>3. QED
      BY <1>1, <3>1, <3>2
  <2>5. QED
    BY <1>1, <1>3, <2>2, <2>3, <2>4 DEF EndsWith
<1>4. QED
  BY <1>1, <1>2, <1>3

\* h is the history that the first n passwords leave when nothing disturbs them:
\* the last Depth of them, without the one of the registration.
Follows(h, n) ==
  /\ Len(h) = Depth \/ Len(h) = n - 1
  /\ Len(h) <= Depth /\ Len(h) < n
  /\ \A k \in 1..Len(h) : h[k] = past[(n - Len(h)) + k]

\* The row, and between the two commits the copy, follows what has been set.
HistoryFollows ==
  Undisturbed =>
    /\ pw.hash = past[Len(past)]
    /\ (\A r \in Flying : pc[r] = "update") => Follows(pw.history, Len(past))
    /\ \A r \in Flying :
         /\ pc[r] = "update" => local[r].row = pw
         /\ pc[r] = "push" => /\ Len(past) > 1
                              /\ Follows(local[r].row.history, Len(past) - 1)
                              /\ local[r].new = past[Len(past)]

HistoryInv == HandlersOK /\ HistoryTypeOK /\ past # <<>> /\ HistoryFollows /\ RecentRefused

\* The check of a new password covers what RecentRefused speaks of.
LEMMA RecentCovers ==
  ASSUME NEW row \in PwRow, past \in Seq(Passwords), NEW n \in Nat, n = Len(past), n > 0,
         Follows(row.history, n), row.hash = past[n],
         NEW j \in 1..n, n + 1 - j < Depth, j > 1 \/ n = 1
  PROVE  past[j] \in Recent(row)
<1> USE HistoryAssumption
<1> DEFINE h == row.history
           l == LastOf(Append(h, row.hash), Depth)
<1>1. h \in Seq(Passwords) /\ row.hash \in Passwords
  BY DEF PwRow
<1>2. /\ Len(l) \in Nat /\ Len(h) \in Nat
      /\ Len(h) < Depth => Len(l) = Len(h) + 1
      /\ Len(h) >= Depth => Len(l) = Depth
      /\ l[Len(l)] = row.hash
      /\ \A k \in 1..(Len(l) - 1) : l[k] = h[(Len(h) + 1 - Len(l)) + k]
  <2> HIDE DEF h
  <2>1. EndsWith(l, h, row.hash)
    BY <1>1, LastOfAppend, Zenon
  <2> HIDE DEF l
  <2>2. QED
    BY <2>1 DEF EndsWith
<1>3. Recent(row) = {l[k] : k \in 1..Len(l)}
  BY DEF Recent
<1>4. /\ Len(h) = Depth \/ Len(h) = n - 1
      /\ Len(h) <= Depth /\ Len(h) < n
      /\ \A k \in 1..Len(h) : h[k] = past[(n - Len(h)) + k]
  BY DEF Follows
<1> HIDE DEF h, l
<1>5. CASE j = n
  <2>1. Len(l) \in 1..Len(l)
    BY <1>2
  <2>2. QED
    BY <1>2, <1>3, <1>5, <2>1
<1>6. CASE j < n
  <2> DEFINE k == Len(l) - 1 - (n - j)
             i == (Len(h) + 1 - Len(l)) + k
  <2>1. k \in 1..(Len(l) - 1) /\ k \in 1..Len(l)
    <3>1. CASE Len(h) < Depth
      BY <1>2, <1>4, <1>6, <3>1
    <3>2. CASE Len(h) = Depth
      BY <1>2, <1>4, <1>6, <3>2
    <3>3. QED
      BY <1>2, <1>4, <3>1, <3>2
  <2>2. i \in 1..Len(h) /\ (n - Len(h)) + i = j
    <3>1. i = Len(h) - (n - j)
      BY <1>2
    <3>2. n - j < Len(h)
      <4>1. CASE Len(h) = n - 1
        BY <1>2, <1>6, <4>1
      <4>2. CASE Len(h) = Depth
        BY <1>2, <1>6, <4>2
      <4>3. QED
        BY <1>4, <4>1, <4>2
    <3>3. QED
      BY <1>2, <1>6, <3>1, <3>2
  <2>3. l[k] = h[i]
    BY <1>2, <2>1
  <2>4. h[i] = past[(n - Len(h)) + i]
    BY <1>4, <2>2
  <2>5. QED
    BY <1>3, <2>1, <2>2, <2>3, <2>4
<1>7. QED
  BY <1>5, <1>6

\* A push makes the copy's history follow the password that was set before it.
LEMMA PushFollows ==
  ASSUME NEW h \in Seq(Passwords), NEW p \in Passwords, NEW n \in Nat, n > 1,
         Follows(h, n - 1), p = past[n],
         NEW l, l = LastOf(Append(h, p), Depth)
  PROVE  Follows(l, n)
<1> USE HistoryAssumption
<1>1. /\ Len(l) \in Nat /\ Len(h) \in Nat
      /\ Len(h) < Depth => Len(l) = Len(h) + 1
      /\ Len(h) >= Depth => Len(l) = Depth
      /\ l[Len(l)] = p
      /\ \A k \in 1..(Len(l) - 1) : l[k] = h[(Len(h) + 1 - Len(l)) + k]
  <2>1. EndsWith(l, h, p)
    BY LastOfAppend, Zenon
  <2>2. QED
    BY <2>1 DEF EndsWith
<1>2. /\ Len(h) = Depth \/ Len(h) = n - 2
      /\ Len(h) <= Depth /\ Len(h) < n - 1
      /\ \A k \in 1..Len(h) : h[k] = past[(n - 1 - Len(h)) + k]
  BY DEF Follows
<1>3. \A k \in 1..Len(l) : l[k] = past[(n - Len(l)) + k]
  <2> SUFFICES ASSUME NEW k \in 1..Len(l) PROVE l[k] = past[(n - Len(l)) + k]
    OBVIOUS
  <2>1. CASE k = Len(l)
    <3>1. (n - Len(l)) + k = n
      BY <1>1, <2>1
    <3>2. QED
      BY <1>1, <2>1, <3>1
  <2>2. CASE k < Len(l)
    <3> DEFINE i == (Len(h) + 1 - Len(l)) + k
    <3>1. k \in 1..(Len(l) - 1)
      BY <1>1, <2>2
    <3>2. i \in 1..Len(h) /\ (n - 1 - Len(h)) + i = (n - Len(l)) + k
      BY <1>1, <1>2, <3>1
    <3>3. l[k] = h[i]
      BY <1>1, <3>1
    <3>4. h[i] = past[(n - 1 - Len(h)) + i]
      BY <1>2, <3>2
    <3>5. QED
      BY <3>2, <3>3, <3>4
  <2>3. QED
    BY <1>1, <2>1, <2>2
<1>4. (Len(l) = Depth \/ Len(l) = n - 1) /\ Len(l) <= Depth /\ Len(l) < n
  BY <1>1, <1>2
<1>5. QED
  BY <1>3, <1>4 DEF Follows
LEMMA HistoryInvInit == HistoryInit => HistoryInv
<1> SUFFICES ASSUME HistoryInit PROVE HistoryInv
  OBVIOUS
<1>1. PICK p \in Passwords : pw = [hash |-> p, history |-> <<>>] /\ past = <<p>>
  BY DEF HistoryInit
<1>2. HandlersOK
  BY HandlersStart DEF HistoryInit
<1>3. HistoryTypeOK
  <2>1. pw \in PwRow /\ Len(pw.history) <= Depth /\ past \in Seq(Passwords)
    BY <1>1, HistoryAssumption DEF PwRow
  <2>2. QED
    BY <2>1 DEF HistoryInit, HandlersInit, HistoryTypeOK
<1>4. HistoryFollows
  <2>1. Flying = {}
    BY DEF HistoryInit, HandlersInit, Flying
  <2>2. Follows(pw.history, Len(past))
    BY <1>1, HistoryAssumption DEF Follows
  <2>3. QED
    BY <1>1, <2>1, <2>2 DEF HistoryFollows
<1>5. RecentRefused /\ past # <<>>
  BY <1>1 DEF RecentRefused
<1>6. QED
  BY <1>2, <1>3, <1>4, <1>5 DEF HistoryInv

LEMMA HistoryInvNext ==
  ASSUME HistoryInv, [HistoryNext]_<<reqVars, pwVars>>
  PROVE  HistoryInv'
<1> USE HistoryAssumption
<1> USE DEF HistoryInv, pwVars
<1>1. ASSUME NEW r \in Requests, NEW p \in Passwords, ReadPassword(r, p) PROVE HistoryInv'
  <2>1. HandlersOK'
    BY <1>1, HandlersStep DEF ReadPassword
  <2>2. HistoryTypeOK'
    BY <1>1, <2>1 DEF HandlersOK, ReadPassword, Begin, HistoryTypeOK
  <2>3. HistoryFollows'
    <3> SUFFICES ASSUME Undisturbed' PROVE HistoryFollows'
      BY DEF HistoryFollows
    <3>1. Undisturbed /\ Flying = {} /\ Flying' = {r}
      BY <1>1 DEF HandlersOK, ReadPassword, Begin, Overlapping, Undisturbed, Flying
    <3>2. Follows(pw.history, Len(past)) /\ pw.hash = past[Len(past)]
      BY <3>1 DEF HistoryFollows
    <3>3. UNCHANGED <<pw, past>> /\ pc'[r] = "update" /\ local'[r].row = pw
      BY <1>1 DEF HandlersOK, ReadPassword, Begin
    <3>4. QED
      BY <3>1, <3>2, <3>3 DEF HistoryFollows, Follows
  <2>4. RecentRefused' /\ past' # <<>>
    BY <1>1 DEF ReadPassword, Begin, Overlapping, Undisturbed, RecentRefused
  <2>5. QED
    BY <2>1, <2>2, <2>3, <2>4
<1>2. ASSUME NEW r \in Requests, UpdatePassword(r) PROVE HistoryInv'
  <2> DEFINE n == Len(past)
             new == local[r].new
             row == local[r].row
  <2>1. HandlersOK'
    BY <1>2, HandlersStep DEF UpdatePassword
  <2>2. row \in PwRow /\ new \in Passwords /\ past \in Seq(Passwords) /\ n \in Nat /\ n > 0
    BY <1>2 DEF UpdatePassword, HistoryTypeOK
  <2>3. /\ past' = Append(past, new) /\ past' \in Seq(Passwords) /\ Len(past') = n + 1
        /\ past'[n + 1] = new /\ \A k \in 1..n : past'[k] = past[k]
    BY <1>2, <2>2 DEF UpdatePassword
  <2>4. pw' = [hash |-> new, history |-> pw.history] /\ pw.history \in Seq(Passwords)
    BY <1>2 DEF UpdatePassword, HistoryTypeOK, PwRow
  <2>5. HistoryTypeOK'
    <3>1. pw' \in PwRow /\ Len(pw'.history) <= Depth
      BY <2>2, <2>4 DEF HistoryTypeOK, PwRow
    <3>2. QED
      BY <1>2, <2>1, <2>3, <3>1 DEF HandlersOK, UpdatePassword, Continue, HistoryTypeOK
  <2>6. ASSUME Undisturbed
        PROVE  row = pw /\ Flying = {r} /\ Follows(pw.history, n) /\ pw.hash = past[n]
    <3>1. Flying = {r}
      BY <1>2, <2>6 DEF HandlersOK, UpdatePassword, Undisturbed, Flying
    <3>2. QED
      BY <1>2, <2>6, <3>1 DEF UpdatePassword, HistoryFollows
  <2>7. Undisturbed' <=> Undisturbed
    BY <1>2 DEF UpdatePassword, Continue, Undisturbed
  <2>8. HistoryFollows'
    <3> SUFFICES ASSUME Undisturbed PROVE HistoryFollows'
      BY <2>7 DEF HistoryFollows
    <3> DEFINE h == pw.history
    <3>1. /\ Flying' = {r} /\ pc'[r] = "push"
          /\ local'[r].row.history = h /\ local'[r].new = new
      BY <1>2, <2>6 DEF HandlersOK, UpdatePassword, Continue, Flying
    <3>2. /\ Len(h) = Depth \/ Len(h) = n - 1
          /\ Len(h) <= Depth /\ Len(h) < n
          /\ \A k \in 1..Len(h) : h[k] = past[(n - Len(h)) + k]
      BY <2>6 DEF Follows
    <3>3. \A k \in 1..Len(h) : h[k] = past'[(n - Len(h)) + k]
      <4> SUFFICES ASSUME NEW k \in 1..Len(h) PROVE h[k] = past'[(n - Len(h)) + k]
        OBVIOUS
      <4>1. (n - Len(h)) + k \in 1..n
        BY <2>2, <2>4, <3>2
      <4>2. QED
        BY <2>3, <3>2, <4>1
    <3>4. Len(past') - 1 = n /\ n + 1 > 1
      BY <2>2, <2>3
    <3>5. Follows(local[r].row.history, Len(past) - 1)'
      BY <3>1, <3>2, <3>3, <3>4 DEF Follows
    <3>6. pw'.hash = past'[Len(past')] /\ local'[r].new = past'[Len(past')]
      BY <2>3, <2>4, <3>1
    <3>7. QED
      BY <2>3, <3>1, <3>4, <3>5, <3>6 DEF HistoryFollows
  <2>9. RecentRefused'
    <3> SUFFICES ASSUME Undisturbed, NEW i \in 1..(n + 1), NEW j \in 1..(n + 1),
                        j < i, i - j < Depth, j > 1 \/ i = 2
                 PROVE  past'[i] # past'[j]
      BY <2>2, <2>3, <2>7 DEF RecentRefused
    <3>1. CASE i <= n
      BY <2>2, <2>3, <3>1 DEF RecentRefused
    <3>2. CASE i = n + 1
      <4>1. j \in 1..n /\ n + 1 - j < Depth /\ (j > 1 \/ n = 1)
        <5> HIDE DEF n
        <5>1. n \in Nat
          BY <2>2
        <5>2. QED
          BY <3>2, <5>1
      <4>2. past[j] \in Recent(row)
        BY <2>2, <2>6, <4>1, RecentCovers
      <4>3. new \notin Recent(row)
        BY <1>2 DEF UpdatePassword
      <4>4. QED
        BY <2>3, <3>2, <4>1, <4>2, <4>3
    <3>3. QED
      BY <2>2, <3>1, <3>2
  <2>10. past' # <<>>
    BY <2>2, <2>3
  <2>11. QED
    BY <2>1, <2>5, <2>8, <2>9, <2>10
<1>3. ASSUME NEW r \in Requests, PushHistory(r) PROVE HistoryInv'
  <2> DEFINE n == Len(past)
             h == local[r].row.history
             new == local[r].new
             l == LastOf(Append(h, new), Depth)
  <2>1. HandlersOK'
    BY <1>3, HandlersStep DEF PushHistory, End
  <2>2. h \in Seq(Passwords) /\ new \in Passwords
    BY <1>3 DEF PushHistory, HistoryTypeOK, PwRow
  <2>3. pw' = [hash |-> pw.hash, history |-> l]
    BY <1>3 DEF PushHistory, HistoryTypeOK, PwRow
  <2>4. EndsWith(l, h, new)
    <3> HIDE DEF h, new
    <3>1. QED
      BY <2>2, LastOfAppend, Zenon
  <2>5. HistoryTypeOK'
    <3> HIDE DEF l
    <3>1. l \in Seq(Passwords) /\ Len(l) <= Depth
      BY <2>4 DEF EndsWith
    <3>2. pw' \in PwRow /\ Len(pw'.history) <= Depth
      BY <2>3, <3>1 DEF HistoryTypeOK, PwRow
    <3>3. QED
      BY <1>3, <2>1, <3>2 DEF HandlersOK, PushHistory, End, Continue, HistoryTypeOK
  <2>6. HistoryFollows'
    <3> SUFFICES ASSUME Undisturbed PROVE HistoryFollows'
      BY <1>3 DEF PushHistory, End, Continue, Undisturbed, HistoryFollows
    <3>1. Flying = {r} /\ Flying' = {}
      BY <1>3 DEF HandlersOK, PushHistory, End, Continue, Undisturbed, Flying
    <3>2. n > 1 /\ Follows(h, n - 1) /\ new = past[n] /\ pw.hash = past[n]
      BY <1>3, <3>1 DEF PushHistory, HistoryFollows
    <3>3. Follows(l, n)
      <4>1. n \in Nat
        BY DEF HistoryTypeOK
      <4>2. QED
        BY <2>2, <3>2, <4>1, PushFollows
    <3>4. past' = past
      BY <1>3 DEF PushHistory
    <3>5. QED
      BY <2>3, <3>1, <3>2, <3>3, <3>4 DEF HistoryFollows, Follows
  <2>7. RecentRefused' /\ past' # <<>>
    BY <1>3 DEF PushHistory, End, Continue, Undisturbed, RecentRefused
  <2>8. QED
    BY <2>1, <2>5, <2>6, <2>7
<1>4. ASSUME NEW r \in Requests, FailChange(r) PROVE HistoryInv'
  <2>1. HandlersOK'
    BY <1>4, HandlersStep DEF FailChange, Fail, End
  <2>2. HistoryTypeOK'
    BY <1>4, <2>1 DEF HandlersOK, FailChange, Fail, End, Continue, HistoryTypeOK
  <2>3. HistoryFollows'
    <3> SUFFICES ASSUME Undisturbed' PROVE HistoryFollows'
      BY DEF HistoryFollows
    <3>1. Undisturbed /\ pc[r] # "push"
      BY <1>4 DEF FailChange, Fail, End, Continue, Undisturbed, HistoryTypeOK
    <3>2. Flying = {r} /\ Flying' = {} /\ pc[r] = "update"
      BY <1>4, <3>1 DEF HandlersOK, FailChange, Fail, End, Continue, Undisturbed, Flying,
                        HistoryTypeOK
    <3>3. Follows(pw.history, Len(past)) /\ pw.hash = past[Len(past)]
      BY <3>1, <3>2 DEF HistoryFollows
    <3>4. UNCHANGED <<pw, past>>
      BY <1>4 DEF FailChange
    <3>5. QED
      BY <3>2, <3>3, <3>4 DEF HistoryFollows, Follows
  <2>4. RecentRefused' /\ past' # <<>>
    BY <1>4 DEF FailChange, Fail, End, Continue, Undisturbed, RecentRefused
  <2>5. QED
    BY <2>1, <2>2, <2>3, <2>4
<1>5. CASE UNCHANGED <<reqVars, pwVars>>
  <2>1. HandlersOK' /\ HistoryTypeOK'
    BY <1>5 DEF reqVars, HandlersOK, Flying, HistoryTypeOK
  <2>2. HistoryFollows'
    BY <1>5 DEF reqVars, HistoryFollows, Follows, Undisturbed, Flying
  <2>3. RecentRefused' /\ past' # <<>>
    BY <1>5 DEF reqVars, RecentRefused, Undisturbed
  <2>4. QED
    BY <2>1, <2>2, <2>3
<1>6. QED
  BY <1>1, <1>2, <1>3, <1>4, <1>5 DEF HistoryNext

LEMMA HistoryInvariant == HistorySpec => []HistoryInv
<1>1. QED
  BY HistoryInvInit, HistoryInvNext, PTL DEF HistorySpec

\* The row, the passwords set so far and the copies keep their types, and the
\* history its length.
THEOREM HistoryTypeCorrect == HistorySpec => []HistoryTypeOK
<1>1. HistoryInv => HistoryTypeOK
  BY DEF HistoryInv
<1>2. QED
  BY <1>1, HistoryInvariant, PTL

\* As long as no two changes overlap and none is cut short, a password that is set
\* again was set at least Depth changes before, for any Depth and any number of
\* changes (validate_password, _push_password_history).
THEOREM HistoryRefuses == HistorySpec => []RecentRefused
<1>1. HistoryInv => RecentRefused
  BY DEF HistoryInv
<1>2. QED
  BY <1>1, HistoryInvariant, PTL
=============================================================================
