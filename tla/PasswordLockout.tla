-------------------------- MODULE PasswordLockout --------------------------
(***************************************************************************)
(* The account lockout of the password login (app/api/v1/auth.py, login):  *)
(* failed_login_count and locked_until of one user, and the requests that  *)
(* read them, verify a password and write them back.                       *)
(*                                                                         *)
(* A request reads the user once; what it decides later it decides on that *)
(* copy.  Every UPDATE writes values computed from the copy.               *)
(***************************************************************************)
EXTENDS Handlers

CONSTANTS
  MaxFailures,  \* _MAX_FAILURES
  Lockout,      \* _LOCKOUT_SECONDS, in ticks
  MaxCount      \* bound on the failures counted

ASSUME LockoutAssumption ==
  MaxFailures \in Nat \ {0} /\ Lockout \in Nat \ {0} /\ MaxCount \in Nat

NoLock == -1

VARIABLE lock  \* [count, until]: failed_login_count and locked_until, as committed

LockRow == [count : 0..MaxCount, until : NoLock..(MaxTime + Lockout)]

LockTypeOK ==
  /\ now \in 0..MaxTime /\ overlap \in BOOLEAN
  /\ lock \in LockRow
  /\ \A r \in Requests :
       /\ pc[r] \in {"idle", "check", "clear", "refresh", "verify"}
       /\ pc[r] = "idle" => local[r] = <<>>
       /\ pc[r] = "check" => local[r] \in [row : LockRow]
       /\ pc[r] \notin {"idle", "check"} => local[r] \in [row : LockRow, at : 0..MaxTime]

LockInit ==
  /\ HandlersInit
  /\ lock = [count |-> 0, until |-> NoLock]

-----------------------------------------------------------------------------
Unlocked == [count |-> 0, until |-> NoLock]

\* What a failure at time t makes of a row with the count c.
Failed(c, t) ==
  [count |-> c + 1, until |-> IF c + 1 >= MaxFailures THEN t + Lockout ELSE NoLock]

\* get_by_email: the copy every later decision is made on.
ReadLock(r) == Begin(r, "check", [row |-> lock]) /\ UNCHANGED lock

\* Mutation: the lock is not looked at.
CheckLockSkipped(r) ==
  /\ pc[r] = "check"
  /\ Continue(r, "verify", [row |-> local[r].row, at |-> now])
  /\ UNCHANGED lock

\* 423 while the lock holds; an expired lock is cleared first.
CheckLock(r) ==
  /\ pc[r] = "check"
  /\ LET row == local[r].row
         Go(p) == Continue(r, p, [row |-> row, at |-> now])
     IN \/ row.until = NoLock /\ Go("verify")
        \/ row.until # NoLock /\ now < row.until /\ End(r)
        \/ row.until # NoLock /\ now >= row.until /\ Go("clear")
  /\ UNCHANGED lock

\* Mutation: the count survives the lock.
ClearLockOnly(r) ==
  /\ pc[r] = "clear"
  /\ lock' = [lock EXCEPT !.until = NoLock]
  /\ Continue(r, "refresh", local[r])

\* UPDATE and commit, then a refresh of the copy.
ClearLock(r) ==
  /\ pc[r] = "clear"
  /\ lock' = Unlocked
  /\ Continue(r, "refresh", local[r])

RefreshLock(r) ==
  /\ pc[r] = "refresh"
  /\ Continue(r, "verify", [local[r] EXCEPT !.row = lock])
  /\ UNCHANGED lock

\* The count of the copy plus one, and the lock or none: both columns are
\* written whatever they hold by now.
WrongPassword(r) ==
  /\ pc[r] = "verify" /\ local[r].row.count < MaxCount
  /\ lock' = Failed(local[r].row.count, local[r].at)
  /\ End(r)

\* A success resets what the copy shows to need it, and nothing otherwise.
RightPassword(r) ==
  /\ pc[r] = "verify"
  /\ lock' = IF local[r].row = Unlocked THEN lock ELSE Unlocked
  /\ End(r)

LockNext ==
  \/ Tick /\ UNCHANGED lock
  \/ \E r \in Requests :
       \/ ReadLock(r) \/ CheckLock(r) \/ ClearLock(r) \/ RefreshLock(r)
       \/ WrongPassword(r) \/ RightPassword(r)
       \/ Fail(r) /\ UNCHANGED lock

LockSpec == LockInit /\ [][LockNext]_<<reqVars, lock>>

-----------------------------------------------------------------------------
Locked == lock.until # NoLock /\ now < lock.until

(* Safety, for any number of concurrent requests                           *)

\* The two columns agree in every committed row: the count has reached the
\* limit exactly when there is a lock, so no request can find a user at the
\* limit and unlocked, or locked for fewer failures.
LockMatchesCount == lock.count >= MaxFailures <=> lock.until # NoLock

(* Safety as long as no two logins overlap; refuted without that           *)

\* "15-minute lockout": no lock is taken away before its time.
LockHolds == [][~ overlap /\ Locked => lock' = lock]_lock
=============================================================================
