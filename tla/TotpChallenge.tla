--------------------------- MODULE TotpChallenge ---------------------------
(***************************************************************************)
(* The TOTP step of a login (app/mfa/totp.py, verify_totp): the failure    *)
(* count with its cooldown and the replay check of one enrolled user, and  *)
(* concurrent requests that bring a code.                                  *)
(*                                                                         *)
(* A request reads the user once.  Time is counted in TOTP steps of thirty *)
(* seconds, and a code is the step it belongs to.                          *)
(***************************************************************************)
EXTENDS Handlers, FiniteSets, Sequences

CONSTANTS
  MaxTotpFailures,  \* settings.TOTP_MAX_FAILURES
  Window,           \* _LOCKOUT_WINDOW_SECONDS, in steps
  MaxTotpCount,     \* bound on the failures counted
  MaxAccepted       \* bound on the codes accepted

ASSUME TotpAssumption ==
  /\ MaxTotpFailures \in Nat \ {0} /\ Window \in Nat \ {0}
  /\ MaxTotpCount \in Nat /\ MaxAccepted \in Nat

Never == -1      \* totp_last_failure_at is NULL
BadCode == -2    \* a code of no step near now
NoCode == -3     \* totp_last_used_code is NULL

VARIABLES
  totp,     \* [count, last, used]: totp_failure_count, totp_last_failure_at and
            \* totp_last_used_code, as committed
  accepted  \* history: the codes accepted so far, in order

totpVars == <<totp, accepted>>

Steps == 0..MaxTime
StepCodes == (-1)..(MaxTime + 1)
TotpRow == [count : 0..MaxTotpCount, last : Steps \union {Never},
            used : StepCodes \union {NoCode}]

TotpTypeOK ==
  /\ now \in Steps /\ overlap \in BOOLEAN
  /\ totp \in TotpRow
  /\ accepted \in Seq(StepCodes)
  /\ \A r \in Requests :
       /\ pc[r] \in {"idle", "check", "reset", "refresh", "verify"}
       /\ IF pc[r] = "idle" THEN local[r] = <<>>
          ELSE local[r] \in [code : StepCodes \union {BadCode},
                            row : TotpRow, at : Steps \union {Never}]

TotpInit ==
  /\ HandlersInit
  /\ totp = [count |-> 0, last |-> Never, used |-> NoCode]
  /\ accepted = <<>>

-----------------------------------------------------------------------------
\* valid_window=1: the code of this step and of the two beside it.
Valid(c) == c \in (now - 1)..(now + 1)

Cooling(row, t) == row.count >= MaxTotpFailures /\ row.last # Never /\ t - row.last < Window

ReadTotp(r, c) ==
  /\ Begin(r, "check", [code |-> c, row |-> totp, at |-> Never])
  /\ UNCHANGED totpVars

\* Mutation: the failures are not looked at.
CheckTotpSkipped(r) ==
  /\ pc[r] = "check"
  /\ Continue(r, "verify", [local[r] EXCEPT !.at = now])
  /\ UNCHANGED totpVars

\* Mutation: the age of the last failure is not looked at.
CheckTotpAgeless(r) ==
  /\ pc[r] = "check"
  /\ LET row == local[r].row
         Go(p) == Continue(r, p, [local[r] EXCEPT !.at = now])
     IN \/ row.count < MaxTotpFailures /\ Go("verify")
        \/ /\ row.count >= MaxTotpFailures
           /\ IF row.last = Never THEN End(r) ELSE Go("reset")
  /\ UNCHANGED totpVars

\* 429 at the limit, while the cooldown runs or if its start is unknown; once
\* it is over the count is reset first.
CheckTotp(r) ==
  /\ pc[r] = "check"
  /\ LET row == local[r].row
         Go(p) == Continue(r, p, [local[r] EXCEPT !.at = now])
     IN \/ row.count < MaxTotpFailures /\ Go("verify")
        \/ /\ row.count >= MaxTotpFailures
           /\ IF row.last = Never \/ Cooling(row, now) THEN End(r) ELSE Go("reset")
  /\ UNCHANGED totpVars

\* UPDATE and commit.
ResetTotp(r) ==
  /\ pc[r] = "reset"
  /\ totp' = [totp EXCEPT !.count = 0, !.last = Never]
  /\ Continue(r, "refresh", local[r])
  /\ UNCHANGED accepted

RefreshTotp(r) ==
  /\ pc[r] = "refresh"
  /\ Continue(r, "verify", [local[r] EXCEPT !.row = totp])
  /\ UNCHANGED totpVars

\* The database adds one to whatever the count is by now; commit.
RejectCode(r) ==
  /\ pc[r] = "verify" /\ ~ Valid(local[r].code) /\ totp.count < MaxTotpCount
  /\ totp' = [totp EXCEPT !.count = @ + 1, !.last = local[r].at]
  /\ End(r)
  /\ UNCHANGED accepted

\* A code that is not the last one accepted, by the copy; commit.
AcceptCode(r) ==
  /\ pc[r] = "verify" /\ Valid(local[r].code) /\ local[r].row.used # local[r].code
  /\ Len(accepted) < MaxAccepted
  /\ totp' = [count |-> 0, last |-> Never, used |-> local[r].code]
  /\ accepted' = Append(accepted, local[r].code)
  /\ End(r)

TotpNext ==
  \/ Tick /\ UNCHANGED totpVars
  \/ \E r \in Requests :
       \/ \E c \in ((now - 1)..(now + 1)) \union {BadCode} : ReadTotp(r, c)
       \/ CheckTotp(r) \/ ResetTotp(r) \/ RefreshTotp(r)
       \/ RejectCode(r) \/ AcceptCode(r)
       \/ Fail(r) /\ UNCHANGED totpVars

TotpSpec == TotpInit /\ [][TotpNext]_<<reqVars, totpVars>>

-----------------------------------------------------------------------------
(* Safety, for any number of concurrent requests                           *)

\* The failures verified before a cooldown are the limit and at most one more
\* for every other request that had passed the check: the count is increased by
\* the database, and no concurrent failure is lost.
BoundedOvershoot == totp.count < MaxTotpFailures + Cardinality(Requests)

(* Safety as long as no two requests overlap; refuted without that         *)

\* "consecutive failures trigger a 60-second cooldown": nothing takes a cooldown
\* away before its end, and no code is accepted during one.
CooldownHolds ==
  [][~ overlap /\ Cooling(totp, now)
       => totp'.count >= MaxTotpFailures /\ UNCHANGED accepted]_totpVars
=============================================================================
