--------------------------- MODULE TotpEnrolment ---------------------------
(***************************************************************************)
(* Enrolment of TOTP and redemption of backup codes for one user           *)
(* (app/mfa/totp.py: enroll_totp, verify_and_activate_totp,                *)
(* verify_backup_code; app/api/v1/auth.py: totp_disable).                  *)
(*                                                                         *)
(* Each request reads the user's row, decides on that copy and commits one *)
(* UPDATE of it.                                                           *)
(***************************************************************************)
EXTENDS Handlers, FiniteSets

CONSTANTS
  Secrets,    \* the secrets pyotp may generate: bounds the enrolments
  Batches,    \* one batch of backup codes per activation: bounds those
  PerBatch,   \* backup codes per batch
  NoSecret

ASSUME EnrolmentAssumption == NoSecret \notin Secrets /\ PerBatch \in Nat \ {0}

VARIABLES
  mfa,        \* [secret, enabled, backup]: totp_secret_enc, is_totp_enabled and
              \* totp_backup_codes, as committed; no codes are {}
  issued,     \* history: secrets generated
  verified,   \* history: secrets a right code has been brought for
  shown,      \* history: batches shown to the user
  redeemed    \* history: how often each backup code was redeemed, up to twice

mfaVars == <<mfa, issued, verified, shown, redeemed>>

BackupCodes == Batches \X (1..PerBatch)
Batch(b) == {b} \X (1..PerBatch)
MfaRow == [secret : Secrets \union {NoSecret}, enabled : BOOLEAN, backup : SUBSET BackupCodes]

EnrolmentTypeOK ==
  /\ overlap \in BOOLEAN
  /\ mfa \in MfaRow
  /\ issued \subseteq Secrets /\ verified \subseteq Secrets
  /\ shown \subseteq Batches
  /\ redeemed \in [BackupCodes -> 0..2]
  /\ \A r \in Requests :
       /\ pc[r] \in {"idle", "enroll", "activate", "redeem", "disable"}
       /\ pc[r] = "idle" => local[r] = <<>>
       /\ pc[r] = "redeem" => local[r] \in [row : MfaRow, code : BackupCodes]
       /\ pc[r] \notin {"idle", "redeem"} => local[r] \in [row : MfaRow]

EnrolmentInit ==
  /\ HandlersInit
  /\ mfa = [secret |-> NoSecret, enabled |-> FALSE, backup |-> {}]
  /\ issued = {} /\ verified = {} /\ shown = {}
  /\ redeemed = [c \in BackupCodes |-> 0]

-----------------------------------------------------------------------------
\* 409 when TOTP is active.
EnrollRead(r) ==
  /\ ~ mfa.enabled
  /\ Begin(r, "enroll", [row |-> mfa]) /\ UNCHANGED mfaVars

\* A new secret, not active yet.
Enroll(r) ==
  /\ pc[r] = "enroll"
  /\ \E s \in Secrets \ issued :
       mfa' = [mfa EXCEPT !.secret = s] /\ issued' = issued \union {s}
  /\ End(r)
  /\ UNCHANGED <<verified, shown, redeemed>>

\* 400 without a secret, 409 when TOTP is active.
ActivateRead(r) ==
  /\ mfa.secret # NoSecret /\ ~ mfa.enabled
  /\ Begin(r, "activate", [row |-> mfa]) /\ UNCHANGED mfaVars

\* Mutation: the enrolment is activated whatever code comes.
ActivateUnchecked(r, b) ==
  /\ pc[r] = "activate" /\ b \notin shown
  /\ mfa' = [mfa EXCEPT !.enabled = TRUE, !.backup = Batch(b)]
  /\ shown' = shown \union {b}
  /\ End(r)
  /\ UNCHANGED <<issued, verified, redeemed>>

\* The code is right for the secret of the copy: active, with a new batch of
\* backup codes.
Activate(r, b) ==
  /\ pc[r] = "activate" /\ b \notin shown
  /\ mfa' = [mfa EXCEPT !.enabled = TRUE, !.backup = Batch(b)]
  /\ verified' = verified \union {local[r].row.secret}
  /\ shown' = shown \union {b}
  /\ End(r)
  /\ UNCHANGED <<issued, redeemed>>

RedeemRead(r, c) ==
  /\ mfa.enabled /\ c \in mfa.backup
  /\ Begin(r, "redeem", [row |-> mfa, code |-> c]) /\ UNCHANGED mfaVars

\* Mutation: the code is not removed.
RedeemKeeps(r) ==
  /\ pc[r] = "redeem"
  /\ redeemed' = [redeemed EXCEPT ![local[r].code] = IF @ < 2 THEN @ + 1 ELSE @]
  /\ End(r)
  /\ UNCHANGED <<mfa, issued, verified, shown>>

\* The copy's list without the code is written back whole.
Redeem(r) ==
  /\ pc[r] = "redeem"
  /\ mfa' = [mfa EXCEPT !.backup = local[r].row.backup \ {local[r].code}]
  /\ redeemed' = [redeemed EXCEPT ![local[r].code] = IF @ < 2 THEN @ + 1 ELSE @]
  /\ End(r)
  /\ UNCHANGED <<issued, verified, shown>>

\* 403 where the tenant mandates MFA, nothing to do where it is not active.
DisableRead(r) ==
  /\ mfa.enabled
  /\ Begin(r, "disable", [row |-> mfa]) /\ UNCHANGED mfaVars

\* The UPDATE names a column totp_secret, which User does not have: SQLAlchemy
\* raises, and nothing is committed.
DisableRaises(r) == pc[r] = "disable" /\ End(r) /\ UNCHANGED mfaVars

EnrolmentNext ==
  \E r \in Requests :
    \/ EnrollRead(r) \/ Enroll(r) \/ ActivateRead(r) \/ Redeem(r)
    \/ \E b \in Batches : Activate(r, b)
    \/ \E c \in BackupCodes : RedeemRead(r, c)
    \/ DisableRead(r) \/ DisableRaises(r)
    \/ Fail(r) /\ UNCHANGED mfaVars

EnrolmentSpec == EnrolmentInit /\ [][EnrolmentNext]_<<reqVars, mfaVars>>

-----------------------------------------------------------------------------
(* Safety as long as no two requests overlap; refuted without that         *)

\* "The enrollment is NOT active until the user verifies their first code": the
\* secret in force is one a code has been verified for.
ActiveSecretVerified == ~ overlap /\ mfa.enabled => mfa.secret \in verified

\* "Single-use backup code redemption."
BackupSingleUse == ~ overlap => \A c \in BackupCodes : redeemed[c] <= 1
=============================================================================
