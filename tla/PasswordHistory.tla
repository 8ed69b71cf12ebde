-------------------------- MODULE PasswordHistory --------------------------
(***************************************************************************)
(* Changes of one user's password (app/identity/password.py, UserManager;  *)
(* app/api/v1/auth.py, reset_password_endpoint; the PATCH of fastapi-users)*)
(* and the history that is to keep old passwords out.                      *)
(*                                                                         *)
(* A change reads the user once, checks the new password against that copy,*)
(* commits the new hash, and then writes the copy's history with the new   *)
(* hash at its end, in a second commit.  A hash stands for its password.   *)
(***************************************************************************)
EXTENDS Handlers, Sequences

CONSTANTS
  Passwords,
  Depth,       \* settings.PASSWORD_HISTORY_DEPTH
  MaxPast      \* bound on the passwords ever set

ASSUME HistoryAssumption == Depth \in Nat \ {0} /\ MaxPast \in Nat \ {0}

VARIABLES
  pw,    \* [hash, history]: hashed_password and password_history, as committed
  past,  \* history: every password set so far, the first one at registration
  cut    \* history: a change ended between its two commits

pwVars == <<pw, past, cut>>

PwRow == [hash : Passwords, history : Seq(Passwords)]

HistoryTypeOK ==
  /\ overlap \in BOOLEAN /\ cut \in BOOLEAN
  /\ pw \in PwRow /\ Len(pw.history) <= Depth
  /\ past \in Seq(Passwords)
  /\ \A r \in Requests :
       IF pc[r] = "idle" THEN local[r] = <<>>
       ELSE pc[r] \in {"update", "push"} /\ local[r] \in [row : PwRow, new : Passwords]

\* Registration stores the hash and no history.
HistoryInit ==
  /\ HandlersInit
  /\ \E p \in Passwords : pw = [hash |-> p, history |-> <<>>] /\ past = <<p>>
  /\ cut = FALSE

-----------------------------------------------------------------------------
\* Python's s[-n:].
LastOf(s, n) == IF Len(s) <= n THEN s ELSE SubSeq(s, Len(s) - n + 1, Len(s))

\* What validate_password compares a new password with.
Recent(row) ==
  LET s == LastOf(Append(row.history, row.hash), Depth) IN {s[i] : i \in 1..Len(s)}

ReadPassword(r, p) ==
  /\ Begin(r, "update", [row |-> pw, new |-> p])
  /\ UNCHANGED pwVars

\* Validated against the copy; hashed_password and its commit.
UpdatePassword(r) ==
  /\ pc[r] = "update" /\ local[r].new \notin Recent(local[r].row)
  /\ Len(past) < MaxPast
  /\ pw' = [pw EXCEPT !.hash = local[r].new]
  /\ past' = Append(past, local[r].new)
  /\ Continue(r, "push", local[r])
  /\ UNCHANGED cut

\* Mutation: the history is not written.
PushHistoryNot(r) == pc[r] = "push" /\ End(r) /\ UNCHANGED pwVars

\* The copy's history, with the hash that is now the user's, trimmed.
PushHistory(r) ==
  /\ pc[r] = "push"
  /\ pw' = [pw EXCEPT !.history = LastOf(Append(local[r].row.history, local[r].new), Depth)]
  /\ End(r)
  /\ UNCHANGED <<past, cut>>

\* A refused password, or an error; after the first commit the new password
\* stands and the history is without it.
FailChange(r) ==
  /\ Fail(r)
  /\ cut' = (cut \/ pc[r] = "push")
  /\ UNCHANGED <<pw, past>>

HistoryNext ==
  \E r \in Requests :
    \/ \E p \in Passwords : ReadPassword(r, p)
    \/ UpdatePassword(r) \/ PushHistory(r) \/ FailChange(r)

HistorySpec == HistoryInit /\ [][HistoryNext]_<<reqVars, pwVars>>

-----------------------------------------------------------------------------
Undisturbed == ~ overlap /\ ~ cut

(* Safety as long as no two changes overlap and none is cut short          *)

\* What the history achieves: a password that is set again was set at least
\* Depth changes before.  Only the one of the registration is out of it: it was
\* never pushed, and is refused only while it is in use.
RecentRefused ==
  Undisturbed =>
    \A i \in 1..Len(past), j \in 1..Len(past) :
      (j < i /\ i - j < Depth /\ (j > 1 \/ i = 2)) => past[i] # past[j]

\* "Cannot reuse one of your last {depth} passwords."
ReuseRefused ==
  Undisturbed =>
    \A i \in 1..Len(past), j \in 1..Len(past) :
      (j < i /\ i - j <= Depth) => past[i] # past[j]
=============================================================================
