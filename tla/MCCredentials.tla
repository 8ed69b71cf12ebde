--------------------------- MODULE MCCredentials ---------------------------
(***************************************************************************)
(* The components that keep one user's credentials, for TLC.  Each of them *)
(* writes columns or rows of its own, so a behaviour of one does not depend*)
(* on the others: part says, from the start, which one is running, and the *)
(* states of the run are the sum of theirs.                                *)
(***************************************************************************)
EXTENDS PasswordLockout, TotpChallenge, TotpEnrolment, PasswordHistory,
        OneTimeCredentials, TLC

CONSTANTS
  Parts,  \* the components to run
  Wide    \* those of them with all Requests in flight; of the others only two are

VARIABLE part

Init ==
  /\ part \in Parts
  /\ LockInit /\ TotpInit /\ EnrolmentInit /\ OnceInit
  /\ HistoryInit

Only(p, Step) ==
  /\ part = p /\ Step /\ UNCHANGED part
  /\ p \in Wide \/ Cardinality({r \in Requests : pc'[r] # "idle"}) <= 2

Next ==
  \/ Only("lockout", LockNext) /\ UNCHANGED <<totpVars, mfaVars, pwVars, onceVars>>
  \/ Only("totp", TotpNext) /\ UNCHANGED <<lock, mfaVars, pwVars, onceVars>>
  \/ Only("enrolment", EnrolmentNext) /\ UNCHANGED <<lock, totpVars, pwVars, onceVars>>
  \/ Only("history", HistoryNext) /\ UNCHANGED <<lock, totpVars, mfaVars, onceVars>>
  \/ Only("once", OnceNext) /\ UNCHANGED <<lock, totpVars, mfaVars, pwVars>>

vars == <<reqVars, lock, totpVars, mfaVars, pwVars, onceVars, part>>

Spec == Init /\ [][Next]_vars

\* Requests are interchangeable, and so are the values drawn or chosen: the cfg
\* takes secrets, passwords and ids from one set.
Symmetry == Permutations(Requests) \union Permutations(Passwords)
=============================================================================
