----------------------------- MODULE MCAccounts -----------------------------
(***************************************************************************)
(* The components that decide over accounts, for TLC.  Each of them writes *)
(* rows of its own, or stands for the writes of the others in its own      *)
(* actions: part says, from the start, which one is running, and the states*)
(* of the run are the sum of theirs.                                       *)
(***************************************************************************)
EXTENDS AccountAccess, AdminRights, Signup, Invitations, RowLimits,
        RegistrationLimit, TLC

CONSTANTS
  Parts,  \* the components to run
  Wide    \* those of them with all Requests in flight; of the others only two are

VARIABLE part

Init ==
  /\ part \in Parts
  /\ AccessInit /\ RightsInit /\ SignupInit /\ InviteInit /\ LimitInit
  /\ RegisterInit
  \* The others are still: one initial state of each will do.
  /\ part # "access" => ~ policy /\ ~ account.enrolled
  /\ part # "rights" => \A u \in Users : IsAdmin(u)

Only(p, Step) ==
  /\ part = p /\ Step /\ UNCHANGED part
  /\ p \in Wide \/ Cardinality({r \in Requests : pc'[r] # "idle"}) <= 2

Next ==
  \/ Only("access", AccessNext) /\ UNCHANGED <<rightVars, signupVars, inviteVars, limitVars, registerVars>>
  \/ Only("rights", RightsNext) /\ UNCHANGED <<accessVars, signupVars, inviteVars, limitVars, registerVars>>
  \/ Only("signup", SignupNext) /\ UNCHANGED <<accessVars, rightVars, inviteVars, limitVars, registerVars>>
  \/ Only("invite", InviteNext) /\ UNCHANGED <<accessVars, rightVars, signupVars, limitVars, registerVars>>
  \/ Only("tokens", TokenNext) /\ UNCHANGED <<accessVars, rightVars, signupVars, inviteVars, registerVars>>
  \/ Only("logins", LoginNext) /\ UNCHANGED <<accessVars, rightVars, signupVars, inviteVars, registerVars>>
  \/ Only("register", RegisterNext) /\ UNCHANGED <<accessVars, rightVars, signupVars, inviteVars, limitVars>>

vars == <<reqVars, accessVars, rightVars, signupVars, inviteVars, limitVars, registerVars, part>>

Spec == Init /\ [][Next]_vars

\* Requests are interchangeable, and so are the values: the cfg takes slugs and
\* invitations from one set.
Symmetry == Permutations(Requests) \union Permutations(Slugs)
=============================================================================
