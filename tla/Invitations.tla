---------------------------- MODULE Invitations ----------------------------
(***************************************************************************)
(* Invitations of one address to one tenant (app/identity/invitation.py,   *)
(* app/api/v1/invitations.py): an administrator creates and revokes them,  *)
(* the invited user accepts one and gets an account.                       *)
(*                                                                         *)
(* Each service function selects in a READ COMMITTED transaction, then     *)
(* writes and commits.  Accepting commits twice: UserManager.create commits*)
(* the account, accept_invitation the mark on the invitation.              *)
(***************************************************************************)
EXTENDS Handlers, FiniteSets

CONSTANTS
  Invites,     \* invitations ever created: bounds them
  NoInvite,
  HistoryDepth \* PASSWORD_HISTORY_DEPTH

ASSUME InviteAssumption == NoInvite \notin Invites
ASSUME HistoryDepthAssumption == HistoryDepth \in Nat

VARIABLES
  inv,       \* inv[i]: unused, pending, accepted or deleted, as committed
  expired,   \* invitations past expires_at
  member,    \* the invitation the account was created with, if there is one
  revoked,   \* history: invitations whose revocation has committed
  late       \* history: the account was created with a revoked invitation

inviteVars == <<inv, expired, member, revoked, late>>

InviteTypeOK ==
  /\ overlap \in BOOLEAN
  /\ inv \in [Invites -> {"unused", "pending", "accepted", "deleted"}]
  /\ expired \subseteq Invites
  /\ member \in Invites \union {NoInvite}
  /\ revoked \subseteq Invites
  /\ late \in BOOLEAN
  /\ \A r \in Requests :
       /\ pc[r] \in {"idle", "insert", "user", "mark", "delete"}
       /\ pc[r] = "insert" => local[r] \in [invite : Invites \union {NoInvite}]
       /\ pc[r] \in {"user", "mark", "delete"} => local[r] \in [invite : Invites]

InviteInit ==
  /\ HandlersInit
  /\ inv = [i \in Invites |-> "unused"]
  /\ expired = {} /\ member = NoInvite /\ revoked = {} /\ late = FALSE

-----------------------------------------------------------------------------
Pending == {i \in Invites : inv[i] = "pending"}

(* create_invitation                                                       *)

\* One of the pending invitations, expired or not, if there are any.
CreateSelect(r) ==
  /\ \E i \in IF Pending = {} THEN {NoInvite} ELSE Pending :
       Begin(r, "insert", [invite |-> i])
  /\ UNCHANGED inviteVars

\* DELETE of that row by its id, INSERT of the new one, commit.
CreateCommit(r) ==
  /\ pc[r] = "insert"
  /\ \E i \in Invites :
       /\ inv[i] = "unused"
       /\ inv' = [j \in Invites |-> IF j = i THEN "pending"
                                    ELSE IF j = local[r].invite THEN "deleted" ELSE inv[j]]
  /\ End(r)
  /\ UNCHANGED <<expired, member, revoked, late>>

(* accept_invite                                                           *)

\* Mutation: verification consumes the invitation.
AcceptVerifyConsumes(r) ==
  /\ \E i \in Pending \ expired :
       Begin(r, "user", [invite |-> i]) /\ inv' = [inv EXCEPT ![i] = "accepted"]
  /\ UNCHANGED <<expired, member, revoked, late>>

\* Mutation: an invitation that was deleted still verifies.
AcceptVerifyAny(r) ==
  /\ \E i \in Invites \ expired :
       inv[i] # "unused" /\ Begin(r, "user", [invite |-> i])
  /\ UNCHANGED inviteVars

\* verify_invitation: pending and not expired.
AcceptVerify(r) ==
  /\ \E i \in Pending \ expired : Begin(r, "user", [invite |-> i])
  /\ UNCHANGED inviteVars

\* UserManager.create: the address is not taken, checked by a SELECT and by the
\* unique index; its commit.  The role of the invitation is not looked at.  Where a
\* history is kept the request ends before, in Fail: validate_password is called
\* with the request's schema for a user, which has no hashed_password.
AcceptCreate(r) ==
  /\ pc[r] = "user" /\ member = NoInvite /\ HistoryDepth = 0
  /\ member' = local[r].invite
  /\ late' = (member' \in revoked)
  /\ Continue(r, "mark", local[r])
  /\ UNCHANGED <<inv, expired, revoked>>

\* accept_invitation.  The ORM's UPDATE by id raises when the row is gone.
AcceptMark(r) ==
  /\ pc[r] = "mark" /\ inv[local[r].invite] # "deleted"
  /\ inv' = [inv EXCEPT ![local[r].invite] = "accepted"]
  /\ End(r)
  /\ UNCHANGED <<expired, member, revoked, late>>

(* revoke_invitation                                                       *)

RevokeSelect(r) ==
  /\ \E i \in Pending : Begin(r, "delete", [invite |-> i])
  /\ UNCHANGED inviteVars

\* DELETE by id, whatever has become of the row; commit.
RevokeDelete(r) ==
  /\ pc[r] = "delete"
  /\ inv' = [inv EXCEPT ![local[r].invite] = "deleted"]
  /\ revoked' = revoked \union {local[r].invite}
  /\ End(r)
  /\ UNCHANGED <<expired, member, late>>

-----------------------------------------------------------------------------
Expire ==
  /\ \E i \in Pending \ expired : expired' = expired \union {i}
  /\ UNCHANGED <<reqVars, inv, member, revoked, late>>

\* create_invite: what follows the commit, the mail with the link, may fail and
\* leaves the invitation.
CreateInvite(r) == CreateSelect(r) \/ CreateCommit(r)
AcceptInvite(r) == AcceptVerify(r) \/ AcceptCreate(r) \/ AcceptMark(r)
RevokeInvite(r) == RevokeSelect(r) \/ RevokeDelete(r)

InviteNext ==
  \/ Expire
  \/ \E r \in Requests :
       \/ CreateInvite(r) \/ AcceptInvite(r) \/ RevokeInvite(r)
       \/ Fail(r) /\ UNCHANGED inviteVars

InviteSpec == InviteInit /\ [][InviteNext]_<<reqVars, inviteVars>>

-----------------------------------------------------------------------------
(* Safety, for any number of concurrent requests and failures              *)

\* An invitation is used up only by an account: the account commits first, so
\* no failure and no race leaves an accepted invitation and no user.
AcceptedHasAccount == \A i \in Invites : inv[i] = "accepted" => member # NoInvite

(* Safety as long as no two requests overlap; refuted without that         *)

\* No account is created with an invitation after its revocation.
RevokedStaysOut == ~ overlap => ~ late
=============================================================================
