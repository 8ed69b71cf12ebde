--------------------------- MODULE AccountAccess ---------------------------
(***************************************************************************)
(* The ways to a full access token of one account: the password login, the *)
(* callbacks of Google and of the tenant's own provider, the second step   *)
(* with a TOTP or backup code, and impersonation; and the way past them all*)
(* with a personal access token (app/middleware/pat_auth.py).  What they   *)
(* depend on: the tenant's MFA policy, trusted devices, deactivation and   *)
(* erasure.                                                                *)
(* (Magic links, email codes and passkeys lead to none, as                 *)
(* OneTimeCredentials shows; the grants of OAuth2 are in RefreshTokens.)   *)
(*                                                                         *)
(* Each request reads the account once and decides on that copy; devices   *)
(* are looked up when they are needed.  Passwords and codes are verified in*)
(* PasswordLockout, TotpChallenge and TotpEnrolment, the rows of personal  *)
(* access tokens are those of RowLimits: here they are right, or the       *)
(* request fails.  The account has a link to either provider.              *)
(***************************************************************************)
EXTENDS Handlers

CONSTANT Devices   \* browsers that may be remembered: bounds those

Factors == {"totp", "backup"}
Routes == {"password", "google", "enterprise", "impersonation", "step", "pat"}

VARIABLES
  account,  \* [active, enrolled, erased] of the user's row, as committed
  policy,   \* the tenant's require_mfa
  provider, \* the tenant has a provider configured
  device,   \* device[d]: no row yet, a live row, or a row deleted or expired
  pending,  \* the user holds an mfa_pending token that has not expired
  vouched   \* history: devices remembered in a request that a code was right in

accessVars == <<account, policy, provider, device, pending, vouched>>

AccountRow == [active : BOOLEAN, enrolled : BOOLEAN, erased : {"no", "yes", "restored"}]
Facts == [account : AccountRow, policy : BOOLEAN, gone : SUBSET Devices]

\* A request on its way to a token.
OnWay(r) == pc[r] \in {"refresh", "decide", "code", "remember", "full"}
Ways == [route : Routes, row : AccountRow, factor : {"none"} \union Factors \union Devices,
         began : Facts]

AccessTypeOK ==
  /\ overlap \in BOOLEAN /\ policy \in BOOLEAN /\ provider \in BOOLEAN /\ pending \in BOOLEAN
  /\ account \in AccountRow
  /\ device \in [Devices -> {"unused", "live", "gone"}]
  /\ vouched \subseteq Devices
  /\ \A r \in Requests :
       /\ pc[r] \in {"idle", "erase"} \/ OnWay(r)
       /\ pc[r] = "erase" => local[r] \in [devices : SUBSET Devices]
       /\ OnWay(r) => local[r] \in Ways

AccessInit ==
  /\ HandlersInit
  /\ \E e \in BOOLEAN : account = [active |-> TRUE, enrolled |-> e, erased |-> "no"]
  /\ policy \in BOOLEAN /\ provider = FALSE
  /\ device = [d \in Devices |-> "unused"]
  /\ pending = FALSE /\ vouched = {}

-----------------------------------------------------------------------------
In(state) == {d \in Devices : device[d] = state}

\* A request on its way to a token: the copy of the account its decisions use,
\* and, as history, the facts when it came in and the second factor it has had.
Asking(route) ==
  [route |-> route, row |-> account, factor |-> "none",
   began |-> [account |-> account, policy |-> policy, gone |-> In("gone")]]

\* Erasure changes the address and empties the hash: the account is not found by
\* either any more.
Reachable == account.erased = "no"

(* First factor                                                            *)

\* get_by_email, the tenant's row, is_active; then the password, which is right.
LoginRead(r) ==
  /\ Reachable /\ account.active
  /\ Begin(r, "decide", Asking("password"))
  /\ UNCHANGED accessVars

\* upsert_oauth_user commits: an account that exists is made active.
Upsert(r, route) ==
  /\ Reachable
  /\ account' = [account EXCEPT !.active = TRUE]
  /\ Begin(r, "refresh", Asking(route))
  /\ UNCHANGED <<policy, provider, device, pending, vouched>>

GoogleCallback(r) == Upsert(r, "google")

\* get_tenant_idp_config, or 404.  An account is provisioned whether jit_enabled
\* or not, and the role mapping comes to nothing.
EnterpriseCallback(r) == provider /\ Upsert(r, "enterprise")

\* impersonate_user: an administrator asks, for another user who is none.
ImpersonateUser(r) ==
  /\ account.active
  /\ Begin(r, "full", Asking("impersonation"))
  /\ UNCHANGED accessVars

\* dispatch: the row of the token is active and not expired, which no erasure
\* changes; then its owner is read.  The note of its last use is a task of its own.
PatDispatch(r) ==
  /\ account.active
  /\ Begin(r, "full", Asking("pat"))
  /\ UNCHANGED accessVars

RefreshUpserted(r) ==
  /\ pc[r] = "refresh"
  /\ Continue(r, "decide", [local[r] EXCEPT !.row = account])
  /\ UNCHANGED accessVars

(* Decision                                                                *)

RequiresMfa(t) == t.row.enrolled

\* Mutation: the tenant's policy is not looked at.
BarredNever(t) == FALSE

\* Only the password login looks at the tenant's policy.
Barred(t) == t.route = "password" /\ t.began.policy /\ ~ t.row.enrolled

\* The callback of a tenant's provider issues a token whether the user has
\* enrolled or not.
StepUp(t) == RequiresMfa(t) /\ t.route # "enterprise"

\* 403: enrol first.
LoginBarred(r) ==
  /\ pc[r] = "decide" /\ Barred(local[r])
  /\ End(r)
  /\ UNCHANGED accessVars

Grant(r) ==
  /\ pc[r] = "decide" /\ ~ Barred(local[r]) /\ ~ StepUp(local[r])
  /\ Continue(r, "full", local[r])
  /\ UNCHANGED accessVars

\* Mutation: a device is known by its cookie, whether its row is left or not.
IsTrustedOnce(d) == device[d] # "unused"

IsTrusted(d) == device[d] = "live"

GrantByDevice(r) ==
  /\ pc[r] = "decide" /\ StepUp(local[r])
  /\ \E d \in Devices :
       IsTrusted(d) /\ Continue(r, "full", [local[r] EXCEPT !.factor = d])
  /\ UNCHANGED accessVars

GrantPending(r) ==
  /\ pc[r] = "decide" /\ StepUp(local[r])
  /\ pending' = TRUE
  /\ End(r)
  /\ UNCHANGED <<account, policy, provider, device, vouched>>

(* Second factor                                                           *)

StepRead(r) ==
  /\ pending /\ account.active
  /\ Begin(r, "code", Asking("step"))
  /\ UNCHANGED accessVars

\* The code is right; the browser is to be remembered, or not.
CodeRight(r, f) ==
  /\ pc[r] = "code"
  /\ \E p \in {"full", "remember"} : Continue(r, p, [local[r] EXCEPT !.factor = f])
  /\ UNCHANGED accessVars

TotpVerify(r) == CodeRight(r, "totp")
BackupVerify(r) == CodeRight(r, "backup")

\* INSERT and commit, before the response with the token and the cookie.
Remember(r) ==
  /\ pc[r] = "remember"
  /\ \E d \in In("unused") :
       /\ device' = [device EXCEPT ![d] = "live"]
       /\ vouched' = IF local[r].factor \in Factors THEN vouched \union {d} ELSE vouched
  /\ Continue(r, "full", local[r])
  /\ UNCHANGED <<account, policy, provider, pending>>

\* The full token is in the response, or the request goes on as its owner's.
Respond(r) == pc[r] = "full" /\ End(r) /\ UNCHANGED accessVars

-----------------------------------------------------------------------------
(* What else changes the account                                           *)

\* verify_and_activate_totp.  Nothing undoes it.
ActivateTotp(r) ==
  /\ account.active /\ ~ account.enrolled
  /\ AtOnce(r)
  /\ account' = [account EXCEPT !.enrolled = TRUE]
  /\ UNCHANGED <<policy, provider, device, pending, vouched>>

\* patch_user by an administrator, in full in AdminRights.
PatchActive(r) ==
  /\ AtOnce(r)
  /\ \E b \in BOOLEAN :
       account' = [account EXCEPT !.active = b,
                     !.erased = IF b /\ @ = "yes" THEN "restored" ELSE @]
  /\ UNCHANGED <<policy, provider, device, pending, vouched>>

SetMfaPolicy(r) ==
  /\ AtOnce(r)
  /\ policy' \in BOOLEAN
  /\ UNCHANGED <<account, provider, device, pending, vouched>>

\* configure_idp: 409 if there is one.  Nothing removes or deactivates it.
ConfigureIdp(r) ==
  /\ ~ provider
  /\ AtOnce(r)
  /\ provider' = TRUE
  /\ UNCHANGED <<account, policy, device, pending, vouched>>

\* Another client or another discovery URL: a configuration all the same.
UpdateIdpConfig(r) == provider /\ AtOnce(r) /\ UNCHANGED accessVars

\* A device's row is deleted by its user, or thirty days are over.
RevokeDevice(r) ==
  /\ AtOnce(r)
  /\ \E d \in In("live") : device' = [device EXCEPT ![d] = "gone"]
  /\ UNCHANGED <<account, policy, provider, pending, vouched>>

Deleted(D) == [d \in Devices |-> IF d \in D THEN "gone" ELSE device[d]]

RevokeAllDevices(r) ==
  /\ account.active
  /\ AtOnce(r)
  /\ device' = Deleted(In("live"))
  /\ UNCHANGED <<account, policy, provider, pending, vouched>>

\* erase_my_account: the DELETE sees the devices committed by then.
EraseDelete(r) ==
  /\ account.active
  /\ Begin(r, "erase", [devices |-> In("live")])
  /\ UNCHANGED accessVars

\* Mutation: the account is anonymized and not deactivated.
EraseCommitActive(r) ==
  /\ pc[r] = "erase"
  /\ device' = Deleted(local[r].devices)
  /\ account' = [account EXCEPT !.erased = "yes"]
  /\ End(r)
  /\ UNCHANGED <<policy, provider, pending, vouched>>

\* Devices, address, hash and is_active in one transaction.  The passkeys, which
\* it revokes as well, are in OneTimeCredentials.
EraseCommit(r) ==
  /\ pc[r] = "erase"
  /\ device' = Deleted(local[r].devices)
  /\ account' = [account EXCEPT !.active = FALSE, !.erased = "yes"]
  /\ End(r)
  /\ UNCHANGED <<policy, provider, pending, vouched>>

PendingExpires ==
  /\ pending
  /\ pending' = FALSE
  /\ UNCHANGED <<reqVars, account, policy, provider, device, vouched>>

AccessNext ==
  \/ PendingExpires
  \/ \E r \in Requests :
       \/ LoginRead(r) \/ GoogleCallback(r) \/ EnterpriseCallback(r)
       \/ RefreshUpserted(r) \/ ImpersonateUser(r) \/ PatDispatch(r)
       \/ LoginBarred(r) \/ Grant(r) \/ GrantByDevice(r) \/ GrantPending(r)
       \/ StepRead(r) \/ TotpVerify(r) \/ BackupVerify(r) \/ Remember(r) \/ Respond(r)
       \/ ActivateTotp(r) \/ PatchActive(r) \/ SetMfaPolicy(r)
       \/ ConfigureIdp(r) \/ UpdateIdpConfig(r)
       \/ RevokeDevice(r) \/ RevokeAllDevices(r) \/ EraseDelete(r) \/ EraseCommit(r)
       \/ Fail(r) /\ UNCHANGED accessVars

AccessSpec == AccessInit /\ [][AccessNext]_<<reqVars, accessVars>>

-----------------------------------------------------------------------------
Issued(r) == pc[r] = "full"

(* Safety, for any number of concurrent requests and failures              *)

\* A full token of a user who had enrolled takes a second factor, except through
\* the tenant's own provider, an administrator or a token of his own: a code in that request, or a
\* device remembered with a code and not revoked before the request came in.
SecondFactorHad ==
  \A r \in Requests :
    Issued(r) =>
      LET t == local[r] IN
        (t.route \notin {"enterprise", "impersonation", "pat"} /\ t.began.account.enrolled)
          => t.factor \in Factors \/ t.factor \in vouched \ t.began.gone

\* The password does not get round the tenant's policy, with a second step or
\* without, whatever changes while the requests run.
PolicyHoldsForPasswords ==
  \A r \in Requests :
    Issued(r) =>
      LET t == local[r] IN
        (t.route \in {"password", "step"} /\ t.began.policy) => t.began.account.enrolled

\* No request that comes in after an erasure gets a token by what was handed out
\* before it, or is admitted with a personal access token, whose row is left; and as long as no two requests overlap no device survives it.
ErasedIsGone ==
  /\ \A r \in Requests : Issued(r) => local[r].began.account.erased # "yes"
  /\ ~ overlap /\ account.erased = "yes" => In("live") = {}

\* "When enabled, all users without TOTP enrolled are blocked from logging in".
PolicyEnforced ==
  \A r \in Requests :
    Issued(r) =>
      LET t == local[r] IN
        (t.route \notin {"impersonation", "pat"} /\ t.began.policy) => t.began.account.enrolled
=============================================================================
