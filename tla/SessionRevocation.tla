------------------------- MODULE SessionRevocation -------------------------
(***************************************************************************)
(* The requests that revoke one session: /oauth/revoke with its access or  *)
(* its refresh token (app/server/endpoints.py), DELETE /sessions/{id}      *)
(* (app/api/v1/sessions.py) and POST /auth/logout with its access token    *)
(* (app/api/v1/auth.py), which call revoke_token                           *)
(* (app/tokens/revocation.py) in their own transaction.                    *)
(*                                                                         *)
(* Two things are locked: the session's row of oauth_tokens, by its UPDATE,*)
(* and the jti's entry in the unique index of revoked_tokens, by an INSERT *)
(* that another INSERT of the same jti waits for.  The requests take them  *)
(* in different orders, and a logout takes the jti alone.  A request that  *)
(* fails is rolled back and answered 500, but a logout 204: destroy_token  *)
(* swallows every exception.  DELETE /sessions, of kind "all", finds no    *)
(* rows.                                                                   *)
(***************************************************************************)
CONSTANTS
  Requests,   \* each is made once
  Kinds,      \* of "access", "refresh", "session", "all" and "logout"
  NoRequest

ASSUME ConstantsAssumption ==
  /\ Kinds \subseteq {"access", "refresh", "session", "all", "logout"}
  /\ NoRequest \notin Requests

VARIABLES
  row,        \* whether the row is revoked, as committed
  jti,        \* the request that has blacklisted the jti, as committed
  rowLock, jtiLock,   \* the requests whose open transactions hold them
  pc, kind,
  unread,     \* history: requests that could not read the access token
  faulted     \* history: requests that the database has failed

vars == <<row, jti, rowLock, jtiLock, pc, kind, unread, faulted>>

Active == {"insert", "select", "update", "commit"}
Answers == {"ok", "failed"}

TypeOK ==
  /\ row \in BOOLEAN
  /\ jti \in Requests \union {NoRequest}
  /\ rowLock \in Requests \union {NoRequest}
  /\ jtiLock \in Requests \union {NoRequest}
  /\ pc \in [Requests -> {"new"} \union Active \union Answers]
  /\ kind \in [Requests -> Kinds]
  /\ unread \subseteq Requests /\ faulted \subseteq Requests
  /\ \A r \in Requests : r \in {rowLock, jtiLock} => pc[r] \in Active

Init ==
  /\ row = FALSE /\ jti = NoRequest
  /\ rowLock = NoRequest /\ jtiLock = NoRequest
  /\ pc = [r \in Requests |-> "new"]
  /\ kind \in [Requests -> Kinds]
  /\ unread = {} /\ faulted = {}

-----------------------------------------------------------------------------
Blacklisted == jti # NoRequest

Goto(r, p) == pc' = [pc EXCEPT ![r] = p]

Release(r) ==
  /\ rowLock' = IF rowLock = r THEN NoRequest ELSE rowLock
  /\ jtiLock' = IF jtiLock = r THEN NoRequest ELSE jtiLock

\* The session is unusable after the error, caught or not: what follows raises.
\* After a logout nothing does.
Fail(r) ==
  /\ Goto(r, IF kind[r] = "logout" THEN "ok" ELSE "failed")
  /\ Release(r)
  /\ UNCHANGED <<row, jti, kind, unread>>

\* Where a request goes that is to blacklist the jti: an access token whose key
\* the worker does not know cannot be read, and the request goes on without.
Blacklist(r, next) ==
  \/ Goto(r, "insert") /\ UNCHANGED unread
  \/ Goto(r, next) /\ unread' = unread \union {r}

\* Mutation: what the access token's decoding raises is not caught.
RevokeTokenRaises(r) ==
  /\ pc[r] = "new"
  /\ \/ kind[r] = "access" /\ Goto(r, "insert")
     \/ kind[r] = "access" /\ Goto(r, "failed")
     \/ kind[r] = "refresh" /\ Goto(r, "select")
  /\ UNCHANGED <<row, jti, rowLock, jtiLock, kind, unread, faulted>>

\* revoke: an access token is a JWT, a refresh token is not.
RevokeToken(r) ==
  /\ pc[r] = "new"
  /\ \/ kind[r] = "access" /\ Blacklist(r, "select")
     \/ kind[r] = "refresh" /\ Goto(r, "select") /\ UNCHANGED unread
  /\ UNCHANGED <<row, jti, rowLock, jtiLock, kind, faulted>>

\* revoke_session: a row revoked before is left as it is, its jti too.
RevokeSession(r) ==
  /\ pc[r] = "new" /\ kind[r] = "session"
  /\ Goto(r, IF row THEN "ok" ELSE "update")
  /\ UNCHANGED <<row, jti, rowLock, jtiLock, kind, unread, faulted>>

\* revoke_all_sessions: "not OAuthToken.revoked" is the constant false, so there
\* are no rows and the answer is a success.
RevokeAllSessions(r) ==
  /\ pc[r] = "new" /\ kind[r] = "all"
  /\ Goto(r, "ok")
  /\ UNCHANGED <<row, jti, rowLock, jtiLock, kind, unread, faulted>>

\* logout, destroy_token: whoever gets here has been authenticated with the
\* token, so the worker can read it.
Logout(r) ==
  /\ pc[r] = "new" /\ kind[r] = "logout"
  /\ Goto(r, "insert")
  /\ UNCHANGED <<row, jti, rowLock, jtiLock, kind, unread, faulted>>

\* What follows the INSERT of revoke_token.
Inserted(r) == Goto(r, IF kind[r] = "access" THEN "select" ELSE "commit")

\* Mutation: revoke_token commits what it has inserted.
InsertCommits(r) ==
  /\ pc[r] = "insert" /\ jtiLock = NoRequest /\ ~ Blacklisted
  /\ jti' = r
  /\ Inserted(r)
  /\ UNCHANGED <<row, rowLock, jtiLock, kind, unread, faulted>>

\* The INSERT of revoke_token waits for the one that holds the jti, if there is
\* one, and fails if the jti is committed.
Insert(r) ==
  /\ pc[r] = "insert" /\ jtiLock = NoRequest /\ ~ Blacklisted
  /\ jtiLock' = r
  /\ Inserted(r)
  /\ UNCHANGED <<row, jti, rowLock, kind, unread, faulted>>

InsertFails(r) ==
  /\ pc[r] = "insert" /\ jtiLock = NoRequest /\ Blacklisted
  /\ Fail(r)
  /\ UNCHANGED faulted

\* revoke looks the row up by either token.
Select(r) ==
  /\ pc[r] = "select"
  /\ Goto(r, IF row THEN "commit" ELSE "update")
  /\ UNCHANGED <<row, jti, rowLock, jtiLock, kind, unread, faulted>>

\* The UPDATE waits for the one that holds the row.
Update(r) ==
  /\ pc[r] = "update" /\ rowLock = NoRequest
  /\ rowLock' = r
  /\ \/ kind[r] = "session" /\ Blacklist(r, "commit")
     \/ kind[r] # "session" /\ Goto(r, "commit") /\ UNCHANGED unread
  /\ UNCHANGED <<row, jti, jtiLock, kind, faulted>>

\* Mutation: only the row is committed.
CommitRow(r) ==
  /\ pc[r] = "commit"
  /\ row' = (row \/ rowLock = r)
  /\ Goto(r, "ok")
  /\ Release(r)
  /\ UNCHANGED <<jti, kind, unread, faulted>>

\* Mutation: the answer does not end the transaction.
CommitKeepsLocks(r) ==
  /\ pc[r] = "commit"
  /\ row' = (row \/ rowLock = r)
  /\ jti' = IF jtiLock = r THEN r ELSE jti
  /\ Goto(r, "ok")
  /\ UNCHANGED <<rowLock, jtiLock, kind, unread, faulted>>

Commit(r) ==
  /\ pc[r] = "commit"
  /\ row' = (row \/ rowLock = r)
  /\ jti' = IF jtiLock = r THEN r ELSE jti
  /\ Goto(r, "ok")
  /\ Release(r)
  /\ UNCHANGED <<kind, unread, faulted>>

\* PostgreSQL aborts one of two transactions that wait for each other: r holds
\* the row and waits for the jti, or the other way round.
Deadlock(r) ==
  /\ \E s \in Requests \ {r} :
       \/ pc[r] = "insert" /\ rowLock = r /\ jtiLock = s /\ pc[s] = "update"
       \/ pc[r] = "update" /\ jtiLock = r /\ rowLock = s /\ pc[s] = "insert"
  /\ Fail(r)
  /\ UNCHANGED faulted

\* An error of the database or a lost connection, at any statement.
Fault(r) ==
  /\ pc[r] \in Active
  /\ Fail(r)
  /\ faulted' = faulted \union {r}

Step(r) ==
  \/ RevokeToken(r) \/ RevokeSession(r) \/ RevokeAllSessions(r) \/ Logout(r)
  \/ Insert(r) \/ InsertFails(r) \/ Select(r) \/ Update(r) \/ Commit(r) \/ Deadlock(r)

Next == \E r \in Requests : Step(r) \/ Fault(r)

Spec == Init /\ [][Next]_vars

\* PostgreSQL grants its locks in turn and detects deadlocks; the coroutines of
\* requests that do not wait are scheduled.
FairSpec == Spec /\ \A r \in Requests : SF_vars(Step(r))

-----------------------------------------------------------------------------
(* Safety                                                                  *)

\* Only a logout blacklists the JWT of a session and leaves its row, with the
\* refresh token, as it is: the other requests bring both or neither, whichever
\* of them get in each other's way, fail or deadlock.
OnlyLogoutLeavesRow == Blacklisted /\ kind[jti] # "logout" => row

\* A request about this session that is answered with success has done what it was
\* asked: the row is revoked, and the JWT that was presented and could be read is
\* blacklisted.  A logout's 204 means that the JWT is, unless the database failed.
OkMeansRevoked ==
  \A r \in Requests : pc[r] = "ok" =>
    /\ kind[r] \in {"access", "refresh", "session"} => row
    /\ kind[r] = "access" => Blacklisted \/ r \in unread
    /\ kind[r] = "logout" => Blacklisted \/ r \in faulted

Quiet == \A r \in Requests : pc[r] \notin Active

\* As long as the database serves everybody, a request fails only against another
\* one that blacklists the JWT: once none is in flight, the JWT is blacklisted all
\* the same, and the row is revoked unless a logout was the other one.
FailureIsCovered ==
  faulted = {} /\ Quiet /\ (\E r \in Requests : pc[r] = "failed") =>
    Blacklisted /\ (row \/ kind[jti] = "logout")

(* Liveness                                                                *)

\* No request waits for ever, though their lock orders differ.
EveryRequestAnswered == \A r \in Requests : pc[r] \in Active ~> pc[r] \in Answers
=============================================================================
