--------------------------- MODULE RefreshTokens ---------------------------
(***************************************************************************)
(* The rows of oauth_tokens and the requests that change them: the refresh *)
(* grant with its rotation and its family revocation, /oauth/revoke and    *)
(* the revocation of a session (app/server/endpoints.py,                   *)
(* app/api/v1/sessions.py).                                                *)
(*                                                                         *)
(* Every request runs in a READ COMMITTED transaction of its own.  A SELECT*)
(* takes no lock; an UPDATE locks its rows one by one, waiting for the     *)
(* transaction that has updated the next one, and then goes on, its        *)
(* condition on the row's id or family still being true.  A transaction    *)
(* keeps its locks until it ends.  Of requests that wait for each other    *)
(* PostgreSQL aborts one.                                                  *)
(***************************************************************************)
EXTENDS Integers, FiniteSets

CONSTANTS
  Tokens,      \* refresh tokens, one per row: bounds the rows ever inserted
  Families, NoFamily,
  Requests,    \* requests that may be in flight at the same time
  NoToken, NoRequest,
  SeedFamily   \* the rows the table holds at first, each with its family

ASSUME ConstantsAssumption ==
  /\ DOMAIN SeedFamily \subseteq Tokens
  /\ \A t \in DOMAIN SeedFamily : SeedFamily[t] \in Families \union {NoFamily}
  /\ NoToken \notin Tokens /\ NoFamily \notin Families /\ NoRequest \notin Requests

VARIABLES
  row,      \* row[t]: absent, live or revoked, as committed
  family,   \* family[t]: token_family_id; rows older than the column have none
  parent,   \* parent[t]: history, the token whose refresh inserted t
  lock,     \* lock[t]: the request whose open transaction has updated row t
  pc,       \* pc[r]: what request r does next
  tok,      \* tok[r]: the row r has read, or its family UPDATE has come to
  scan,     \* scan[r]: the rows the family UPDATE of r has found
  closed,   \* history: families whose revocation has committed
  ended,    \* history: tokens revoked by their user while live
  overlap   \* history: two requests have been in flight at the same time

vars == <<row, family, parent, lock, pc, tok, scan, closed, ended, overlap>>

Waiting == {"rotate", "close", "revoke"}    \* at an UPDATE of row tok[r]
Pc == Waiting \union {"idle", "insert", "scan", "closed", "revoked"}

TypeOK ==
  /\ row \in [Tokens -> {"absent", "live", "revoked"}]
  /\ family \in [Tokens -> Families \union {NoFamily}]
  /\ parent \in [Tokens -> Tokens \union {NoToken}]
  /\ lock \in [Tokens -> Requests \union {NoRequest}]
  /\ pc \in [Requests -> Pc]
  /\ tok \in [Requests -> Tokens \union {NoToken}]
  /\ scan \in [Requests -> SUBSET Tokens]
  /\ closed \subseteq Families
  /\ ended \subseteq Tokens
  /\ overlap \in BOOLEAN

Init ==
  /\ row = [t \in Tokens |-> IF t \in DOMAIN SeedFamily THEN "live" ELSE "absent"]
  /\ family = [t \in Tokens |-> IF t \in DOMAIN SeedFamily THEN SeedFamily[t] ELSE NoFamily]
  /\ parent = [t \in Tokens |-> NoToken]
  /\ lock = [t \in Tokens |-> NoRequest]
  /\ pc = [r \in Requests |-> "idle"]
  /\ tok = [r \in Requests |-> NoToken]
  /\ scan = [r \in Requests |-> {}]
  /\ closed = {}
  /\ ended = {}
  /\ overlap = FALSE

-----------------------------------------------------------------------------
Exists(t) == row[t] # "absent"
Free(t) == lock[t] = NoRequest
SameFamily(t) == {u \in Tokens : Exists(u) /\ family[u] = family[t]}

\* r is over: its transaction releases what it has locked.
Done(r) ==
  /\ pc' = [pc EXCEPT ![r] = "idle"]
  /\ tok' = [tok EXCEPT ![r] = NoToken]
  /\ scan' = [scan EXCEPT ![r] = {}]
  /\ lock' = [t \in Tokens |-> IF lock[t] = r THEN NoRequest ELSE lock[t]]

Begin(r) == overlap' = (overlap \/ \E q \in Requests \ {r} : pc[q] # "idle")

Goto(r, p, t) ==
  /\ pc' = [pc EXCEPT ![r] = p]
  /\ tok' = [tok EXCEPT ![r] = t]

-----------------------------------------------------------------------------
(* The refresh grant                                                       *)

\* The lookup finds revoked rows too.  A revoked row of no family is answered
\* 401 and changes nothing.
RefreshRead(r, t) ==
  /\ pc[r] = "idle" /\ Exists(t)
  /\ \/ row[t] = "live" /\ Goto(r, "rotate", t)
     \/ row[t] = "revoked" /\ family[t] # NoFamily /\ Goto(r, "scan", t)
  /\ Begin(r)
  /\ UNCHANGED <<row, family, parent, lock, scan, closed, ended>>

\* UPDATE ... SET revoked = true WHERE id = ...: whatever has become of the row
\* since the lookup.
RotateUpdate(r) ==
  /\ pc[r] = "rotate" /\ Free(tok[r])
  /\ lock' = [lock EXCEPT ![tok[r]] = r]
  /\ pc' = [pc EXCEPT ![r] = "insert"]
  /\ UNCHANGED <<row, family, parent, tok, scan, closed, ended, overlap>>

\* Mutation: the new row is committed, the UPDATE of the old one is not.
RotateCommitKeepsOld(r, n) ==
  /\ pc[r] = "insert" /\ ~ Exists(n)
  /\ row' = [row EXCEPT ![n] = "live"]
  /\ family' = [family EXCEPT ![n] = family[tok[r]]]
  /\ parent' = [parent EXCEPT ![n] = tok[r]]
  /\ Done(r)
  /\ UNCHANGED <<closed, ended, overlap>>

\* INSERT of the successor, the audit row, commit.
RotateCommit(r, n) ==
  /\ pc[r] = "insert" /\ ~ Exists(n)
  /\ row' = [row EXCEPT ![tok[r]] = "revoked", ![n] = "live"]
  /\ family' = [family EXCEPT ![n] = family[tok[r]]]
  /\ parent' = [parent EXCEPT ![n] = tok[r]]
  /\ Done(r)
  /\ UNCHANGED <<closed, ended, overlap>>

\* The family UPDATE of a replayed token: the statement sees the rows committed
\* when it starts ...
FamilyScan(r) ==
  /\ pc[r] = "scan"
  /\ scan' = [scan EXCEPT ![r] = SameFamily(tok[r])]
  /\ \E t \in SameFamily(tok[r]) : Goto(r, "close", t)
  /\ UNCHANGED <<row, family, parent, lock, closed, ended, overlap>>

\* ... and locks them, in an order that the plan of the statement decides.
FamilyLock(r) ==
  /\ pc[r] = "close" /\ Free(tok[r])
  /\ lock' = [lock EXCEPT ![tok[r]] = r]
  /\ LET rest == {t \in scan[r] \ {tok[r]} : lock[t] # r}
     IN  \/ rest = {} /\ Goto(r, "closed", tok[r])
         \/ \E t \in rest : Goto(r, "close", t)
  /\ UNCHANGED <<row, family, parent, scan, closed, ended, overlap>>

\* Mutation: the 401 is raised, and the transaction neither committed nor ended.
FamilyCommitLeaks(r) ==
  /\ pc[r] = "closed"
  /\ pc' = [pc EXCEPT ![r] = "idle"]
  /\ UNCHANGED <<row, family, parent, lock, tok, scan, closed, ended, overlap>>

\* Mutation: only the replayed row is marked.
FamilyCommitOne(r) ==
  /\ pc[r] = "closed"
  /\ row' = [row EXCEPT ![tok[r]] = "revoked"]
  /\ closed' = closed \union {family[tok[r]]}
  /\ Done(r)
  /\ UNCHANGED <<family, parent, ended, overlap>>

\* The commit, before the 401.
FamilyCommit(r) ==
  /\ pc[r] = "closed"
  /\ row' = [t \in Tokens |-> IF t \in scan[r] THEN "revoked" ELSE row[t]]
  /\ closed' = closed \union {family[tok[r]]}
  /\ Done(r)
  /\ UNCHANGED <<family, parent, ended, overlap>>

-----------------------------------------------------------------------------
(* /oauth/revoke and DELETE /sessions/{id}                                 *)

RevokeRead(r, t) ==
  /\ pc[r] = "idle" /\ row[t] = "live"
  /\ Goto(r, "revoke", t)
  /\ Begin(r)
  /\ UNCHANGED <<row, family, parent, lock, scan, closed, ended>>

\* The UPDATE by id.  What follows, the INSERT of the jti (SessionRevocation) and
\* of the audit row, runs with the row locked.
RevokeUpdate(r) ==
  /\ pc[r] = "revoke" /\ Free(tok[r])
  /\ lock' = [lock EXCEPT ![tok[r]] = r]
  /\ Goto(r, "revoked", tok[r])
  /\ UNCHANGED <<row, family, parent, scan, closed, ended, overlap>>

\* Mutation: the revocation is answered and not committed.
RevokeCommitLost(r) ==
  /\ pc[r] = "revoked"
  /\ ended' = ended \union {tok[r]}
  /\ Done(r)
  /\ UNCHANGED <<row, family, parent, closed, overlap>>

RevokeCommit(r) ==
  /\ pc[r] = "revoked"
  /\ row' = [row EXCEPT ![tok[r]] = "revoked"]
  /\ ended' = IF row[tok[r]] = "live" THEN ended \union {tok[r]} ELSE ended
  /\ Done(r)
  /\ UNCHANGED <<family, parent, closed, overlap>>

-----------------------------------------------------------------------------
(* The end of a transaction by failure                                     *)

\* Expired token, inactive user, exception, lost connection: rollback.
Fail(r) ==
  /\ pc[r] # "idle"
  /\ Done(r)
  /\ UNCHANGED <<row, family, parent, closed, ended, overlap>>

\* Every request of Q waits for a row that one of Q has locked, and has locked a
\* row that one of Q waits for.
WaitInCircle(Q) ==
  /\ \A q \in Q : pc[q] \in Waiting
  /\ {lock[tok[q]] : q \in Q} = Q

\* deadlock_timeout: PostgreSQL aborts a transaction that finds itself in a circle.
Deadlock(r) ==
  /\ \E Q \in SUBSET Requests : r \in Q /\ WaitInCircle(Q)
  /\ Done(r)
  /\ UNCHANGED <<row, family, parent, closed, ended, overlap>>

-----------------------------------------------------------------------------
\* The bound: a rotation for which no row is left fails.
NoRowLeft(r) == pc[r] = "insert" /\ (\A n \in Tokens : Exists(n)) /\ Fail(r)

GoOn(r) ==
  \/ RotateUpdate(r) \/ (\E n \in Tokens : RotateCommit(r, n)) \/ NoRowLeft(r)
  \/ FamilyScan(r) \/ FamilyLock(r) \/ FamilyCommit(r)
  \/ RevokeUpdate(r) \/ RevokeCommit(r)
  \/ Deadlock(r)

Arrive(r) == \E t \in Tokens : RefreshRead(r, t) \/ RevokeRead(r, t)

Next == \E r \in Requests : Arrive(r) \/ GoOn(r) \/ Fail(r)

Spec == Init /\ [][Next]_vars

\* A request in flight goes on; none has to arrive, or to fail.  PostgreSQL
\* queues those that wait for a row, so one that can have it again and again
\* gets it, and it looks for deadlocks.
FairSpec == Spec /\ \A r \in Requests : SF_vars(GoOn(r))

-----------------------------------------------------------------------------
(* Safety, for any number of concurrent requests                           *)

\* The UPDATE of the old row and the INSERT of the new one are one transaction:
\* a refresh token is never live together with a successor of it.
NeverLiveWithSuccessor ==
  \A t \in Tokens : Exists(t) /\ parent[t] # NoToken => row[parent[t]] = "revoked"

\* A successor belongs to its parent's family, over whole chains: from every
\* token of a family its replay reaches the others.
ChainInOneFamily ==
  \A t \in Tokens : Exists(t) /\ parent[t] # NoToken => family[t] = family[parent[t]]

\* Whoever is about to commit has locked every row that it marks, so no two of
\* them mark the same one, and nobody else has a row locked than who is updating it.
WritersHoldTheirRows ==
  /\ \A r \in Requests :
       /\ pc[r] \in {"insert", "revoked"} => lock[tok[r]] = r
       /\ pc[r] = "closed" => \A t \in scan[r] : lock[t] = r
  /\ \A t \in Tokens : ~ Free(t) =>
       \/ pc[lock[t]] \in {"insert", "revoked"} /\ tok[lock[t]] = t
       \/ pc[lock[t]] \in {"close", "closed"} /\ t \in scan[lock[t]]

(* Safety as long as no two requests overlap; refuted without that         *)

\* "If a rotated-out token is replayed, the entire family is revoked".
FamilyClosed == ~ overlap => \A t \in Tokens : family[t] \in closed => row[t] # "live"

\* A session its user has revoked is not continued by a refresh.
EndedHasNoSuccessor == ~ overlap => \A n \in Tokens : Exists(n) => parent[n] \notin ended

(* Liveness                                                                *)

\* No request waits for ever for a row: whoever has locked it ends, and of family
\* revocations that lock the rows of one family in different orders, each waiting
\* for the other, one is aborted.
RequestsEnd == \A r \in Requests : pc[r] # "idle" ~> pc[r] = "idle"
=============================================================================
