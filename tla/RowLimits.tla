----------------------------- MODULE RowLimits -----------------------------
(***************************************************************************)
(* The two limits on one user's rows that are kept by counting first: at   *)
(* most _MAX_TOKENS_PER_USER active access tokens (app/api/v1/tokens.py)   *)
(* and _MAX_SESSIONS_PER_USER active entries of the login history          *)
(* (app/api/v1/login_history.py).                                          *)
(*                                                                         *)
(* A handler counts the committed rows and inserts its own in the same     *)
(* READ COMMITTED transaction: what others insert in between it does not   *)
(* see.                                                                    *)
(***************************************************************************)
EXTENDS Handlers, FiniteSets

CONSTANTS
  TokenLimit,  \* _MAX_TOKENS_PER_USER
  LoginLimit,  \* _MAX_SESSIONS_PER_USER
  MaxLogins    \* bound on the logins ever begun

ASSUME LimitAssumption ==
  TokenLimit \in Nat \ {0} /\ LoginLimit \in Nat \ {0} /\ MaxLogins \in Nat

VARIABLES
  tokens,    \* how many tokens are active, as committed
  logins,    \* the active entries, as committed, by the order of created_at
  begun,     \* history: how many entries have got their created_at
  recorded   \* history: how many entries have been committed

limitVars == <<tokens, logins, begun, recorded>>

LimitTypeOK ==
  /\ overlap \in BOOLEAN
  /\ tokens \in Nat
  /\ begun \in 0..MaxLogins /\ recorded \in 0..begun
  /\ logins \subseteq 1..begun
  /\ \A r \in Requests :
       /\ pc[r] \in {"idle", "insert", "record"}
       /\ pc[r] = "record" =>
            local[r] \in [entry : 1..begun, evict : SUBSET (1..begun), recorded : 0..recorded]

LimitInit ==
  HandlersInit /\ tokens = 0 /\ logins = {} /\ begun = 0 /\ recorded = 0

-----------------------------------------------------------------------------
(* Access tokens                                                           *)

\* Mutation: one token more than the limit.
CountTokensLate(r) ==
  tokens <= TokenLimit /\ Begin(r, "insert", <<>>) /\ UNCHANGED limitVars

\* 400 at the limit.
CountTokens(r) ==
  tokens < TokenLimit /\ Begin(r, "insert", <<>>) /\ UNCHANGED limitVars

InsertToken(r) ==
  /\ pc[r] = "insert"
  /\ tokens' = tokens + 1
  /\ End(r)
  /\ UNCHANGED <<logins, begun, recorded>>

\* An active token is revoked; an inactive one may be as well, for no effect.
RevokeToken(r) ==
  /\ tokens > 0
  /\ AtOnce(r)
  /\ tokens' = tokens - 1
  /\ UNCHANGED <<logins, begun, recorded>>

(* Login history                                                           *)

\* Mutation: one entry makes room, however many are too many.
OverflowOne(S) ==
  IF Cardinality(S) >= LoginLimit
    THEN {i \in S : \A j \in S : i <= j} ELSE {}

\* The oldest entries, so many that with a new one the limit is reached.
Overflow(S) == {i \in S : Cardinality({j \in S : j > i}) >= LoginLimit - 1}

\* record_login, a task of its own: created_at, and the SELECT.
SelectLogins(r) ==
  /\ begun < MaxLogins
  /\ Begin(r, "record", [entry |-> begun + 1, evict |-> Overflow(logins), recorded |-> recorded])
  /\ begun' = begun + 1
  /\ UNCHANGED <<tokens, logins, recorded>>

\* UPDATE of the rows selected for eviction, INSERT, commit.
RecordLogin(r) ==
  /\ pc[r] = "record"
  /\ logins' = (logins \ local[r].evict) \union {local[r].entry}
  /\ recorded' = recorded + 1
  /\ End(r)
  /\ UNCHANGED <<tokens, begun>>

RevokeLogin(r) ==
  /\ AtOnce(r)
  /\ \E i \in logins : logins' = logins \ {i}
  /\ UNCHANGED <<tokens, begun, recorded>>

RevokeAllLogins(r) ==
  /\ AtOnce(r)
  /\ logins' = {}
  /\ UNCHANGED <<tokens, begun, recorded>>

TokenNext ==
  \E r \in Requests :
    \/ CountTokens(r) \/ InsertToken(r) \/ RevokeToken(r)
    \/ Fail(r) /\ UNCHANGED limitVars

LoginNext ==
  \E r \in Requests :
    \/ SelectLogins(r) \/ RecordLogin(r) \/ RevokeLogin(r) \/ RevokeAllLogins(r)
    \/ Fail(r) /\ UNCHANGED limitVars

LimitNext == TokenNext \/ LoginNext

LimitSpec == LimitInit /\ [][LimitNext]_<<reqVars, limitVars>>

-----------------------------------------------------------------------------
(* Safety, for any number of concurrent requests and failures              *)

\* Neither limit is kept by concurrent requests, but each is exceeded by less
\* than the number of them, however long they go on.
BoundedExcess ==
  /\ tokens < TokenLimit + Cardinality(Requests)
  /\ Cardinality(logins) < LoginLimit + Cardinality(Requests)

\* "Evicts oldest when per-user cap is exceeded": an entry recorded with no other
\* recorded since its SELECT brings the history back to its cap, whatever
\* concurrent logins have left before.
ExcessHeals ==
  [][\A r \in Requests :
       /\ pc[r] = "record" /\ pc'[r] = "idle"
       /\ recorded = local[r].recorded /\ recorded' = recorded + 1
       => Cardinality(logins') <= LoginLimit]_<<pc, limitVars>>
=============================================================================
