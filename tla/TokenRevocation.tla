-------------------------- MODULE TokenRevocation --------------------------
(***************************************************************************)
(* The access-token blacklist of LiteIAM: app/tokens/revocation.py with    *)
(* the callers that open and end its transactions.                         *)
(*                                                                         *)
(* Every uvicorn worker keeps the set _revoked_jtis of the token ids it    *)
(* rejects.  A revocation is a row of the table revoked_tokens plus a      *)
(* NOTIFY that PostgreSQL hands to every listening connection when the     *)
(* transaction commits.  A worker loads the table when it starts, then     *)
(* schedules the task that LISTENs, and that task prunes what has expired. *)
(***************************************************************************)
EXTENDS Integers

CONSTANTS
  Workers,  \* the uvicorn processes
  Jtis,     \* token ids
  Exp,      \* Exp[j] is the "exp" claim of token j, the row's expires_at
  MaxNow,   \* the clock stops there: bounds the model
  Faults    \* what the environment may do: "crash", "load", "listener"

ASSUME ConstantsAssumption ==
  /\ MaxNow \in Nat
  /\ Exp \in [Jtis -> Nat]
  /\ Faults \subseteq {"crash", "load", "listener"}

VARIABLES
  now,       \* the clock that PyJWT and PostgreSQL's NOW() read
  table,     \* committed rows of revoked_tokens
  txn,       \* txn[w][j]: the transaction in which w revokes j
  watch,     \* watch[w]: where w is between its start and its LISTEN
  local,     \* local[w]: _revoked_jtis of w
  inbox,     \* inbox[w]: notifications on their way to w
  pruning,   \* w is between the SELECT and the DELETE of a prune
  revoked,   \* history: ids whose revocation has committed
  tried,     \* tried[w]: history, ids this process of w has itself revoked
  unheard    \* unheard[w]: history, revocations no message told w about

vars == <<now, table, txn, watch, local, inbox, pruning, revoked, tried, unheard>>

Txn == {"none", "inserted", "notified"}
Watch == {"down", "loaded", "listening", "deaf"}

TypeOK ==
  /\ now \in Nat
  /\ table \subseteq Jtis
  /\ txn \in [Workers -> [Jtis -> Txn]]
  /\ watch \in [Workers -> Watch]
  /\ local \in [Workers -> SUBSET Jtis]
  /\ inbox \in [Workers -> SUBSET Jtis]
  /\ pruning \subseteq Workers
  /\ revoked \subseteq Jtis
  /\ tried \in [Workers -> SUBSET Jtis]
  /\ unheard \in [Workers -> SUBSET Jtis]

-----------------------------------------------------------------------------
Up(w) == watch[w] # "down"
Listening(w) == watch[w] = "listening"

\* PyJWT rejects at exp <= now, the SQL of the load keeps expires_at > NOW().
Live(j) == now < Exp[j]
\* Mutation: the load asks for more than a tick of validity.
ActiveRowsShort == {j \in table : now + 1 < Exp[j]}
ActiveRows == {j \in table : Live(j)}
\* Mutation: the prune's boundary is one tick early.
ExpiredRowsEarly == {j \in table : now + 1 >= Exp[j]}
ExpiredRows == {j \in table : ~ Live(j)}

IsRevoked(w, j) == j \in local[w]

\* read_token of a worker that knows the token's key.
Rejects(w, j) == ~ Live(j) \/ IsRevoked(w, j)

Init ==
  /\ now = 0
  /\ table = {}
  /\ txn = [w \in Workers |-> [j \in Jtis |-> "none"]]
  /\ watch = [w \in Workers |-> "down"]
  /\ local = [w \in Workers |-> {}]
  /\ inbox = [w \in Workers |-> {}]
  /\ pruning = {}
  /\ revoked = {}
  /\ tried = [w \in Workers |-> {}]
  /\ unheard = [w \in Workers |-> {}]

-----------------------------------------------------------------------------
(* revoke_token and the end of the transaction it runs in                  *)

\* db.add(row); flush().  jti is UNIQUE: with a committed row the flush fails
\* and nothing changes, with another transaction's row it waits for its end.
RevokeInsert(w, j) ==
  /\ Up(w)
  /\ j \notin table
  /\ \A v \in Workers : txn[v][j] = "none"
  /\ txn' = [txn EXCEPT ![w][j] = "inserted"]
  /\ UNCHANGED <<now, table, watch, local, inbox, pruning, revoked, tried, unheard>>

\* Mutation: the broadcast does not wait for the commit.
RevokeNotifyAtOnce(w, j) ==
  /\ txn[w][j] = "inserted"
  /\ txn' = [txn EXCEPT ![w][j] = "notified"]
  /\ local' = [local EXCEPT ![w] = @ \union {j}]
  /\ tried' = [tried EXCEPT ![w] = @ \union {j}]
  /\ inbox' = [v \in Workers |-> IF Listening(v) THEN inbox[v] \union {j} ELSE inbox[v]]
  /\ UNCHANGED <<now, table, watch, pruning, revoked, unheard>>

\* NOTIFY, queued in the transaction, then the revoking worker's own set.
RevokeNotify(w, j) ==
  /\ txn[w][j] = "inserted"
  /\ txn' = [txn EXCEPT ![w][j] = "notified"]
  /\ local' = [local EXCEPT ![w] = @ \union {j}]
  /\ tried' = [tried EXCEPT ![w] = @ \union {j}]
  /\ UNCHANGED <<now, table, watch, inbox, pruning, revoked, unheard>>

\* PostgreSQL delivers to the connections that listen at that moment.
Commit(w, j) ==
  /\ txn[w][j] = "notified"
  /\ txn' = [txn EXCEPT ![w][j] = "none"]
  /\ table' = table \union {j}
  /\ revoked' = revoked \union {j}
  /\ inbox' = [v \in Workers |-> IF Listening(v) THEN inbox[v] \union {j} ELSE inbox[v]]
  /\ unheard' = [v \in Workers |->
                   IF Up(v) /\ ~ Listening(v) THEN unheard[v] \union {j} ELSE unheard[v]]
  /\ UNCHANGED <<now, watch, local, pruning, tried>>

\* Mutation: the failed transaction is left in the session.
RollbackKept(w, j) ==
  /\ txn[w][j] # "none"
  /\ txn' = [txn EXCEPT ![w][j] = "aborted"]
  /\ UNCHANGED <<now, table, watch, local, inbox, pruning, revoked, tried, unheard>>

\* An exception after the flush: get_session or the session's exit rolls back.
Rollback(w, j) ==
  /\ txn[w][j] # "none"
  /\ txn' = [txn EXCEPT ![w][j] = "none"]
  /\ UNCHANGED <<now, table, watch, local, inbox, pruning, revoked, tried, unheard>>

-----------------------------------------------------------------------------
(* The watcher of a worker                                                 *)

\* _load_active_revocations; an exception is logged and the worker goes on.
Start(w, rows) ==
  /\ ~ Up(w)
  /\ \/ rows = ActiveRows
     \/ "load" \in Faults /\ rows = {}
  /\ watch' = [watch EXCEPT ![w] = "loaded"]
  /\ local' = [local EXCEPT ![w] = rows]
  /\ unheard' = [unheard EXCEPT ![w] = ActiveRows \ rows]
  /\ UNCHANGED <<now, table, txn, inbox, pruning, revoked, tried>>

\* _listen_loop, scheduled by create_task: add_listener.
Listen(w) ==
  /\ watch[w] = "loaded"
  /\ watch' = [watch EXCEPT ![w] = "listening"]
  /\ UNCHANGED <<now, table, txn, local, inbox, pruning, revoked, tried, unheard>>

\* The connection fails: the loop ends or goes on without it, the worker serves.
LoseListener(w) ==
  /\ "listener" \in Faults
  /\ watch[w] \in {"loaded", "listening"}
  /\ watch' = [watch EXCEPT ![w] = "deaf"]
  /\ inbox' = [inbox EXCEPT ![w] = {}]
  /\ pruning' = pruning \ {w}
  /\ unheard' = [unheard EXCEPT ![w] = @ \union inbox[w]]
  /\ UNCHANGED <<now, table, txn, local, revoked, tried>>

\* Mutation: the listener consumes the notification and adds nothing.
OnRevokeIgnored(w, j) ==
  /\ j \in inbox[w]
  /\ inbox' = [inbox EXCEPT ![w] = @ \ {j}]
  /\ UNCHANGED <<now, table, txn, watch, local, pruning, revoked, tried, unheard>>

\* _on_revoke
OnRevoke(w, j) ==
  /\ j \in inbox[w]
  /\ inbox' = [inbox EXCEPT ![w] = @ \ {j}]
  /\ local' = [local EXCEPT ![w] = @ \union {j}]
  /\ UNCHANGED <<now, table, txn, watch, pruning, revoked, tried, unheard>>

\* _prune_expired_jtis up to its await: SELECT and difference_update.
PruneSelect(w) ==
  /\ Listening(w) /\ w \notin pruning
  /\ ExpiredRows # {}
  /\ local' = [local EXCEPT ![w] = @ \ ExpiredRows]
  /\ pruning' = pruning \union {w}
  /\ UNCHANGED <<now, table, txn, watch, inbox, revoked, tried, unheard>>

\* Mutation: the prune empties the table, live rows included.
PruneDeleteAll(w) ==
  /\ w \in pruning
  /\ table' = {}
  /\ pruning' = pruning \ {w}
  /\ UNCHANGED <<now, txn, watch, local, inbox, revoked, tried, unheard>>

\* The DELETE repeats the condition, so it sees the clock of its own moment.
PruneDelete(w) ==
  /\ w \in pruning
  /\ table' = table \ ExpiredRows
  /\ pruning' = pruning \ {w}
  /\ UNCHANGED <<now, txn, watch, local, inbox, revoked, tried, unheard>>

\* The process ends: its memory, its listener and its open transactions go.
Crash(w) ==
  /\ "crash" \in Faults /\ Up(w)
  /\ watch' = [watch EXCEPT ![w] = "down"]
  /\ txn' = [txn EXCEPT ![w] = [j \in Jtis |-> "none"]]
  /\ local' = [local EXCEPT ![w] = {}]
  /\ inbox' = [inbox EXCEPT ![w] = {}]
  /\ pruning' = pruning \ {w}
  /\ tried' = [tried EXCEPT ![w] = {}]
  /\ unheard' = [unheard EXCEPT ![w] = {}]
  /\ UNCHANGED <<now, table, revoked>>

Tick ==
  /\ now < MaxNow
  /\ now' = now + 1
  /\ UNCHANGED <<table, txn, watch, local, inbox, pruning, revoked, tried, unheard>>

-----------------------------------------------------------------------------
Request(w, j) == RevokeInsert(w, j) \/ RevokeNotify(w, j) \/ Commit(w, j) \/ Rollback(w, j)

Lifecycle(w) ==
  \/ \E rows \in {ActiveRows, {}} : Start(w, rows)
  \/ Listen(w) \/ LoseListener(w) \/ Crash(w)

Prune(w) == PruneSelect(w) \/ PruneDelete(w)

Next ==
  \/ \E w \in Workers, j \in Jtis : Request(w, j) \/ OnRevoke(w, j)
  \/ \E w \in Workers : Lifecycle(w) \/ Prune(w)
  \/ Tick

Spec == Init /\ [][Next]_vars

\* asyncpg calls the listener for every notification that has arrived.
Fairness == \A w \in Workers, j \in Jtis : WF_vars(OnRevoke(w, j))

FairSpec == Spec /\ Fairness

-----------------------------------------------------------------------------
(* Safety                                                                  *)

\* "The DB is the source of truth on restart": a committed revocation is in
\* the table until its token has expired, whatever the prunes of all workers.
RevokedIsDurable == \A j \in revoked : Live(j) => j \in table

\* A running worker rejects every committed, unexpired revocation, or the
\* notification is on its way, except those that committed while it was not
\* listening: no crash, restart, prune or order of messages loses another.
NoRevocationLost ==
  \A w \in Workers : \A j \in revoked :
     Up(w) /\ Live(j) => j \in local[w] \union inbox[w] \union unheard[w]

\* "The revocation message is only delivered if the DB write commits": what a
\* worker rejects has committed, or this same process asked for it.
OnlyOriginActsEarly ==
  \A w \in Workers :
     /\ inbox[w] \subseteq revoked
     /\ local[w] \subseteq revoked \union tried[w]

\* A process that rejects a token rejects it ever after: the prune forgets only
\* what PyJWT refuses anyway.
RejectionStable ==
  [][\A w \in Workers, j \in Jtis : Rejects(w, j) /\ Up(w)' => Rejects(w, j)']_vars

(* Refinement: the blacklist's promise, over the live tokens               *)
LiveJtis == {j \in Jtis : Live(j)}
Promise == INSTANCE Blacklist WITH
  live <- LiveJtis,
  durable <- ActiveRows,
  alive <- {w \in Workers : Up(w)},
  asked <- tried,
  denied <- [w \in Workers |-> local[w] \intersect LiveJtis]

\* Every step of the table, the notifications and the sets is a step of the
\* promise or changes nothing of it.
ImplementsBlacklist == Promise!BSpec

(* Liveness, under Fairness                                                *)

\* A listening worker comes to reject, by the NOTIFY and not by the token's
\* expiry, every revocation that committed while it listened.
HeardRevocationRejected ==
  \A w \in Workers, j \in Jtis :
     j \in revoked \ unheard[w] /\ Listening(w) /\ Live(j)
       ~> IsRevoked(w, j) \/ ~ Listening(w)
=============================================================================
