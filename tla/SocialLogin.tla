---------------------------- MODULE SocialLogin ----------------------------
(***************************************************************************)
(* The callbacks of Google logins that carry one state (google_callback of *)
(* app/api/v1/auth.py with verify_oauth_state and upsert_oauth_user of     *)
(* app/identity/social.py), and the user they log in.                      *)
(*                                                                         *)
(* A callback's only transaction inserts the state's nonce into            *)
(* revoked_tokens, waits for Google, upserts the user and commits.  What a *)
(* worker knows of the nonce without the table is its in-memory set, which *)
(* gets it before the commit, from a notification, or at the worker's      *)
(* start.  Time is counted in fractions of a second; the state is issued   *)
(* in the first second, and the age the code computes for it is in whole   *)
(* seconds, from the beginning of that one.                                *)
(***************************************************************************)
EXTENDS Integers, FiniteSets

CONSTANTS
  Workers,
  Callbacks,    \* requests with the state: each is made once
  NoCallback,
  MaxAge,       \* max_age_seconds, and the lifetime of the nonce's row
  Second,       \* the fractions in a second
  MaxTime,      \* bound of the clock
  Others        \* whether the email may belong to a user of another tenant

ASSUME ConstantsAssumption ==
  /\ MaxAge \in Nat \ {0} /\ Second \in Nat \ {0} /\ MaxTime \in Nat
  /\ NoCallback \notin Callbacks /\ Others \in BOOLEAN

VARIABLES
  now,
  row,       \* the expiry of the nonce's committed row, or -1 when there is none
  mem,       \* the workers whose in-memory set has the nonce
  holder,    \* the callback whose uncommitted INSERT holds the nonce
  pc, at,    \* at[r]: the worker that serves callback r
  since,     \* since[r]: when r has checked the state and dated its row
  inserted,  \* history: inserted[r]: when r got its row into the table
  user       \* absent, active, inactive or foreign (of another tenant)

vars == <<now, row, mem, holder, pc, at, since, inserted, user>>

TypeOK ==
  /\ now \in 0 .. MaxTime
  /\ row \in -1 .. MaxTime + MaxAge
  /\ mem \subseteq Workers
  /\ holder \in Callbacks \union {NoCallback}
  /\ pc \in [Callbacks -> {"new", "insert", "exchange", "done", "failed"}]
  /\ at \in [Callbacks -> Workers]
  /\ since \in [Callbacks -> 0 .. MaxTime] /\ inserted \in [Callbacks -> 0 .. MaxTime]
  /\ user \in {"absent", "active", "inactive", "foreign"}
  /\ \A r \in Callbacks : holder = r <=> pc[r] = "exchange"

Init ==
  /\ now = 0 /\ row = -1 /\ mem = {}
  /\ holder = NoCallback
  /\ pc = [r \in Callbacks |-> "new"]
  /\ at \in [Callbacks -> Workers]
  /\ since = [r \in Callbacks |-> 0] /\ inserted = [r \in Callbacks |-> 0]
  /\ user \in {"absent", "active"} \union (IF Others THEN {"foreign"} ELSE {})

-----------------------------------------------------------------------------
HasRow == row # -1
Goto(r, p) == pc' = [pc EXCEPT ![r] = p]

\* Mutation: the age is not checked.
AcceptsAnyAge(r) == at[r] \notin mem

\* The age in whole seconds must not exceed MaxAge.
Accepts(r) == now < MaxAge + Second /\ at[r] \notin mem

\* verify_oauth_state.  The expiry of the nonce's row is computed right after it,
\* before the request waits for a connection or for the row.
Verify(r) ==
  /\ pc[r] = "new"
  /\ \/ Accepts(r) /\ Goto(r, "insert") /\ since' = [since EXCEPT ![r] = now]
     \/ ~ Accepts(r) /\ Goto(r, "failed") /\ UNCHANGED since
  /\ UNCHANGED <<now, row, mem, holder, inserted, at, user>>

\* revoke_token: the INSERT waits for another one of the same nonce, and fails
\* if that has committed; memory is written before the commit.
Insert(r) ==
  /\ pc[r] = "insert" /\ holder = NoCallback /\ ~ HasRow
  /\ holder' = r
  /\ inserted' = [inserted EXCEPT ![r] = now]
  /\ mem' = mem \union {at[r]}
  /\ Goto(r, "exchange")
  /\ UNCHANGED <<now, row, at, since, user>>

InsertFails(r) ==
  /\ pc[r] = "insert" /\ holder = NoCallback /\ HasRow
  /\ Goto(r, "failed")
  /\ UNCHANGED <<now, row, mem, holder, at, since, inserted, user>>

\* The tenant, Google's token or Google's user info cannot be had: rolled back.
Fail(r) ==
  /\ pc[r] = "exchange"
  /\ holder' = NoCallback
  /\ Goto(r, "failed")
  /\ UNCHANGED <<now, row, mem, at, since, inserted, user>>

\* Google has answered: the user is inserted, or set active, and the nonce's row
\* is committed with him.  The workers that listen hear of it.  A user of another
\* tenant is refused by Fail.
Commit(r) ==
  /\ pc[r] = "exchange" /\ user # "foreign"
  /\ user' = "active"
  /\ row' = since[r] + MaxAge
  /\ holder' = NoCallback
  /\ \E S \in SUBSET Workers : mem' = mem \union S
  /\ Goto(r, "done")
  /\ UNCHANGED <<now, at, since, inserted>>

\* A worker ends, its callbacks with it, and starts from the rows not expired.
Restart(w) ==
  LET dead == {r \in Callbacks : at[r] = w /\ pc[r] \in {"insert", "exchange"}} IN
  /\ pc' = [r \in Callbacks |-> IF r \in dead THEN "failed" ELSE pc[r]]
  /\ holder' = IF holder \in dead THEN NoCallback ELSE holder
  /\ mem' = IF row > now THEN mem \union {w} ELSE mem \ {w}
  /\ UNCHANGED <<now, row, at, since, inserted, user>>

\* The hourly prune of a worker's watcher.  A row that expires between its SELECT
\* and its DELETE goes without leaving the worker's memory.
Prune(w) ==
  /\ HasRow /\ row <= now
  /\ row' = -1
  /\ mem' \in {mem, mem \ {w}}
  /\ UNCHANGED <<now, holder, pc, at, since, inserted, user>>

\* patch_user, by an administrator.
Deactivate ==
  /\ user = "active"
  /\ user' = "inactive"
  /\ UNCHANGED <<now, row, mem, holder, pc, at, since, inserted>>

Reactivate ==
  /\ user = "inactive"
  /\ user' = "active"
  /\ UNCHANGED <<now, row, mem, holder, pc, at, since, inserted>>

Tick ==
  /\ now < MaxTime
  /\ now' = now + 1
  /\ UNCHANGED <<row, mem, holder, pc, at, since, inserted, user>>

Callback(r) ==
  Verify(r) \/ Insert(r) \/ InsertFails(r) \/ Fail(r) \/ Commit(r)

Next ==
  \/ \E r \in Callbacks : Callback(r)
  \/ \E w \in Workers : Restart(w) \/ Prune(w)
  \/ Deactivate \/ Reactivate \/ Tick

Spec == Init /\ [][Next]_vars

-----------------------------------------------------------------------------
(* Safety                                                                  *)

\* How long r has waited for a connection and for the nonce.
Wait(r) == inserted[r] - since[r]

\* "A consumed OAuth state nonce is rejected on replay": one state logs in twice,
\* on whichever workers its callbacks arrive, whatever they have heard of each other
\* and across restarts and prunes, only if one of the two callbacks has waited with
\* its INSERT, after a check in the state's last moments, for as long as the state
\* was old at the other's check, but for the second that ages are rounded by: the
\* nonce's row lives no longer than the state may be old.
OneLoginPerState ==
  \A q, r \in Callbacks : q # r /\ pc[q] = "done" /\ pc[r] = "done" =>
    Wait(r) > since[q] - Second \/ Wait(q) > since[r] - Second
=============================================================================
