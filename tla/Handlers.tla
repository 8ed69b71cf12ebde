------------------------------ MODULE Handlers ------------------------------
(***************************************************************************)
(* What the request handlers of the service have in common.  A handler runs*)
(* in a session of its own (app/core/database.py, get_session); between two*)
(* awaits that matter other handlers run, so each stretch between them is  *)
(* one action.  What a handler has read stays what it was when it read it: *)
(* the session does not expire its objects on a commit.                    *)
(*                                                                         *)
(* A module of a component extends this one with the committed rows its    *)
(* handlers share.                                                         *)
(***************************************************************************)
EXTENDS Integers, FiniteSets

CONSTANTS
  Requests,  \* the handlers that can be in flight at the same time
  MaxTime    \* bound on the clock

ASSUME MaxTimeAssumption == MaxTime \in Nat
ASSUME RequestsAssumption == IsFiniteSet(Requests)

VARIABLES
  now,
  pc,      \* pc[r]: what request r does next
  local,   \* local[r]: its inputs, and its copies of what it has read
  overlap  \* history: two handlers have been in flight at the same time

reqVars == <<now, pc, local, overlap>>

HandlersInit ==
  /\ now = 0
  /\ pc = [r \in Requests |-> "idle"]
  /\ local = [r \in Requests |-> <<>>]
  /\ overlap = FALSE

Flying == {r \in Requests : pc[r] # "idle"}

\* The shared part of the state, and what overlap records.
HandlersOK ==
  /\ DOMAIN pc = Requests /\ DOMAIN local = Requests
  /\ overlap \in BOOLEAN
  /\ ~ overlap => \A q, r \in Flying : q = r

Continue(r, p, x) ==
  /\ pc' = [pc EXCEPT ![r] = p]
  /\ local' = [local EXCEPT ![r] = x]
  /\ UNCHANGED <<now, overlap>>

Overlapping(r) == overlap \/ \E q \in Requests \ {r} : pc[q] # "idle"

\* A request comes in and runs as far as its first read.
Begin(r, p, x) ==
  /\ pc[r] = "idle"
  /\ pc' = [pc EXCEPT ![r] = p]
  /\ local' = [local EXCEPT ![r] = x]
  /\ overlap' = Overlapping(r)
  /\ UNCHANGED now

\* A request whose only effect is one statement and its commit, or which is
\* refused after its first read.
AtOnce(r) ==
  /\ pc[r] = "idle"
  /\ overlap' = Overlapping(r)
  /\ UNCHANGED <<now, pc, local>>

\* The response, or the error, that ends a request.
End(r) == Continue(r, "idle", <<>>)

\* A refusal, an exception, a lost connection: the session is rolled back, and
\* what the handler has not committed by then is gone.
Fail(r) == pc[r] # "idle" /\ End(r)

Tick ==
  /\ now < MaxTime
  /\ now' = now + 1
  /\ UNCHANGED <<pc, local, overlap>>
=============================================================================
