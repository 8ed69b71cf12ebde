------------------------------ MODULE Webhooks ------------------------------
(***************************************************************************)
(* The events of one worker: emit, the dispatch to the webhooks of the     *)
(* tenant and the delivery with retries (app/core/events.py), beside the   *)
(* requests that emit and the endpoints that create and delete webhooks    *)
(* (app/admin/webhooks.py).                                                *)
(*                                                                         *)
(* An event's audit row lies in the request's transaction; the dispatch    *)
(* and every delivery are tasks of their own in the worker's memory, begun *)
(* before that transaction ends.  Time is counted in ticks.                *)
(***************************************************************************)
EXTENDS Integers, FiniteSets

CONSTANTS
  Events,       \* what requests emit, each once
  Hooks,        \* webhooks of the tenant, subscribed to these events
  Retry2, Retry3,   \* _RETRY_DELAYS: waits before the second and third attempt
  Faults        \* what may go wrong: a subset of the three below

ASSUME EventAssumption ==
  /\ Retry2 \in Nat /\ Retry3 \in Nat
  /\ Faults \subseteq {"crash", "database", "receiver"}

Attempts == 1 .. 3
RetryDelay == <<0, Retry2, Retry3>>
Longest == Retry2 + Retry3
Jobs == Events \X Hooks

VARIABLES
  tx,        \* tx[e]: none, open, committed or lost: the transaction that emits e
  dispatch,  \* events whose dispatch has yet to read the webhooks
  hooks,     \* the webhooks in the table
  job,       \* job[j]: where the delivery task of j is; see Running and Ended
  attempt,   \* attempt[j]: the attempt j is at
  wait,      \* wait[j]: the ticks until it may start
  logged,    \* logged[j]: the attempts with a row in webhook_deliveries
  sent,      \* history: the attempts of j that were posted
  unlogged,  \* history: the attempts of j whose row could not be inserted
  dropped    \* history: events whose dispatch failed or ended with the process

eventVars == <<tx, dispatch, hooks, job, attempt, wait, logged, sent, unlogged, dropped>>

\* accepted and refused: an answer of 2xx, or none, is about to be logged.
Running == {"sleep", "accepted", "refused"}
Ended == {"delivered", "exhausted", "dead"}

EventTypeOK ==
  /\ tx \in [Events -> {"none", "open", "committed", "lost"}]
  /\ dispatch \subseteq Events
  /\ hooks \subseteq Hooks
  /\ job \in [Jobs -> {"none"} \union Running \union Ended]
  /\ attempt \in [Jobs -> Attempts]
  /\ wait \in [Jobs -> 0 .. Longest]
  /\ logged \in [Jobs -> SUBSET Attempts]
  /\ sent \in [Jobs -> SUBSET Attempts]
  /\ unlogged \in [Jobs -> SUBSET Attempts]
  /\ dropped \subseteq Events
  /\ \A j \in Jobs : job[j] # "none" => j[1] \notin dispatch

EventInit ==
  /\ tx = [e \in Events |-> "none"]
  /\ dispatch = {}
  /\ hooks \in SUBSET Hooks
  /\ job = [j \in Jobs |-> "none"]
  /\ attempt = [j \in Jobs |-> 1]
  /\ wait = [j \in Jobs |-> 0]
  /\ logged = [j \in Jobs |-> {}]
  /\ sent = [j \in Jobs |-> {}]
  /\ unlogged = [j \in Jobs |-> {}]
  /\ dropped = {}

-----------------------------------------------------------------------------
\* emit: the audit row is flushed and the dispatch begun.  If the flush fails
\* the event is dropped.
Emit(e) ==
  /\ tx[e] = "none"
  /\ \/ tx' = [tx EXCEPT ![e] = "open"] /\ dispatch' = dispatch \union {e}
     \/ "database" \in Faults /\ tx' = [tx EXCEPT ![e] = "lost"] /\ UNCHANGED dispatch
  /\ UNCHANGED <<hooks, job, attempt, wait, logged, sent, unlogged, dropped>>

\* The request commits, or an error rolls its audit row back.
EndRequest(e) ==
  /\ tx[e] = "open"
  /\ \E s \in {"committed", "lost"} : tx' = [tx EXCEPT ![e] = s]
  /\ UNCHANGED <<dispatch, hooks, job, attempt, wait, logged, sent, unlogged, dropped>>

\* Mutation: no webhook gets a task.
DispatchNothing(e) ==
  /\ e \in dispatch
  /\ dispatch' = dispatch \ {e}
  /\ UNCHANGED <<tx, hooks, job, attempt, wait, logged, sent, unlogged, dropped>>

\* _dispatch_webhooks: a task for every webhook the table has at this moment.
Dispatch(e) ==
  /\ e \in dispatch
  /\ dispatch' = dispatch \ {e}
  /\ \/ UNCHANGED dropped /\ job' = [j \in Jobs |-> IF j[1] = e /\ j[2] \in hooks THEN "sleep" ELSE job[j]]
     \/ "database" \in Faults /\ UNCHANGED job /\ dropped' = dropped \union {e}
  /\ UNCHANGED <<tx, hooks, attempt, wait, logged, sent, unlogged>>

\* _deliver: from the webhook as the dispatch has read it, whether or not it has
\* been deleted since.
Post(j) ==
  /\ job[j] = "sleep" /\ wait[j] = 0
  /\ sent' = [sent EXCEPT ![j] = @ \union {attempt[j]}]
  /\ \/ job' = [job EXCEPT ![j] = "accepted"]
     \/ "receiver" \in Faults /\ job' = [job EXCEPT ![j] = "refused"]
  /\ UNCHANGED <<tx, dispatch, hooks, attempt, wait, logged, unlogged, dropped>>

\* The row of an attempt; a failure to insert it is logged elsewhere.
Log(j) ==
  \/ /\ logged' = [logged EXCEPT ![j] = @ \union {attempt[j]}]
     /\ UNCHANGED unlogged
  \/ /\ "database" \in Faults
     /\ unlogged' = [unlogged EXCEPT ![j] = @ \union {attempt[j]}]
     /\ UNCHANGED logged

\* Mutation: a success is logged, a failure is not.
FinishUnlogged(j) ==
  /\ \/ job[j] = "accepted" /\ Log(j) /\ job' = [job EXCEPT ![j] = "delivered"]
     \/ job[j] = "refused" /\ UNCHANGED <<logged, unlogged>>
        /\ job' = [job EXCEPT ![j] = IF attempt[j] = 3 THEN "exhausted" ELSE "sleep"]
  /\ attempt' = [attempt EXCEPT ![j] = IF job[j] = "refused" /\ @ < 3 THEN @ + 1 ELSE @]
  /\ wait' = [wait EXCEPT ![j] = IF job'[j] = "sleep" THEN RetryDelay[attempt'[j]] ELSE 0]
  /\ UNCHANGED <<tx, dispatch, hooks, sent, dropped>>

\* The attempt is logged; a refused one is followed by the next, after its wait.
Finish(j) ==
  /\ Log(j)
  /\ \/ job[j] = "accepted" /\ job' = [job EXCEPT ![j] = "delivered"]
     \/ job[j] = "refused"
        /\ job' = [job EXCEPT ![j] = IF attempt[j] = 3 THEN "exhausted" ELSE "sleep"]
  /\ attempt' = [attempt EXCEPT ![j] = IF job[j] = "refused" /\ @ < 3 THEN @ + 1 ELSE @]
  /\ wait' = [wait EXCEPT ![j] = IF job'[j] = "sleep" THEN RetryDelay[attempt'[j]] ELSE 0]
  /\ UNCHANGED <<tx, dispatch, hooks, sent, dropped>>

\* create_webhook and delete_webhook.
Create(h) ==
  /\ h \notin hooks
  /\ hooks' = hooks \union {h}
  /\ UNCHANGED <<tx, dispatch, job, attempt, wait, logged, sent, unlogged, dropped>>

Delete(h) ==
  /\ h \in hooks
  /\ hooks' = hooks \ {h}
  /\ UNCHANGED <<tx, dispatch, job, attempt, wait, logged, sent, unlogged, dropped>>

\* The process ends: its tasks are gone, and nothing on disk remembers them.
Crash ==
  /\ "crash" \in Faults
  /\ tx' = [e \in Events |-> IF tx[e] = "open" THEN "lost" ELSE tx[e]]
  /\ dropped' = dropped \union dispatch
  /\ dispatch' = {}
  /\ job' = [j \in Jobs |-> IF job[j] \in Running THEN "dead" ELSE job[j]]
  /\ UNCHANGED <<hooks, attempt, wait, logged, sent, unlogged>>

EventTick ==
  /\ wait' = [j \in Jobs |-> IF wait[j] = 0 THEN 0 ELSE wait[j] - 1]
  /\ UNCHANGED <<tx, dispatch, hooks, job, attempt, logged, sent, unlogged, dropped>>

EventNext ==
  \/ \E e \in Events : Emit(e) \/ EndRequest(e) \/ Dispatch(e)
  \/ \E j \in Jobs : Post(j) \/ Finish(j)
  \/ \E h \in Hooks : Create(h) \/ Delete(h)
  \/ Crash \/ EventTick

EventSpec == EventInit /\ [][EventNext]_eventVars

\* The clock goes on and the tasks of the event loop run.
EventFairSpec ==
  /\ EventSpec /\ WF_eventVars(EventTick)
  /\ \A e \in Events : WF_eventVars(Dispatch(e))
  /\ \A j \in Jobs : WF_eventVars(Post(j)) /\ WF_eventVars(Finish(j))

-----------------------------------------------------------------------------
(* Safety                                                                  *)

\* An event is given up only after three attempts, and every attempt that is over
\* has its row unless the database refused it: a crash costs the row of the
\* attempt under way and no other.
LogIsComplete ==
  \A j \in Jobs :
    LET over == IF job[j] \in {"delivered", "exhausted"} THEN attempt[j] ELSE attempt[j] - 1 IN
    /\ job[j] = "exhausted" => attempt[j] = 3
    /\ logged[j] \union unlogged[j] = 1 .. over

(* Liveness                                                                *)

\* An event a request has emitted reaches every webhook that is not deleted in
\* the meantime, or is given up after three attempts, whatever became of the
\* request: unless its dispatch fails or the process ends.
EmittedIsHandled ==
  \A e \in Events, h \in Hooks :
    e \in dispatch /\ h \in hooks
      ~> job[<<e, h>>] \in Ended \/ h \notin hooks \/ e \in dropped
=============================================================================
