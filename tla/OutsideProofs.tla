--------------------------- MODULE OutsideProofs ---------------------------
(***************************************************************************)
(* Proofs about what LiteIAM does with the world outside: the callbacks    *)
(* that carry one OAuth state, for any number of callbacks and workers,    *)
(* with every restart and prune; and the deliveries to webhooks, for any   *)
(* number of events and hooks, with every failure.                         *)
(***************************************************************************)
EXTENDS SocialLogin, Webhooks, TLAPS

-----------------------------------------------------------------------------
(* Social login                                                            *)

\* The callbacks that have logged in.
Done == {r \in Callbacks : pc[r] = "done"}

\* A callback that goes on has found the state young enough.
Checked ==
  \A r \in Callbacks : pc[r] \in {"insert", "exchange", "done"} => since[r] < MaxAge + Second

\* A login's row keeps the others out until it expires.
KeepsOut ==
  /\ holder # NoCallback => ~ HasRow /\ inserted[holder] <= now
  /\ \A q \in Done : row = since[q] + MaxAge \/ now >= since[q] + MaxAge

\* Whoever inserts after a login does so after the login's row has expired.
Apart ==
  /\ holder # NoCallback => \A q \in Done : inserted[holder] >= since[q] + MaxAge
  /\ \A q, r \in Done : q # r =>
       inserted[r] >= since[q] + MaxAge \/ inserted[q] >= since[r] + MaxAge

StateInv == TypeOK /\ Checked /\ KeepsOut /\ Apart

LEMMA StateInvInit == Init => StateInv
<1> SUFFICES ASSUME Init PROVE StateInv
  OBVIOUS
<1>1. TypeOK
  BY ConstantsAssumption DEF Init, TypeOK
<1>2. Checked /\ KeepsOut /\ Apart
  BY DEF Init, Checked, KeepsOut, Apart, Done
<1>3. QED
  BY <1>1, <1>2 DEF StateInv

\* A step that lets nobody in and leaves table and holder alone.
LEMMA NobodyIn ==
  ASSUME StateInv, TypeOK', Checked', Done' = Done, now' = now, row' = row,
         \A r \in Done : since'[r] = since[r],
         inserted' = inserted, holder' \in {holder, NoCallback}
  PROVE  StateInv'
<1>1. KeepsOut' /\ Apart'
  BY DEF StateInv, KeepsOut, Apart, HasRow
<1>2. QED
  BY <1>1 DEF StateInv

LEMMA StateInvNext == StateInv /\ [Next]_vars => StateInv'
<1> SUFFICES ASSUME StateInv, [Next]_vars PROVE StateInv'
  OBVIOUS
<1> USE ConstantsAssumption
<1>0. TypeOK /\ now \in Nat /\ now <= MaxTime
  BY DEF StateInv, TypeOK
<1>1. ASSUME NEW r \in Callbacks, Verify(r) PROVE StateInv'
  <2>1. PICK p \in {"insert", "failed"}, t \in {now, since[r]} :
          /\ pc[r] = "new" /\ pc' = [pc EXCEPT ![r] = p]
          /\ since' = [since EXCEPT ![r] = t]
          /\ p = "insert" => t < MaxAge + Second
          /\ UNCHANGED <<now, row, mem, holder, inserted, at, user>>
    BY <1>0, <1>1 DEF Verify, Accepts, Goto, TypeOK
  <2>2. t \in 0 .. MaxTime
    BY <1>0 DEF TypeOK
  <2>3. TypeOK'
    BY <1>0, <2>1, <2>2 DEF TypeOK
  <2>4. Checked'
    BY <1>0, <2>1 DEF StateInv, Checked, TypeOK
  <2>5. Done' = Done /\ \A q \in Done : since'[q] = since[q]
    BY <1>0, <2>1 DEF Done, TypeOK
  <2>6. QED
    BY <2>1, <2>3, <2>4, <2>5, NobodyIn
\* There is no row: those of earlier logins have expired
<1>2. ASSUME NEW r \in Callbacks, Insert(r) PROVE StateInv'
  <2>1. /\ pc[r] = "insert" /\ holder = NoCallback /\ row = -1
        /\ holder' = r /\ inserted' = [inserted EXCEPT ![r] = now]
        /\ mem' = mem \union {at[r]} /\ pc' = [pc EXCEPT ![r] = "exchange"]
        /\ UNCHANGED <<now, row, at, since, user>>
    BY <1>2 DEF Insert, Goto, HasRow
  <2>2. TypeOK'
    BY <1>0, <2>1 DEF TypeOK
  <2>3. Checked'
    BY <1>0, <2>1 DEF StateInv, Checked, TypeOK
  <2>4. Done' = Done /\ r \notin Done
    BY <1>0, <2>1 DEF Done, TypeOK
  <2>5. /\ inserted'[r] = now
        /\ \A q \in Done : inserted'[q] = inserted[q] /\ since[q] + MaxAge \in Nat
    BY <1>0, <2>1, <2>4 DEF Done, TypeOK
  <2>6. \A q \in Done : now >= since[q] + MaxAge
    BY <2>1, <2>5 DEF StateInv, KeepsOut
  <2>7. KeepsOut' /\ Apart'
    BY <1>0, <2>1, <2>4, <2>5, <2>6 DEF StateInv, KeepsOut, Apart, HasRow
  <2>8. QED
    BY <2>2, <2>3, <2>7 DEF StateInv
<1>3. ASSUME NEW r \in Callbacks, InsertFails(r) \/ Fail(r) PROVE StateInv'
  <2>1. /\ pc[r] \in {"insert", "exchange"} /\ pc' = [pc EXCEPT ![r] = "failed"]
        /\ holder' \in {holder, NoCallback}
        /\ UNCHANGED <<now, row, mem, at, since, inserted, user>>
    BY <1>3 DEF InsertFails, Fail, Goto
  <2>2. TypeOK'
    <3>1. CASE InsertFails(r)
      BY <1>0, <2>1, <3>1 DEF InsertFails, TypeOK
    <3>2. CASE Fail(r)
      BY <1>0, <2>1, <3>2 DEF Fail, TypeOK
    <3>3. QED
      BY <1>3, <3>1, <3>2
  <2>3. Checked'
    BY <1>0, <2>1 DEF StateInv, Checked, TypeOK
  <2>4. Done' = Done
    BY <1>0, <2>1 DEF Done, TypeOK
  <2>5. QED
    BY <2>1, <2>2, <2>3, <2>4, NobodyIn
<1>4. ASSUME NEW r \in Callbacks, Commit(r) PROVE StateInv'
  <2>1. /\ pc[r] = "exchange" /\ user' = "active" /\ row' = since[r] + MaxAge
        /\ holder' = NoCallback /\ pc' = [pc EXCEPT ![r] = "done"]
        /\ UNCHANGED <<now, at, since, inserted>>
    BY <1>4 DEF Commit, Goto
  <2>2. mem' \in SUBSET Workers
    BY <1>0, <1>4 DEF Commit, TypeOK
  <2>3. TypeOK'
    BY <1>0, <2>1, <2>2 DEF TypeOK
  <2>4. Checked'
    BY <1>0, <2>1 DEF StateInv, Checked, TypeOK
  <2>5. Done' = Done \union {r} /\ holder = r
    BY <1>0, <2>1 DEF Done, TypeOK
  <2>6. \A q \in Done : inserted[r] >= since[q] + MaxAge /\ inserted[r] <= now
    BY <2>5 DEF StateInv, KeepsOut, Apart
  <2>7. \A q \in Done : now >= since[q] + MaxAge
    <3>1. \A q \in Done : since[q] \in Nat /\ inserted[r] \in Nat
      BY <1>0 DEF Done, TypeOK
    <3>2. QED
      BY <1>0, <2>6, <3>1
  <2>8. KeepsOut'
    BY <2>1, <2>5, <2>7 DEF KeepsOut
  <2>9. Apart'
    BY <2>1, <2>5, <2>6 DEF StateInv, Apart
  <2>10. QED
    BY <2>3, <2>4, <2>8, <2>9 DEF StateInv
<1>5. ASSUME NEW w \in Workers, Restart(w) PROVE StateInv'
  <2> DEFINE dead == {r \in Callbacks : at[r] = w /\ pc[r] \in {"insert", "exchange"}}
  <2>1. /\ pc' = [r \in Callbacks |-> IF r \in dead THEN "failed" ELSE pc[r]]
        /\ holder' = (IF holder \in dead THEN NoCallback ELSE holder)
        /\ UNCHANGED <<now, row, at, since, inserted, user>>
    BY <1>5 DEF Restart
  <2>2. mem' \in SUBSET Workers
    BY <1>0, <1>5 DEF Restart, TypeOK
  <2>3. TypeOK'
    BY <1>0, <2>1, <2>2 DEF TypeOK
  <2>4. Checked'
    BY <1>0, <2>1 DEF StateInv, Checked, TypeOK
  <2>5. Done' = Done
    BY <1>0, <2>1 DEF Done, TypeOK
  <2>6. QED
    BY <2>1, <2>3, <2>4, <2>5, NobodyIn
\* A row that is pruned has expired
<1>6. ASSUME NEW w \in Workers, Prune(w) PROVE StateInv'
  <2>1. /\ row # -1 /\ row <= now /\ row' = -1 /\ mem' \in {mem, mem \ {w}}
        /\ UNCHANGED <<now, holder, pc, at, since, inserted, user>>
    BY <1>6 DEF Prune, HasRow
  <2>2. TypeOK'
    BY <1>0, <2>1 DEF TypeOK
  <2>3. Checked' /\ Apart'
    BY <2>1 DEF StateInv, Checked, Apart, Done
  <2>4. KeepsOut'
    BY <1>0, <2>1 DEF StateInv, KeepsOut, HasRow, Done, TypeOK
  <2>5. QED
    BY <2>2, <2>3, <2>4 DEF StateInv
<1>7. CASE Deactivate \/ Reactivate
  <2>1. /\ user' \in {"active", "inactive"}
        /\ UNCHANGED <<now, row, mem, holder, pc, at, since, inserted>>
    BY <1>7 DEF Deactivate, Reactivate
  <2>2. TypeOK'
    BY <1>0, <2>1 DEF TypeOK
  <2>3. QED
    BY <2>1, <2>2 DEF StateInv, Checked, KeepsOut, Apart, HasRow, Done
<1>8. CASE Tick
  <2>1. /\ now < MaxTime /\ now' = now + 1
        /\ UNCHANGED <<row, mem, holder, pc, at, since, inserted, user>>
    BY <1>8 DEF Tick
  <2>2. TypeOK'
    BY <1>0, <2>1 DEF TypeOK
  <2>3. Checked' /\ Apart'
    BY <2>1 DEF StateInv, Checked, Apart, Done
  <2>4. KeepsOut'
    <3>1. \A q \in Callbacks : since[q] \in Nat /\ inserted[q] \in Nat
      BY <1>0 DEF TypeOK
    <3>2. holder # NoCallback => holder \in Callbacks
      BY <1>0 DEF TypeOK
    <3>3. QED
      BY <1>0, <2>1, <3>1, <3>2 DEF StateInv, KeepsOut, HasRow, Done
  <2>5. QED
    BY <2>2, <2>3, <2>4 DEF StateInv
<1>9. CASE UNCHANGED vars
  BY <1>9 DEF vars, StateInv, TypeOK, Checked, KeepsOut, Apart, HasRow, Done
<1>10. QED
  BY <1>1, <1>2, <1>3, <1>4, <1>5, <1>6, <1>7, <1>8, <1>9 DEF Next, Callback

\* One state logs in twice only if one of the two callbacks has waited with its INSERT
\* for as long as the state was old at the other's check, but for a second, whatever
\* the workers hear, and across restarts and prunes (verify_oauth_state, revoke_token).
THEOREM StateLogsInOnce == Spec => []OneLoginPerState
<1>1. StateInv => OneLoginPerState
  <2> SUFFICES ASSUME StateInv, NEW q \in Callbacks, NEW r \in Callbacks, q # r,
                      pc[q] = "done", pc[r] = "done"
               PROVE  Wait(r) > since[q] - Second \/ Wait(q) > since[r] - Second
    BY DEF OneLoginPerState
  <2>1. since[q] < MaxAge + Second /\ since[r] < MaxAge + Second
    BY DEF StateInv, Checked
  <2>2. inserted[r] >= since[q] + MaxAge \/ inserted[q] >= since[r] + MaxAge
    BY DEF StateInv, Apart, Done
  <2>3. /\ since[q] \in Nat /\ since[r] \in Nat /\ inserted[q] \in Nat /\ inserted[r] \in Nat
    BY DEF StateInv, TypeOK
  <2>4. QED
    BY <2>1, <2>2, <2>3, ConstantsAssumption DEF Wait
<1>2. QED
  BY <1>1, StateInvInit, StateInvNext, PTL DEF Spec

-----------------------------------------------------------------------------
(* Webhooks                                                                *)

\* Nothing is dispatched or delivered of an event that has not been emitted.
EmittedFirst ==
  /\ \A e \in dispatch : tx[e] # "none"
  /\ \A j \in Jobs : job[j] # "none" => tx[j[1]] # "none"

\* The attempts of a delivery that are over.
Over(j) == IF job[j] \in {"delivered", "exhausted"} THEN attempt[j] ELSE attempt[j] - 1

\* A delivery's log holds exactly these.
LogUpToDate(j) ==
  /\ job[j] = "exhausted" => attempt[j] = 3
  /\ logged[j] \union unlogged[j] = 1 .. Over(j)

LogInv ==
  /\ EventTypeOK /\ EmittedFirst
  /\ \A j \in Jobs : LogUpToDate(j)

\* The next attempt is the only one missing in the log.
LEMMA OneAttemptMore ==
  ASSUME NEW a \in Attempts
  PROVE  (1 .. (a - 1)) \union {a} = 1 .. a
BY DEF Attempts

LEMMA LogInvInit == EventInit => LogInv
<1> SUFFICES ASSUME EventInit PROVE LogInv
  OBVIOUS
<1> USE EventAssumption
<1>1. EventTypeOK
  BY DEF EventInit, EventTypeOK, Running, Ended, Attempts, Longest
<1>2. EmittedFirst
  BY DEF EventInit, EmittedFirst
<1>3. ASSUME NEW j \in Jobs PROVE LogUpToDate(j)
  BY DEF EventInit, LogUpToDate, Over
<1>4. QED
  BY <1>1, <1>2, <1>3 DEF LogInv

LEMMA LogInvNext == LogInv /\ [EventNext]_eventVars => LogInv'
<1> SUFFICES ASSUME LogInv, [EventNext]_eventVars PROVE LogInv'
  OBVIOUS
<1> USE EventAssumption DEF LogInv
\* What leaves the deliveries alone leaves their log up to date
<1>0. ASSUME UNCHANGED <<job, attempt, logged, unlogged>>
      PROVE  \A j \in Jobs : LogUpToDate(j)'
  BY <1>0 DEF LogUpToDate, Over
<1>1. ASSUME NEW e \in Events, Emit(e) PROVE LogInv'
  <2>1. PICK s \in {"open", "lost"} :
          /\ tx[e] = "none" /\ tx' = [tx EXCEPT ![e] = s]
          /\ dispatch' \in {dispatch, dispatch \union {e}}
          /\ UNCHANGED <<hooks, job, attempt, wait, logged, sent, unlogged, dropped>>
    BY <1>1 DEF Emit
  <2>2. \A j \in Jobs : j[1] = e => job[j] = "none"
    BY <2>1 DEF EmittedFirst
  <2>3. EventTypeOK'
    BY <2>1, <2>2 DEF EventTypeOK
  <2>4. EmittedFirst'
    BY <2>1 DEF EmittedFirst, EventTypeOK, Jobs
  <2>5. QED
    BY <1>0, <2>1, <2>3, <2>4
<1>2. ASSUME NEW e \in Events, EndRequest(e) PROVE LogInv'
  <2>1. PICK s \in {"committed", "lost"} :
          /\ tx' = [tx EXCEPT ![e] = s]
          /\ UNCHANGED <<dispatch, hooks, job, attempt, wait, logged, sent, unlogged, dropped>>
    BY <1>2 DEF EndRequest
  <2>2. EventTypeOK'
    BY <2>1 DEF EventTypeOK
  <2>3. EmittedFirst'
    BY <2>1 DEF EmittedFirst, EventTypeOK, Jobs
  <2>4. QED
    BY <1>0, <2>1, <2>2, <2>3
\* None of the event's deliveries has begun: its dispatch is still to come
<1>3. ASSUME NEW e \in Events, Dispatch(e) PROVE LogInv'
  <2>1. /\ e \in dispatch /\ dispatch' = dispatch \ {e}
        /\ dropped' \in {dropped, dropped \union {e}}
        /\ UNCHANGED <<tx, hooks, attempt, wait, logged, sent, unlogged>>
    BY <1>3 DEF Dispatch
  <2>2. \A j \in Jobs : job'[j] = job[j] \/ (j[1] = e /\ job[j] = "none" /\ job'[j] = "sleep")
    <3>1. \A j \in Jobs : j[1] = e => job[j] = "none"
      BY <2>1 DEF EventTypeOK
    <3>2. \/ job' = job
          \/ job' = [j \in Jobs |-> IF j[1] = e /\ j[2] \in hooks THEN "sleep" ELSE job[j]]
      BY <1>3 DEF Dispatch
    <3>3. CASE job' = [j \in Jobs |-> IF j[1] = e /\ j[2] \in hooks THEN "sleep" ELSE job[j]]
      <4>1. ASSUME NEW j \in Jobs
            PROVE  job'[j] = IF j[1] = e /\ j[2] \in hooks THEN "sleep" ELSE job[j]
        BY <3>3
      <4>2. QED
        BY <3>1, <4>1
    <3>4. QED
      BY <3>2, <3>3
  <2>3. job' \in [Jobs -> {"none"} \union Running \union Ended]
    BY <1>3 DEF Dispatch, EventTypeOK, Running
  <2>4. EventTypeOK'
    BY <2>1, <2>2, <2>3 DEF EventTypeOK
  <2>5. EmittedFirst'
    BY <2>1, <2>2 DEF EmittedFirst
  <2>6. ASSUME NEW j \in Jobs PROVE LogUpToDate(j)'
    BY <2>1, <2>2 DEF LogUpToDate, Over
  <2>7. QED
    BY <2>4, <2>5, <2>6
<1>4. ASSUME NEW j \in Jobs, Post(j) PROVE LogInv'
  <2>1. PICK s \in {"accepted", "refused"} :
          /\ job[j] = "sleep" /\ job' = [job EXCEPT ![j] = s]
          /\ sent' = [sent EXCEPT ![j] = @ \union {attempt[j]}]
          /\ UNCHANGED <<tx, dispatch, hooks, attempt, wait, logged, unlogged, dropped>>
    BY <1>4 DEF Post
  <2>2. EventTypeOK'
    BY <2>1 DEF EventTypeOK, Running
  <2>3. EmittedFirst'
    BY <2>1 DEF EmittedFirst, EventTypeOK
  <2>4. ASSUME NEW i \in Jobs PROVE LogUpToDate(i)'
    BY <2>1 DEF LogUpToDate, Over, EventTypeOK
  <2>5. QED
    BY <2>2, <2>3, <2>4
\* The attempt under way gets its row, or is noted as refused by the database
<1>5. ASSUME NEW j \in Jobs, Finish(j) PROVE LogInv'
  <2>1. PICK s \in {"delivered", "exhausted", "sleep"}, a \in Attempts :
          /\ job[j] \in {"accepted", "refused"}
          /\ job' = [job EXCEPT ![j] = s] /\ attempt' = [attempt EXCEPT ![j] = a]
          /\ s = "sleep" => a = attempt[j] + 1
          /\ s # "sleep" => a = attempt[j]
          /\ s = "exhausted" => a = 3
    <3>1. attempt[j] \in Attempts
      BY DEF EventTypeOK
    <3>2. CASE job[j] = "accepted"
      BY <1>5, <3>1, <3>2 DEF Finish
    <3>3. CASE job[j] = "refused" /\ attempt[j] = 3
      <4>1. job' = [job EXCEPT ![j] = "exhausted"] /\ attempt' = [attempt EXCEPT ![j] = 3]
        BY <1>5, <3>1, <3>3 DEF Finish
      <4>2. QED
        BY <3>1, <3>3, <4>1
    <3>4. CASE job[j] = "refused" /\ attempt[j] # 3
      <4>1. attempt[j] < 3 /\ attempt[j] + 1 \in Attempts
        BY <3>1, <3>4 DEF Attempts
      <4>2. /\ job' = [job EXCEPT ![j] = "sleep"]
            /\ attempt' = [attempt EXCEPT ![j] = attempt[j] + 1]
        BY <1>5, <3>4, <4>1 DEF Finish
      <4>3. QED
        BY <3>4, <4>1, <4>2
    <3>5. QED
      BY <1>5, <3>2, <3>3, <3>4 DEF Finish
  <2>2. UNCHANGED <<tx, dispatch, hooks, sent, dropped>>
    BY <1>5 DEF Finish
  <2>3. PICK d \in 0 .. Longest : wait' = [wait EXCEPT ![j] = d]
    <3>1. wait' = [wait EXCEPT ![j] = IF s = "sleep" THEN RetryDelay[a] ELSE 0]
      BY <1>5, <2>1 DEF Finish, EventTypeOK
    <3>2. RetryDelay[a] \in 0 .. Longest
      BY DEF RetryDelay, Longest, Attempts
    <3>3. 0 \in 0 .. Longest
      BY DEF Longest
    <3>4. QED
      BY <3>1, <3>2, <3>3
  <2>4. /\ logged' \in [Jobs -> SUBSET Attempts] /\ unlogged' \in [Jobs -> SUBSET Attempts]
        /\ \A i \in Jobs : i # j => logged'[i] = logged[i] /\ unlogged'[i] = unlogged[i]
        /\ logged'[j] \union unlogged'[j] = (logged[j] \union unlogged[j]) \union {attempt[j]}
    BY <1>5 DEF Finish, Log, EventTypeOK
  <2>5. EventTypeOK'
    BY <2>1, <2>2, <2>3, <2>4 DEF EventTypeOK, Running, Ended
  <2>6. EmittedFirst'
    BY <2>1, <2>2 DEF EmittedFirst, EventTypeOK
  <2>7. LogUpToDate(j)'
    <3>1. attempt[j] \in Attempts /\ Over(j) = attempt[j] - 1
      BY <2>1 DEF EventTypeOK, Over
    <3>2. logged'[j] \union unlogged'[j] = 1 .. attempt[j]
      BY <2>4, <3>1, OneAttemptMore DEF LogUpToDate
    <3>3. job'[j] = s /\ attempt'[j] = a
      BY <2>1 DEF EventTypeOK
    <3>4. Over(j)' = attempt[j]
      BY <2>1, <3>1, <3>3 DEF Over, Attempts
    <3>5. QED
      BY <2>1, <3>2, <3>3, <3>4 DEF LogUpToDate
  <2>8. ASSUME NEW i \in Jobs, i # j PROVE LogUpToDate(i)'
    BY <2>1, <2>4, <2>8 DEF LogUpToDate, Over, EventTypeOK
  <2>9. QED
    BY <2>5, <2>6, <2>7, <2>8
<1>6. ASSUME NEW h \in Hooks, Create(h) \/ Delete(h) PROVE LogInv'
  <2>1. /\ hooks' \in SUBSET Hooks
        /\ UNCHANGED <<tx, dispatch, job, attempt, wait, logged, sent, unlogged, dropped>>
    BY <1>6 DEF Create, Delete, EventTypeOK
  <2>2. EventTypeOK' /\ EmittedFirst'
    BY <2>1 DEF EventTypeOK, EmittedFirst
  <2>3. QED
    BY <1>0, <2>1, <2>2
<1>7. CASE Crash
  <2>1. /\ tx' = [e \in Events |-> IF tx[e] = "open" THEN "lost" ELSE tx[e]]
        /\ dropped' = dropped \union dispatch /\ dispatch' = {}
        /\ job' = [j \in Jobs |-> IF job[j] \in Running THEN "dead" ELSE job[j]]
        /\ UNCHANGED <<hooks, attempt, wait, logged, sent, unlogged>>
    BY <1>7 DEF Crash
  <2>2. EventTypeOK'
    BY <2>1 DEF EventTypeOK, Ended
  <2>3. EmittedFirst'
    BY <2>1 DEF EmittedFirst, Jobs, Running
  <2>4. ASSUME NEW j \in Jobs PROVE LogUpToDate(j)'
    BY <2>1 DEF LogUpToDate, Over, Running
  <2>5. QED
    BY <2>2, <2>3, <2>4
<1>8. CASE EventTick
  <2>1. /\ wait' = [j \in Jobs |-> IF wait[j] = 0 THEN 0 ELSE wait[j] - 1]
        /\ UNCHANGED <<tx, dispatch, hooks, job, attempt, logged, sent, unlogged, dropped>>
    BY <1>8 DEF EventTick
  <2>2. wait' \in [Jobs -> 0 .. Longest]
    BY <2>1 DEF EventTypeOK, Longest
  <2>3. EventTypeOK' /\ EmittedFirst'
    BY <2>1, <2>2 DEF EventTypeOK, EmittedFirst
  <2>4. QED
    BY <1>0, <2>1, <2>3
<1>9. CASE UNCHANGED eventVars
  BY <1>9 DEF eventVars, EventTypeOK, EmittedFirst, LogUpToDate, Over
<1>10. QED
  BY <1>1, <1>2, <1>3, <1>4, <1>5, <1>6, <1>7, <1>8, <1>9 DEF EventNext

\* Every variable of Webhooks keeps its type, and no delivery begins before the
\* dispatch of its event (emit, _dispatch_webhooks, _deliver_with_retry).
THEOREM EventTypeCorrect == EventSpec => []EventTypeOK
BY LogInvInit, LogInvNext, PTL DEF EventSpec, LogInv

\* Whatever fails and whenever the process ends, the log of a delivery misses the
\* attempt under way and those whose row the database refused, and nothing is
\* given up before its third attempt (_deliver_with_retry).
THEOREM LogKept == EventSpec => []LogIsComplete
<1>1. LogInv => LogIsComplete
  BY DEF LogInv, LogUpToDate, Over, LogIsComplete
<1>2. QED
  BY <1>1, LogInvInit, LogInvNext, PTL DEF EventSpec
=============================================================================
