----------------------- MODULE TokenRevocationProofs -----------------------
(***************************************************************************)
(* Proofs about TokenRevocation, for any workers, tokens, expiry times and *)
(* faults: the safety invariants, the stability of a rejection, and that   *)
(* the specification implements Blacklist.                                 *)
(***************************************************************************)
EXTENDS TokenRevocation, TLAPS

\* What the invariants rest on: a row is a committed revocation, a process that is down has no memory and no
\* transaction, only a listening one has notifications, and a transaction that
\* may commit has been recorded as asked for.
Bookkeeping ==
  /\ table \subseteq revoked
  /\ \A w \in Workers :
       /\ ~ Up(w) => local[w] = {} /\ tried[w] = {} /\ unheard[w] = {}
       /\ inbox[w] # {} => Listening(w)
       /\ w \in pruning => Listening(w)
       /\ \A j \in Jtis : txn[w][j] # "none" => Up(w)
       /\ \A j \in Jtis : txn[w][j] = "notified" => j \in tried[w]

\* The inductive invariant: the table keeps what is live, so that a load finds
\* it; the notifications carry only what is committed.
IInv ==
  /\ TypeOK
  /\ Bookkeeping
  /\ RevokedIsDurable
  /\ NoRevocationLost
  /\ OnlyOriginActsEarly
-----------------------------------------------------------------------------
\* Every variable keeps its type.
THEOREM TypeCorrect == Spec => []TypeOK
<1>1. Init => TypeOK
  BY DEF Init, TypeOK, Txn, Watch
<1>2. TypeOK /\ [Next]_vars => TypeOK'
  <2> SUFFICES ASSUME TypeOK, [Next]_vars PROVE TypeOK'
    OBVIOUS
  <2> USE DEF TypeOK, Txn, Watch
  <2>1. ASSUME NEW w \in Workers, NEW j \in Jtis, Request(w, j) PROVE TypeOK'
    <3>1. CASE RevokeInsert(w, j)
      BY <3>1 DEF RevokeInsert
    <3>2. CASE RevokeNotify(w, j)
      BY <3>2 DEF RevokeNotify
    <3>3. CASE Commit(w, j)
      BY <3>3 DEF Commit
    <3>4. CASE Rollback(w, j)
      BY <3>4 DEF Rollback
    <3>5. QED
      BY <2>1, <3>1, <3>2, <3>3, <3>4 DEF Request
  <2>2. ASSUME NEW w \in Workers, NEW j \in Jtis, OnRevoke(w, j) PROVE TypeOK'
    BY <2>2 DEF OnRevoke
  <2>3. ASSUME NEW w \in Workers, Lifecycle(w) PROVE TypeOK'
    <3>1. ASSUME NEW rows \in {ActiveRows, {}}, Start(w, rows) PROVE TypeOK'
      BY <3>1 DEF Start, ActiveRows
    <3>2. CASE Listen(w)
      BY <3>2 DEF Listen
    <3>3. CASE LoseListener(w)
      BY <3>3 DEF LoseListener
    <3>4. CASE Crash(w)
      BY <3>4 DEF Crash
    <3>5. QED
      BY <2>3, <3>1, <3>2, <3>3, <3>4 DEF Lifecycle
  <2>4. ASSUME NEW w \in Workers, Prune(w) PROVE TypeOK'
    BY <2>4 DEF Prune, PruneSelect, PruneDelete
  <2>5. CASE Tick
    BY <2>5 DEF Tick
  <2>6. CASE UNCHANGED vars
    BY <2>6 DEF vars
  <2>7. QED
    BY <2>1, <2>2, <2>3, <2>4, <2>5, <2>6 DEF Next
<1>3. QED
  BY <1>1, <1>2, PTL DEF Spec

-----------------------------------------------------------------------------
LEMMA InitIInv == Init => IInv
BY ConstantsAssumption
   DEF Init, IInv, TypeOK, Txn, Watch, Bookkeeping, Up, Listening,
       RevokedIsDurable, NoRevocationLost, OnlyOriginActsEarly

LEMMA NextIInv ==
  ASSUME IInv, TypeOK', [Next]_vars
  PROVE  IInv'
<1> USE DEF IInv, Bookkeeping, Up, Listening,
            RevokedIsDurable, NoRevocationLost, OnlyOriginActsEarly
<1>1. ASSUME NEW w \in Workers, NEW j \in Jtis, RevokeInsert(w, j) PROVE IInv'
  BY <1>1 DEF RevokeInsert, TypeOK, Live, Up
<1>2. ASSUME NEW w \in Workers, NEW j \in Jtis, RevokeNotify(w, j) PROVE IInv'
  BY <1>2 DEF RevokeNotify, TypeOK, Live
<1>3. ASSUME NEW w \in Workers, NEW j \in Jtis, Commit(w, j) PROVE IInv'
  BY <1>3 DEF Commit, TypeOK, Live
<1>4. ASSUME NEW w \in Workers, NEW j \in Jtis, Rollback(w, j) PROVE IInv'
  BY <1>4 DEF Rollback, TypeOK, Live
<1>5. ASSUME NEW w \in Workers, NEW j \in Jtis, OnRevoke(w, j) PROVE IInv'
  BY <1>5 DEF OnRevoke, TypeOK, Live
<1>6. ASSUME NEW w \in Workers, NEW rows \in {ActiveRows, {}}, Start(w, rows) PROVE IInv'
  <2>1. /\ watch' = [watch EXCEPT ![w] = "loaded"]
        /\ local' = [local EXCEPT ![w] = rows]
        /\ unheard' = [unheard EXCEPT ![w] = ActiveRows \ rows]
        /\ watch[w] = "down"
        /\ UNCHANGED <<now, table, txn, inbox, pruning, revoked, tried>>
    BY <1>6 DEF Start
  <2>2. rows \subseteq ActiveRows
    OBVIOUS
  <2>3. Bookkeeping'
    BY <2>1, <2>2 DEF TypeOK
  <2>4. RevokedIsDurable'
    BY <2>1 DEF Live
  <2>5. NoRevocationLost'
    <3> SUFFICES ASSUME NEW v \in Workers, NEW j \in revoked', Up(v)', Live(j)'
                 PROVE  (j \in local[v] \union inbox[v] \union unheard[v])'
      OBVIOUS
    <3>1. CASE v = w
      <4>1. j \in ActiveRows
        BY <2>1 DEF ActiveRows, Live
      <4>2. QED
        BY <2>1, <3>1, <4>1 DEF TypeOK
    <3>2. CASE v # w
      BY <2>1, <3>2 DEF TypeOK, Live
    <3>3. QED
      BY <3>1, <3>2
  <2>6. OnlyOriginActsEarly'
    <3>1. ActiveRows \subseteq table
      BY DEF ActiveRows
    <3>2. QED
      BY <2>1, <2>2, <3>1 DEF TypeOK
  <2>7. QED
    BY <2>3, <2>4, <2>5, <2>6
<1>7. ASSUME NEW w \in Workers, Listen(w) PROVE IInv'
  BY <1>7 DEF Listen, TypeOK, Live
<1>8. ASSUME NEW w \in Workers, LoseListener(w) PROVE IInv'
  BY <1>8 DEF LoseListener, TypeOK, Live
<1>9. ASSUME NEW w \in Workers, Crash(w) PROVE IInv'
  BY <1>9 DEF Crash, TypeOK, Live
<1>10. ASSUME NEW w \in Workers, PruneSelect(w) PROVE IInv'
  BY <1>10 DEF PruneSelect, ExpiredRows, TypeOK, Live
<1>11. ASSUME NEW w \in Workers, PruneDelete(w) PROVE IInv'
  BY <1>11 DEF PruneDelete, ExpiredRows, TypeOK, Live
<1>12. CASE Tick
  BY <1>12, ConstantsAssumption DEF Tick, TypeOK, Live
<1>13. CASE UNCHANGED vars
  BY <1>13 DEF vars, TypeOK, Live
<1>14. QED
  BY <1>1, <1>2, <1>3, <1>4, <1>5, <1>6, <1>7, <1>8, <1>9, <1>10, <1>11, <1>12, <1>13
     DEF Next, Request, Lifecycle, Prune

\* The inductive invariant holds in every reachable state.
THEOREM Invariance == Spec => []IInv
<1>1. Init => IInv
  BY InitIInv
<1>2. IInv /\ TypeOK' /\ [Next]_vars => IInv'
  BY NextIInv
<1>3. QED
  BY <1>1, <1>2, TypeCorrect, PTL DEF Spec

\* A committed revocation stays in the table until its token has expired,
\* whatever the prunes of the workers interleave to.
THEOREM Durable == Spec => []RevokedIsDurable
BY Invariance, PTL DEF IInv

\* A serving worker misses a live committed revocation only if it committed
\* while that worker was not listening.
THEOREM NothingLost == Spec => []NoRevocationLost
BY Invariance, PTL DEF IInv

\* Before it commits, a revocation is known to nobody but the worker whose
\* request inserts it.
THEOREM OnlyOriginEarly == Spec => []OnlyOriginActsEarly
BY Invariance, PTL DEF IInv

-----------------------------------------------------------------------------
\* A process that rejects a token, revoked or expired, rejects it ever after.
THEOREM Stable == Spec => RejectionStable
<1>1. ASSUME IInv, TypeOK', [Next]_vars
      PROVE  [\A w \in Workers, j \in Jtis :
                Rejects(w, j) /\ Up(w)' => Rejects(w, j)']_vars
  <2> SUFFICES ASSUME Next, NEW w \in Workers, NEW j \in Jtis,
                      Rejects(w, j), Live(j)', Up(w)'
               PROVE  IsRevoked(w, j)'
    BY <1>1 DEF Rejects
  <2>c. UNCHANGED now \/ now' = now + 1
    BY DEF Next, Request, RevokeInsert, RevokeNotify, Commit, Rollback, OnRevoke,
           Lifecycle, Start, Listen, LoseListener, Crash, Prune, PruneSelect, PruneDelete, Tick
  <2>l. Live(j)
    BY <2>c, <1>1, ConstantsAssumption DEF Live, IInv, TypeOK
  <2>r. IsRevoked(w, j)
    BY <2>l DEF Rejects
  <2>0. local \in [Workers -> SUBSET Jtis] /\ j \in local[w] /\ watch \in [Workers -> Watch]
    BY <1>1, <2>r DEF IsRevoked, IInv, TypeOK
  <2> USE DEF IsRevoked
  <2>1. ASSUME NEW v \in Workers, NEW i \in Jtis, Request(v, i) PROVE IsRevoked(w, j)'
    <3>1. UNCHANGED local \/ local' = [local EXCEPT ![v] = @ \union {i}]
      BY <2>1 DEF Request, RevokeInsert, RevokeNotify, Commit, Rollback
    <3>2. QED
      BY <3>1, <2>0
  <2>2. ASSUME NEW v \in Workers, NEW i \in Jtis, OnRevoke(v, i) PROVE IsRevoked(w, j)'
    BY <2>2, <2>0 DEF OnRevoke
  <2>3. ASSUME NEW v \in Workers, Lifecycle(v) PROVE IsRevoked(w, j)'
    <3>1. ASSUME NEW rows \in {ActiveRows, {}}, Start(v, rows) PROVE IsRevoked(w, j)'
      <4>1. v # w
        BY <3>1, <2>0, <1>1 DEF Start, Bookkeeping, IInv, TypeOK
      <4>2. QED
        BY <3>1, <4>1, <2>0 DEF Start
    <3>2. CASE Listen(v) \/ LoseListener(v)
      BY <3>2, <2>0 DEF Listen, LoseListener
    <3>3. CASE Crash(v)
      BY <3>3, <2>0 DEF Crash, Up
    <3>4. QED
      BY <2>3, <3>1, <3>2, <3>3 DEF Lifecycle
  <2>4. ASSUME NEW v \in Workers, Prune(v) PROVE IsRevoked(w, j)'
    BY <2>4, <2>0, <1>1 DEF Prune, PruneSelect, PruneDelete, ExpiredRows, Live
  <2>5. CASE Tick
    BY <2>5, <2>0 DEF Tick
  <2>6. QED
    BY <2>1, <2>2, <2>3, <2>4, <2>5 DEF Next
<1>2. QED
  BY <1>1, Invariance, TypeCorrect, PTL DEF Spec, RejectionStable

-----------------------------------------------------------------------------
(* The refinement: initial states map to initial states, steps to steps    *)

LEMMA InitMaps == Init => Promise!BInit
BY DEF Init, Promise!BInit, LiveJtis, ActiveRows, Up

LEMMA NextMaps ==
  ASSUME IInv, TypeOK', [Next]_vars
  PROVE  [Promise!BNext]_(Promise!bvars)
<1> USE DEF IInv, TypeOK
<1>1. ASSUME UNCHANGED now
      PROVE  UNCHANGED LiveJtis
  BY <1>1 DEF LiveJtis, Live
<1>2. ASSUME UNCHANGED <<now, table>>
      PROVE  UNCHANGED ActiveRows
  BY <1>2 DEF ActiveRows, Live
<1>3. ActiveRows \subseteq LiveJtis
  BY DEF ActiveRows, LiveJtis
<1>4. ASSUME NEW w \in Workers, NEW j \in Jtis,
             RevokeInsert(w, j) \/ Rollback(w, j)
      PROVE  UNCHANGED Promise!bvars
  BY <1>4, <1>1, <1>2 DEF RevokeInsert, Rollback, Promise!bvars, Up
<1>5. ASSUME NEW w \in Workers, NEW j \in Jtis, RevokeNotify(w, j)
      PROVE  Promise!Ask(w, j)
  <2>1. UNCHANGED <<LiveJtis, ActiveRows>>
    BY <1>5, <1>1, <1>2 DEF RevokeNotify
  <2>2. w \in {v \in Workers : Up(v)} /\ UNCHANGED {v \in Workers : Up(v)}
    BY <1>5 DEF RevokeNotify, Up, Bookkeeping
  <2>3. [v \in Workers |-> local[v] \intersect LiveJtis]'
          = [[v \in Workers |-> local[v] \intersect LiveJtis] EXCEPT
               ![w] = @ \union ({j} \intersect LiveJtis)]
    <3>1. local' = [local EXCEPT ![w] = @ \union {j}]
      BY <1>5 DEF RevokeNotify
    <3>2. ASSUME NEW v \in Workers
          PROVE  local'[v] \intersect LiveJtis
                   = IF v = w THEN (local[v] \intersect LiveJtis) \union ({j} \intersect LiveJtis)
                     ELSE local[v] \intersect LiveJtis
      BY <3>1
    <3>3. QED
      BY <2>1, <3>2
  <2>4. QED
    BY <1>5, <2>1, <2>2, <2>3 DEF RevokeNotify, Promise!Ask
<1>6. ASSUME NEW w \in Workers, NEW j \in Jtis, Commit(w, j)
      PROVE  Promise!Persist(w, j)
  <2>1. ActiveRows' = ActiveRows \union ({j} \intersect LiveJtis)
    BY <1>6 DEF Commit, ActiveRows, LiveJtis, Live
  <2>2. QED
    BY <1>6, <1>1, <2>1 DEF Commit, Promise!Persist, Up, Bookkeeping
<1>7. ASSUME NEW w \in Workers, NEW j \in Jtis, OnRevoke(w, j)
      PROVE  Promise!Hear(w, j) \/ UNCHANGED Promise!bvars
  <2>1. CASE Live(j)
    <3>1. UNCHANGED <<LiveJtis, ActiveRows>>
      BY <1>7, <1>1, <1>2 DEF OnRevoke
    <3>2. w \in {v \in Workers : Up(v)} /\ UNCHANGED {v \in Workers : Up(v)}
      BY <1>7 DEF OnRevoke, Up, Listening, Bookkeeping
    <3>3. j \in ActiveRows
      BY <1>7, <2>1 DEF OnRevoke, ActiveRows, RevokedIsDurable, OnlyOriginActsEarly
    <3>4. [v \in Workers |-> local[v] \intersect LiveJtis]'
            = [[v \in Workers |-> local[v] \intersect LiveJtis] EXCEPT ![w] = @ \union {j}]
      <4>1. local' = [local EXCEPT ![w] = @ \union {j}] /\ j \in LiveJtis
        BY <1>7, <1>3, <3>3 DEF OnRevoke
      <4>2. ASSUME NEW v \in Workers
            PROVE  local'[v] \intersect LiveJtis
                     = IF v = w THEN (local[v] \intersect LiveJtis) \union {j}
                                ELSE local[v] \intersect LiveJtis
        BY <4>1
      <4>3. QED
        BY <3>1, <4>2
    <3>5. QED
      BY <1>7, <3>1, <3>2, <3>3, <3>4 DEF OnRevoke, Promise!Hear
  <2>2. CASE ~ Live(j)
    BY <1>7, <1>1, <1>2, <2>2 DEF OnRevoke, Promise!bvars, Up, LiveJtis
  <2>3. QED
    BY <2>1, <2>2
<1>8. ASSUME NEW w \in Workers, NEW rows \in {ActiveRows, {}}, Start(w, rows)
      PROVE  Promise!Begin(w)
  <2>1. UNCHANGED <<LiveJtis, ActiveRows, tried>>
    BY <1>8, <1>1, <1>2 DEF Start
  <2>2. /\ w \notin {v \in Workers : Up(v)}
        /\ {v \in Workers : Up(v)}' = {v \in Workers : Up(v)} \union {w}
    BY <1>8 DEF Start, Up
  <2>3. [v \in Workers |-> local[v] \intersect LiveJtis]'
          = [[v \in Workers |-> local[v] \intersect LiveJtis] EXCEPT ![w] = rows]
    BY <1>8, <1>3, <2>1 DEF Start
  <2>4. QED
    BY <2>1, <2>2, <2>3 DEF Promise!Begin
<1>9. ASSUME NEW w \in Workers, Listen(w) \/ LoseListener(w)
      PROVE  UNCHANGED Promise!bvars
  BY <1>9, <1>1, <1>2 DEF Listen, LoseListener, Promise!bvars, Up
<1>10. ASSUME NEW w \in Workers, Crash(w)
       PROVE  Promise!End(w)
  <2>1. UNCHANGED <<LiveJtis, ActiveRows>>
    BY <1>10, <1>1, <1>2 DEF Crash
  <2>2. /\ w \in {v \in Workers : Up(v)}
        /\ {v \in Workers : Up(v)}' = {v \in Workers : Up(v)} \ {w}
    BY <1>10 DEF Crash, Up
  <2>3. [v \in Workers |-> local[v] \intersect LiveJtis]'
          = [[v \in Workers |-> local[v] \intersect LiveJtis] EXCEPT ![w] = {}]
    <3>1. local' = [local EXCEPT ![w] = {}]
      BY <1>10 DEF Crash
    <3>2. ASSUME NEW v \in Workers
          PROVE  local'[v] \intersect LiveJtis
                   = IF v = w THEN {} ELSE local[v] \intersect LiveJtis
      BY <3>1
    <3>3. QED
      BY <2>1, <3>2
  <2>4. QED
    BY <1>10, <2>1, <2>2, <2>3 DEF Crash, Promise!End
<1>11. ASSUME NEW w \in Workers, Prune(w)
       PROVE  UNCHANGED Promise!bvars
  BY <1>11, <1>1 DEF Prune, PruneSelect, PruneDelete, ExpiredRows, ActiveRows, LiveJtis,
                     Live, Promise!bvars, Up
<1>12. CASE Tick
  <2>1. PICK S \in SUBSET LiveJtis : S = LiveJtis \ LiveJtis'
    OBVIOUS
  <2>2. LiveJtis' = LiveJtis \ S /\ ActiveRows' = ActiveRows \ S
    BY <1>12, <2>1, ConstantsAssumption DEF Tick, LiveJtis, ActiveRows, Live
  <2>3. Promise!Expire(S)
    BY <1>12, <2>2 DEF Tick, Promise!Expire, Up
  <2>4. QED
    BY <2>3 DEF Promise!BNext
<1>13. ASSUME NEW w \in Workers, NEW j \in Jtis, Request(w, j) \/ OnRevoke(w, j)
       PROVE  Promise!BNext \/ UNCHANGED Promise!bvars
  BY <1>4, <1>5, <1>6, <1>7, <1>13 DEF Request, Promise!BNext
<1>14. ASSUME NEW w \in Workers, Lifecycle(w) \/ Prune(w)
       PROVE  Promise!BNext \/ UNCHANGED Promise!bvars
  BY <1>8, <1>9, <1>10, <1>11, <1>14 DEF Lifecycle, Promise!BNext
<1>15. CASE UNCHANGED vars
  BY <1>15, <1>1, <1>2 DEF vars, Promise!bvars, Up
<1>16. QED
  BY <1>12, <1>13, <1>14, <1>15 DEF Next

\* The blacklist of the code keeps the promise stated by Blacklist.
THEOREM Refinement == Spec => ImplementsBlacklist
<1>1. Init => Promise!BInit
  BY InitMaps
<1>2. IInv /\ TypeOK' /\ [Next]_vars => [Promise!BNext]_(Promise!bvars)
  BY NextMaps
<1>3. QED
  BY <1>1, <1>2, Invariance, TypeCorrect, PTL DEF Spec, ImplementsBlacklist, Promise!BSpec
=============================================================================
