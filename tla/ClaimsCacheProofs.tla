------------------------- MODULE ClaimsCacheProofs -------------------------
(***************************************************************************)
(* Proofs about ClaimsCache, for any number of workers and requests and    *)
(* any lifetimes.  The bound on the age of claims rests on what a load in  *)
(* flight and an entry say about the time their claims were replaced.      *)
(***************************************************************************)
EXTENDS ClaimsCache, TLAPS

\* The types but for the size of a cache.
Types ==
  /\ now \in 0 .. MaxTime /\ db \in Versions
  /\ replacedAt \in [Versions -> 0 .. MaxTime]
  /\ cache \in [Workers -> SUBSET Entries]
  /\ load \in [Requests -> Loads]
  /\ owed \in [Workers -> Versions]

\* A load in flight has read claims that were not replaced before its SELECT.
LoadsAreRecent ==
  \A r \in Requests : load[r].pc = "store" =>
    /\ load[r].since <= now /\ now <= load[r].since + MaxLoad
    /\ load[r].ver <= db
    /\ load[r].ver < db => replacedAt[load[r].ver] >= load[r].since

\* An entry expires within a lifetime and a load of the end of its claims.
EntriesAreRecent ==
  \A w \in Workers : \A e \in cache[w] : e.ver \in Versions =>
    /\ e.ver <= db /\ e.exp <= now + TTL
    /\ e.ver < db => e.exp <= replacedAt[e.ver] + MaxLoad + TTL

IInv == Types /\ LoadsAreRecent /\ EntriesAreRecent

LEMMA StepTypes ==
  ASSUME Types, [Next]_vars
  PROVE  Types'
<1> USE ConstantsAssumption DEF Types, Versions
<1>1. CASE UNCHANGED vars
  BY <1>1 DEF vars
<1>2. CASE Tick
  BY <1>2 DEF Tick
<1>3. ASSUME NEW r \in Requests, Read(r) PROVE Types'
  <2>1. load[r].at \in Workers
    BY <1>3 DEF Read, Loads, Idle
  <2> QED
    BY <1>3, <2>1 DEF Read, Loads
<1>4. ASSUME NEW r \in Requests, Store(r) PROVE Types'
  <2>1. load[r].at \in Workers /\ load[r].ver \in Versions
    BY <1>4 DEF Store, Loads, Idle
  <2> QED
    BY <1>4, <2>1 DEF Store, Loads, Entries
<1>5. ASSUME NEW r \in Requests, LoadFails(r) PROVE Types'
  BY <1>5 DEF LoadFails, Loads, Entries, Blank
<1>6. ASSUME NEW r \in Requests, NEW w \in Workers, Miss(r, w) PROVE Types'
  BY <1>6 DEF Miss, Loads
<1>7. ASSUME NEW w \in Workers, NEW s \in Spellings, Replace(w, s) PROVE Types'
  BY <1>7 DEF Replace
<1>8. ASSUME NEW w \in Workers, Invalidate(w) PROVE Types'
  BY <1>8 DEF Invalidate
<1> QED
  BY <1>1, <1>2, <1>3, <1>4, <1>5, <1>6, <1>7, <1>8 DEF Next

LEMMA StepLoads ==
  ASSUME IInv, [Next]_vars
  PROVE  LoadsAreRecent'
<1> USE ConstantsAssumption DEF IInv, Types, LoadsAreRecent, Versions
<1>1. CASE UNCHANGED vars
  BY <1>1 DEF vars
<1>2. CASE Tick
  <2>1. ASSUME NEW r \in Requests, load[r].pc = "store"
        PROVE  load[r].since \in Nat /\ load[r].since <= now /\ now < load[r].since + MaxLoad
    BY <1>2, <2>1 DEF Tick, Loads, Idle
  <2>2. now' = now + 1 /\ UNCHANGED <<db, replacedAt, load>>
    BY <1>2 DEF Tick
  <2> QED
    BY <2>1, <2>2
<1>3. ASSUME NEW r \in Requests, Read(r) PROVE LoadsAreRecent'
  BY <1>3 DEF Read, Loads, Idle
<1>4. ASSUME NEW r \in Requests, Store(r) PROVE LoadsAreRecent'
  BY <1>4 DEF Store, Idle
<1>5. ASSUME NEW r \in Requests, LoadFails(r) PROVE LoadsAreRecent'
  BY <1>5 DEF LoadFails, Idle
<1>6. ASSUME NEW r \in Requests, NEW w \in Workers, Miss(r, w) PROVE LoadsAreRecent'
  BY <1>6 DEF Miss
<1>7. ASSUME NEW w \in Workers, NEW s \in Spellings, Replace(w, s) PROVE LoadsAreRecent'
  <2>1. ASSUME NEW r \in Requests, load[r].pc = "store"
        PROVE  load[r].ver \in Versions /\ load[r].since \in 0 .. MaxTime
    <3> HIDE DEF LoadsAreRecent, Versions
    <3>1. load[r] \in Loads
      OBVIOUS
    <3> QED
      BY ONLY <2>1, <3>1 DEF Loads, Idle
  <2>2. /\ db' = db + 1 /\ UNCHANGED <<now, load>>
        /\ \A v \in Versions : replacedAt'[v] = IF v = db THEN now ELSE replacedAt[v]
    BY <1>7 DEF Replace
  <2>3. ASSUME NEW r \in Requests, load[r].pc = "store"
        PROVE  /\ load[r].since <= now /\ now <= load[r].since + MaxLoad
               /\ load[r].ver <= db + 1
               /\ replacedAt'[load[r].ver] >= load[r].since
    <3>1. /\ load[r].since <= now /\ now <= load[r].since + MaxLoad
          /\ load[r].ver <= db
          /\ load[r].ver < db => replacedAt[load[r].ver] >= load[r].since
      BY <2>3
    <3>2. replacedAt'[load[r].ver] = IF load[r].ver = db THEN now ELSE replacedAt[load[r].ver]
      BY <2>1, <2>2, <2>3
    <3>3. /\ load[r].ver \in Int /\ db \in Int /\ now \in Int /\ load[r].since \in Int
          /\ replacedAt[load[r].ver] \in Int
      BY <2>1, <2>3
    <3> QED
      BY <3>1, <3>2, <3>3
  <2> QED
    BY <2>2, <2>3
<1>8. ASSUME NEW w \in Workers, Invalidate(w) PROVE LoadsAreRecent'
  BY <1>8 DEF Invalidate
<1> QED
  BY <1>1, <1>2, <1>3, <1>4, <1>5, <1>6, <1>7, <1>8 DEF Next

LEMMA StepEntries ==
  ASSUME IInv, [Next]_vars
  PROVE  EntriesAreRecent'
<1> USE ConstantsAssumption DEF IInv, Types, EntriesAreRecent, Versions
<1>1. CASE UNCHANGED vars
  BY <1>1 DEF vars
<1>2. CASE Tick
  BY <1>2 DEF Tick, Entries
<1>3. ASSUME NEW r \in Requests, Read(r) PROVE EntriesAreRecent'
  BY <1>3 DEF Read
<1>4. ASSUME NEW r \in Requests, Store(r) PROVE EntriesAreRecent'
  <2>1. /\ load[r].at \in Workers /\ load[r].ver \in Versions /\ load[r].since \in Nat
        /\ load[r].ver <= db /\ now <= load[r].since + MaxLoad
        /\ load[r].ver < db => replacedAt[load[r].ver] >= load[r].since
    BY <1>4 DEF Store, Loads, Idle, LoadsAreRecent
  <2> DEFINE e == [ver |-> load[r].ver, exp |-> now + TTL]
  <2>2. e.ver < db => e.exp <= replacedAt[e.ver] + MaxLoad + TTL
    BY <2>1
  <2>3. cache' = [cache EXCEPT ![load[r].at] = {e}] /\ UNCHANGED <<now, db, replacedAt>>
    BY <1>4 DEF Store
  <2>4. ASSUME NEW w \in Workers, NEW f \in cache'[w], f.ver \in Versions
        PROVE  /\ f.ver <= db /\ f.exp <= now + TTL
               /\ f.ver < db => f.exp <= replacedAt[f.ver] + MaxLoad + TTL
    <3>1. CASE f \in cache[w]
      BY <2>4, <3>1
    <3>2. CASE f = e
      BY <2>1, <2>2, <3>2
    <3> QED
      BY <2>3, <3>1, <3>2
  <2> QED
    BY <2>3, <2>4
<1>5. ASSUME NEW r \in Requests, LoadFails(r) PROVE EntriesAreRecent'
  BY <1>5 DEF LoadFails, Blank
<1>6. ASSUME NEW r \in Requests, NEW w \in Workers, Miss(r, w) PROVE EntriesAreRecent'
  BY <1>6 DEF Miss
<1>7. ASSUME NEW w \in Workers, NEW s \in Spellings, Replace(w, s) PROVE EntriesAreRecent'
  <2>1. /\ db' = db + 1 /\ UNCHANGED <<now, cache>>
        /\ \A v \in Versions : replacedAt'[v] = IF v = db THEN now ELSE replacedAt[v]
    BY <1>7 DEF Replace
  <2>2. ASSUME NEW w2 \in Workers, NEW e \in cache[w2], e.ver \in Versions
        PROVE  /\ e.ver <= db /\ e.exp \in Int /\ e.exp <= now + TTL
               /\ e.ver < db => e.exp <= replacedAt[e.ver] + MaxLoad + TTL
    BY <2>2 DEF Entries
  <2>3. ASSUME NEW w2 \in Workers, NEW e \in cache[w2], e.ver \in Versions
        PROVE  /\ e.ver <= db + 1 /\ e.exp <= now + TTL
               /\ e.exp <= replacedAt'[e.ver] + MaxLoad + TTL
    <3>1. /\ e.ver <= db /\ e.exp \in Int /\ e.exp <= now + TTL
          /\ e.ver < db => e.exp <= replacedAt[e.ver] + MaxLoad + TTL
      BY <2>2, <2>3
    <3>2. replacedAt'[e.ver] = IF e.ver = db THEN now ELSE replacedAt[e.ver]
      BY <2>1, <2>3
    <3>3. e.ver \in Int /\ db \in Int /\ now \in Int /\ replacedAt[e.ver] \in Int
      BY <2>3
    <3> QED
      BY <3>1, <3>2, <3>3
  <2> QED
    BY <2>1, <2>3
<1>8. ASSUME NEW w \in Workers, Invalidate(w) PROVE EntriesAreRecent'
  BY <1>8 DEF Invalidate
<1> QED
  BY <1>1, <1>2, <1>3, <1>4, <1>5, <1>6, <1>7, <1>8 DEF Next

\* The inductive invariant holds in every reachable state.
THEOREM Invariance == Spec => []IInv
<1>1. Init => IInv
  BY ConstantsAssumption DEF Init, IInv, Types, LoadsAreRecent, EntriesAreRecent, Versions,
     Loads, Idle
<1>2. IInv /\ [Next]_vars => IInv'
  BY StepTypes, StepLoads, StepEntries DEF IInv
<1> QED
  BY <1>1, <1>2, PTL DEF Spec

\* No token is written from claims that were replaced a lifetime and a load ago.
THEOREM ClaimsAreBounded == Spec => []BoundedStaleness
<1>1. ASSUME IInv, NEW w \in Workers, NEW e \in Served(w), e.ver \in Versions, e.ver < db
      PROVE  now - replacedAt[e.ver] < TTL + MaxLoad
  <2>1. e \in cache[w] /\ now < e.exp
    BY <1>1 DEF Served
  <2>2. e.exp <= replacedAt[e.ver] + MaxLoad + TTL
    BY <1>1, <2>1 DEF IInv, EntriesAreRecent
  <2>3. now \in Int /\ e.exp \in Int /\ replacedAt[e.ver] \in Int
    BY <1>1, <2>1 DEF IInv, Types, Entries
  <2> QED
    BY <2>1, <2>2, <2>3, ConstantsAssumption
<1>2. IInv => BoundedStaleness
  BY <1>1 DEF BoundedStaleness
<1> QED
  BY <1>2, Invariance, PTL
-----------------------------------------------------------------------------
(* What an invalidation achieves                                           *)

\* What a worker has invalidated for, and what it will, is committed.
FloorTypes == floor \in [Workers -> Versions] /\ \A w \in Workers : floor[w] <= db /\ owed[w] <= db

\* No load of the worker brings older claims than it has invalidated for, nor,
\* when none was under way at the replacement, than it is about to, for which the
\* path has spelt the entry's key.
LoadsAbove ==
  \A r \in Requests : load[r].pc = "store" =>
    /\ load[r].ver >= floor[load[r].at]
    /\ load[r].at \in clean => load[r].ver >= owed[load[r].at]

CleanSpelt ==
  /\ path \in [Workers -> Spellings]
  /\ \A w \in Workers : w \in clean => path[w] = Canonical

EntriesAbove ==
  \A w \in Workers : \A e \in cache[w] : e.ver \in Versions => e.ver >= floor[w]

FloorInv == FloorTypes /\ CleanSpelt /\ LoadsAbove /\ EntriesAbove

LEMMA StepFloor ==
  ASSUME IInv, FloorInv, [Next]_vars
  PROVE  FloorInv'
<1> USE ConstantsAssumption, SpellingsAssumption DEF IInv, Types, FloorInv, Versions
<1>1. CASE UNCHANGED vars
  BY <1>1 DEF vars, FloorTypes, CleanSpelt, LoadsAbove, EntriesAbove
<1>2. CASE Tick
  BY <1>2 DEF Tick, FloorTypes, CleanSpelt, LoadsAbove, EntriesAbove
<1>3. ASSUME NEW r \in Requests, Read(r) PROVE FloorInv'
  <2>1. /\ load[r].at \in Workers
        /\ load' = [load EXCEPT ![r] = [pc |-> "store", at |-> load[r].at, ver |-> db, since |-> now]]
        /\ UNCHANGED <<now, db, replacedAt, cache, owed, path, clean, floor>>
    BY <1>3 DEF Read, Loads, Idle
  <2>2. LoadsAbove'
    BY <2>1 DEF LoadsAbove, FloorTypes
  <2>3. QED
    BY <2>1, <2>2 DEF FloorTypes, CleanSpelt, EntriesAbove
<1>4. ASSUME NEW r \in Requests, Store(r) PROVE FloorInv'
  <2>1. /\ load[r].at \in Workers /\ load[r].ver >= floor[load[r].at]
        /\ cache' = [cache EXCEPT ![load[r].at] = {[ver |-> load[r].ver, exp |-> now + TTL]}]
        /\ load' = [load EXCEPT ![r] = Idle]
        /\ UNCHANGED <<now, db, replacedAt, owed, path, clean, floor>>
    BY <1>4 DEF Store, Loads, Idle, LoadsAbove
  <2>2. LoadsAbove'
    BY <2>1 DEF LoadsAbove, Idle
  <2>3. EntriesAbove'
    BY <2>1 DEF EntriesAbove
  <2>4. QED
    BY <2>1, <2>2, <2>3 DEF FloorTypes, CleanSpelt
<1>5. ASSUME NEW r \in Requests, LoadFails(r) PROVE FloorInv'
  BY <1>5 DEF LoadFails, FloorTypes, CleanSpelt, LoadsAbove, EntriesAbove, Idle, Blank
<1>6. ASSUME NEW r \in Requests, NEW w \in Workers, Miss(r, w) PROVE FloorInv'
  BY <1>6 DEF Miss, FloorTypes, CleanSpelt, LoadsAbove, EntriesAbove
\* A replacement that finds no load under way has none to wait for
<1>7. ASSUME NEW w \in Workers, NEW s \in Spellings, Replace(w, s) PROVE FloorInv'
  <2>1. /\ db' = db + 1 /\ owed' = [owed EXCEPT ![w] = db + 1]
        /\ path' = [path EXCEPT ![w] = s]
        /\ clean' = (IF s = Canonical /\ LoadsOf(w) = {} THEN clean \union {w} ELSE clean \ {w})
        /\ UNCHANGED <<now, cache, load, floor>>
    BY <1>7 DEF Replace
  <2>2. FloorTypes'
    BY <2>1 DEF FloorTypes
  <2>3. LoadsAbove'
    <3>1. ASSUME NEW r \in Requests, load[r].pc = "store", load[r].at = w PROVE w \notin clean'
      BY <2>1, <3>1 DEF LoadsOf
    <3>2. ASSUME NEW r \in Requests, load[r].pc = "store", load[r].at # w, load[r].at \in clean'
          PROVE  load[r].at \in clean /\ owed'[load[r].at] = owed[load[r].at]
      <4>1. load[r].at \in Workers
        BY <3>2 DEF Loads, Idle
      <4>2. QED
        BY <2>1, <3>2, <4>1
    <3>3. QED
      BY <2>1, <3>1, <3>2 DEF LoadsAbove
  <2>4. EntriesAbove'
    BY <2>1 DEF EntriesAbove
  <2>5. CleanSpelt'
    BY <2>1 DEF CleanSpelt
  <2>6. QED
    BY <2>2, <2>3, <2>4, <2>5
<1>8. ASSUME NEW w \in Workers, Invalidate(w) PROVE FloorInv'
  <2>1. /\ owed' = [owed EXCEPT ![w] = 0]
        /\ path' = [path EXCEPT ![w] = Canonical] /\ clean' = clean \ {w}
        /\ floor' = (IF w \in clean THEN [floor EXCEPT ![w] = owed[w]] ELSE floor)
        /\ cache' = (IF path[w] = Canonical THEN [cache EXCEPT ![w] = {}] ELSE cache)
        /\ UNCHANGED <<now, db, replacedAt, load>>
    BY <1>8 DEF Invalidate
  <2>2. FloorTypes'
    BY <2>1 DEF FloorTypes
  <2>3. CleanSpelt'
    BY <2>1 DEF CleanSpelt
  <2>4. LoadsAbove'
    <3>1. ASSUME NEW r \in Requests, load[r].pc = "store"
          PROVE  load[r].at \in Workers /\ load[r].ver \in Versions
      BY <3>1 DEF Loads, Idle
    <3>2. QED
      BY <2>1, <3>1 DEF LoadsAbove, FloorTypes
  <2>5. EntriesAbove'
    <3>1. CASE w \in clean
      <4>1. cache' = [cache EXCEPT ![w] = {}] /\ floor' = [floor EXCEPT ![w] = owed[w]]
        BY <2>1, <3>1 DEF CleanSpelt
      <4>2. QED
        BY <4>1 DEF EntriesAbove
    <3>2. CASE w \notin clean
      <4>1. floor' = floor /\ \A u \in Workers : cache'[u] \subseteq cache[u]
        BY <2>1, <3>2
      <4>2. QED
        BY <4>1 DEF EntriesAbove
    <3>3. QED
      BY <3>1, <3>2
  <2>6. QED
    BY <2>2, <2>3, <2>4, <2>5
<1>9. QED
  BY <1>1, <1>2, <1>3, <1>4, <1>5, <1>6, <1>7, <1>8 DEF Next

\* A worker that has invalidated for a version, spelling the tenant's id as the
\* entry's key, serves no older claims again, unless a load was in flight while they
\* were replaced (invalidate_claims_cache).
THEOREM InvalidationHolds == Spec => []InvalidatedStaysGone
<1>1. Init => FloorInv
  BY ConstantsAssumption, SpellingsAssumption
     DEF Init, FloorInv, FloorTypes, CleanSpelt, LoadsAbove, EntriesAbove, Versions, Idle
<1>2. IInv /\ FloorInv /\ [Next]_vars => FloorInv'
  BY StepFloor
<1>3. FloorInv => InvalidatedStaysGone
  BY DEF FloorInv, EntriesAbove, InvalidatedStaysGone, Served
<1>4. QED
  BY <1>1, <1>2, <1>3, Invariance, PTL DEF Spec
=============================================================================
