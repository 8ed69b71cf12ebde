---------------------------- MODULE ClaimsCache ----------------------------
(***************************************************************************)
(* The cache of one tenant's custom claims in every worker                 *)
(* (_get_tenant_record and invalidate_claims_cache of                      *)
(* app/tokens/strategy.py) and the endpoints that replace the claims       *)
(* (app/admin/jwt_claims.py).                                              *)
(*                                                                         *)
(* A token is written from the worker's entry while that has not expired;  *)
(* otherwise the request loads the row in a session of its own and stores  *)
(* what it has read, or the empty record when the load fails, for TTL.     *)
(* Time is counted in ticks of one clock.                                  *)
(*                                                                         *)
(* The entry's key is str(user.tenant_id).  The endpoints parse the id in  *)
(* their path with uuid.UUID, which takes it in upper case, without dashes *)
(* or in braces as well, and hand the path's own string to the cache.      *)
(***************************************************************************)
EXTENDS Integers, FiniteSets

CONSTANTS
  Workers,
  Requests,    \* token requests that may load at the same time
  Spellings,   \* strings that uuid.UUID parses to the tenant's id
  Canonical,   \* the one of them that str gives back
  TTL,         \* _CLAIMS_CACHE_TTL
  MaxLoad,     \* bound: ticks between a load's SELECT and its store
  MaxVersion,  \* bound: replacements of the claims
  MaxTime      \* bound of the clock

ASSUME ConstantsAssumption ==
  /\ TTL \in Nat \ {0} /\ MaxLoad \in Nat /\ MaxVersion \in Nat /\ MaxTime \in Nat

ASSUME SpellingsAssumption == Canonical \in Spellings

Versions == 0 .. MaxVersion
Blank == -1     \* the record of a failed load
Idle == [pc |-> "idle"]

VARIABLES
  now,
  db,          \* the committed version of the claims
  replacedAt,  \* history: when a version was replaced
  cache,       \* cache[w]: {}, or {the entry of the tenant in w}
  load,        \* load[r]: what request r does
  owed,        \* owed[w]: the version w has committed and not yet invalidated for, or 0
  path,        \* path[w]: the id in the path of the replacement w owes for
  clean,       \* history: the workers in which no load was under way when they
               \* committed the version they owe, named by the entry's key
  floor        \* history: floor[w]: the last such version w has invalidated for

vars == <<now, db, replacedAt, cache, load, owed, path, clean, floor>>

Entries == [ver : Versions \union {Blank}, exp : 0 .. MaxTime + TTL]
Loads ==
  {Idle} \union [pc : {"read"}, at : Workers]
         \union [pc : {"store"}, at : Workers, ver : Versions, since : 0 .. MaxTime]

TypeOK ==
  /\ now \in 0 .. MaxTime /\ db \in Versions
  /\ replacedAt \in [Versions -> 0 .. MaxTime]
  /\ cache \in [Workers -> SUBSET Entries]
  /\ \A w \in Workers : Cardinality(cache[w]) <= 1 /\ \A e \in cache[w] : e.exp <= now + TTL
  /\ load \in [Requests -> Loads]
  /\ owed \in [Workers -> Versions]
  /\ path \in [Workers -> Spellings]
  /\ clean \subseteq Workers
  /\ floor \in [Workers -> Versions]

Init ==
  /\ now = 0 /\ db = 0
  /\ replacedAt = [v \in Versions |-> 0]
  /\ cache = [w \in Workers |-> {}]
  /\ load = [r \in Requests |-> Idle]
  /\ owed = [w \in Workers |-> 0]
  /\ path = [w \in Workers |-> Canonical]
  /\ clean = {}
  /\ floor = [w \in Workers |-> 0]

-----------------------------------------------------------------------------
\* Mutation: an entry does not expire.
ServedForever(w) == cache[w]

\* What a token of w is written from without a load.
Served(w) == {e \in cache[w] : now < e.exp}

\* The loads of w that have read the row and not stored it yet.
LoadsOf(w) == {r \in Requests : load[r].pc = "store" /\ load[r].at = w}

\* The lookup of a token request misses.  (A hit changes nothing.)
Miss(r, w) ==
  /\ load[r] = Idle /\ Served(w) = {}
  /\ load' = [load EXCEPT ![r] = [pc |-> "read", at |-> w]]
  /\ UNCHANGED <<now, db, replacedAt, cache, owed, path, clean, floor>>

Read(r) ==
  /\ load[r].pc = "read"
  /\ load' = [load EXCEPT ![r] = [pc |-> "store", at |-> @.at, ver |-> db, since |-> now]]
  /\ UNCHANGED <<now, db, replacedAt, cache, owed, path, clean, floor>>

\* Whatever the worker has invalidated or stored since the SELECT.
Store(r) ==
  /\ load[r].pc = "store"
  /\ cache' = [cache EXCEPT ![load[r].at] = {[ver |-> load[r].ver, exp |-> now + TTL]}]
  /\ load' = [load EXCEPT ![r] = Idle]
  /\ UNCHANGED <<now, db, replacedAt, owed, path, clean, floor>>

\* The load fails: the empty record is stored for as long.
LoadFails(r) ==
  /\ load[r] # Idle
  /\ cache' = [cache EXCEPT ![load[r].at] = {[ver |-> Blank, exp |-> now + TTL]}]
  /\ load' = [load EXCEPT ![r] = Idle]
  /\ UNCHANGED <<now, db, replacedAt, owed, path, clean, floor>>

\* set_jwt_claims and clear_jwt_claims commit ...  Bound: a worker makes one
\* replacement at a time.
Replace(w, s) ==
  /\ owed[w] = 0 /\ db < MaxVersion
  /\ db' = db + 1
  /\ replacedAt' = [replacedAt EXCEPT ![db] = now]
  /\ owed' = [owed EXCEPT ![w] = db + 1]
  /\ path' = [path EXCEPT ![w] = s]
  /\ clean' = IF s = Canonical /\ LoadsOf(w) = {} THEN clean \union {w} ELSE clean \ {w}
  /\ UNCHANGED <<now, cache, load, floor>>

\* Mutation: the entry stays.
InvalidateNothing(w) ==
  /\ owed[w] > 0
  /\ owed' = [owed EXCEPT ![w] = 0]
  /\ path' = [path EXCEPT ![w] = Canonical]
  /\ clean' = clean \ {w}
  /\ floor' = IF w \in clean THEN [floor EXCEPT ![w] = owed[w]] ELSE floor
  /\ UNCHANGED <<now, db, replacedAt, cache, load>>

\* ... and drop the entry of their own worker, if the path spells its key.
Invalidate(w) ==
  /\ owed[w] > 0
  /\ owed' = [owed EXCEPT ![w] = 0]
  /\ path' = [path EXCEPT ![w] = Canonical]
  /\ clean' = clean \ {w}
  /\ floor' = IF w \in clean THEN [floor EXCEPT ![w] = owed[w]] ELSE floor
  /\ cache' = IF path[w] = Canonical THEN [cache EXCEPT ![w] = {}] ELSE cache
  /\ UNCHANGED <<now, db, replacedAt, load>>

Tick ==
  /\ now < MaxTime
  /\ \A r \in Requests : load[r].pc = "store" => now < load[r].since + MaxLoad
  /\ now' = now + 1
  /\ UNCHANGED <<db, replacedAt, cache, load, owed, path, clean, floor>>

Next ==
  \/ Tick
  \/ \E r \in Requests :
       \/ Read(r) \/ Store(r) \/ LoadFails(r)
       \/ \E w \in Workers : Miss(r, w)
  \/ \E w \in Workers : Invalidate(w) \/ \E s \in Spellings : Replace(w, s)

Spec == Init /\ [][Next]_vars

-----------------------------------------------------------------------------
(* Safety                                                                  *)

\* "Changes propagate to new tokens within 60 seconds", in every worker, plus
\* the time a load in flight may take: no token is written from claims that were
\* replaced longer ago, though only the replacing worker is told, and only if the
\* administrator has spelt the tenant's id as the cache does.
BoundedStaleness ==
  \A w \in Workers : \A e \in Served(w) :
    e.ver \in Versions /\ e.ver < db => now - replacedAt[e.ver] < TTL + MaxLoad

\* "to force fresh load": a worker that has invalidated for a version serves no
\* older claims, unless a load was in flight while the claims were replaced, which
\* stores them again after the invalidation, or the path spelt the tenant's id in
\* another way than the key of the entry, which then stays.
InvalidatedStaysGone ==
  \A w \in Workers : \A e \in Served(w) : e.ver \in Versions => e.ver >= floor[w]
=============================================================================
