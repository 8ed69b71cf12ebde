---------------------------- MODULE SigningKeys ----------------------------
(***************************************************************************)
(* The RSA signing keys of LiteIAM: KeyManager (app/tokens/keys.py), its   *)
(* daily rotation check (app/tokens/scheduler.py) and the JWKS response    *)
(* cache (app/api/v1/jwks.py).                                             *)
(*                                                                         *)
(* The table signing_keys is shared; each worker holds in memory the key   *)
(* it signs with and the public keys it verifies with.  Both are read from *)
(* the table only when the process starts.  The clock counts days.         *)
(***************************************************************************)
EXTENDS Integers, FiniteSets

CONSTANTS
  Workers,    \* the uvicorn processes
  Kids,       \* key ids: bounds the number of keys ever created
  NoKid,
  Lifetime,   \* SIGNING_KEY_ROTATION_DAYS, the life of a key
  Threshold,  \* _ROTATION_THRESHOLD_DAYS
  MaxNow,     \* the clock stops there: bounds the model
  Faults      \* what the environment may do: "crash", "error"

ASSUME ConstantsAssumption ==
  /\ NoKid \notin Kids
  /\ Lifetime \in Nat /\ Threshold \in Nat /\ MaxNow \in Nat
  /\ Faults \subseteq {"crash", "error"}

VARIABLES
  now,
  created,   \* rows of signing_keys; no code deletes one
  current,   \* the rows with is_current
  expires,   \* expires[k]: expires_at of row k
  holder,    \* the worker whose open transaction has updated every row
  phase,     \* phase[w]: where w is in its start or in a rotation
  checked,   \* workers whose daily check has run today
  signer,    \* signer[w]: _current
  pems,      \* pems[w]: _public_pems, and _valid_jwks with it
  fresh,     \* fresh[w]: the key a rotation has committed, not yet installed
  cache,     \* cache[w]: the key ids of _jwks_cache; {} if it has to be rebuilt
  known,     \* known[w]: history, every key some process of w could verify with
  alone      \* history: one process has been started, and no rotation has failed

vars == <<now, created, current, expires, holder, phase, checked, signer, pems,
          fresh, cache, known, alone>>
table == <<created, current, expires>>
memory == <<signer, pems, cache, known>>

Running == {"serving", "update", "create", "install"}
Phase == {"down", "generate", "load"} \union Running

TypeOK ==
  /\ now \in Nat
  /\ created \subseteq Kids /\ current \subseteq created
  /\ expires \in [Kids -> Nat]
  /\ holder \subseteq Workers
  /\ phase \in [Workers -> Phase]
  /\ checked \subseteq Workers
  /\ signer \in [Workers -> Kids \union {NoKid}]
  /\ pems \in [Workers -> SUBSET Kids]
  /\ fresh \in [Workers -> Kids \union {NoKid}]
  /\ cache \in [Workers -> SUBSET Kids]
  /\ known \in [Workers -> SUBSET Kids]
  /\ alone \in BOOLEAN

-----------------------------------------------------------------------------
Serving(w) == phase[w] \in Running
Live(k) == now < expires[k]
LiveRows == {k \in created : Live(k)}

\* days_remaining <= _ROTATION_THRESHOLD_DAYS
Due(k) == expires[k] - now <= Threshold

Goto(w, p) == phase' = [phase EXCEPT ![w] = p]

Init ==
  /\ now = 0
  /\ created = {} /\ current = {}
  /\ expires = [k \in Kids |-> 0]
  /\ holder = {}
  /\ phase = [w \in Workers |-> "down"]
  /\ checked = {}
  /\ signer = [w \in Workers |-> NoKid]
  /\ pems = [w \in Workers |-> {}]
  /\ fresh = [w \in Workers |-> NoKid]
  /\ cache = [w \in Workers |-> {}]
  /\ known = [w \in Workers |-> {}]
  /\ alone = TRUE

\* _create_key: a new current row, committed.
CreateKey(k) ==
  /\ k \notin created
  /\ created' = created \union {k}
  /\ current' = current \union {k}
  /\ expires' = [expires EXCEPT ![k] = now + Lifetime]

-----------------------------------------------------------------------------
(* KeyManager.initialize                                                   *)

\* With several current rows scalar() returns any of them.
InitSelect(w) ==
  /\ phase[w] = "down"
  /\ \/ /\ current = {}
        /\ Goto(w, "generate")
        /\ UNCHANGED signer
     \/ \E k \in current :
        /\ signer' = [signer EXCEPT ![w] = k]
        /\ Goto(w, "load")
  /\ alone' = (alone /\ created = {} /\ \A v \in Workers : phase[v] = "down")
  /\ UNCHANGED <<now, table, holder, checked, pems, fresh, cache, known>>

InitCreate(w, k) ==
  /\ phase[w] = "generate"
  /\ CreateKey(k)
  /\ signer' = [signer EXCEPT ![w] = k]
  /\ Goto(w, "load")
  /\ UNCHANGED <<now, holder, checked, pems, fresh, cache, known, alone>>

\* The end of initialize; the lifespan then starts the rotation scheduler.
InitLoad(w) ==
  /\ phase[w] = "load"
  /\ pems' = [pems EXCEPT ![w] = LiveRows]
  /\ known' = [known EXCEPT ![w] = @ \union LiveRows]
  /\ Goto(w, "serving")
  /\ UNCHANGED <<now, table, holder, checked, signer, fresh, cache, alone>>

-----------------------------------------------------------------------------
(* _maybe_rotate and KeyManager.rotate                                     *)

\* Mutation: a key is rotated only once it has expired.
RotationCheckLate(w) ==
  /\ phase[w] = "serving" /\ w \notin checked
  /\ checked' = checked \union {w}
  /\ \E k \in current :
       Goto(w, IF expires[k] - now < 0 THEN "update" ELSE "serving")
  /\ UNCHANGED <<now, table, holder, memory, fresh, alone>>

\* The check reads the table, any current row, and not the key w signs with.
RotationCheck(w) ==
  /\ phase[w] = "serving" /\ w \notin checked
  /\ checked' = checked \union {w}
  /\ \E k \in current : Goto(w, IF Due(k) THEN "update" ELSE "serving")
  /\ UNCHANGED <<now, table, holder, memory, fresh, alone>>

\* UPDATE signing_keys SET is_current = false, in the session of _maybe_rotate:
\* it locks the rows (another UPDATE waits) and nobody commits it.
RotateUpdate(w) ==
  /\ phase[w] = "update"
  /\ holder = {}
  /\ holder' = {w}
  /\ Goto(w, "create")
  /\ UNCHANGED <<now, table, checked, memory, fresh, alone>>

RotateCreate(w, k) ==
  /\ phase[w] = "create"
  /\ CreateKey(k)
  /\ fresh' = [fresh EXCEPT ![w] = k]
  /\ Goto(w, "install")
  /\ UNCHANGED <<now, holder, checked, memory, alone>>

\* Mutation: the new public key replaces the old ones.
RotateInstallOnly(w) ==
  /\ phase[w] = "install"
  /\ signer' = [signer EXCEPT ![w] = fresh[w]]
  /\ pems' = [pems EXCEPT ![w] = {fresh[w]}]
  /\ known' = [known EXCEPT ![w] = @ \union {fresh[w]}]
  /\ fresh' = [fresh EXCEPT ![w] = NoKid]
  /\ cache' = [cache EXCEPT ![w] = {}]
  /\ holder' = holder \ {w}
  /\ Goto(w, "serving")
  /\ UNCHANGED <<now, table, checked, alone>>

\* Mutation: the cached JWKS answer stays.
RotateInstallCached(w) ==
  /\ phase[w] = "install"
  /\ signer' = [signer EXCEPT ![w] = fresh[w]]
  /\ pems' = [pems EXCEPT ![w] = @ \union {fresh[w]}]
  /\ known' = [known EXCEPT ![w] = @ \union {fresh[w]}]
  /\ fresh' = [fresh EXCEPT ![w] = NoKid]
  /\ holder' = holder \ {w}
  /\ Goto(w, "serving")
  /\ UNCHANGED <<now, table, checked, cache, alone>>

\* Memory, invalidate_jwks_cache, and the exit of _maybe_rotate's session, which
\* rolls the UPDATE back: current keeps the old rows.
RotateInstall(w) ==
  /\ phase[w] = "install"
  /\ signer' = [signer EXCEPT ![w] = fresh[w]]
  /\ pems' = [pems EXCEPT ![w] = @ \union {fresh[w]}]
  /\ known' = [known EXCEPT ![w] = @ \union {fresh[w]}]
  /\ fresh' = [fresh EXCEPT ![w] = NoKid]
  /\ cache' = [cache EXCEPT ![w] = {}]
  /\ holder' = holder \ {w}
  /\ Goto(w, "serving")
  /\ UNCHANGED <<now, table, checked, alone>>

\* A database error ends the check; _rotation_loop logs it and sleeps a day.
RotateFail(w) ==
  /\ "error" \in Faults
  /\ phase[w] \in {"update", "create", "install"}
  /\ fresh' = [fresh EXCEPT ![w] = NoKid]
  /\ holder' = holder \ {w}
  /\ Goto(w, "serving")
  /\ alone' = FALSE
  /\ UNCHANGED <<now, table, checked, memory>>

-----------------------------------------------------------------------------
\* _jwks_response builds the cached payload when there is none or it is old.
ServeJwks(w) ==
  /\ Serving(w)
  /\ cache' = [cache EXCEPT ![w] = pems[w]]
  /\ UNCHANGED <<now, table, holder, phase, checked, signer, pems, fresh, known, alone>>

Crash(w) ==
  /\ "crash" \in Faults
  /\ phase[w] # "down"
  /\ Goto(w, "down")
  /\ holder' = holder \ {w}
  /\ checked' = checked \ {w}
  /\ signer' = [signer EXCEPT ![w] = NoKid]
  /\ pems' = [pems EXCEPT ![w] = {}]
  /\ fresh' = [fresh EXCEPT ![w] = NoKid]
  /\ cache' = [cache EXCEPT ![w] = {}]
  /\ UNCHANGED <<now, table, known, alone>>

\* A day passes; no start and no rotation takes that long, and the loop of every
\* running worker has had its check.
Tick ==
  /\ now < MaxNow
  /\ \A w \in Workers : phase[w] = "down" \/ (phase[w] = "serving" /\ w \in checked)
  /\ now' = now + 1
  /\ checked' = {}
  /\ UNCHANGED <<table, holder, phase, memory, fresh, alone>>

Start(w) == InitSelect(w) \/ InitLoad(w) \/ \E k \in Kids : InitCreate(w, k)

Rotate(w) ==
  \/ RotationCheck(w) \/ RotateUpdate(w) \/ RotateInstall(w) \/ RotateFail(w)
  \/ \E k \in Kids : RotateCreate(w, k)

Next ==
  \/ \E w \in Workers : Start(w) \/ Rotate(w) \/ ServeJwks(w) \/ Crash(w)
  \/ Tick

Spec == Init /\ [][Next]_vars

\* A start and a daily check come to their end, and time passes.
Fairness == (\A w \in Workers : WF_vars(Start(w)) /\ WF_vars(Rotate(w))) /\ WF_vars(Tick)

FairSpec == Spec /\ Fairness

-----------------------------------------------------------------------------
(* Safety                                                                  *)

\* "Tokens signed with the old key continue to verify": a key a worker could
\* verify with is kept, over rotations and restarts, until it expires.
OldKeysVerify ==
  \A w \in Workers : Serving(w) => \A k \in known[w] : Live(k) => k \in pems[w]

\* "JWKS endpoint - downstream services fetch this to verify JWTs": the key that
\* a worker signs with is among those it verifies with, and the answer it has cached
\* names it, over starts on any current row, rotations that fail or stop half-way
\* and answers given meanwhile, until the key expires.  (A start may read a current
\* row that has expired, since no rotation's deactivation is ever committed: that
\* worker signs what it does not verify itself.)
SignerIsPublished ==
  \A w \in Workers : Serving(w) /\ Live(signer[w]) =>
    signer[w] \in pems[w] /\ (cache[w] # {} => signer[w] \in cache[w])

\* "It rotates the signing key automatically when the current key is within 7
\* days of expiry": a worker that has had its check signs with a key not due,
\* whichever current row the check reads, as long as nothing else has rotated and
\* no rotation has failed.  (A second worker's rotation, or a restart on an old
\* row that is still current, refutes it.)
RotatedInTime ==
  alone => \A w \in Workers : phase[w] = "serving" /\ w \in checked => ~ Due(signer[w])

(* Documented, and not what the code does                                  *)

\* "All workers reload JWKS": the key a rotation creates comes to be known to
\* every other worker that serves.
AllWorkersReload ==
  \A v, w \in Workers, k \in Kids : fresh[w] = k /\ Serving(v) ~> k \in pems[v]
=============================================================================
