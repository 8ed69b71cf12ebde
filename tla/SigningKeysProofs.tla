------------------------- MODULE SigningKeysProofs -------------------------
(***************************************************************************)
(* Proofs about the signing keys, for any number of workers and keys, any  *)
(* life of a key, and with every fault the model has.                      *)
(***************************************************************************)
EXTENDS SigningKeys, TLAPS

\* Rows live no longer than the configured life of a key, and what the workers
\* hold or have held are rows.  No day passes between a rotation's new row and its
\* installation.
RowsSound ==
  /\ \A k \in created : expires[k] <= now + Lifetime
  /\ \A w \in Workers :
       /\ known[w] \subseteq created
       /\ w \in checked => Serving(w)
       /\ phase[w] = "install" => fresh[w] \in created /\ expires[fresh[w]] = now + Lifetime

\* As long as one process has been started and no rotation has failed, the key
\* that process signs with outlives every row that its daily check may read, old
\* rows that are still current among them.
SignsWithLast ==
  alone =>
    /\ \A v, w \in Workers : phase[v] # "down" /\ phase[w] # "down" => v = w
    /\ \A w \in Workers :
         /\ phase[w] = "generate" => created = {}
         /\ phase[w] \in {"load", "serving", "update", "create"} =>
              /\ signer[w] \in created
              /\ \A k \in current : expires[k] <= expires[signer[w]]

KeysInv == TypeOK /\ RowsSound /\ OldKeysVerify

LEMMA KeysInvInit == Init => KeysInv
BY ConstantsAssumption
   DEF Init, KeysInv, TypeOK, Phase, Running, RowsSound, OldKeysVerify, Serving

\* A new row is nobody's key yet.
LEMMA NewRow ==
  ASSUME KeysInv, NEW k \in Kids, CreateKey(k)
  PROVE  /\ k \notin created /\ created' = created \union {k} /\ current' = current \union {k}
         /\ created' \subseteq Kids /\ current' \subseteq created'
         /\ expires' \in [Kids -> Nat] /\ expires'[k] = now + Lifetime
         /\ \A j \in created : expires'[j] = expires[j]
BY ConstantsAssumption DEF KeysInv, TypeOK, CreateKey

LEMMA KeysInvNext == KeysInv /\ [Next]_vars => KeysInv'
<1> SUFFICES ASSUME KeysInv, [Next]_vars PROVE KeysInv'
  OBVIOUS
<1> USE ConstantsAssumption DEF KeysInv, table, memory, Goto
<1>1. ASSUME NEW w \in Workers, InitSelect(w) PROVE KeysInv'
  <2>1. UNCHANGED <<now, created, current, expires, holder, checked, pems, fresh, cache, known>>
    BY <1>1 DEF InitSelect
  <2>2. /\ phase[w] = "down" /\ alone' \in BOOLEAN
        /\ \E p \in {"generate", "load"} : phase' = [phase EXCEPT ![w] = p]
        /\ signer' \in [Workers -> Kids \union {NoKid}]
    BY <1>1 DEF InitSelect, TypeOK
  <2>3. TypeOK'
    BY <2>1, <2>2 DEF TypeOK, Phase
  <2>4. RowsSound' /\ OldKeysVerify'
    BY <2>1, <2>2 DEF RowsSound, OldKeysVerify, Serving, Running, Live, TypeOK
  <2>5. QED
    BY <2>3, <2>4
<1>2. ASSUME NEW w \in Workers, NEW k \in Kids, InitCreate(w, k) PROVE KeysInv'
  <2>1. /\ phase[w] = "generate" /\ CreateKey(k) /\ signer' = [signer EXCEPT ![w] = k]
        /\ phase' = [phase EXCEPT ![w] = "load"]
        /\ UNCHANGED <<now, holder, checked, pems, fresh, cache, known, alone>>
    BY <1>2 DEF InitCreate
  <2>2. TypeOK'
    BY <2>1, NewRow DEF TypeOK, Phase
  <2>3. RowsSound'
    BY <2>1, NewRow DEF RowsSound, Serving, Running, TypeOK
  <2>4. OldKeysVerify'
    BY <2>1, NewRow DEF RowsSound, OldKeysVerify, Serving, Running, Live, TypeOK
  <2>5. QED
    BY <2>2, <2>3, <2>4
\* The start reads every row that is live, and so every such key known before
<1>3. ASSUME NEW w \in Workers, InitLoad(w) PROVE KeysInv'
  <2>1. /\ phase[w] = "load" /\ phase' = [phase EXCEPT ![w] = "serving"]
        /\ pems' = [pems EXCEPT ![w] = LiveRows]
        /\ known' = [known EXCEPT ![w] = known[w] \union LiveRows]
        /\ UNCHANGED <<now, created, current, expires, holder, checked, signer, fresh, cache, alone>>
    BY <1>3 DEF InitLoad
  <2>2. LiveRows \subseteq created /\ LiveRows \subseteq Kids
    BY DEF LiveRows, TypeOK
  <2>3. TypeOK'
    BY <2>1, <2>2 DEF TypeOK, Phase, Running
  <2>4. RowsSound'
    BY <2>1, <2>2 DEF RowsSound, Serving, Running, TypeOK
  <2>5. OldKeysVerify'
    BY <2>1 DEF RowsSound, OldKeysVerify, Serving, Running, Live, LiveRows, TypeOK
  <2>6. QED
    BY <2>3, <2>4, <2>5
<1>4. ASSUME NEW w \in Workers, RotationCheck(w) PROVE KeysInv'
  <2>1. /\ phase[w] = "serving" /\ checked' = checked \union {w}
        /\ \E p \in {"update", "serving"} : phase' = [phase EXCEPT ![w] = p]
        /\ UNCHANGED <<now, created, current, expires, holder, signer, pems, cache, known, fresh, alone>>
    BY <1>4 DEF RotationCheck
  <2>2. TypeOK'
    BY <2>1 DEF TypeOK, Phase, Running
  <2>3. RowsSound' /\ OldKeysVerify'
    BY <2>1 DEF RowsSound, OldKeysVerify, Serving, Running, Live, TypeOK
  <2>4. QED
    BY <2>2, <2>3
<1>5. ASSUME NEW w \in Workers, RotateUpdate(w) PROVE KeysInv'
  <2>1. /\ phase[w] = "update" /\ holder' = {w} /\ phase' = [phase EXCEPT ![w] = "create"]
        /\ UNCHANGED <<now, created, current, expires, checked, signer, pems, cache, known, fresh, alone>>
    BY <1>5 DEF RotateUpdate
  <2>2. TypeOK'
    BY <2>1 DEF TypeOK, Phase, Running
  <2>3. RowsSound' /\ OldKeysVerify'
    BY <2>1 DEF RowsSound, OldKeysVerify, Serving, Running, Live, TypeOK
  <2>4. QED
    BY <2>2, <2>3
<1>6. ASSUME NEW w \in Workers, NEW k \in Kids, RotateCreate(w, k) PROVE KeysInv'
  <2>1. /\ phase[w] = "create" /\ CreateKey(k) /\ fresh' = [fresh EXCEPT ![w] = k]
        /\ phase' = [phase EXCEPT ![w] = "install"]
        /\ UNCHANGED <<now, holder, checked, signer, pems, cache, known, alone>>
    BY <1>6 DEF RotateCreate
  <2>2. TypeOK'
    BY <2>1, NewRow DEF TypeOK, Phase, Running
  <2>3. RowsSound'
    BY <2>1, NewRow DEF RowsSound, Serving, Running, TypeOK
  <2>4. OldKeysVerify'
    BY <2>1, NewRow DEF RowsSound, OldKeysVerify, Serving, Running, Live, TypeOK
  <2>5. QED
    BY <2>2, <2>3, <2>4
<1>7. ASSUME NEW w \in Workers, RotateInstall(w) PROVE KeysInv'
  <2>1. /\ phase[w] = "install" /\ phase' = [phase EXCEPT ![w] = "serving"]
        /\ signer' = [signer EXCEPT ![w] = fresh[w]]
        /\ pems' = [pems EXCEPT ![w] = pems[w] \union {fresh[w]}]
        /\ known' = [known EXCEPT ![w] = known[w] \union {fresh[w]}]
        /\ fresh' = [fresh EXCEPT ![w] = NoKid] /\ cache' = [cache EXCEPT ![w] = {}]
        /\ holder' = holder \ {w}
        /\ UNCHANGED <<now, created, current, expires, checked, alone>>
    BY <1>7 DEF RotateInstall
  <2>2. fresh[w] \in created /\ fresh[w] \in Kids
    BY <2>1 DEF RowsSound, TypeOK
  <2>3. TypeOK'
    BY <2>1, <2>2 DEF TypeOK, Phase, Running
  <2>4. RowsSound'
    BY <2>1, <2>2 DEF RowsSound, Serving, Running, TypeOK
  <2>5. OldKeysVerify'
    BY <2>1 DEF OldKeysVerify, Serving, Running, Live, TypeOK
  <2>6. QED
    BY <2>3, <2>4, <2>5
<1>8. ASSUME NEW w \in Workers, RotateFail(w) PROVE KeysInv'
  <2>1. /\ phase[w] \in {"update", "create", "install"}
        /\ phase' = [phase EXCEPT ![w] = "serving"]
        /\ fresh' = [fresh EXCEPT ![w] = NoKid]
        /\ holder' = holder \ {w} /\ alone' = FALSE
        /\ UNCHANGED <<now, created, current, expires, checked, signer, pems, cache, known>>
    BY <1>8 DEF RotateFail
  <2>2. TypeOK'
    BY <2>1 DEF TypeOK, Phase, Running
  <2>3. RowsSound' /\ OldKeysVerify'
    BY <2>1 DEF RowsSound, OldKeysVerify, Serving, Running, Live, TypeOK
  <2>4. QED
    BY <2>2, <2>3
<1>9. ASSUME NEW w \in Workers, ServeJwks(w) PROVE KeysInv'
  <2>1. /\ cache' = [cache EXCEPT ![w] = pems[w]]
        /\ UNCHANGED <<now, created, current, expires, holder, phase, checked, signer, pems,
                       fresh, known, alone>>
    BY <1>9 DEF ServeJwks
  <2>2. TypeOK'
    BY <2>1 DEF TypeOK
  <2>3. RowsSound' /\ OldKeysVerify'
    BY <2>1 DEF RowsSound, OldKeysVerify, Serving, Live
  <2>4. QED
    BY <2>2, <2>3
<1>10. ASSUME NEW w \in Workers, Crash(w) PROVE KeysInv'
  <2>1. /\ phase' = [phase EXCEPT ![w] = "down"] /\ holder' = holder \ {w}
        /\ checked' = checked \ {w} /\ signer' = [signer EXCEPT ![w] = NoKid]
        /\ pems' = [pems EXCEPT ![w] = {}] /\ fresh' = [fresh EXCEPT ![w] = NoKid]
        /\ cache' = [cache EXCEPT ![w] = {}]
        /\ UNCHANGED <<now, created, current, expires, known, alone>>
    BY <1>10 DEF Crash
  <2>2. TypeOK'
    BY <2>1 DEF TypeOK, Phase
  <2>3. RowsSound' /\ OldKeysVerify'
    BY <2>1 DEF RowsSound, OldKeysVerify, Serving, Running, Live, TypeOK
  <2>4. QED
    BY <2>2, <2>3
\* Time only takes keys away from those that have to verify
<1>11. CASE Tick
  <2>1. /\ now' = now + 1 /\ checked' = {}
        /\ \A w \in Workers : phase[w] # "install"
        /\ UNCHANGED <<created, current, expires, holder, phase, signer, pems, cache, known, fresh, alone>>
    BY <1>11 DEF Tick
  <2>2. TypeOK'
    BY <2>1 DEF TypeOK
  <2>3. RowsSound'
    BY <2>1 DEF RowsSound, TypeOK
  <2>4. OldKeysVerify'
    BY <2>1 DEF OldKeysVerify, RowsSound, Serving, Live, TypeOK
  <2>5. QED
    BY <2>2, <2>3, <2>4
<1>12. CASE UNCHANGED vars
  BY <1>12 DEF vars, TypeOK, RowsSound, OldKeysVerify, Serving, Live
<1>13. QED
  BY <1>1, <1>2, <1>3, <1>4, <1>5, <1>6, <1>7, <1>8, <1>9, <1>10, <1>11, <1>12
  DEF Next, Start, Rotate

LEMMA KeysInvariant == Spec => []KeysInv
<1>1. QED
  BY KeysInvInit, KeysInvNext, PTL DEF Spec

\* The table and the workers' memory keep their types.
THEOREM TypeCorrect == Spec => []TypeOK
<1>1. KeysInv => TypeOK
  BY DEF KeysInv
<1>2. QED
  BY <1>1, KeysInvariant, PTL

\* A key that a worker could verify with goes on verifying there until it expires,
\* over rotations, failures and restarts (KeyManager.initialize and rotate).
THEOREM OldKeysKept == Spec => []OldKeysVerify
<1>1. KeysInv => OldKeysVerify
  BY DEF KeysInv
<1>2. QED
  BY <1>1, KeysInvariant, PTL

-----------------------------------------------------------------------------
(* What a worker signs with.                                               *)

\* A worker signs with a row, and a cached JWKS answer, which a process that has
\* not come to serve has none of, names what the worker verifies with.
AnswersSound ==
  \A w \in Workers :
    /\ phase[w] \in {"load"} \union Running => signer[w] \in created
    /\ phase[w] \notin Running => cache[w] = {}
    /\ cache[w] # {} => cache[w] = pems[w]

LEMMA AnswersInit == Init => AnswersSound /\ SignerIsPublished
BY DEF Init, AnswersSound, SignerIsPublished, Serving, Running

LEMMA AnswersNext ==
  KeysInv /\ AnswersSound /\ SignerIsPublished /\ [Next]_vars
    => AnswersSound' /\ SignerIsPublished'
<1> SUFFICES ASSUME KeysInv, AnswersSound, SignerIsPublished, [Next]_vars
             PROVE  AnswersSound' /\ SignerIsPublished'
  OBVIOUS
<1> USE ConstantsAssumption DEF KeysInv, table, memory, Goto
<1>1. ASSUME NEW w \in Workers, InitSelect(w) PROVE AnswersSound' /\ SignerIsPublished'
  <2>1. /\ phase[w] = "down" /\ UNCHANGED <<now, created, current, expires, pems, cache>>
        /\ \/ phase' = [phase EXCEPT ![w] = "generate"] /\ signer' = signer
           \/ \E k \in current : /\ signer' = [signer EXCEPT ![w] = k]
                                /\ phase' = [phase EXCEPT ![w] = "load"]
    BY <1>1 DEF InitSelect
  <2>2. AnswersSound'
    BY <2>1 DEF AnswersSound, Running, TypeOK
  <2>3. SignerIsPublished'
    BY <2>1 DEF SignerIsPublished, Serving, Running, Live, TypeOK
  <2>4. QED
    BY <2>2, <2>3
<1>2. ASSUME NEW w \in Workers, NEW k \in Kids, InitCreate(w, k)
      PROVE  AnswersSound' /\ SignerIsPublished'
  <2>1. /\ phase[w] = "generate" /\ CreateKey(k) /\ signer' = [signer EXCEPT ![w] = k]
        /\ phase' = [phase EXCEPT ![w] = "load"] /\ UNCHANGED <<now, pems, cache>>
    BY <1>2 DEF InitCreate
  <2>2. AnswersSound'
    BY <2>1, NewRow DEF AnswersSound, Running, TypeOK
  <2>3. SignerIsPublished'
    BY <2>1, NewRow DEF SignerIsPublished, AnswersSound, Serving, Running, Live, TypeOK
  <2>4. QED
    BY <2>2, <2>3
\* A row that the start has read and that has not expired is loaded
<1>3. ASSUME NEW w \in Workers, InitLoad(w) PROVE AnswersSound' /\ SignerIsPublished'
  <2>1. /\ phase[w] = "load" /\ phase' = [phase EXCEPT ![w] = "serving"]
        /\ pems' = [pems EXCEPT ![w] = LiveRows]
        /\ UNCHANGED <<now, created, current, expires, signer, cache>>
    BY <1>3 DEF InitLoad
  <2>2. cache[w] = {} /\ signer[w] \in created
    BY <2>1 DEF AnswersSound, Running
  <2>3. AnswersSound'
    BY <2>1, <2>2 DEF AnswersSound, Running, TypeOK
  <2>4. SignerIsPublished'
    BY <2>1, <2>2 DEF SignerIsPublished, Serving, Running, Live, LiveRows, TypeOK
  <2>5. QED
    BY <2>3, <2>4
<1>4. ASSUME NEW w \in Workers, RotationCheck(w) PROVE AnswersSound' /\ SignerIsPublished'
  <2>1. /\ phase[w] = "serving"
        /\ \E p \in {"update", "serving"} : phase' = [phase EXCEPT ![w] = p]
        /\ UNCHANGED <<now, created, expires, signer, pems, cache>>
    BY <1>4 DEF RotationCheck
  <2>2. QED
    BY <2>1 DEF AnswersSound, SignerIsPublished, Serving, Running, Live, TypeOK
<1>5. ASSUME NEW w \in Workers, RotateUpdate(w) PROVE AnswersSound' /\ SignerIsPublished'
  <2>1. /\ phase[w] = "update" /\ phase' = [phase EXCEPT ![w] = "create"]
        /\ UNCHANGED <<now, created, expires, signer, pems, cache>>
    BY <1>5 DEF RotateUpdate
  <2>2. QED
    BY <2>1 DEF AnswersSound, SignerIsPublished, Serving, Running, Live, TypeOK
<1>6. ASSUME NEW w \in Workers, NEW k \in Kids, RotateCreate(w, k)
      PROVE  AnswersSound' /\ SignerIsPublished'
  <2>1. /\ phase[w] = "create" /\ CreateKey(k) /\ phase' = [phase EXCEPT ![w] = "install"]
        /\ UNCHANGED <<now, signer, pems, cache>>
    BY <1>6 DEF RotateCreate
  <2>2. AnswersSound'
    BY <2>1, NewRow DEF AnswersSound, Running, TypeOK
  <2>3. SignerIsPublished'
    BY <2>1, NewRow DEF SignerIsPublished, AnswersSound, Serving, Running, Live, TypeOK
  <2>4. QED
    BY <2>2, <2>3
\* The new key is verified with at once, and the next answer is built with it
<1>7. ASSUME NEW w \in Workers, RotateInstall(w) PROVE AnswersSound' /\ SignerIsPublished'
  <2>1. /\ phase[w] = "install" /\ phase' = [phase EXCEPT ![w] = "serving"]
        /\ signer' = [signer EXCEPT ![w] = fresh[w]]
        /\ pems' = [pems EXCEPT ![w] = pems[w] \union {fresh[w]}]
        /\ cache' = [cache EXCEPT ![w] = {}] /\ UNCHANGED <<now, created, expires>>
    BY <1>7 DEF RotateInstall
  <2>2. fresh[w] \in created
    BY <2>1 DEF RowsSound
  <2>3. AnswersSound'
    BY <2>1, <2>2 DEF AnswersSound, Running, TypeOK
  <2>4. SignerIsPublished'
    BY <2>1 DEF SignerIsPublished, Serving, Running, Live, TypeOK
  <2>5. QED
    BY <2>3, <2>4
<1>8. ASSUME NEW w \in Workers, RotateFail(w) PROVE AnswersSound' /\ SignerIsPublished'
  <2>1. /\ phase[w] \in {"update", "create", "install"}
        /\ phase' = [phase EXCEPT ![w] = "serving"]
        /\ UNCHANGED <<now, created, expires, signer, pems, cache>>
    BY <1>8 DEF RotateFail
  <2>2. QED
    BY <2>1 DEF AnswersSound, SignerIsPublished, Serving, Running, Live, TypeOK
<1>9. ASSUME NEW w \in Workers, ServeJwks(w) PROVE AnswersSound' /\ SignerIsPublished'
  <2>1. /\ phase[w] \in Running /\ cache' = [cache EXCEPT ![w] = pems[w]]
        /\ UNCHANGED <<now, created, expires, phase, signer, pems>>
    BY <1>9 DEF ServeJwks, Serving
  <2>2. QED
    BY <2>1 DEF AnswersSound, SignerIsPublished, Serving, Live, TypeOK
<1>10. ASSUME NEW w \in Workers, Crash(w) PROVE AnswersSound' /\ SignerIsPublished'
  <2>1. /\ phase' = [phase EXCEPT ![w] = "down"] /\ signer' = [signer EXCEPT ![w] = NoKid]
        /\ pems' = [pems EXCEPT ![w] = {}] /\ cache' = [cache EXCEPT ![w] = {}]
        /\ UNCHANGED <<now, created, expires>>
    BY <1>10 DEF Crash
  <2>2. QED
    BY <2>1 DEF AnswersSound, SignerIsPublished, Serving, Running, Live, TypeOK
\* Time only takes keys away from those that have to verify
<1>11. CASE Tick
  <2>1. now' = now + 1 /\ UNCHANGED <<created, expires, phase, signer, pems, cache>>
    BY <1>11 DEF Tick
  <2>2. AnswersSound'
    BY <2>1 DEF AnswersSound
  <2>3. \A w \in Workers : Serving(w) => expires[signer[w]] \in Nat
    BY DEF AnswersSound, Serving, TypeOK
  <2>4. SignerIsPublished'
    BY <2>1, <2>3 DEF SignerIsPublished, Serving, Live, TypeOK
  <2>5. QED
    BY <2>2, <2>4
<1>12. CASE UNCHANGED vars
  BY <1>12 DEF vars, AnswersSound, SignerIsPublished, Serving, Live
<1>13. QED
  BY <1>1, <1>2, <1>3, <1>4, <1>5, <1>6, <1>7, <1>8, <1>9, <1>10, <1>11, <1>12
  DEF Next, Start, Rotate

\* The key a worker signs with is one it verifies with and one its JWKS answer names,
\* until it expires (KeyManager.initialize and rotate, invalidate_jwks_cache).
THEOREM SignerPublished == Spec => []SignerIsPublished
<1>1. QED
  BY AnswersInit, AnswersNext, KeysInvariant, PTL DEF Spec
-----------------------------------------------------------------------------
(* The rotation in time.  Nothing in the code keeps                        *)
(* SIGNING_KEY_ROTATION_DAYS above the threshold; its default, 90 to 7, is.*)

LEMMA LastInit == Init => SignsWithLast /\ RotatedInTime
BY DEF Init, SignsWithLast, RotatedInTime

LEMMA LastNext ==
  ASSUME Threshold < Lifetime
  PROVE  KeysInv /\ SignsWithLast /\ RotatedInTime /\ [Next]_vars
           => SignsWithLast' /\ RotatedInTime'
<1> SUFFICES ASSUME KeysInv, SignsWithLast, RotatedInTime, [Next]_vars, alone'
             PROVE  SignsWithLast' /\ RotatedInTime'
  BY DEF SignsWithLast, RotatedInTime
<1> USE ConstantsAssumption DEF KeysInv, table, memory, Goto
\* The one start there is finds no row
<1>1. ASSUME NEW w \in Workers, InitSelect(w) PROVE SignsWithLast' /\ RotatedInTime'
  <2>1. /\ alone /\ created = {} /\ current = {} /\ \A v \in Workers : phase[v] = "down"
        /\ phase' = [phase EXCEPT ![w] = "generate"]
        /\ UNCHANGED <<created, checked>>
    BY <1>1 DEF InitSelect, TypeOK
  <2>2. QED
    BY <2>1 DEF SignsWithLast, RotatedInTime, RowsSound, Serving, Running, TypeOK
<1>2. ASSUME NEW w \in Workers, NEW k \in Kids, InitCreate(w, k)
      PROVE  SignsWithLast' /\ RotatedInTime'
  <2>1. /\ phase[w] = "generate" /\ CreateKey(k) /\ signer' = [signer EXCEPT ![w] = k]
        /\ phase' = [phase EXCEPT ![w] = "load"] /\ UNCHANGED <<now, checked, alone>>
    BY <1>2 DEF InitCreate
  <2>2. created = {} /\ \A v \in Workers \ {w} : phase[v] = "down"
    BY <2>1 DEF SignsWithLast
  <2>3. current' = {k} /\ created' = {k}
    BY <2>1, <2>2, NewRow DEF TypeOK
  <2>4. expires'[k] \in Nat
    BY <2>1, NewRow
  <2>5. \A v \in Workers : phase'[v] # "down" => v = w /\ phase'[v] = "load" /\ signer'[v] = k
    BY <2>1, <2>2 DEF TypeOK
  <2>6. QED
    BY <2>3, <2>4, <2>5 DEF SignsWithLast, RotatedInTime
<1>3. ASSUME NEW w \in Workers, InitLoad(w) PROVE SignsWithLast' /\ RotatedInTime'
  <2>1. /\ phase[w] = "load" /\ phase' = [phase EXCEPT ![w] = "serving"]
        /\ UNCHANGED <<now, created, current, expires, checked, signer, alone>>
    BY <1>3 DEF InitLoad
  <2>2. w \notin checked
    BY <2>1 DEF RowsSound, Serving, Running
  <2>3. QED
    BY <2>1, <2>2 DEF SignsWithLast, RotatedInTime, Due, TypeOK
\* Whichever current row is read: if it is not due, nor is the signer
<1>4. ASSUME NEW w \in Workers, RotationCheck(w) PROVE SignsWithLast' /\ RotatedInTime'
  <2>1. PICK k \in current :
          /\ phase[w] = "serving" /\ checked' = checked \union {w}
          /\ phase' = [phase EXCEPT ![w] = IF Due(k) THEN "update" ELSE "serving"]
          /\ UNCHANGED <<now, created, current, expires, signer, alone>>
    BY <1>4 DEF RotationCheck
  <2>2. SignsWithLast'
    BY <2>1 DEF SignsWithLast, TypeOK
  <2>3. ~ Due(k) => ~ Due(signer[w])
    <3>1. /\ signer[w] \in created /\ expires[k] <= expires[signer[w]]
      BY <2>1 DEF SignsWithLast
    <3>2. expires[k] \in Nat /\ expires[signer[w]] \in Nat /\ now \in Nat
      BY <3>1 DEF TypeOK
    <3>3. QED
      BY <3>1, <3>2 DEF Due
  <2>4. RotatedInTime'
    BY <2>1, <2>3 DEF RotatedInTime, Due, TypeOK
  <2>5. QED
    BY <2>2, <2>4
<1>5. ASSUME NEW w \in Workers, RotateUpdate(w) PROVE SignsWithLast' /\ RotatedInTime'
  <2>1. /\ phase[w] = "update" /\ phase' = [phase EXCEPT ![w] = "create"]
        /\ UNCHANGED <<now, created, current, expires, checked, signer, alone>>
    BY <1>5 DEF RotateUpdate
  <2>2. QED
    BY <2>1 DEF SignsWithLast, RotatedInTime, Due, TypeOK
<1>6. ASSUME NEW w \in Workers, NEW k \in Kids, RotateCreate(w, k)
      PROVE  SignsWithLast' /\ RotatedInTime'
  <2>1. /\ phase[w] = "create" /\ phase' = [phase EXCEPT ![w] = "install"]
        /\ UNCHANGED <<now, checked, signer, alone>>
    BY <1>6 DEF RotateCreate
  <2>2. \A v \in Workers \ {w} : phase[v] = "down"
    BY <2>1 DEF SignsWithLast
  <2>3. \A v \in Workers : phase'[v] \in {"down", "install"}
    BY <2>1, <2>2 DEF TypeOK
  <2>4. QED
    BY <2>1, <2>2, <2>3 DEF SignsWithLast, RotatedInTime, TypeOK
\* No row expires later than the new one, which lives for more than the threshold
<1>7. ASSUME NEW w \in Workers, RotateInstall(w) PROVE SignsWithLast' /\ RotatedInTime'
  <2>1. /\ phase[w] = "install" /\ phase' = [phase EXCEPT ![w] = "serving"]
        /\ signer' = [signer EXCEPT ![w] = fresh[w]]
        /\ UNCHANGED <<now, created, current, expires, checked, alone>>
    BY <1>7 DEF RotateInstall
  <2>2. fresh[w] \in created /\ expires[fresh[w]] = now + Lifetime
    BY <2>1 DEF RowsSound
  <2>3. \A k \in current : expires[k] <= expires[fresh[w]]
    BY <2>2 DEF RowsSound, TypeOK
  <2>4. \A v \in Workers \ {w} : phase[v] = "down"
    BY <2>1 DEF SignsWithLast
  <2>5. \A v \in Workers : phase'[v] # "down" => v = w /\ phase'[v] = "serving" /\ signer'[v] = fresh[w]
    BY <2>1, <2>4 DEF TypeOK
  <2>6. ~ (expires[fresh[w]] - now <= Threshold)
    BY <2>2 DEF TypeOK
  <2>7. SignsWithLast'
    BY <2>1, <2>2, <2>3, <2>5 DEF SignsWithLast
  <2>8. RotatedInTime'
    BY <2>1, <2>5, <2>6 DEF RotatedInTime, Due
  <2>9. QED
    BY <2>7, <2>8
<1>8. ASSUME NEW w \in Workers, RotateFail(w) PROVE SignsWithLast' /\ RotatedInTime'
  BY <1>8 DEF RotateFail
<1>9. ASSUME NEW w \in Workers, ServeJwks(w) PROVE SignsWithLast' /\ RotatedInTime'
  <2>1. UNCHANGED <<now, created, current, expires, phase, checked, signer, alone>>
    BY <1>9 DEF ServeJwks
  <2>2. QED
    BY <2>1 DEF SignsWithLast, RotatedInTime, Due
<1>10. ASSUME NEW w \in Workers, Crash(w) PROVE SignsWithLast' /\ RotatedInTime'
  <2>1. /\ phase' = [phase EXCEPT ![w] = "down"] /\ checked' = checked \ {w}
        /\ signer' = [signer EXCEPT ![w] = NoKid]
        /\ UNCHANGED <<now, created, current, expires, alone>>
    BY <1>10 DEF Crash
  <2>2. QED
    BY <2>1 DEF SignsWithLast, RotatedInTime, Due, TypeOK
\* A new day, on which nobody has checked yet
<1>11. CASE Tick
  <2>1. checked' = {} /\ UNCHANGED <<created, current, expires, phase, signer, alone>>
    BY <1>11 DEF Tick
  <2>2. QED
    BY <2>1 DEF SignsWithLast, RotatedInTime
<1>12. CASE UNCHANGED vars
  BY <1>12 DEF vars, SignsWithLast, RotatedInTime, Due
<1>13. QED
  BY <1>1, <1>2, <1>3, <1>4, <1>5, <1>6, <1>7, <1>8, <1>9, <1>10, <1>11, <1>12
  DEF Next, Start, Rotate

\* With keys that live for longer than the threshold, a process that is the only
\* one ever started, and none of whose rotations has failed, signs after its daily
\* check with a key that is not due (_maybe_rotate, KeyManager.rotate).
THEOREM SignerRotatedInTime ==
  ASSUME Threshold < Lifetime
  PROVE  Spec => []RotatedInTime
<1>1. KeysInv /\ SignsWithLast /\ RotatedInTime /\ [Next]_vars => SignsWithLast' /\ RotatedInTime'
  BY LastNext
<1>2. QED
  BY <1>1, LastInit, KeysInvariant, PTL DEF Spec
=============================================================================
