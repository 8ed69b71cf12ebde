------------------------ MODULE RefreshTokensProofs ------------------------
(***************************************************************************)
(* Proofs about RefreshTokens, for any number of tokens, families and      *)
(* concurrent requests: what the single transaction of a rotation keeps,   *)
(* and what the row locks do, whatever order they are taken in.            *)
(***************************************************************************)
EXTENDS RefreshTokens, TLAPS

\* A request in flight is at a row that exists (rows are never deleted), and one
\* that revokes a family at a row of the family, which are all it has found.
ReadsExist ==
  \A r \in Requests :
     /\ pc[r] # "idle" => tok[r] \in Tokens /\ Exists(tok[r])
     /\ pc[r] \in {"scan", "close", "closed"} => family[tok[r]] # NoFamily
     /\ \A t \in scan[r] : Exists(t)
     /\ pc[r] \in {"close", "closed"} =>
          tok[r] \in scan[r] /\ \A t \in scan[r] : family[t] = family[tok[r]]

\* The parent of a row is a row.
ParentsExist ==
  \A t \in Tokens : Exists(t) /\ parent[t] # NoToken => Exists(parent[t])

IInv ==
  /\ TypeOK
  /\ ReadsExist
  /\ ParentsExist
  /\ NeverLiveWithSuccessor
  /\ ChainInOneFamily
  /\ WritersHoldTheirRows

-----------------------------------------------------------------------------
\* The end of a request keeps the types of what it resets.
LEMMA DoneTypes ==
  ASSUME TypeOK, NEW r \in Requests, Done(r)
  PROVE  /\ pc' \in [Requests -> Pc]
         /\ tok' \in [Requests -> Tokens \union {NoToken}]
         /\ scan' \in [Requests -> SUBSET Tokens]
         /\ lock' \in [Tokens -> Requests \union {NoRequest}]
<1>1. pc' \in [Requests -> Pc]
  BY DEF Done, TypeOK, Pc, Waiting
<1>2. tok' \in [Requests -> Tokens \union {NoToken}]
  BY DEF Done, TypeOK
<1>3. scan' \in [Requests -> SUBSET Tokens]
  BY DEF Done, TypeOK
<1>4. \A t \in Tokens : (IF lock[t] = r THEN NoRequest ELSE lock[t]) \in Requests \union {NoRequest}
  BY DEF TypeOK
<1>5. lock' \in [Tokens -> Requests \union {NoRequest}]
  BY <1>4 DEF Done
<1>6. QED
  BY <1>1, <1>2, <1>3, <1>5

\* The end of a request leaves the others' reads and locks alone.
LEMMA DoneFrame ==
  ASSUME TypeOK, NEW r \in Requests, Done(r)
  PROVE  /\ pc'[r] = "idle"
         /\ \A q \in Requests \ {r} : pc'[q] = pc[q] /\ tok'[q] = tok[q] /\ scan'[q] = scan[q]
         /\ scan'[r] = {}
         /\ \A t \in Tokens : lock[t] # r => lock'[t] = lock[t]
         /\ \A t \in Tokens : lock'[t] # NoRequest => lock[t] = lock'[t] /\ lock'[t] # r
BY ConstantsAssumption DEF Done, TypeOK

\* Every step keeps the types, given that requests have read rows.
LEMMA NextTypeOK ==
  ASSUME TypeOK, ReadsExist, [Next]_vars
  PROVE  TypeOK'
<1>1. ASSUME NEW r \in Requests, NEW t \in Tokens, RefreshRead(r, t) \/ RevokeRead(r, t)
      PROVE  TypeOK'
  BY <1>1 DEF RefreshRead, RevokeRead, Begin, Goto, TypeOK, Pc, Waiting
<1>2. ASSUME NEW r \in Requests, RotateUpdate(r) \/ RevokeUpdate(r) PROVE TypeOK'
  BY <1>2 DEF RotateUpdate, RevokeUpdate, ReadsExist, Goto, TypeOK, Pc, Waiting
<1>3. ASSUME NEW r \in Requests, NEW n \in Tokens, RotateCommit(r, n) PROVE TypeOK'
  <2>1. tok[r] \in Tokens
    BY <1>3 DEF RotateCommit, ReadsExist
  <2>2. /\ row' \in [Tokens -> {"absent", "live", "revoked"}]
        /\ family' \in [Tokens -> Families \union {NoFamily}]
        /\ parent' \in [Tokens -> Tokens \union {NoToken}]
        /\ closed' \subseteq Families /\ ended' \subseteq Tokens
        /\ overlap' = overlap
        /\ Done(r)
    BY <1>3, <2>1 DEF RotateCommit, TypeOK
  <2>3. QED
    BY <2>2, DoneTypes DEF TypeOK
<1>4. ASSUME NEW r \in Requests, FamilyScan(r) PROVE TypeOK'
  BY <1>4 DEF FamilyScan, SameFamily, Goto, TypeOK, Pc, Waiting
<1>5. ASSUME NEW r \in Requests, FamilyLock(r) PROVE TypeOK'
  <2>1. PICK p \in {"close", "closed"}, t \in Tokens : pc' = [pc EXCEPT ![r] = p] /\ tok' = [tok EXCEPT ![r] = t]
    BY <1>5 DEF FamilyLock, ReadsExist, Goto, TypeOK
  <2>2. /\ lock' = [lock EXCEPT ![tok[r]] = r]
        /\ UNCHANGED <<row, family, parent, scan, closed, ended, overlap>>
    BY <1>5 DEF FamilyLock
  <2>3. QED
    BY <2>1, <2>2 DEF TypeOK, Pc, Waiting
<1>6. ASSUME NEW r \in Requests, FamilyCommit(r) PROVE TypeOK'
  <2>1. family[tok[r]] \in Families
    BY <1>6 DEF FamilyCommit, ReadsExist, TypeOK
  <2>2. \A t \in Tokens : (IF t \in scan[r] THEN "revoked" ELSE row[t]) \in {"absent", "live", "revoked"}
    BY DEF TypeOK
  <2>3. /\ row' \in [Tokens -> {"absent", "live", "revoked"}]
        /\ closed' \subseteq Families
        /\ UNCHANGED <<family, parent, ended, overlap>>
        /\ Done(r)
    BY <1>6, <2>1, <2>2 DEF FamilyCommit, TypeOK
  <2>4. QED
    BY <2>3, DoneTypes DEF TypeOK
<1>7. ASSUME NEW r \in Requests, RevokeCommit(r) PROVE TypeOK'
  <2>1. tok[r] \in Tokens
    BY <1>7 DEF RevokeCommit, ReadsExist
  <2>2. /\ row' \in [Tokens -> {"absent", "live", "revoked"}]
        /\ ended' \subseteq Tokens
        /\ UNCHANGED <<family, parent, closed, overlap>>
        /\ Done(r)
    BY <1>7, <2>1 DEF RevokeCommit, TypeOK
  <2>3. QED
    BY <2>2, DoneTypes DEF TypeOK
<1>8. ASSUME NEW r \in Requests, Fail(r) \/ Deadlock(r) PROVE TypeOK'
  <2>1. UNCHANGED <<row, family, parent, closed, ended, overlap>> /\ Done(r)
    BY <1>8 DEF Fail, Deadlock
  <2>2. QED
    BY <2>1, DoneTypes DEF TypeOK
<1>9. CASE UNCHANGED vars
  BY <1>9 DEF vars, TypeOK
<1>10. QED
  BY <1>1, <1>2, <1>3, <1>4, <1>5, <1>6, <1>7, <1>8, <1>9 DEF Next, Arrive, GoOn, NoRowLeft

-----------------------------------------------------------------------------
\* What the rows' history claims, of the rows and their parents only.
RowsOK == ParentsExist /\ NeverLiveWithSuccessor /\ ChainInOneFamily

\* Steps that leave the rows alone, or mark some of them revoked, keep it.
LEMMA MarkingKeepsRows ==
  ASSUME TypeOK, TypeOK', RowsOK, UNCHANGED <<family, parent>>,
         \A t \in Tokens : row'[t] # row[t] => Exists(t) /\ row'[t] = "revoked"
  PROVE  RowsOK'
BY ConstantsAssumption
   DEF TypeOK, RowsOK, ParentsExist, NeverLiveWithSuccessor, ChainInOneFamily, Exists

\* A rotation keeps it: the parent is revoked by the step that inserts the child.
LEMMA RotationKeepsRows ==
  ASSUME TypeOK, TypeOK', RowsOK, ReadsExist,
         NEW r \in Requests, NEW n \in Tokens, RotateCommit(r, n)
  PROVE  RowsOK'
<1>1. tok[r] \in Tokens /\ Exists(tok[r]) /\ tok[r] # n /\ ~ Exists(n)
  BY DEF RotateCommit, ReadsExist
<1>2. /\ row' = [row EXCEPT ![tok[r]] = "revoked", ![n] = "live"]
      /\ family' = [family EXCEPT ![n] = family[tok[r]]]
      /\ parent' = [parent EXCEPT ![n] = tok[r]]
  BY DEF RotateCommit
<1>3. ASSUME NEW t \in Tokens, t # n, row'[t] # "absent", parent'[t] # NoToken
      PROVE  /\ row'[parent'[t]] = "revoked"
             /\ family'[t] = family'[parent'[t]]
  <2>1. Exists(t) /\ parent'[t] = parent[t] /\ family'[t] = family[t]
    BY <1>1, <1>2, <1>3 DEF TypeOK, Exists
  <2>2. parent[t] \in Tokens /\ Exists(parent[t]) /\ parent[t] # n
    BY <1>1, <1>3, <2>1 DEF TypeOK, RowsOK, ParentsExist
  <2>3. QED
    BY <1>1, <1>2, <1>3, <2>1, <2>2
       DEF TypeOK, RowsOK, NeverLiveWithSuccessor, ChainInOneFamily, Exists
<1>4. /\ parent'[n] = tok[r] /\ row'[tok[r]] = "revoked"
      /\ family'[n] = family'[tok[r]]
  BY <1>1, <1>2 DEF TypeOK, Exists
<1>5. QED
  BY <1>3, <1>4 DEF RowsOK, ParentsExist, NeverLiveWithSuccessor, ChainInOneFamily, Exists

-----------------------------------------------------------------------------
\* A lock is taken of a row that nobody has locked: the others keep theirs.
LEMMA LockingKeepsRows ==
  ASSUME TypeOK, WritersHoldTheirRows, NEW r \in Requests, NEW u \in Tokens, Free(u),
         lock' = [lock EXCEPT ![u] = r],
         \A q \in Requests \ {r} : pc'[q] = pc[q] /\ tok'[q] = tok[q] /\ scan'[q] = scan[q],
         \A t \in Tokens : lock'[t] = r =>
           \/ pc'[r] \in {"insert", "revoked"} /\ tok'[r] = t
           \/ pc'[r] \in {"close", "closed"} /\ t \in scan'[r],
         pc'[r] \in {"insert", "revoked"} => lock'[tok'[r]] = r,
         pc'[r] = "closed" => \A t \in scan'[r] : lock'[t] = r
  PROVE  WritersHoldTheirRows'
<1>1. \A t \in Tokens : lock'[t] \notin {r, NoRequest} => lock'[t] = lock[t] /\ lock[t] \in Requests \ {r}
  BY DEF TypeOK
<1>2. \A q \in Requests \ {r} : \A t \in Tokens : lock[t] = q => lock'[t] = q
  BY ConstantsAssumption DEF TypeOK, Free
<1>3. ASSUME NEW q \in Requests \ {r}
      PROVE  /\ pc'[q] \in {"insert", "revoked"} => lock'[tok'[q]] = q
             /\ pc'[q] = "closed" => \A t \in scan'[q] : lock'[t] = q
  <2>1. /\ pc[q] \in {"insert", "revoked"} => lock[tok[q]] = q
        /\ pc[q] = "closed" => \A t \in scan[q] : lock[t] = q
    BY DEF WritersHoldTheirRows
  <2>2. \A t : lock[t] = q => t # u
    BY ConstantsAssumption DEF Free
  <2>3. \A t : t # u => lock'[t] = lock[t]
    BY DEF TypeOK
  <2>4. QED
    BY <2>1, <2>2, <2>3
<1>4. ASSUME NEW t \in Tokens, lock'[t] # NoRequest
      PROVE  \/ pc'[lock'[t]] \in {"insert", "revoked"} /\ tok'[lock'[t]] = t
             \/ pc'[lock'[t]] \in {"close", "closed"} /\ t \in scan'[lock'[t]]
  <2>1. CASE lock'[t] = r
    BY <2>1
  <2>2. CASE lock'[t] # r
    BY <1>1, <1>4, <2>2 DEF WritersHoldTheirRows, Free
  <2>3. QED
    BY <2>1, <2>2
<1>5. QED
  BY <1>3, <1>4 DEF WritersHoldTheirRows, Free

\* Every step keeps the inductive invariant.
LEMMA NextIInv ==
  ASSUME IInv, [Next]_vars
  PROVE  IInv'
<1> USE DEF IInv
<1>t. TypeOK'
  BY NextTypeOK
<1>w. RowsOK
  BY DEF RowsOK
<1>1. ASSUME NEW r \in Requests, NEW t \in Tokens, RefreshRead(r, t) \/ RevokeRead(r, t)
      PROVE  IInv'
  <2>1. RowsOK'
    BY <1>1, <1>t, <1>w, MarkingKeepsRows DEF RefreshRead, RevokeRead
  <2>2. PICK p \in {"rotate", "scan", "revoke"} :
          /\ pc[r] = "idle" /\ pc' = [pc EXCEPT ![r] = p] /\ tok' = [tok EXCEPT ![r] = t]
          /\ Exists(t) /\ (p = "scan" => family[t] # NoFamily)
    BY <1>1 DEF RefreshRead, RevokeRead, Goto, Exists
  <2>3. UNCHANGED <<row, family, lock, scan>>
    BY <1>1 DEF RefreshRead, RevokeRead
  <2>4. ReadsExist'
    BY <2>2, <2>3 DEF TypeOK, ReadsExist, Exists
  <2>5. WritersHoldTheirRows'
    BY <2>2, <2>3 DEF TypeOK, WritersHoldTheirRows, Free
  <2>6. QED
    BY <1>t, <2>1, <2>4, <2>5 DEF RowsOK
<1>2. ASSUME NEW r \in Requests, RotateUpdate(r) \/ RevokeUpdate(r) PROVE IInv'
  <2>1. RowsOK'
    BY <1>2, <1>t, <1>w, MarkingKeepsRows DEF RotateUpdate, RevokeUpdate
  <2>2. PICK p \in {"insert", "revoked"} :
          /\ pc[r] \in {"rotate", "revoke"} /\ Free(tok[r])
          /\ pc' = [pc EXCEPT ![r] = p] /\ tok' = tok
          /\ lock' = [lock EXCEPT ![tok[r]] = r]
    BY <1>2 DEF RotateUpdate, RevokeUpdate, Goto, TypeOK
  <2>3. UNCHANGED <<row, family, scan>>
    BY <1>2 DEF RotateUpdate, RevokeUpdate
  <2>4. tok[r] \in Tokens
    BY <2>2 DEF ReadsExist
  <2>5. ReadsExist'
    BY <2>2, <2>3 DEF TypeOK, ReadsExist, Exists
  <2>6. \A t \in Tokens : lock[t] # r
    BY <2>2, ConstantsAssumption DEF WritersHoldTheirRows, Free
  <2>7. pc'[r] = p /\ tok'[r] = tok[r] /\ lock'[tok'[r]] = r
    BY <2>2, <2>4 DEF TypeOK
  <2>8. \A t \in Tokens : lock'[t] = r => tok'[r] = t
    BY <2>2, <2>4, <2>6 DEF TypeOK
  <2>9. \A q \in Requests \ {r} : pc'[q] = pc[q] /\ tok'[q] = tok[q] /\ scan'[q] = scan[q]
    BY <2>2, <2>3 DEF TypeOK
  <2>10. WritersHoldTheirRows'
    BY <2>2, <2>4, <2>7, <2>8, <2>9, LockingKeepsRows
  <2>11. QED
    BY <1>t, <2>1, <2>5, <2>10 DEF RowsOK
<1>3. ASSUME NEW r \in Requests, Done(r),
             \A t \in Tokens : Exists(t) => Exists(t)' /\ family'[t] = family[t],
             RowsOK'
      PROVE  IInv'
  <2>1. ReadsExist'
    <3>1. \A q \in Requests : pc'[q] # "idle" => q # r
      BY <1>3, DoneFrame
    <3>2. \A q \in Requests : scan'[q] \subseteq scan[q] /\ scan[q] \subseteq Tokens
      BY <1>3, DoneFrame DEF TypeOK
    <3>3. \A q \in Requests : \A t \in scan'[q] : Exists(t)'
      BY <1>3, <3>2 DEF ReadsExist
    <3>4. \A q \in Requests : pc'[q] # "idle" => tok'[q] \in Tokens /\ row'[tok'[q]] # "absent"
      BY <1>3, <3>1, DoneFrame DEF ReadsExist, Exists
    <3>5. \A q \in Requests : pc'[q] \in {"scan", "close", "closed"} => family'[tok'[q]] # NoFamily
      BY <1>3, <3>1, DoneFrame DEF ReadsExist
    <3>6. ASSUME NEW q \in Requests, pc'[q] \in {"close", "closed"}
          PROVE  tok'[q] \in scan'[q] /\ \A t \in scan'[q] : family'[t] = family'[tok'[q]]
      <4>1. pc[q] = pc'[q] /\ tok'[q] = tok[q] /\ scan'[q] = scan[q]
        BY <1>3, <3>1, <3>6, DoneFrame
      <4>2. tok[q] \in scan[q] /\ \A t \in scan[q] : t \in Tokens /\ Exists(t) /\ family[t] = family[tok[q]]
        BY <3>2, <3>6, <4>1 DEF ReadsExist
      <4>3. QED
        BY <1>3, <4>1, <4>2
    <3>7. QED
      BY <3>3, <3>4, <3>5, <3>6 DEF ReadsExist, Exists
  <2>2. WritersHoldTheirRows'
    <3>1. ASSUME NEW q \in Requests
          PROVE  /\ pc'[q] \in {"insert", "revoked"} => lock'[tok'[q]] = q
                 /\ pc'[q] = "closed" => \A t \in scan'[q] : lock'[t] = q
      <4>1. CASE q = r
        BY <1>3, <4>1, DoneFrame
      <4>2. CASE q # r
        <5>1. pc'[q] = pc[q] /\ tok'[q] = tok[q] /\ scan'[q] = scan[q] /\ scan[q] \subseteq Tokens
          BY <1>3, <4>2, DoneFrame DEF TypeOK
        <5>2. \A t \in Tokens : lock[t] = q => lock'[t] = q
          BY <1>3, <4>2, DoneFrame
        <5>3. pc[q] # "idle" => tok[q] \in Tokens
          BY DEF ReadsExist
        <5>4. QED
          BY <5>1, <5>2, <5>3 DEF WritersHoldTheirRows
      <4>3. QED
        BY <4>1, <4>2
    <3>2. ASSUME NEW t \in Tokens, lock'[t] # NoRequest
          PROVE  \/ pc'[lock'[t]] \in {"insert", "revoked"} /\ tok'[lock'[t]] = t
                 \/ pc'[lock'[t]] \in {"close", "closed"} /\ t \in scan'[lock'[t]]
      <4>1. lock'[t] = lock[t] /\ lock[t] \in Requests \ {r}
        BY <1>3, <3>2, DoneFrame DEF TypeOK
      <4>2. QED
        BY <1>3, <3>2, <4>1, DoneFrame DEF WritersHoldTheirRows, Free
    <3>3. QED
      BY <3>1, <3>2 DEF WritersHoldTheirRows, Free
  <2>3. QED
    BY <1>3, <1>t, <2>1, <2>2 DEF RowsOK
<1>4. ASSUME NEW r \in Requests, NEW n \in Tokens, RotateCommit(r, n) PROVE IInv'
  <2>1. RowsOK'
    BY <1>4, <1>t, <1>w, RotationKeepsRows
  <2>2. \A t \in Tokens : Exists(t) => Exists(t)' /\ family'[t] = family[t]
    BY <1>4 DEF RotateCommit, TypeOK, Exists
  <2>3. Done(r)
    BY <1>4 DEF RotateCommit
  <2>4. QED
    BY <1>3, <2>1, <2>2, <2>3
<1>5. ASSUME NEW r \in Requests, FamilyScan(r) PROVE IInv'
  <2>1. RowsOK'
    BY <1>5, <1>t, <1>w, MarkingKeepsRows DEF FamilyScan
  <2>2. PICK u \in SameFamily(tok[r]) :
          /\ pc[r] = "scan" /\ pc' = [pc EXCEPT ![r] = "close"] /\ tok' = [tok EXCEPT ![r] = u]
          /\ scan' = [scan EXCEPT ![r] = SameFamily(tok[r])]
    BY <1>5 DEF FamilyScan, Goto
  <2>3. UNCHANGED <<row, family, lock>>
    BY <1>5 DEF FamilyScan
  <2>4. ReadsExist'
    BY <2>2, <2>3 DEF TypeOK, ReadsExist, SameFamily, Exists
  <2>5. \A t \in Tokens : lock[t] # r
    BY <2>2, ConstantsAssumption DEF WritersHoldTheirRows, Free
  <2>6. WritersHoldTheirRows'
    BY <2>2, <2>3, <2>5, ConstantsAssumption DEF TypeOK, WritersHoldTheirRows, Free
  <2>7. QED
    BY <1>t, <2>1, <2>4, <2>6 DEF RowsOK
<1>6. ASSUME NEW r \in Requests, FamilyLock(r) PROVE IInv'
  <2>1. RowsOK'
    BY <1>6, <1>t, <1>w, MarkingKeepsRows DEF FamilyLock
  <2>2. /\ pc[r] = "close" /\ Free(tok[r])
        /\ lock' = [lock EXCEPT ![tok[r]] = r]
        /\ UNCHANGED <<row, family, scan>>
    BY <1>6 DEF FamilyLock
  <2>3. tok[r] \in scan[r] /\ scan[r] \subseteq Tokens
    BY <2>2 DEF ReadsExist, TypeOK
  <2>4. PICK p \in {"close", "closed"}, u \in scan[r] :
          /\ pc' = [pc EXCEPT ![r] = p] /\ tok' = [tok EXCEPT ![r] = u]
          /\ p = "closed" => \A t \in scan[r] \ {tok[r]} : lock[t] = r
    BY <1>6, <2>3 DEF FamilyLock, Goto
  <2>5. ReadsExist'
    BY <2>2, <2>3, <2>4 DEF TypeOK, ReadsExist, Exists
  <2>6. \A t \in Tokens : lock'[t] = r => t \in scan[r]
    BY <2>2, <2>3, ConstantsAssumption DEF TypeOK, WritersHoldTheirRows, Free
  <2>7. pc'[r] = p /\ scan'[r] = scan[r]
    BY <2>2, <2>4 DEF TypeOK
  <2>8. p = "closed" => \A t \in scan[r] : lock'[t] = r
    BY <2>2, <2>3, <2>4 DEF TypeOK
  <2>9. \A q \in Requests \ {r} : pc'[q] = pc[q] /\ tok'[q] = tok[q] /\ scan'[q] = scan[q]
    BY <2>2, <2>4 DEF TypeOK
  <2>10. WritersHoldTheirRows'
    BY <2>2, <2>3, <2>6, <2>7, <2>8, <2>9, LockingKeepsRows
  <2>11. QED
    BY <1>t, <2>1, <2>5, <2>10 DEF RowsOK
<1>7. ASSUME NEW r \in Requests, FamilyCommit(r) PROVE IInv'
  <2>1. /\ family' = family /\ parent' = parent /\ Done(r)
        /\ row' = [t \in Tokens |-> IF t \in scan[r] THEN "revoked" ELSE row[t]]
    BY <1>7 DEF FamilyCommit
  <2>2. \A t \in scan[r] : Exists(t)
    BY DEF ReadsExist
  <2>3. \A t \in Tokens : row'[t] # row[t] => Exists(t) /\ row'[t] = "revoked"
    BY <2>1, <2>2 DEF TypeOK
  <2>4. RowsOK'
    BY <1>t, <1>w, <2>1, <2>3, MarkingKeepsRows
  <2>5. \A t \in Tokens : Exists(t) => Exists(t)' /\ family'[t] = family[t]
    BY <2>1 DEF Exists
  <2>6. QED
    BY <1>3, <2>1, <2>4, <2>5
<1>8. ASSUME NEW r \in Requests, RevokeCommit(r) \/ Fail(r) \/ Deadlock(r) PROVE IInv'
  <2>1. family' = family /\ parent' = parent /\ Done(r)
    BY <1>8 DEF RevokeCommit, Fail, Deadlock
  <2>2. \A t \in Tokens : row'[t] # row[t] => Exists(t) /\ row'[t] = "revoked"
    BY <1>8 DEF RevokeCommit, Fail, Deadlock, TypeOK, ReadsExist
  <2>3. RowsOK'
    BY <1>t, <1>w, <2>1, <2>2, MarkingKeepsRows
  <2>4. \A t \in Tokens : Exists(t) => Exists(t)' /\ family'[t] = family[t]
    BY <2>1, <2>2 DEF Exists
  <2>5. QED
    BY <1>3, <2>1, <2>3, <2>4
<1>9. CASE UNCHANGED vars
  <2>1. RowsOK' /\ ReadsExist' /\ WritersHoldTheirRows'
    BY <1>9, <1>w DEF vars, RowsOK, ReadsExist, ParentsExist, NeverLiveWithSuccessor,
                     ChainInOneFamily, WritersHoldTheirRows, Exists, Free
  <2>2. QED
    BY <1>t, <2>1 DEF RowsOK
<1>10. QED
  BY <1>1, <1>2, <1>4, <1>5, <1>6, <1>7, <1>8, <1>9 DEF Next, Arrive, GoOn, NoRowLeft

-----------------------------------------------------------------------------
\* The inductive invariant, with what a request in flight knows of its row.
THEOREM Invariance == Spec => []IInv
<1>1. Init => IInv
  <2>1. Init => TypeOK
    BY ConstantsAssumption DEF Init, TypeOK, Pc, Waiting
  <2>2. Init => RowsOK
    BY ConstantsAssumption
       DEF Init, RowsOK, ParentsExist, NeverLiveWithSuccessor, ChainInOneFamily, Exists
  <2>3. Init => ReadsExist /\ WritersHoldTheirRows
    BY ConstantsAssumption DEF Init, ReadsExist, WritersHoldTheirRows, Exists, Free
  <2>4. QED
    BY <2>1, <2>2, <2>3 DEF IInv, RowsOK
<1>2. IInv /\ [Next]_vars => IInv'
  BY NextIInv
<1>3. QED
  BY <1>1, <1>2, PTL DEF Spec

\* Every variable keeps its type.
THEOREM TypeCorrect == Spec => []TypeOK
BY Invariance, PTL DEF IInv

\* A refresh token is never live together with its successor: the old row is
\* marked and the new one inserted by one transaction, and no step of the code
\* takes a mark back.
THEOREM NoLiveParent == Spec => []NeverLiveWithSuccessor
BY Invariance, PTL DEF IInv

\* A chain of rotations stays in one family, so a replay of any of its tokens
\* reaches all the others.
THEOREM OneFamily == Spec => []ChainInOneFamily
BY Invariance, PTL DEF IInv

\* Rotations, revocations and family revocations commit only what they have locked,
\* row after row and in any order; a lock is its holder's alone and ends with it.
THEOREM WritesAreLocked == Spec => []WritersHoldTheirRows
BY Invariance, PTL DEF IInv
-----------------------------------------------------------------------------
(* As long as no two requests overlap                                      *)

EndedRevoked == \A t \in ended : row[t] = "revoked"

\* A request that is alone finds its row as it has read it, and its family UPDATE
\* the rows that there are.
AloneReads ==
  ~ overlap =>
    /\ \A q, r \in Requests : pc[q] # "idle" /\ pc[r] # "idle" => q = r
    /\ \A r \in Requests :
         /\ pc[r] \in {"rotate", "insert", "revoke", "revoked"} => row[tok[r]] = "live"
         /\ pc[r] \in {"close", "closed"} => scan[r] = SameFamily(tok[r])

AloneInv == EndedRevoked /\ AloneReads /\ FamilyClosed /\ EndedHasNoSuccessor

\* The end of a request that was alone leaves nobody.
LEMMA AloneDone ==
  ASSUME TypeOK, AloneReads, NEW r \in Requests, pc[r] # "idle", Done(r), overlap' = overlap
  PROVE  AloneReads'
<1>1. pc' = [pc EXCEPT ![r] = "idle"]
  BY DEF Done
<1>2. ~ overlap => \A q \in Requests : pc'[q] = "idle"
  BY <1>1 DEF AloneReads, TypeOK
<1>3. QED
  BY <1>2 DEF AloneReads

LEMMA AloneNext == IInv /\ AloneInv /\ [Next]_vars => AloneInv'
<1> SUFFICES ASSUME IInv, AloneInv, [Next]_vars PROVE AloneInv'
  OBVIOUS
<1> USE ConstantsAssumption DEF IInv, AloneInv
<1>1. ASSUME NEW r \in Requests, NEW t \in Tokens, RefreshRead(r, t) \/ RevokeRead(r, t)
      PROVE  AloneInv'
  <2>1. PICK p \in {"rotate", "scan", "revoke"} :
          /\ pc[r] = "idle" /\ pc' = [pc EXCEPT ![r] = p] /\ tok' = [tok EXCEPT ![r] = t]
          /\ p # "scan" => row[t] = "live"
    BY <1>1 DEF RefreshRead, RevokeRead, Goto
  <2>2. UNCHANGED <<row, family, parent, scan, closed, ended>>
    BY <1>1 DEF RefreshRead, RevokeRead
  <2>3. overlap' = (overlap \/ \E q \in Requests \ {r} : pc[q] # "idle")
    BY <1>1 DEF RefreshRead, RevokeRead, Begin
  <2>4. AloneReads'
    BY <2>1, <2>2, <2>3 DEF AloneReads, TypeOK
  <2>5. EndedRevoked' /\ FamilyClosed' /\ EndedHasNoSuccessor'
    BY <2>2, <2>3 DEF EndedRevoked, FamilyClosed, EndedHasNoSuccessor, Exists
  <2>6. QED
    BY <2>4, <2>5
<1>2. ASSUME NEW r \in Requests, RotateUpdate(r) \/ RevokeUpdate(r) \/ FamilyScan(r) \/ FamilyLock(r)
      PROVE  AloneInv'
  <2>1. UNCHANGED <<row, family, parent, closed, ended, overlap>>
    BY <1>2 DEF RotateUpdate, RevokeUpdate, FamilyScan, FamilyLock
  <2>2. AloneReads'
    <3>1. CASE RotateUpdate(r) \/ RevokeUpdate(r)
      BY <3>1 DEF RotateUpdate, RevokeUpdate, Goto, AloneReads, TypeOK, SameFamily, Exists
    <3>2. CASE FamilyScan(r)
      BY <3>2 DEF FamilyScan, Goto, AloneReads, TypeOK, SameFamily, Exists
    <3>3. CASE FamilyLock(r)
      <4>1. tok[r] \in scan[r]
        BY <3>3 DEF FamilyLock, ReadsExist
      <4>2. PICK p \in {"close", "closed"}, u \in scan[r] :
              /\ pc[r] = "close" /\ pc' = [pc EXCEPT ![r] = p] /\ tok' = [tok EXCEPT ![r] = u]
              /\ scan' = scan
        BY <3>3, <4>1 DEF FamilyLock, Goto
      <4>3. family[u] = family[tok[r]]
        BY <4>2 DEF ReadsExist
      <4>4. QED
        BY <2>1, <4>2, <4>3 DEF AloneReads, TypeOK, SameFamily, Exists
    <3>4. QED
      BY <1>2, <3>1, <3>2, <3>3
  <2>3. EndedRevoked' /\ FamilyClosed' /\ EndedHasNoSuccessor'
    BY <2>1 DEF EndedRevoked, FamilyClosed, EndedHasNoSuccessor, Exists
  <2>4. QED
    BY <2>2, <2>3
\* The successor of a live row: its family is not closed, and the row not ended
<1>3. ASSUME NEW r \in Requests, NEW n \in Tokens, RotateCommit(r, n) PROVE AloneInv'
  <2>1. /\ pc[r] = "insert" /\ ~ Exists(n)
        /\ row' = [row EXCEPT ![tok[r]] = "revoked", ![n] = "live"]
        /\ family' = [family EXCEPT ![n] = family[tok[r]]]
        /\ parent' = [parent EXCEPT ![n] = tok[r]]
        /\ Done(r) /\ UNCHANGED <<closed, ended, overlap>>
    BY <1>3 DEF RotateCommit
  <2>2. tok[r] \in Tokens /\ Exists(tok[r]) /\ tok[r] # n
    BY <2>1 DEF ReadsExist
  <2>3. n \notin ended
    BY <2>1 DEF EndedRevoked, Exists
  <2>4. EndedRevoked'
    BY <2>1, <2>2, <2>3 DEF EndedRevoked, TypeOK
  <2>5. AloneReads'
    BY <2>1, AloneDone
  <2>6. ASSUME ~ overlap PROVE row[tok[r]] = "live"
    BY <2>1, <2>6 DEF AloneReads
  <2>7. FamilyClosed'
    BY <2>1, <2>2, <2>6 DEF FamilyClosed, TypeOK
  <2>8. EndedHasNoSuccessor'
    <3>1. ASSUME ~ overlap PROVE tok[r] \notin ended
      BY <2>6, <3>1 DEF EndedRevoked
    <3>2. \A t \in Tokens : row'[t] # "absent" => Exists(t) \/ t = n
      BY <2>1, <2>2 DEF TypeOK, Exists
    <3>3. QED
      BY <2>1, <3>1, <3>2 DEF EndedHasNoSuccessor, TypeOK, Exists
  <2>9. QED
    BY <2>4, <2>5, <2>7, <2>8
\* The UPDATE has found every row of the family
<1>4. ASSUME NEW r \in Requests, FamilyCommit(r) PROVE AloneInv'
  <2>1. /\ pc[r] = "closed"
        /\ row' = [t \in Tokens |-> IF t \in scan[r] THEN "revoked" ELSE row[t]]
        /\ closed' = closed \union {family[tok[r]]}
        /\ Done(r) /\ UNCHANGED <<family, parent, ended, overlap>>
    BY <1>4 DEF FamilyCommit
  <2>2. EndedRevoked'
    BY <2>1 DEF EndedRevoked, TypeOK
  <2>3. AloneReads'
    BY <2>1, AloneDone
  <2>4. FamilyClosed'
    <3>1. ASSUME ~ overlap, NEW t \in Tokens, family[t] = family[tok[r]], row[t] = "live"
          PROVE  t \in scan[r]
      BY <2>1, <3>1 DEF AloneReads, SameFamily, Exists
    <3>2. QED
      BY <2>1, <3>1 DEF FamilyClosed
  <2>5. EndedHasNoSuccessor'
    <3>1. \A t \in scan[r] : Exists(t)
      BY DEF ReadsExist
    <3>2. QED
      BY <2>1, <3>1 DEF EndedHasNoSuccessor, Exists
  <2>6. QED
    BY <2>2, <2>3, <2>4, <2>5
\* A live row has no successor, and will have none
<1>5. ASSUME NEW r \in Requests, RevokeCommit(r) PROVE AloneInv'
  <2>1. /\ pc[r] = "revoked" /\ row' = [row EXCEPT ![tok[r]] = "revoked"]
        /\ ended' = (IF row[tok[r]] = "live" THEN ended \union {tok[r]} ELSE ended)
        /\ Done(r) /\ UNCHANGED <<family, parent, closed, overlap>>
    BY <1>5 DEF RevokeCommit
  <2>2. tok[r] \in Tokens /\ Exists(tok[r])
    BY <2>1 DEF ReadsExist
  <2>3. EndedRevoked' /\ FamilyClosed'
    BY <2>1, <2>2 DEF EndedRevoked, FamilyClosed, TypeOK
  <2>4. AloneReads'
    BY <2>1, AloneDone
  <2>5. EndedHasNoSuccessor'
    <3>1. ASSUME row[tok[r]] = "live", NEW n \in Tokens, Exists(n) PROVE parent[n] # tok[r]
      BY <2>2, <3>1 DEF NeverLiveWithSuccessor
    <3>2. \A n \in Tokens : row'[n] # "absent" => Exists(n)
      BY <2>1, <2>2 DEF TypeOK, Exists
    <3>3. QED
      BY <2>1, <3>1, <3>2 DEF EndedHasNoSuccessor, Exists
  <2>6. QED
    BY <2>3, <2>4, <2>5
<1>6. ASSUME NEW r \in Requests, Fail(r) \/ Deadlock(r) PROVE AloneInv'
  <2>1. pc[r] # "idle" /\ Done(r) /\ UNCHANGED <<row, family, parent, closed, ended, overlap>>
    <3>1. CASE Fail(r)
      BY <3>1 DEF Fail
    <3>2. CASE Deadlock(r)
      BY <3>2 DEF Deadlock, WaitInCircle, Waiting
    <3>3. QED
      BY <1>6, <3>1, <3>2
  <2>2. QED
    BY <2>1, AloneDone DEF EndedRevoked, FamilyClosed, EndedHasNoSuccessor, Exists
<1>7. CASE UNCHANGED vars
  BY <1>7 DEF vars, EndedRevoked, AloneReads, FamilyClosed, EndedHasNoSuccessor, SameFamily, Exists
<1>8. QED
  BY <1>1, <1>2, <1>3, <1>4, <1>5, <1>6, <1>7 DEF Next, Arrive, GoOn, NoRowLeft

LEMMA AloneInvariant == Spec => []AloneInv
<1>1. Init => AloneInv
  BY ConstantsAssumption
     DEF Init, AloneInv, EndedRevoked, AloneReads, FamilyClosed, EndedHasNoSuccessor
<1>2. QED
  BY <1>1, AloneNext, Invariance, PTL DEF Spec

\* As long as no two requests overlap, the replay of a rotated token leaves no live
\* token in its family, and no later refresh puts one there (the family UPDATE of
\* the refresh grant).
THEOREM FamilyStaysClosed == Spec => []FamilyClosed
<1>1. AloneInv => FamilyClosed
  BY DEF AloneInv
<1>2. QED
  BY <1>1, AloneInvariant, PTL

\* As long as no two requests overlap, no refresh continues a session that its user
\* has revoked (/oauth/revoke, revoke_session).
THEOREM EndedStaysEnded == Spec => []EndedHasNoSuccessor
<1>1. AloneInv => EndedHasNoSuccessor
  BY DEF AloneInv
<1>2. QED
  BY <1>1, AloneInvariant, PTL
=============================================================================
