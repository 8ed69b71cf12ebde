---------------------------- MODULE AdminRights ----------------------------
(***************************************************************************)
(* The rights of a tenant's users and the administrators who change them   *)
(* (app/admin/users.py, patch_user).  The administrator's row is read by   *)
(* the authentication of the request, the target's row by the handler; the *)
(* commit writes the columns that the request changes in that copy.        *)
(*                                                                         *)
(* Two more ways lead to the columns: the erasure of one's own account and *)
(* the routes of fastapi-users under /users, which are external.           *)
(***************************************************************************)
EXTENDS Handlers

CONSTANT Users

VARIABLES
  rights,    \* rights[u]: [active, super], as committed
  bypassed   \* history: rights have been changed otherwise than by patch_user

rightVars == <<rights, bypassed>>

Rights == [active : BOOLEAN, super : BOOLEAN]
IsAdmin(u) == rights[u].active /\ rights[u].super

RightsTypeOK ==
  /\ overlap \in BOOLEAN /\ bypassed \in BOOLEAN
  /\ rights \in [Users -> Rights]
  /\ \A r \in Requests :
       pc[r] # "idle" => /\ pc[r] = "patch"
                         /\ local[r] \in [target : Users, row : Rights, to : Rights]

RightsInit ==
  /\ HandlersInit
  /\ rights \in [Users -> [active : {TRUE}, super : BOOLEAN]]
  /\ \E u \in Users : IsAdmin(u)
  /\ bypassed = FALSE

-----------------------------------------------------------------------------
\* Mutation: an administrator may change the own account.
PatchReadAny(r, a, u) ==
  /\ IsAdmin(a)
  /\ \E x \in Rights : Begin(r, "patch", [target |-> u, row |-> rights[u], to |-> x])
  /\ UNCHANGED rightVars

\* 403 to others, 400 for the own account.  A column the body leaves out is the
\* copy's.
PatchRead(r, a, u) ==
  /\ IsAdmin(a) /\ u # a
  /\ \E x \in Rights : Begin(r, "patch", [target |-> u, row |-> rights[u], to |-> x])
  /\ UNCHANGED rightVars

\* The columns that differ from the copy are written, the others stay as they
\* are by now.
Merge(new, old, current) ==
  [c \in {"active", "super"} |-> IF new[c] # old[c] THEN new[c] ELSE current[c]]

PatchCommit(r) ==
  /\ pc[r] = "patch"
  /\ LET t == local[r] IN
       rights' = [rights EXCEPT ![t.target] = Merge(t.to, t.row, @)]
  /\ End(r)
  /\ UNCHANGED bypassed

\* An account erases itself, the last administrator's like any other.
EraseSelf(r, u) ==
  /\ rights[u].active
  /\ AtOnce(r)
  /\ rights' = [rights EXCEPT ![u].active = FALSE]
  /\ bypassed' = TRUE

\* PATCH /users/{id}: an administrator, and any account.
UsersRouterPatch(r, a, u) ==
  /\ IsAdmin(a)
  /\ AtOnce(r)
  /\ \E x \in Rights : rights' = [rights EXCEPT ![u] = x]
  /\ bypassed' = TRUE

RightsNext ==
  \E r \in Requests :
    \/ \E a \in Users, u \in Users : PatchRead(r, a, u) \/ UsersRouterPatch(r, a, u)
    \/ \E u \in Users : EraseSelf(r, u)
    \/ PatchCommit(r)
    \/ Fail(r) /\ UNCHANGED rightVars

RightsSpec == RightsInit /\ [][RightsNext]_<<reqVars, rightVars>>

-----------------------------------------------------------------------------
(* Safety as long as no two requests overlap; refuted without that: two    *)
(* administrators can take each other's rights away.                       *)

\* No sequence of patches leaves the tenant without an administrator: whoever
\* makes one is an active administrator still.
AdminRemains == ~ overlap /\ ~ bypassed => \E u \in Users : IsAdmin(u)
=============================================================================
