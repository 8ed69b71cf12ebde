--------------------------- MODULE AccountsProofs ---------------------------
(***************************************************************************)
(* Proofs about the components that keep accounts, for any number of       *)
(* requests: the ways to an access token, the rights of administrators,    *)
(* signups, invitations, the limits on a user's rows and on registrations. *)
(***************************************************************************)
EXTENDS AccountAccess, AdminRights, Signup, Invitations, RowLimits,
        RegistrationLimit, FiniteSetTheorems, TLAPS

-----------------------------------------------------------------------------
(* The requests                                                            *)

\* Every step of a handler keeps what overlap records: a request that comes in
\* beside another one sets it.
LEMMA HandlersStep ==
  ASSUME HandlersOK, NEW r \in Requests, NEW p, NEW x,
         Begin(r, p, x) \/ AtOnce(r) \/ (pc[r] # "idle" /\ Continue(r, p, x))
  PROVE  HandlersOK'
<1>1. CASE Begin(r, p, x)
  BY <1>1 DEF HandlersOK, Flying, Begin, Overlapping
<1>2. CASE AtOnce(r)
  BY <1>2 DEF HandlersOK, Flying, AtOnce, Overlapping
<1>3. CASE pc[r] # "idle" /\ Continue(r, p, x)
  BY <1>3 DEF HandlersOK, Flying, Continue
<1>4. QED
  BY <1>1, <1>2, <1>3

LEMMA HandlersStart == HandlersInit => HandlersOK
BY DEF HandlersInit, HandlersOK, Flying

\* A request that ends the overlap-free time is not noticed by what is claimed of
\* it: as long as none overlaps, whoever comes in finds nobody.
LEMMA NobodyElse ==
  ASSUME HandlersOK, NEW r \in Requests, AtOnce(r) \/ (\E p, x : Begin(r, p, x)), ~ overlap'
  PROVE  ~ overlap /\ Flying = {}
BY DEF HandlersOK, Flying, Begin, AtOnce, Overlapping

\* As long as none overlaps, a request in flight is the only one.
LEMMA Alone ==
  ASSUME HandlersOK, NEW r \in Requests, pc[r] # "idle", ~ overlap
  PROVE  Flying = {r}
BY DEF HandlersOK, Flying
-----------------------------------------------------------------------------
(* AccountAccess                                                           *)

\* SecondFactorHad and PolicyHoldsForPasswords, of one token.
FullSound(t) ==
  /\ t.route \notin {"enterprise", "impersonation", "pat"} /\ t.began.account.enrolled
       => t.factor \in Factors \/ t.factor \in vouched \ t.began.gone
  /\ t.route \in {"password", "step"} /\ t.began.policy => t.began.account.enrolled

\* What a request on its way to a token knows.  An enrolment and the revocation
\* of a device are never undone, so what its copies say of them stays true; and
\* the copy a password login decides on is the one it came in with.
WaySound(r) ==
  LET t == local[r] IN
    /\ t.began.account.erased # "yes"
    /\ t.began.account.enrolled \/ t.row.enrolled => account.enrolled
    /\ t.began.gone \subseteq In("gone")
    /\ pc[r] = "refresh" => t.route \in {"google", "enterprise"}
    /\ pc[r] = "decide" =>
         /\ t.route \in {"password", "google", "enterprise"}
         /\ t.began.account.enrolled => t.row.enrolled
         /\ t.route = "password" /\ t.row.enrolled => t.began.account.enrolled
    /\ pc[r] \in {"code", "remember"} => t.route = "step" /\ t.began.account.enrolled
    /\ pc[r] = "remember" => t.factor \in Factors
    /\ pc[r] = "full" => FullSound(t)

WaysSound == \A r \in Requests : OnWay(r) => WaySound(r)

\* An erased account is not active; the pending token shows an enrolment; and a
\* device that is trusted was remembered with a code.
AccountSound ==
  /\ account.erased = "yes" => ~ account.active
  /\ pending => account.enrolled
  /\ In("live") \subseteq vouched

\* A request that is alone has found an account that is not erased, and an erasure
\* has seen every device there is.
ErasureSeen ==
  ~ overlap =>
    /\ \A r \in Flying : /\ account.erased # "yes"
                         /\ pc[r] = "erase" => local[r].devices = In("live")
    /\ account.erased = "yes" => In("live") = {}

AccessInv == HandlersOK /\ AccessTypeOK /\ AccountSound /\ WaysSound /\ ErasureSeen

\* What no step takes back.
Forward ==
  /\ account.enrolled => account'.enrolled
  /\ In("gone") \subseteq In("gone")'
  /\ vouched \subseteq vouched'

\* What a request knows stays true while others go on.
LEMMA WayStays ==
  ASSUME NEW q \in Requests, WaySound(q), Forward, pc'[q] = pc[q], local'[q] = local[q]
  PROVE  WaySound(q)'
<1>1. pc[q] = "full" => FullSound(local[q])'
  BY DEF WaySound, FullSound, Forward
<1>2. QED
  BY <1>1 DEF WaySound, Forward

\* The others' part of a step of r.
LEMMA WaysStay ==
  ASSUME WaysSound, HandlersOK, Forward, NEW r \in Requests,
         \A q \in Requests \ {r} : pc'[q] = pc[q] /\ local'[q] = local[q],
         OnWay(r)' => WaySound(r)'
  PROVE  WaysSound'
<1> SUFFICES ASSUME NEW q \in Requests, OnWay(q)' PROVE WaySound(q)'
  BY DEF WaysSound
<1>1. CASE q = r
  BY <1>1
<1>2. CASE q # r
  <2>1. OnWay(q)
    BY <1>2 DEF OnWay
  <2>2. WaySound(q)
    BY <2>1 DEF WaysSound
  <2>3. QED
    BY <1>2, <2>2, WayStays
<1>3. QED
  BY <1>1, <1>2

LEMMA AccessInvInit == AccessInit => AccessInv
<1> SUFFICES ASSUME AccessInit PROVE AccessInv
  OBVIOUS
<1>1. HandlersOK
  BY HandlersStart DEF AccessInit
<1>2. PICK e \in BOOLEAN : account = [active |-> TRUE, enrolled |-> e, erased |-> "no"]
  BY DEF AccessInit
<1>3. AccessTypeOK
  <2>1. account \in AccountRow
    BY <1>2 DEF AccountRow
  <2>2. QED
    BY <2>1 DEF AccessInit, HandlersInit, AccessTypeOK, OnWay
<1>4. AccountSound
  BY <1>2 DEF AccessInit, AccountSound, In
<1>5. WaysSound
  BY DEF AccessInit, HandlersInit, WaysSound, OnWay
<1>6. ErasureSeen
  BY <1>2 DEF AccessInit, HandlersInit, ErasureSeen, Flying
<1>7. QED
  BY <1>1, <1>3, <1>4, <1>5, <1>6 DEF AccessInv

\* A request that only reads the account as it comes in.
LEMMA AccessRead ==
  ASSUME AccessInv, NEW r \in Requests,
         NEW p \in {"decide", "full", "code"}, NEW route \in Routes,
         Begin(r, p, Asking(route)), UNCHANGED accessVars,
         account.erased # "yes",
         p = "decide" => route = "password",
         p = "full" => route \in {"impersonation", "pat"},
         p = "code" => route = "step" /\ pending
  PROVE  AccessInv'
<1> USE DEF AccessInv, accessVars
<1>1. HandlersOK'
  BY HandlersStep
<1>2. /\ pc' = [pc EXCEPT ![r] = p] /\ local' = [local EXCEPT ![r] = Asking(route)]
      /\ pc'[r] = p /\ local'[r] = Asking(route)
      /\ \A q \in Requests \ {r} : pc'[q] = pc[q] /\ local'[q] = local[q]
  BY DEF Begin, HandlersOK
<1>3. Asking(route) \in Ways
  BY DEF Asking, Ways, Facts, In, AccessTypeOK
<1>4. AccessTypeOK'
  BY <1>1, <1>2, <1>3 DEF HandlersOK, AccessTypeOK, OnWay
<1>5. AccountSound'
  BY DEF AccountSound, In
<1>6. WaysSound'
  <2>1. WaySound(r)'
    BY <1>2 DEF WaySound, FullSound, Asking, In, AccountSound
  <2>2. Forward
    BY DEF Forward, In
  <2>3. QED
    BY <1>2, <2>1, <2>2, WaysStay
<1>7. ErasureSeen'
  <2> SUFFICES ASSUME ~ overlap' PROVE ErasureSeen'
    BY DEF ErasureSeen
  <2>1. ~ overlap /\ Flying = {}
    BY NobodyElse
  <2>2. \A q \in Flying' : q = r /\ pc'[q] # "erase"
    BY <1>2, <2>1 DEF Flying
  <2>3. QED
    BY <2>1, <2>2 DEF ErasureSeen, In
<1>8. QED
  BY <1>1, <1>4, <1>5, <1>6, <1>7

\* A request that ends, or goes on, and leaves everything else as it is.
LEMMA AccessGo ==
  ASSUME AccessInv, NEW r \in Requests, pc[r] # "idle",
         NEW p \in {"idle", "decide", "remember", "full"}, NEW x, Continue(r, p, x),
         UNCHANGED accessVars,
         p # "idle" => x \in Ways /\ WaySound(r)'
  PROVE  AccessInv'
<1> USE DEF AccessInv, accessVars
<1>1. HandlersOK'
  BY HandlersStep
<1>2. /\ pc' = [pc EXCEPT ![r] = p] /\ local' = [local EXCEPT ![r] = x]
      /\ pc'[r] = p /\ local'[r] = x /\ overlap' = overlap
      /\ \A q \in Requests \ {r} : pc'[q] = pc[q] /\ local'[q] = local[q]
  BY DEF Continue, HandlersOK
<1>3. AccessTypeOK'
  BY <1>1, <1>2 DEF HandlersOK, AccessTypeOK, OnWay
<1>4. AccountSound'
  BY DEF AccountSound, In
<1>5. WaysSound'
  <2>1. OnWay(r)' => WaySound(r)'
    BY <1>2 DEF OnWay
  <2>2. Forward
    BY DEF Forward, In
  <2>3. QED
    BY <1>2, <2>1, <2>2, WaysStay
<1>6. ErasureSeen'
  BY <1>2 DEF ErasureSeen, Flying, In
<1>7. QED
  BY <1>1, <1>3, <1>4, <1>5, <1>6
\* A statement of its own beside the requests: it takes nothing back, trusts no
\* further device, and leaves no erased account active.
LEMMA AccessBeside ==
  ASSUME AccessInv, NEW r \in Requests, AtOnce(r), AccessTypeOK', Forward,
         account'.erased = "yes" => account.erased = "yes" /\ ~ account'.active,
         In("live")' \subseteq In("live"), UNCHANGED <<pending, vouched>>
  PROVE  AccessInv'
<1> USE DEF AccessInv
<1>1. HandlersOK'
  BY HandlersStep
<1>2. UNCHANGED <<pc, local>>
  BY DEF AtOnce
<1>3. AccountSound'
  BY DEF AccountSound, Forward
<1>4. WaysSound'
  <2>1. OnWay(r)' => WaySound(r)'
    BY <1>2, WayStays DEF OnWay, WaysSound
  <2>2. QED
    BY <1>2, <2>1, WaysStay
<1>5. ErasureSeen'
  <2> SUFFICES ASSUME ~ overlap' PROVE ErasureSeen'
    BY DEF ErasureSeen
  <2>1. ~ overlap /\ Flying = {}
    BY NobodyElse
  <2>2. Flying' = {}
    BY <1>2, <2>1 DEF Flying
  <2>3. QED
    BY <2>1, <2>2 DEF ErasureSeen
<1>6. QED
  BY <1>1, <1>3, <1>4, <1>5

LEMMA AccessInvNext ==
  ASSUME AccessInv, [AccessNext]_<<reqVars, accessVars>>
  PROVE  AccessInv'
<1> USE DEF AccessInv, accessVars
\* Requests that come in
<1>1. ASSUME NEW r \in Requests, LoginRead(r) \/ ImpersonateUser(r) \/ PatDispatch(r) \/ StepRead(r)
      PROVE  AccessInv'
  <2>1. account.erased # "yes" /\ UNCHANGED accessVars
    BY <1>1 DEF LoginRead, ImpersonateUser, PatDispatch, StepRead, Reachable, AccountSound
  <2>2. CASE LoginRead(r)
    BY <2>1, <2>2, AccessRead DEF LoginRead, Routes
  <2>3. CASE ImpersonateUser(r)
    BY <2>1, <2>3, AccessRead DEF ImpersonateUser, Routes
  <2>4. CASE StepRead(r)
    BY <2>1, <2>4, AccessRead DEF StepRead, Routes
  <2>5. CASE PatDispatch(r)
    BY <2>1, <2>5, AccessRead DEF PatDispatch, Routes
  <2>6. QED
    BY <1>1, <2>2, <2>3, <2>4, <2>5
<1>2. ASSUME NEW r \in Requests, NEW route \in {"google", "enterprise"}, Upsert(r, route)
      PROVE  AccessInv'
  <2>1. HandlersOK'
    BY <1>2, HandlersStep DEF Upsert
  <2>2. /\ pc' = [pc EXCEPT ![r] = "refresh"] /\ local' = [local EXCEPT ![r] = Asking(route)]
        /\ pc'[r] = "refresh" /\ local'[r] = Asking(route)
        /\ \A q \in Requests \ {r} : pc'[q] = pc[q] /\ local'[q] = local[q]
    BY <1>2 DEF Upsert, Begin, HandlersOK
  <2>3. /\ account' = [active |-> TRUE, enrolled |-> account.enrolled, erased |-> "no"]
        /\ account.erased = "no" /\ UNCHANGED <<policy, provider, device, pending, vouched>>
    BY <1>2 DEF Upsert, Reachable, AccessTypeOK, AccountRow
  <2>4. AccessTypeOK'
    <3>1. Asking(route) \in Ways
      BY DEF Asking, Ways, Facts, In, AccessTypeOK, Routes
    <3>2. account' \in AccountRow
      BY <2>3 DEF AccessTypeOK, AccountRow
    <3>3. QED
      BY <2>1, <2>2, <2>3, <3>1, <3>2 DEF HandlersOK, AccessTypeOK, OnWay
  <2>5. AccountSound'
    BY <2>3 DEF AccountSound, In
  <2>6. WaysSound'
    <3>1. WaySound(r)'
      BY <2>2, <2>3 DEF WaySound, Asking, In
    <3>2. Forward
      BY <2>3 DEF Forward, In
    <3>3. QED
      BY <2>2, <3>1, <3>2, WaysStay
  <2>7. ErasureSeen'
    <3> SUFFICES ASSUME ~ overlap' PROVE ErasureSeen'
      BY DEF ErasureSeen
    <3>1. ~ overlap /\ Flying = {}
      BY <1>2, NobodyElse DEF Upsert
    <3>2. \A q \in Flying' : q = r
      BY <2>2, <3>1 DEF Flying
    <3>3. QED
      BY <2>2, <2>3, <3>2 DEF ErasureSeen
  <2>8. QED
    BY <2>1, <2>4, <2>5, <2>6, <2>7
<1>3. ASSUME NEW r \in Requests, EraseDelete(r) PROVE AccessInv'
  <2>1. HandlersOK'
    BY <1>3, HandlersStep DEF EraseDelete
  <2>2. /\ pc' = [pc EXCEPT ![r] = "erase"]
        /\ local' = [local EXCEPT ![r] = [devices |-> In("live")]]
        /\ pc'[r] = "erase" /\ local'[r] = [devices |-> In("live")]
        /\ \A q \in Requests \ {r} : pc'[q] = pc[q] /\ local'[q] = local[q]
        /\ UNCHANGED accessVars
    BY <1>3 DEF EraseDelete, Begin, HandlersOK
  <2>3. AccessTypeOK'
    <3>1. In("live") \subseteq Devices
      BY DEF In
    <3>2. QED
      BY <2>1, <2>2, <3>1 DEF HandlersOK, AccessTypeOK, OnWay
  <2>4. AccountSound'
    BY <2>2 DEF AccountSound, In
  <2>5. WaysSound'
    <3>1. ~ OnWay(r)'
      BY <2>2 DEF OnWay
    <3>2. Forward
      BY <2>2 DEF Forward, In
    <3>3. QED
      BY <2>2, <3>1, <3>2, WaysStay
  <2>6. ErasureSeen'
    <3> SUFFICES ASSUME ~ overlap' PROVE ErasureSeen'
      BY DEF ErasureSeen
    <3>1. ~ overlap /\ Flying = {}
      BY <1>3, NobodyElse DEF EraseDelete
    <3>2. \A q \in Flying' : q = r
      BY <2>2, <3>1 DEF Flying
    <3>3. account.erased # "yes"
      BY <1>3 DEF EraseDelete, AccountSound
    <3>4. QED
      BY <2>2, <3>2, <3>3 DEF ErasureSeen, In
  <2>7. QED
    BY <2>1, <2>3, <2>4, <2>5, <2>6
\* Decisions
<1>4. ASSUME NEW r \in Requests, RefreshUpserted(r) PROVE AccessInv'
  <2> DEFINE x == [local[r] EXCEPT !.row = account]
  <2>1. pc[r] = "refresh" /\ Continue(r, "decide", x) /\ UNCHANGED accessVars
    BY <1>4 DEF RefreshUpserted
  <2>2. OnWay(r) /\ local[r] \in Ways /\ WaySound(r)
    BY <2>1 DEF OnWay, AccessTypeOK, WaysSound
  <2>3. x = [route |-> local[r].route, row |-> account, factor |-> local[r].factor,
             began |-> local[r].began]
    BY <2>2 DEF Ways
  <2>4. x \in Ways
    BY <2>2, <2>3 DEF Ways, AccessTypeOK
  <2>5. pc'[r] = "decide" /\ local'[r] = x
    BY <2>1 DEF Continue, HandlersOK
  <2>6. WaySound(r)'
    BY <2>1, <2>2, <2>3, <2>5 DEF WaySound, In
  <2>7. QED
    BY <2>1, <2>4, <2>6, AccessGo
<1>5. ASSUME NEW r \in Requests, Grant(r) PROVE AccessInv'
  <2>1. /\ pc[r] = "decide" /\ Continue(r, "full", local[r]) /\ UNCHANGED accessVars
        /\ ~ Barred(local[r]) /\ ~ StepUp(local[r])
    BY <1>5 DEF Grant
  <2>2. local[r] \in Ways /\ WaySound(r)
    BY <2>1 DEF OnWay, AccessTypeOK, WaysSound
  <2>3. pc'[r] = "full" /\ local'[r] = local[r]
    BY <2>1 DEF Continue, HandlersOK
  <2>4. FullSound(local[r])
    BY <2>1, <2>2 DEF FullSound, WaySound, Barred, StepUp, RequiresMfa
  <2>5. WaySound(r)'
    BY <2>1, <2>2, <2>3, <2>4 DEF WaySound, FullSound, In
  <2>6. QED
    BY <2>1, <2>2, <2>5, AccessGo
<1>6. ASSUME NEW r \in Requests, GrantByDevice(r) PROVE AccessInv'
  <2>1. PICK d \in Devices :
          /\ pc[r] = "decide" /\ StepUp(local[r]) /\ UNCHANGED accessVars
          /\ device[d] = "live" /\ Continue(r, "full", [local[r] EXCEPT !.factor = d])
    BY <1>6 DEF GrantByDevice, IsTrusted
  <2> DEFINE x == [local[r] EXCEPT !.factor = d]
  <2>2. local[r] \in Ways /\ WaySound(r)
    BY <2>1 DEF OnWay, AccessTypeOK, WaysSound
  <2>3. x = [route |-> local[r].route, row |-> local[r].row, factor |-> d,
             began |-> local[r].began]
    BY <2>2 DEF Ways
  <2>4. x \in Ways
    BY <2>2, <2>3 DEF Ways
  <2>5. pc'[r] = "full" /\ local'[r] = x
    BY <2>1 DEF Continue, HandlersOK
  <2>6. d \in vouched \ local[r].began.gone
    BY <2>1, <2>2 DEF WaySound, AccountSound, In
  <2>7. FullSound(x)
    BY <2>1, <2>2, <2>3, <2>6 DEF FullSound, WaySound, StepUp, RequiresMfa
  <2>8. WaySound(r)'
    BY <2>1, <2>2, <2>3, <2>5, <2>7 DEF WaySound, FullSound, In
  <2>9. QED
    BY <2>1, <2>4, <2>8, AccessGo
<1>7. ASSUME NEW r \in Requests, GrantPending(r) PROVE AccessInv'
  <2>1. HandlersOK'
    BY <1>7, HandlersStep DEF GrantPending, End
  <2>2. /\ pc[r] = "decide" /\ StepUp(local[r]) /\ pending' = TRUE
        /\ pc' = [pc EXCEPT ![r] = "idle"] /\ local' = [local EXCEPT ![r] = <<>>]
        /\ pc'[r] = "idle" /\ overlap' = overlap
        /\ \A q \in Requests \ {r} : pc'[q] = pc[q] /\ local'[q] = local[q]
        /\ UNCHANGED <<account, policy, provider, device, vouched>>
    BY <1>7 DEF GrantPending, End, Continue, HandlersOK
  <2>3. AccessTypeOK'
    BY <2>1, <2>2 DEF HandlersOK, AccessTypeOK, OnWay
  <2>4. account.enrolled
    BY <2>2 DEF OnWay, WaysSound, WaySound, StepUp, RequiresMfa
  <2>5. AccountSound'
    BY <2>2, <2>4 DEF AccountSound, In
  <2>6. WaysSound'
    <3>1. ~ OnWay(r)'
      BY <2>2 DEF OnWay
    <3>2. Forward
      BY <2>2 DEF Forward, In
    <3>3. QED
      BY <2>2, <3>1, <3>2, WaysStay
  <2>7. ErasureSeen'
    BY <2>2 DEF ErasureSeen, Flying, In
  <2>8. QED
    BY <2>1, <2>3, <2>5, <2>6, <2>7
\* The second factor
<1>8. ASSUME NEW r \in Requests, NEW f \in Factors, CodeRight(r, f) PROVE AccessInv'
  <2>1. PICK p \in {"full", "remember"} :
          /\ pc[r] = "code" /\ UNCHANGED accessVars
          /\ Continue(r, p, [local[r] EXCEPT !.factor = f])
    BY <1>8 DEF CodeRight
  <2> DEFINE x == [local[r] EXCEPT !.factor = f]
  <2>2. local[r] \in Ways /\ WaySound(r)
    BY <2>1 DEF OnWay, AccessTypeOK, WaysSound
  <2>3. x = [route |-> local[r].route, row |-> local[r].row, factor |-> f,
             began |-> local[r].began]
    BY <2>2 DEF Ways
  <2>4. x \in Ways
    BY <2>2, <2>3 DEF Ways
  <2>5. pc'[r] = p /\ local'[r] = x
    BY <2>1 DEF Continue, HandlersOK
  <2>6. FullSound(x)
    BY <2>1, <2>2, <2>3 DEF FullSound, WaySound
  <2>7. WaySound(r)'
    BY <2>1, <2>2, <2>3, <2>5, <2>6 DEF WaySound, FullSound, In
  <2>8. QED
    BY <2>1, <2>4, <2>7, AccessGo
<1>9. ASSUME NEW r \in Requests, Remember(r) PROVE AccessInv'
  <2>1. HandlersOK'
    BY <1>9, HandlersStep DEF Remember
  <2>2. /\ pc[r] = "remember"
        /\ pc' = [pc EXCEPT ![r] = "full"] /\ local' = [local EXCEPT ![r] = local[r]]
        /\ pc'[r] = "full" /\ local'[r] = local[r] /\ overlap' = overlap
        /\ \A q \in Requests \ {r} : pc'[q] = pc[q] /\ local'[q] = local[q]
        /\ UNCHANGED <<account, policy, provider, pending>>
    BY <1>9 DEF Remember, Continue, HandlersOK
  <2>3. local[r] \in Ways /\ WaySound(r)
    BY <2>2 DEF OnWay, AccessTypeOK, WaysSound
  <2>4. PICK d \in Devices : /\ device[d] = "unused"
                             /\ device' = [device EXCEPT ![d] = "live"]
                             /\ vouched' = vouched \union {d}
    BY <1>9, <2>2, <2>3 DEF Remember, In, WaySound
  <2>5. AccessTypeOK'
    BY <2>1, <2>2, <2>3, <2>4 DEF HandlersOK, AccessTypeOK, OnWay
  <2>6. AccountSound'
    BY <2>2, <2>4 DEF AccountSound, In, AccessTypeOK
  <2>7. Forward
    BY <2>2, <2>4 DEF Forward, In, AccessTypeOK
  <2>8. WaysSound'
    <3>1. FullSound(local[r])'
      BY <2>2, <2>3 DEF FullSound, WaySound
    <3>2. WaySound(r)'
      BY <2>2, <2>3, <2>7, <3>1 DEF WaySound, Forward
    <3>3. QED
      BY <2>2, <2>7, <3>2, WaysStay
  <2>9. ErasureSeen'
    <3> SUFFICES ASSUME ~ overlap PROVE ErasureSeen'
      BY <2>2 DEF ErasureSeen
    <3>1. Flying = {r} /\ Flying' = {r}
      BY <2>2, Alone DEF Flying
    <3>2. account.erased # "yes"
      BY <3>1 DEF ErasureSeen
    <3>3. QED
      BY <2>2, <3>1, <3>2 DEF ErasureSeen
  <2>10. QED
    BY <2>1, <2>5, <2>6, <2>8, <2>9
\* Requests that end
<1>10. ASSUME NEW r \in Requests,
              LoginBarred(r) \/ Respond(r) \/ (Fail(r) /\ UNCHANGED accessVars)
       PROVE  AccessInv'
  <2>1. pc[r] # "idle" /\ Continue(r, "idle", <<>>) /\ UNCHANGED accessVars
    BY <1>10 DEF LoginBarred, Respond, Fail, End
  <2>2. QED
    BY <2>1, AccessGo
<1>11. ASSUME NEW r \in Requests, EraseCommit(r) PROVE AccessInv'
  <2>1. HandlersOK'
    BY <1>11, HandlersStep DEF EraseCommit, End
  <2>2. /\ pc[r] = "erase"
        /\ pc' = [pc EXCEPT ![r] = "idle"] /\ local' = [local EXCEPT ![r] = <<>>]
        /\ pc'[r] = "idle" /\ overlap' = overlap
        /\ \A q \in Requests \ {r} : pc'[q] = pc[q] /\ local'[q] = local[q]
        /\ UNCHANGED <<policy, provider, pending, vouched>>
    BY <1>11 DEF EraseCommit, End, Continue, HandlersOK
  <2>3. account' = [active |-> FALSE, enrolled |-> account.enrolled, erased |-> "yes"]
    BY <1>11 DEF EraseCommit, AccessTypeOK, AccountRow
  <2>4. /\ device' = [d \in Devices |-> IF d \in local[r].devices THEN "gone" ELSE device[d]]
        /\ local[r].devices \subseteq Devices
    BY <1>11, <2>2 DEF EraseCommit, Deleted, AccessTypeOK
  <2>5. AccessTypeOK'
    <3>1. account' \in AccountRow
      BY <2>3 DEF AccessTypeOK, AccountRow
    <3>2. QED
      BY <2>1, <2>2, <2>4, <3>1 DEF HandlersOK, AccessTypeOK, OnWay
  <2>6. AccountSound'
    BY <2>2, <2>3, <2>4 DEF AccountSound, In
  <2>7. Forward
    BY <2>2, <2>3, <2>4 DEF Forward, In
  <2>8. WaysSound'
    <3>1. ~ OnWay(r)'
      BY <2>2 DEF OnWay
    <3>2. QED
      BY <2>2, <2>7, <3>1, WaysStay
  <2>9. ErasureSeen'
    <3> SUFFICES ASSUME ~ overlap PROVE ErasureSeen'
      BY <2>2 DEF ErasureSeen
    <3>1. Flying = {r} /\ Flying' = {}
      BY <2>2, Alone DEF Flying
    <3>2. local[r].devices = In("live")
      BY <2>2, <3>1 DEF ErasureSeen
    <3>3. In("live")' = {}
      BY <2>4, <3>2 DEF In
    <3>4. QED
      BY <3>1, <3>3 DEF ErasureSeen
  <2>10. QED
    BY <2>1, <2>5, <2>6, <2>8, <2>9
\* What else changes the account
<1>12. ASSUME NEW r \in Requests, ActivateTotp(r) \/ PatchActive(r) PROVE AccessInv'
  <2>1. AtOnce(r) /\ UNCHANGED <<policy, provider, device, pending, vouched>>
    BY <1>12 DEF ActivateTotp, PatchActive
  <2>2. /\ account' \in AccountRow /\ (account.enrolled => account'.enrolled)
        /\ account'.erased = "yes" => account.erased = "yes" /\ ~ account'.active
    <3>1. CASE ActivateTotp(r)
      <4>1. account' = [active |-> account.active, enrolled |-> TRUE, erased |-> account.erased]
        BY <3>1 DEF ActivateTotp, AccessTypeOK, AccountRow
      <4>2. account.erased # "yes"
        BY <3>1 DEF ActivateTotp, AccountSound
      <4>3. QED
        BY <4>1, <4>2 DEF AccessTypeOK, AccountRow
    <3>2. CASE PatchActive(r)
      <4>1. PICK b \in BOOLEAN :
              account' = [account EXCEPT !.active = b,
                            !.erased = IF b /\ @ = "yes" THEN "restored" ELSE @]
        BY <3>2 DEF PatchActive
      <4>2. account' = [active |-> b, enrolled |-> account.enrolled,
                        erased |-> IF b /\ account.erased = "yes" THEN "restored"
                                   ELSE account.erased]
        BY <4>1 DEF AccessTypeOK, AccountRow
      <4>3. QED
        BY <4>2 DEF AccessTypeOK, AccountRow
    <3>3. QED
      BY <1>12, <3>1, <3>2
  <2>3. AccessTypeOK'
    BY <2>1, <2>2, HandlersStep DEF AtOnce, HandlersOK, AccessTypeOK, OnWay
  <2>4. Forward /\ In("live")' = In("live")
    BY <2>1, <2>2 DEF Forward, In
  <2>5. QED
    BY <2>1, <2>2, <2>3, <2>4, AccessBeside
<1>13. ASSUME NEW r \in Requests, SetMfaPolicy(r) \/ ConfigureIdp(r) \/ UpdateIdpConfig(r)
       PROVE  AccessInv'
  <2>1. /\ AtOnce(r) /\ UNCHANGED <<account, device, pending, vouched>>
        /\ policy' \in BOOLEAN /\ provider' \in BOOLEAN
    BY <1>13 DEF SetMfaPolicy, ConfigureIdp, UpdateIdpConfig, AccessTypeOK
  <2>2. AccessTypeOK'
    BY <2>1, HandlersStep DEF AtOnce, HandlersOK, AccessTypeOK, OnWay
  <2>3. Forward /\ In("live")' = In("live")
    BY <2>1 DEF Forward, In
  <2>4. QED
    BY <2>1, <2>2, <2>3, AccessBeside DEF AccountSound
<1>14. ASSUME NEW r \in Requests, RevokeDevice(r) \/ RevokeAllDevices(r) PROVE AccessInv'
  <2>1. AtOnce(r) /\ UNCHANGED <<account, policy, provider, pending, vouched>>
    BY <1>14 DEF RevokeDevice, RevokeAllDevices
  <2>2. /\ device' \in [Devices -> {"unused", "live", "gone"}]
        /\ In("gone") \subseteq In("gone")' /\ In("live")' \subseteq In("live")
    <3>1. CASE RevokeDevice(r)
      BY <3>1 DEF RevokeDevice, In, AccessTypeOK
    <3>2. CASE RevokeAllDevices(r)
      BY <3>2 DEF RevokeAllDevices, Deleted, In, AccessTypeOK
    <3>3. QED
      BY <1>14, <3>1, <3>2
  <2>3. AccessTypeOK'
    BY <2>1, <2>2, HandlersStep DEF AtOnce, HandlersOK, AccessTypeOK, OnWay
  <2>4. Forward
    BY <2>1, <2>2 DEF Forward
  <2>5. QED
    BY <2>1, <2>2, <2>3, <2>4, AccessBeside DEF AccountSound
<1>15. CASE PendingExpires
  <2>1. /\ pending' = FALSE
        /\ UNCHANGED <<now, pc, local, overlap, account, policy, provider, device, vouched>>
    BY <1>15 DEF PendingExpires, reqVars
  <2>2. HandlersOK' /\ AccessTypeOK' /\ AccountSound' /\ ErasureSeen'
    BY <2>1 DEF HandlersOK, AccessTypeOK, OnWay, AccountSound, ErasureSeen, Flying, In
  <2>3. WaysSound'
    BY <2>1 DEF WaysSound, OnWay, WaySound, FullSound, In
  <2>4. QED
    BY <2>2, <2>3
<1>16. CASE UNCHANGED <<reqVars, accessVars>>
  <2>1. HandlersOK' /\ AccessTypeOK' /\ AccountSound' /\ ErasureSeen'
    BY <1>16 DEF reqVars, HandlersOK, AccessTypeOK, OnWay, AccountSound, ErasureSeen, Flying, In
  <2>2. WaysSound'
    BY <1>16 DEF reqVars, WaysSound, OnWay, WaySound, FullSound, In
  <2>3. QED
    BY <2>1, <2>2
<1>17. ASSUME NEW r \in Requests, GoogleCallback(r) \/ EnterpriseCallback(r) PROVE AccessInv'
  BY <1>2, <1>17 DEF GoogleCallback, EnterpriseCallback
<1>18. ASSUME NEW r \in Requests, TotpVerify(r) \/ BackupVerify(r) PROVE AccessInv'
  BY <1>8, <1>18 DEF TotpVerify, BackupVerify, Factors
<1>19. QED
  BY <1>1, <1>3, <1>4, <1>5, <1>6, <1>7, <1>9, <1>10, <1>11, <1>12, <1>13, <1>14, <1>15, <1>16,
     <1>17, <1>18 DEF AccessNext

LEMMA AccessInvariant == AccessSpec => []AccessInv
<1>1. QED
  BY AccessInvInit, AccessInvNext, PTL DEF AccessSpec

\* The rows, the histories and the requests keep their types.
THEOREM AccessTypeCorrect == AccessSpec => []AccessTypeOK
<1>1. AccessInv => AccessTypeOK
  BY DEF AccessInv
<1>2. QED
  BY <1>1, AccessInvariant, PTL

\* A full token of a user who had enrolled took a second factor, except through
\* the tenant's provider or an administrator, whatever else was going on (login,
\* google_callback, verify_totp_login and their helpers).
THEOREM SecondFactorTaken == AccessSpec => []SecondFactorHad
<1>1. AccessInv => SecondFactorHad
  BY DEF AccessInv, WaysSound, WaySound, FullSound, SecondFactorHad, Issued, OnWay
<1>2. QED
  BY <1>1, AccessInvariant, PTL

\* No password login gets round the tenant's require_mfa.
THEOREM PasswordsBarred == AccessSpec => []PolicyHoldsForPasswords
<1>1. AccessInv => PolicyHoldsForPasswords
  BY DEF AccessInv, WaysSound, WaySound, FullSound, PolicyHoldsForPasswords, Issued, OnWay
<1>2. QED
  BY <1>1, AccessInvariant, PTL

\* No request that comes in after an erasure gets a token, and as long as no two
\* requests overlap no trusted device survives it (erase_my_account).
THEOREM ErasedStaysGone == AccessSpec => []ErasedIsGone
<1>1. AccessInv => ErasedIsGone
  BY DEF AccessInv, WaysSound, WaySound, ErasureSeen, ErasedIsGone, Issued, OnWay
<1>2. QED
  BY <1>1, AccessInvariant, PTL
-----------------------------------------------------------------------------
(* AdminRights                                                             *)

\* A patch that is alone was begun by an administrator, who is not its target and
\* whose rights nobody has changed since.
MakerStays ==
  ~ overlap /\ ~ bypassed =>
    \A r \in Flying : \E u \in Users : u # local[r].target /\ IsAdmin(u)

RightsInv == HandlersOK /\ RightsTypeOK /\ AdminRemains /\ MakerStays

LEMMA MergeType == ASSUME NEW x \in Rights, NEW y \in Rights, NEW z \in Rights
                   PROVE  Merge(x, y, z) \in Rights
<1>1. Merge(x, y, z) = [active |-> IF x.active # y.active THEN x.active ELSE z.active,
                        super  |-> IF x.super # y.super THEN x.super ELSE z.super]
  BY DEF Merge
<1>2. QED
  BY <1>1 DEF Rights

LEMMA ChangeType ==
  ASSUME NEW x \in Rights, NEW b \in BOOLEAN PROVE [x EXCEPT !.active = b] \in Rights
<1>1. [x EXCEPT !.active = b] = [active |-> b, super |-> x.super]
  BY DEF Rights
<1>2. QED
  BY <1>1 DEF Rights

LEMMA RightsInvInit == RightsInit => RightsInv
<1> SUFFICES ASSUME RightsInit PROVE RightsInv
  OBVIOUS
<1>1. HandlersOK
  BY HandlersStart DEF RightsInit
<1>2. RightsTypeOK
  BY DEF RightsInit, HandlersInit, RightsTypeOK, Rights
<1>3. AdminRemains /\ MakerStays
  BY DEF RightsInit, HandlersInit, AdminRemains, MakerStays, Flying
<1>4. QED
  BY <1>1, <1>2, <1>3 DEF RightsInv

LEMMA RightsInvNext == RightsInv /\ [RightsNext]_<<reqVars, rightVars>> => RightsInv'
<1> SUFFICES ASSUME RightsInv, [RightsNext]_<<reqVars, rightVars>> PROVE RightsInv'
  OBVIOUS
<1> USE DEF RightsInv
<1>1. ASSUME NEW r \in Requests, NEW a \in Users, NEW u \in Users, PatchRead(r, a, u)
      PROVE  RightsInv'
  <2>1. PICK x \in Rights :
          /\ IsAdmin(a) /\ u # a /\ UNCHANGED rightVars
          /\ Begin(r, "patch", [target |-> u, row |-> rights[u], to |-> x])
    BY <1>1 DEF PatchRead
  <2>2. HandlersOK'
    BY <2>1, HandlersStep
  <2>3. /\ pc[r] = "idle" /\ pc' = [pc EXCEPT ![r] = "patch"]
        /\ local' = [local EXCEPT ![r] = [target |-> u, row |-> rights[u], to |-> x]]
        /\ rights' = rights /\ bypassed' = bypassed
    BY <2>1 DEF Begin, rightVars
  <2>4. RightsTypeOK'
    BY <2>2, <2>3 DEF RightsTypeOK, HandlersOK
  <2>5. ASSUME ~ overlap' PROVE ~ overlap /\ Flying' = {r}
    BY <2>1, <2>2, <2>3, <2>5, NobodyElse DEF HandlersOK, Flying
  <2>6. AdminRemains'
    BY <2>1, <2>3 DEF AdminRemains, IsAdmin
  <2>7. MakerStays'
    BY <2>1, <2>3, <2>5 DEF MakerStays, IsAdmin, HandlersOK
  <2>8. QED
    BY <2>2, <2>4, <2>6, <2>7
\* The erasure and the external routes are recorded; nothing is claimed of what
\* they leave.
<1>2. ASSUME NEW r \in Requests, NEW a \in Users, NEW u \in Users,
             EraseSelf(r, u) \/ UsersRouterPatch(r, a, u)
      PROVE  RightsInv'
  <2>1. AtOnce(r) /\ bypassed' = TRUE
    BY <1>2 DEF EraseSelf, UsersRouterPatch
  <2>2. rights' \in [Users -> Rights]
    <3>1. CASE EraseSelf(r, u)
      <4> DEFINE y == [rights[u] EXCEPT !.active = FALSE]
      <4>1. rights' = [rights EXCEPT ![u] = y]
        BY <3>1 DEF EraseSelf
      <4>2. y \in Rights
        BY ChangeType DEF RightsTypeOK
      <4> HIDE DEF y
      <4>3. QED
        BY <4>1, <4>2 DEF RightsTypeOK
    <3>2. CASE UsersRouterPatch(r, a, u)
      BY <3>2 DEF UsersRouterPatch, RightsTypeOK
    <3>3. QED
      BY <1>2, <3>1, <3>2
  <2>3. HandlersOK'
    BY <2>1, HandlersStep
  <2>4. RightsTypeOK'
    BY <2>1, <2>2, <2>3 DEF RightsTypeOK, HandlersOK, AtOnce
  <2>5. AdminRemains' /\ MakerStays'
    BY <2>1 DEF AdminRemains, MakerStays
  <2>6. QED
    BY <2>3, <2>4, <2>5
<1>3. ASSUME NEW r \in Requests, PatchCommit(r) PROVE RightsInv'
  <2>1. /\ pc[r] = "patch" /\ Continue(r, "idle", <<>>) /\ bypassed' = bypassed
        /\ pc' = [pc EXCEPT ![r] = "idle"] /\ local' = [local EXCEPT ![r] = <<>>]
        /\ overlap' = overlap
    BY <1>3 DEF PatchCommit, End, Continue
  <2>2. PICK y \in Rights : rights' = [rights EXCEPT ![local[r].target] = y]
    <3>1. local[r] \in [target : Users, row : Rights, to : Rights]
      BY <2>1 DEF RightsTypeOK
    <3>2. Merge(local[r].to, local[r].row, rights[local[r].target]) \in Rights
      BY <3>1, MergeType DEF RightsTypeOK
    <3>3. QED
      BY <1>3, <3>2 DEF PatchCommit
  <2>3. HandlersOK'
    BY <2>1, HandlersStep
  <2>4. RightsTypeOK'
    BY <2>1, <2>2, <2>3 DEF RightsTypeOK, HandlersOK
  <2>5. ASSUME ~ overlap' PROVE ~ overlap /\ r \in Flying /\ Flying' = {}
    BY <2>1, <2>5, Alone DEF Flying, HandlersOK
  <2>6. AdminRemains'
    BY <2>1, <2>2, <2>5 DEF AdminRemains, MakerStays, IsAdmin, RightsTypeOK
  <2>7. MakerStays'
    BY <2>5 DEF MakerStays
  <2>8. QED
    BY <2>3, <2>4, <2>6, <2>7
<1>4. ASSUME NEW r \in Requests, Fail(r), UNCHANGED rightVars PROVE RightsInv'
  <2>1. /\ pc[r] # "idle" /\ Continue(r, "idle", <<>>) /\ overlap' = overlap
        /\ pc' = [pc EXCEPT ![r] = "idle"] /\ local' = [local EXCEPT ![r] = <<>>]
        /\ rights' = rights /\ bypassed' = bypassed
    BY <1>4 DEF Fail, End, Continue, rightVars
  <2>2. HandlersOK'
    BY <2>1, HandlersStep
  <2>3. RightsTypeOK' /\ AdminRemains'
    BY <2>1 DEF RightsTypeOK, HandlersOK, AdminRemains, IsAdmin
  <2>4. MakerStays'
    BY <2>1 DEF MakerStays, Flying, IsAdmin, HandlersOK
  <2>5. QED
    BY <2>2, <2>3, <2>4
<1>5. CASE UNCHANGED <<reqVars, rightVars>>
  BY <1>5 DEF reqVars, rightVars, HandlersOK, RightsTypeOK, AdminRemains, MakerStays, Flying, IsAdmin
<1>6. QED
  BY <1>1, <1>2, <1>3, <1>4, <1>5 DEF RightsNext

LEMMA RightsInvariant == RightsSpec => []RightsInv
<1>1. QED
  BY RightsInvInit, RightsInvNext, PTL DEF RightsSpec

\* The rights and the requests keep their types.
THEOREM RightsTypeCorrect == RightsSpec => []RightsTypeOK
<1>1. RightsInv => RightsTypeOK
  BY DEF RightsInv
<1>2. QED
  BY <1>1, RightsInvariant, PTL

\* As long as no two requests overlap, no sequence of patches (patch_user) leaves
\* the tenant without an active administrator.
THEOREM AdminStays == RightsSpec => []AdminRemains
<1>1. RightsInv => AdminRemains
  BY DEF RightsInv
<1>2. QED
  BY <1>1, RightsInvariant, PTL
-----------------------------------------------------------------------------
(* Signup                                                                  *)

OwnersOf(i) == {o \in owners : o.tenant = i}
Coming == {r \in Requests : pc[r] \in {"commit", "create"}}

\* An id that is yet to be committed is nobody else's.
IdsApart ==
  \A r \in Coming : /\ \A t \in tenants : t.id # local[r].id
                    /\ \A q \in Coming : local[q].id = local[r].id => q = r

\* OrganisationsOwned without Cardinality, and what a 201 is about to say.
OneOwner == \A t \in tenants : t.by = "signup" => \E o \in owners : OwnersOf(t.id) = {o}
OwnersSound ==
  /\ \A o, p \in owners : o.email = p.email => o = p
  /\ \A o \in owners : \E t \in tenants : t.id = o.tenant
  /\ answered \subseteq owners
  /\ \A r \in Requests :
       pc[r] = "answer" => [email |-> local[r].email, tenant |-> local[r].id] \in owners

SignupInv == HandlersOK /\ SignupTypeOK /\ IdsApart /\ OneOwner /\ OwnersSound

LEMMA SignupInvInit == SignupInit => SignupInv
<1> SUFFICES ASSUME SignupInit PROVE SignupInv
  OBVIOUS
<1>1. HandlersOK
  BY HandlersStart DEF SignupInit
<1>2. SignupTypeOK
  BY DEF SignupInit, HandlersInit, SignupTypeOK
<1>3. IdsApart /\ OneOwner /\ OwnersSound
  BY DEF SignupInit, HandlersInit, IdsApart, Coming, OneOwner, OwnersSound
<1>4. QED
  BY <1>1, <1>2, <1>3 DEF SignupInv

\* A request takes an id that is new.
LEMMA IdTaken ==
  ASSUME SignupInv, NEW r \in Requests, NEW i \in NewIds, NEW p \in {"commit", "create"},
         NEW x, x.id = i, Begin(r, p, x), UNCHANGED signupVars
  PROVE  HandlersOK' /\ IdsApart' /\ OneOwner' /\ OwnersSound'
<1> USE DEF SignupInv
<1>1. HandlersOK'
  BY HandlersStep
<1>2. /\ pc[r] = "idle" /\ pc' = [pc EXCEPT ![r] = p] /\ local' = [local EXCEPT ![r] = x]
      /\ tenants' = tenants /\ owners' = owners /\ answered' = answered
  BY DEF Begin, signupVars
<1>3. IdsApart'
  <2>1. \A t \in tenants : t.id # i
    BY DEF NewIds
  <2>2. \A q \in Coming : local[q].id # i
    BY DEF NewIds, Coming
  <2>3. QED
    BY <1>2, <2>1, <2>2 DEF IdsApart, Coming, HandlersOK
<1>4. OneOwner' /\ OwnersSound'
  BY <1>2 DEF OneOwner, OwnersOf, OwnersSound, HandlersOK
<1>5. QED
  BY <1>1, <1>3, <1>4

LEMMA SignupInvNext == SignupInv /\ [SignupNext]_<<reqVars, signupVars>> => SignupInv'
<1> SUFFICES ASSUME SignupInv, [SignupNext]_<<reqVars, signupVars>> PROVE SignupInv'
  OBVIOUS
<1> USE DEF SignupInv
<1>1. ASSUME NEW r \in Requests, NEW s \in Slugs, CreateTenantRead(r, s) PROVE SignupInv'
  <2>1. PICK i \in NewIds : Begin(r, "create", [id |-> i, slug |-> s])
    BY <1>1 DEF CreateTenantRead
  <2>2. UNCHANGED signupVars
    BY <1>1 DEF CreateTenantRead
  <2>3. HandlersOK' /\ IdsApart' /\ OneOwner' /\ OwnersSound'
    BY <2>1, <2>2, IdTaken
  <2>4. SignupTypeOK'
    BY <2>1, <2>2, <2>3 DEF Begin, signupVars, SignupTypeOK, HandlersOK, NewIds
  <2>5. QED
    BY <2>3, <2>4
<1>2. ASSUME NEW r \in Requests, NEW e \in Emails, NEW s \in Slugs, SignupRead(r, e, s)
      PROVE  SignupInv'
  <2>1. PICK i \in NewIds : Begin(r, "commit", [id |-> i, slug |-> s, email |-> e])
    BY <1>2 DEF SignupRead
  <2>2. UNCHANGED signupVars
    BY <1>2 DEF SignupRead
  <2>3. HandlersOK' /\ IdsApart' /\ OneOwner' /\ OwnersSound'
    BY <2>1, <2>2, IdTaken
  <2>4. SignupTypeOK'
    BY <2>1, <2>2, <2>3 DEF Begin, signupVars, SignupTypeOK, HandlersOK, NewIds
  <2>5. QED
    BY <2>3, <2>4
\* The tenant's id is new to the owners as well, and the address to them.
<1>3. ASSUME NEW r \in Requests, SignupCommit(r) PROVE SignupInv'
  <2> DEFINE x == local[r]
             t == [id |-> x.id, slug |-> x.slug, by |-> "signup"]
             o == [email |-> x.email, tenant |-> x.id]
  <2>1. /\ pc[r] = "commit" /\ ~ Known(x.email) /\ Continue(r, "answer", x)
        /\ tenants' = tenants \union {t} /\ owners' = owners \union {o} /\ answered' = answered
    BY <1>3 DEF SignupCommit
  <2>2. /\ pc' = [pc EXCEPT ![r] = "answer"] /\ local' = [local EXCEPT ![r] = x]
        /\ overlap' = overlap
    BY <2>1 DEF Continue
  <2>3. x \in [id : 1..MaxOrgs, slug : Slugs, email : Emails]
    BY <2>1 DEF SignupTypeOK
  <2>4. /\ t \in [id : 1..MaxOrgs, slug : Slugs, by : {"signup", "admin"}]
        /\ o \in [email : Emails, tenant : 1..MaxOrgs]
        /\ t.id = x.id /\ o.tenant = x.id /\ o.email = x.email
    BY <2>3
  <2>5. HandlersOK'
    BY <2>1, HandlersStep
  <2>6. r \in Coming /\ Coming' \subseteq Coming \ {r} /\ Coming \subseteq Requests
    BY <2>1, <2>2 DEF Coming, HandlersOK
  <2>7. \A q \in Requests : local'[q] = local[q]
    BY <2>2 DEF HandlersOK
  <2> HIDE DEF t, o, x
  <2>8. SignupTypeOK'
    BY <2>1, <2>2, <2>3, <2>4, <2>5, <2>7 DEF SignupTypeOK, HandlersOK, x
  <2>9. IdsApart'
    BY <2>1, <2>4, <2>6, <2>7 DEF IdsApart, x
  <2>10. \A p \in owners : p.tenant # x.id /\ p.email # x.email
    BY <2>1, <2>6 DEF OwnersSound, IdsApart, Known, x
  <2>11. OneOwner'
    <3>1. {p \in owners' : p.tenant = t.id} = {o}
      BY <2>1, <2>4, <2>10
    <3>2. ASSUME NEW u \in tenants PROVE OwnersOf(u.id)' = OwnersOf(u.id)
      BY <2>1, <2>4, <2>6 DEF OwnersOf, IdsApart, x
    <3>3. QED
      BY <2>1, <3>1, <3>2 DEF OneOwner, OwnersOf
  <2>12. OwnersSound'
    <3>1. [email |-> x.email, tenant |-> x.id] \in owners'
      BY <2>1 DEF o
    <3>2. \A p, q \in owners' : p.email = q.email => p = q
      BY <2>1, <2>4, <2>10 DEF OwnersSound
    <3>3. \A p \in owners' : \E u \in tenants' : u.id = p.tenant
      BY <2>1, <2>4 DEF OwnersSound
    <3>4. QED
      BY <2>1, <2>2, <2>7, <3>1, <3>2, <3>3 DEF OwnersSound, HandlersOK, x
  <2>13. QED
    BY <2>5, <2>8, <2>9, <2>11, <2>12
<1>4. ASSUME NEW r \in Requests, CreateTenant(r) PROVE SignupInv'
  <2> DEFINE x == local[r]
             t == [id |-> x.id, slug |-> x.slug, by |-> "admin"]
  <2>1. /\ pc[r] = "create" /\ Continue(r, "idle", <<>>)
        /\ tenants' = tenants \union {t} /\ owners' = owners /\ answered' = answered
    BY <1>4 DEF CreateTenant, End
  <2>2. /\ pc' = [pc EXCEPT ![r] = "idle"] /\ local' = [local EXCEPT ![r] = <<>>]
        /\ overlap' = overlap
    BY <2>1 DEF Continue
  <2>3. x \in [id : 1..MaxOrgs, slug : Slugs]
    BY <2>1 DEF SignupTypeOK
  <2>4. /\ t \in [id : 1..MaxOrgs, slug : Slugs, by : {"signup", "admin"}]
        /\ t.id = x.id /\ t.by # "signup"
    BY <2>3
  <2>5. HandlersOK'
    BY <2>1, HandlersStep
  <2>6. /\ r \in Coming /\ Coming' \subseteq Coming \ {r}
        /\ \A q \in Requests \ {r} : local'[q] = local[q] /\ pc'[q] = pc[q]
    BY <2>1, <2>2 DEF Coming, HandlersOK
  <2> HIDE DEF t, x
  <2>7. SignupTypeOK'
    BY <2>1, <2>2, <2>4, <2>5 DEF SignupTypeOK, HandlersOK
  <2>8. IdsApart'
    BY <2>1, <2>4, <2>6 DEF IdsApart, Coming, x
  <2>9. OneOwner'
    BY <2>1, <2>4 DEF OneOwner, OwnersOf
  <2>10. OwnersSound'
    BY <2>1, <2>2, <2>6 DEF OwnersSound, HandlersOK
  <2>11. QED
    BY <2>5, <2>7, <2>8, <2>9, <2>10
<1>5. ASSUME NEW r \in Requests, SignupAnswer(r) PROVE SignupInv'
  <2>1. /\ pc[r] = "answer" /\ Continue(r, "idle", <<>>)
        /\ answered' = answered \union {[email |-> local[r].email, tenant |-> local[r].id]}
        /\ tenants' = tenants /\ owners' = owners
    BY <1>5 DEF SignupAnswer, End
  <2>2. /\ pc' = [pc EXCEPT ![r] = "idle"] /\ local' = [local EXCEPT ![r] = <<>>]
        /\ overlap' = overlap
    BY <2>1 DEF Continue
  <2>3. HandlersOK'
    BY <2>1, HandlersStep
  <2>4. [email |-> local[r].email, tenant |-> local[r].id] \in owners
    BY <2>1 DEF OwnersSound
  <2>5. SignupTypeOK'
    BY <2>1, <2>2, <2>3, <2>4 DEF SignupTypeOK, HandlersOK
  <2>6. IdsApart' /\ OneOwner' /\ OwnersSound'
    BY <2>1, <2>2, <2>4 DEF IdsApart, Coming, OneOwner, OwnersOf, OwnersSound, HandlersOK
  <2>7. QED
    BY <2>3, <2>5, <2>6
<1>6. ASSUME NEW r \in Requests, Fail(r), UNCHANGED signupVars PROVE SignupInv'
  <2>1. /\ pc[r] # "idle" /\ Continue(r, "idle", <<>>) /\ overlap' = overlap
        /\ pc' = [pc EXCEPT ![r] = "idle"] /\ local' = [local EXCEPT ![r] = <<>>]
        /\ tenants' = tenants /\ owners' = owners /\ answered' = answered
    BY <1>6 DEF Fail, End, Continue, signupVars
  <2>2. HandlersOK'
    BY <2>1, HandlersStep
  <2>3. SignupTypeOK'
    BY <2>1, <2>2 DEF SignupTypeOK, HandlersOK
  <2>4. IdsApart' /\ OneOwner' /\ OwnersSound'
    BY <2>1 DEF IdsApart, Coming, OneOwner, OwnersOf, OwnersSound, HandlersOK
  <2>5. QED
    BY <2>2, <2>3, <2>4
<1>7. CASE UNCHANGED <<reqVars, signupVars>>
  <2>1. HandlersOK' /\ SignupTypeOK'
    BY <1>7 DEF reqVars, signupVars, HandlersOK, Flying, SignupTypeOK
  <2>2. IdsApart' /\ OneOwner' /\ OwnersSound'
    BY <1>7 DEF reqVars, signupVars, IdsApart, Coming, OneOwner, OwnersOf, OwnersSound
  <2>3. QED
    BY <2>1, <2>2
<1>8. QED
  BY <1>1, <1>2, <1>3, <1>4, <1>5, <1>6, <1>7 DEF SignupNext

LEMMA SignupInvariant == SignupSpec => []SignupInv
<1>1. QED
  BY SignupInvInit, SignupInvNext, PTL DEF SignupSpec

\* The rows and the requests keep their types.
THEOREM SignupTypeCorrect == SignupSpec => []SignupTypeOK
<1>1. SignupInv => SignupTypeOK
  BY DEF SignupInv
<1>2. QED
  BY <1>1, SignupInvariant, PTL

\* However signups and create_tenant race and fail, an organisation made by a
\* signup has exactly one owner, no address owns two, and whoever was answered 201
\* owns one (signup, _unique_tenant_slug).
THEOREM SignupOwned == SignupSpec => []OrganisationsOwned
<1>1. SignupInv => OrganisationsOwned
  <2> SUFFICES ASSUME SignupInv PROVE OrganisationsOwned
    OBVIOUS
  <2>1. ASSUME NEW t \in tenants, t.by = "signup"
        PROVE  Cardinality({o \in owners : o.tenant = t.id}) = 1
    <3>1. PICK o \in owners : {p \in owners : p.tenant = t.id} = {o}
      BY <2>1 DEF SignupInv, OneOwner, OwnersOf
    <3>2. QED
      BY <3>1, FS_Singleton
  <2>2. QED
    BY <2>1 DEF SignupInv, OwnersSound, OrganisationsOwned
<1>2. QED
  BY <1>1, SignupInvariant, PTL
-----------------------------------------------------------------------------
(* Invitations                                                             *)

\* The account commits before the mark, and is never taken back.
MarkedOnly ==
  /\ AcceptedHasAccount
  /\ \A r \in Requests : pc[r] = "mark" => member # NoInvite

\* What has been revoked is deleted; so a request that is alone has verified an
\* invitation which has not been revoked by the time it creates the account.
RevokedOut ==
  /\ \A i \in revoked : inv[i] = "deleted"
  /\ RevokedStaysOut
  /\ ~ overlap => \A r \in Flying : pc[r] = "user" => local[r].invite \notin revoked

InviteInv == HandlersOK /\ InviteTypeOK /\ MarkedOnly /\ RevokedOut

LEMMA InviteInvInit == InviteInit => InviteInv
<1> SUFFICES ASSUME InviteInit PROVE InviteInv
  OBVIOUS
<1>1. HandlersOK
  BY HandlersStart DEF InviteInit
<1>2. InviteTypeOK
  BY DEF InviteInit, HandlersInit, InviteTypeOK
<1>3. MarkedOnly /\ RevokedOut
  BY DEF InviteInit, HandlersInit, MarkedOnly, AcceptedHasAccount, RevokedOut, RevokedStaysOut
<1>4. QED
  BY <1>1, <1>2, <1>3 DEF InviteInv

LEMMA InviteInvNext == InviteInv /\ [InviteNext]_<<reqVars, inviteVars>> => InviteInv'
<1> SUFFICES ASSUME InviteInv, [InviteNext]_<<reqVars, inviteVars>> PROVE InviteInv'
  OBVIOUS
<1> USE DEF InviteInv
\* The requests that come in: what they have selected is pending
<1>1. ASSUME NEW r \in Requests, CreateSelect(r) \/ AcceptVerify(r) \/ RevokeSelect(r)
      PROVE  InviteInv'
  <2>1. PICK p \in {"insert", "user", "delete"}, i \in Invites \union {NoInvite} :
          /\ Begin(r, p, [invite |-> i]) /\ UNCHANGED inviteVars
          /\ p # "insert" => i \in Invites /\ inv[i] = "pending"
    BY <1>1 DEF CreateSelect, AcceptVerify, RevokeSelect, Pending
  <2>2. /\ pc[r] = "idle" /\ pc' = [pc EXCEPT ![r] = p]
        /\ local' = [local EXCEPT ![r] = [invite |-> i]]
        /\ inv' = inv /\ expired' = expired /\ member' = member
        /\ revoked' = revoked /\ late' = late
    BY <2>1 DEF Begin, inviteVars
  <2>3. HandlersOK'
    BY <2>1, HandlersStep
  <2>4. InviteTypeOK'
    BY <2>1, <2>2, <2>3 DEF InviteTypeOK, HandlersOK
  <2>5. MarkedOnly'
    BY <2>1, <2>2 DEF MarkedOnly, AcceptedHasAccount, HandlersOK
  <2>6. ASSUME ~ overlap' PROVE ~ overlap /\ Flying' = {r}
    BY <2>1, <2>2, <2>3, <2>6, NobodyElse DEF HandlersOK, Flying
  <2>7. RevokedOut'
    BY <2>1, <2>2, <2>6 DEF RevokedOut, RevokedStaysOut, HandlersOK
  <2>8. QED
    BY <2>3, <2>4, <2>5, <2>7
<1>2. ASSUME NEW r \in Requests, CreateCommit(r) PROVE InviteInv'
  <2>1. /\ pc[r] = "insert" /\ Continue(r, "idle", <<>>)
        /\ UNCHANGED <<expired, member, revoked, late>>
    BY <1>2 DEF CreateCommit, End
  <2>2. PICK i \in Invites :
          /\ inv[i] = "unused"
          /\ inv' = [j \in Invites |-> IF j = i THEN "pending"
                                       ELSE IF j = local[r].invite THEN "deleted" ELSE inv[j]]
    BY <1>2 DEF CreateCommit
  <2>3. /\ pc' = [pc EXCEPT ![r] = "idle"] /\ local' = [local EXCEPT ![r] = <<>>]
        /\ overlap' = overlap
    BY <2>1 DEF Continue
  <2>4. HandlersOK'
    BY <2>1, HandlersStep
  <2>5. InviteTypeOK'
    BY <2>1, <2>2, <2>3, <2>4 DEF InviteTypeOK, HandlersOK
  <2>6. MarkedOnly'
    BY <2>1, <2>2, <2>3 DEF MarkedOnly, AcceptedHasAccount, HandlersOK
  <2>7. RevokedOut'
    BY <2>1, <2>2, <2>3 DEF RevokedOut, RevokedStaysOut, HandlersOK, Flying, InviteTypeOK
  <2>8. QED
    BY <2>4, <2>5, <2>6, <2>7
<1>3. ASSUME NEW r \in Requests, AcceptCreate(r) PROVE InviteInv'
  <2>1. /\ pc[r] = "user" /\ member' = local[r].invite /\ late' = (member' \in revoked)
        /\ Continue(r, "mark", local[r]) /\ UNCHANGED <<inv, expired, revoked>>
    BY <1>3 DEF AcceptCreate
  <2>2. /\ pc' = [pc EXCEPT ![r] = "mark"] /\ local' = [local EXCEPT ![r] = local[r]]
        /\ overlap' = overlap
    BY <2>1 DEF Continue
  <2>3. local[r] \in [invite : Invites] /\ member' \in Invites
    BY <2>1 DEF InviteTypeOK
  <2>4. HandlersOK'
    BY <2>1, HandlersStep
  <2>5. InviteTypeOK'
    <3>1. late' \in BOOLEAN
      BY <2>1
    <3>2. QED
      BY <2>1, <2>2, <2>3, <2>4, <3>1 DEF InviteTypeOK, HandlersOK
  <2>6. MarkedOnly'
    BY <2>1, <2>2, <2>3, InviteAssumption DEF MarkedOnly, AcceptedHasAccount, HandlersOK
  <2>7. RevokedOut'
    BY <2>1, <2>2 DEF RevokedOut, RevokedStaysOut, HandlersOK, Flying
  <2>8. QED
    BY <2>4, <2>5, <2>6, <2>7
<1>4. ASSUME NEW r \in Requests, AcceptMark(r) PROVE InviteInv'
  <2>1. /\ pc[r] = "mark" /\ inv[local[r].invite] # "deleted" /\ Continue(r, "idle", <<>>)
        /\ inv' = [inv EXCEPT ![local[r].invite] = "accepted"]
        /\ UNCHANGED <<expired, member, revoked, late>>
    BY <1>4 DEF AcceptMark, End
  <2>2. /\ pc' = [pc EXCEPT ![r] = "idle"] /\ local' = [local EXCEPT ![r] = <<>>]
        /\ overlap' = overlap
    BY <2>1 DEF Continue
  <2>3. HandlersOK'
    BY <2>1, HandlersStep
  <2>4. InviteTypeOK'
    BY <2>1, <2>2, <2>3 DEF InviteTypeOK, HandlersOK
  <2>5. MarkedOnly'
    BY <2>1, <2>2 DEF MarkedOnly, AcceptedHasAccount, HandlersOK, InviteTypeOK
  <2>6. RevokedOut'
    BY <2>1, <2>2 DEF RevokedOut, RevokedStaysOut, HandlersOK, Flying, InviteTypeOK
  <2>7. QED
    BY <2>3, <2>4, <2>5, <2>6
<1>5. ASSUME NEW r \in Requests, RevokeDelete(r) PROVE InviteInv'
  <2>1. /\ pc[r] = "delete" /\ Continue(r, "idle", <<>>)
        /\ inv' = [inv EXCEPT ![local[r].invite] = "deleted"]
        /\ revoked' = revoked \union {local[r].invite}
        /\ UNCHANGED <<expired, member, late>>
    BY <1>5 DEF RevokeDelete, End
  <2>2. /\ pc' = [pc EXCEPT ![r] = "idle"] /\ local' = [local EXCEPT ![r] = <<>>]
        /\ overlap' = overlap
    BY <2>1 DEF Continue
  <2>3. local[r].invite \in Invites
    BY <2>1 DEF InviteTypeOK
  <2>4. HandlersOK'
    BY <2>1, HandlersStep
  <2>5. InviteTypeOK'
    BY <2>1, <2>2, <2>3, <2>4 DEF InviteTypeOK, HandlersOK
  <2>6. MarkedOnly'
    BY <2>1, <2>2 DEF MarkedOnly, AcceptedHasAccount, HandlersOK, InviteTypeOK
  <2>7. ASSUME ~ overlap' PROVE ~ overlap /\ Flying' = {}
    BY <2>1, <2>2, <2>7, Alone DEF Flying, HandlersOK
  <2>8. RevokedOut'
    BY <2>1, <2>2, <2>3, <2>7 DEF RevokedOut, RevokedStaysOut, InviteTypeOK
  <2>9. QED
    BY <2>4, <2>5, <2>6, <2>8
<1>6. ASSUME NEW r \in Requests, Fail(r), UNCHANGED inviteVars PROVE InviteInv'
  <2>1. /\ pc[r] # "idle" /\ Continue(r, "idle", <<>>) /\ overlap' = overlap
        /\ pc' = [pc EXCEPT ![r] = "idle"] /\ local' = [local EXCEPT ![r] = <<>>]
        /\ inv' = inv /\ expired' = expired /\ member' = member
        /\ revoked' = revoked /\ late' = late
    BY <1>6 DEF Fail, End, Continue, inviteVars
  <2>2. HandlersOK'
    BY <2>1, HandlersStep
  <2>3. InviteTypeOK'
    BY <2>1, <2>2 DEF InviteTypeOK, HandlersOK
  <2>4. MarkedOnly' /\ RevokedOut'
    BY <2>1 DEF MarkedOnly, AcceptedHasAccount, RevokedOut, RevokedStaysOut, HandlersOK, Flying
  <2>5. QED
    BY <2>2, <2>3, <2>4
<1>7. CASE Expire
  <2>1. /\ expired' \subseteq Invites
        /\ UNCHANGED <<pc, local, overlap, inv, member, revoked, late>>
    BY <1>7 DEF Expire, Pending, reqVars, InviteTypeOK
  <2>2. HandlersOK' /\ InviteTypeOK'
    BY <2>1 DEF HandlersOK, Flying, InviteTypeOK
  <2>3. MarkedOnly' /\ RevokedOut'
    BY <2>1 DEF MarkedOnly, AcceptedHasAccount, RevokedOut, RevokedStaysOut, Flying
  <2>4. QED
    BY <2>2, <2>3
<1>8. CASE UNCHANGED <<reqVars, inviteVars>>
  <2>1. UNCHANGED <<pc, local, overlap, inv, expired, member, revoked, late>>
    BY <1>8 DEF reqVars, inviteVars
  <2>2. HandlersOK' /\ InviteTypeOK'
    BY <2>1 DEF HandlersOK, Flying, InviteTypeOK
  <2>3. MarkedOnly' /\ RevokedOut'
    BY <2>1 DEF MarkedOnly, AcceptedHasAccount, RevokedOut, RevokedStaysOut, Flying
  <2>4. QED
    BY <2>2, <2>3
<1>9. QED
  BY <1>1, <1>2, <1>3, <1>4, <1>5, <1>6, <1>7, <1>8
  DEF InviteNext, CreateInvite, AcceptInvite, RevokeInvite

LEMMA InviteInvariant == InviteSpec => []InviteInv
<1>1. QED
  BY InviteInvInit, InviteInvNext, PTL DEF InviteSpec

\* The invitations and the requests keep their types.
THEOREM InviteTypeCorrect == InviteSpec => []InviteTypeOK
<1>1. InviteInv => InviteTypeOK
  BY DEF InviteInv
<1>2. QED
  BY <1>1, InviteInvariant, PTL

\* No failure and no race leaves an accepted invitation and no account
\* (accept_invite commits the account first).
THEOREM AcceptanceHasAccount == InviteSpec => []AcceptedHasAccount
<1>1. InviteInv => AcceptedHasAccount
  BY DEF InviteInv, MarkedOnly
<1>2. QED
  BY <1>1, InviteInvariant, PTL

\* As long as no two requests overlap, no account is created with an invitation
\* after its revocation (revoke_invitation, verify_invitation).
THEOREM RevocationHolds == InviteSpec => []RevokedStaysOut
<1>1. InviteInv => RevokedStaysOut
  BY DEF InviteInv, RevokedOut
<1>2. QED
  BY <1>1, InviteInvariant, PTL
-----------------------------------------------------------------------------
(* RowLimits                                                               *)

LEMMA LeastElement == ASSUME NEW S \in SUBSET Nat, S # {}
                      PROVE  \E m \in S : \A k \in S : m <= k
<1> DEFINE R == OpToRel(<, Nat)
<1>1. IsWellFoundedOn(R, Nat)
  BY NatLessThanWellFounded
<1>2. \A x, y \in Nat : x < y => <<x, y>> \in R
  BY DEF OpToRel
<1> HIDE DEF R
<1>3. PICK m \in S : \A y \in S : ~ (<<y, m>> \in R)
  BY <1>1, WFMin
<1>4. \A y \in S : ~ (y < m)
  BY <1>2, <1>3, Zenon
<1>5. QED
  BY <1>4

\* What an eviction leaves is less than the limit: its oldest entry has few
\* entries after it.
LEMMA OverflowLeaves ==
  ASSUME NEW S \in SUBSET Nat, IsFiniteSet(S)
  PROVE  /\ Cardinality(S \ Overflow(S)) <= LoginLimit - 1
         /\ Cardinality(S \ Overflow(S)) \in Nat /\ IsFiniteSet(S \ Overflow(S))
<1> DEFINE After(i) == {j \in S : j > i}
           K == S \ Overflow(S)
<1>1. IsFiniteSet(K) /\ Cardinality(K) \in Nat
  BY FS_Subset, FS_CardinalityType
<1>2. \A i \in K : ~ (Cardinality(After(i)) >= LoginLimit - 1)
  BY DEF Overflow
<1>3. ASSUME K # {} PROVE Cardinality(K) <= LoginLimit - 1
  <2>1. PICK m \in K : \A k \in K : m <= k
    BY <1>3, LeastElement
  <2>2. IsFiniteSet(After(m)) /\ Cardinality(After(m)) \in Nat
    BY FS_Subset, FS_CardinalityType
  <2>3. IsFiniteSet(After(m) \union {m})
        /\ Cardinality(After(m) \union {m}) = Cardinality(After(m)) + 1
    <3>1. m \notin After(m)
      OBVIOUS
    <3>2. QED
      BY <2>2, <3>1, FS_AddElement
  <2>4. ASSUME NEW k \in K PROVE k \in After(m) \union {m}
    <3>1. k \in S /\ m \in Nat /\ k \in Nat /\ m <= k
      BY <2>1
    <3>2. QED
      BY <3>1
  <2>5. Cardinality(K) <= Cardinality(After(m) \union {m})
    BY <2>3, <2>4, FS_Subset
  <2>6. ~ (Cardinality(After(m)) >= LoginLimit - 1)
    BY <1>2
  <2> HIDE DEF K, After
  <2>7. QED
    BY <1>1, <2>2, <2>3, <2>5, <2>6, LimitAssumption
<1>4. CASE K = {}
  BY <1>4, FS_EmptySet, LimitAssumption
<1>5. QED
  BY <1>1, <1>3, <1>4

Inserting == {r \in Requests : pc[r] = "insert"}
Recording == {r \in Requests : pc[r] = "record"}

\* What is left of the history when the requests in Q have evicted.
Left(Q) == {i \in logins : \A q \in Q : i \notin local[q].evict}

TokenRoom ==
  /\ tokens \in Nat
  /\ tokens + Cardinality(Inserting) <= TokenLimit - 1 + Cardinality(Requests)

\* Whichever requests in flight record next, in whatever order, the history stays
\* within the bound: each adds one entry to what all of them leave.
LoginRoom ==
  \A Q \in SUBSET Recording :
    Cardinality(Left(Q)) + Cardinality(Q) <= LoginLimit - 1 + Cardinality(Requests)

\* A request after whose SELECT none has been recorded leaves room for its entry.
RoomMade ==
  \A r \in Recording :
    recorded = local[r].recorded => Cardinality(logins \ local[r].evict) <= LoginLimit - 1

\* Every entry recorded had begun.
BegunFirst == recorded + Cardinality(Recording) <= begun

LimitInv ==
  /\ HandlersOK /\ LimitTypeOK
  /\ TokenRoom /\ LoginRoom /\ RoomMade /\ BegunFirst

LEMMA SomeRequests ==
  ASSUME NEW A \in SUBSET Requests
  PROVE  /\ IsFiniteSet(A) /\ Cardinality(A) \in Nat /\ Cardinality(Requests) \in Nat
         /\ Cardinality(A) <= Cardinality(Requests)
         /\ \A r \in Requests \ A : Cardinality(A \union {r}) = Cardinality(A) + 1
         /\ \A r \in A : Cardinality(A \ {r}) = Cardinality(A) - 1
<1>1. IsFiniteSet(A) /\ Cardinality(A) <= Cardinality(Requests)
  BY RequestsAssumption, FS_Subset
<1>2. Cardinality(A) \in Nat /\ Cardinality(Requests) \in Nat
  BY <1>1, RequestsAssumption, FS_CardinalityType
<1>3. \A r \in Requests \ A : Cardinality(A \union {r}) = Cardinality(A) + 1
  BY <1>1, FS_AddElement
<1>4. \A r \in A : Cardinality(A \ {r}) = Cardinality(A) - 1
  BY <1>1, FS_RemoveElement
<1>5. QED
  BY <1>1, <1>2, <1>3, <1>4

LEMMA SomeLogins ==
  ASSUME LimitTypeOK, NEW S \in SUBSET logins
  PROVE  /\ IsFiniteSet(S) /\ Cardinality(S) \in Nat
         /\ \A T \in SUBSET S : IsFiniteSet(T) /\ Cardinality(T) \in Nat
                                /\ Cardinality(T) <= Cardinality(S)
<1>1. begun \in Nat /\ S \subseteq 1..begun
  BY LimitAssumption DEF LimitTypeOK
<1>2. IsFiniteSet(1..begun)
  BY <1>1, FS_Interval
<1>3. IsFiniteSet(S)
  BY <1>1, <1>2, FS_Subset
<1>4. QED
  BY <1>3, FS_Subset, FS_CardinalityType

LEMMA OneMore ==
  ASSUME NEW S, IsFiniteSet(S), NEW e, NEW T \in SUBSET (S \union {e})
  PROVE  Cardinality(T) <= Cardinality(S) + 1 /\ Cardinality(T) \in Nat
<1>1. Cardinality(S) \in Nat
  BY FS_CardinalityType
<1>2. IsFiniteSet(S \union {e})
      /\ (Cardinality(S \union {e}) = Cardinality(S) \/ Cardinality(S \union {e}) = Cardinality(S) + 1)
  <2>1. CASE e \in S
    <3>1. S \union {e} = S
      BY <2>1
    <3>2. QED
      BY <3>1
  <2>2. CASE e \notin S
    BY <2>2, FS_AddElement
  <2>3. QED
    BY <2>1, <2>2
<1>3. /\ Cardinality(T) <= Cardinality(S \union {e})
      /\ IsFiniteSet(T) /\ Cardinality(T) \in Nat
  BY <1>2, FS_Subset, FS_CardinalityType
<1>4. Cardinality(S \union {e}) \in Nat
  BY <1>2, FS_CardinalityType
<1>5. QED
  BY <1>1, <1>2, <1>3, <1>4

LEMMA LimitInvInit == LimitInit => LimitInv
<1> SUFFICES ASSUME LimitInit PROVE LimitInv
  OBVIOUS
<1>1. HandlersOK
  BY HandlersStart DEF LimitInit
<1>2. LimitTypeOK
  <2>1. \A r \in Requests : pc[r] = "idle"
    BY DEF LimitInit, HandlersInit
  <2>2. begun \in 0..MaxLogins /\ recorded \in 0..begun /\ tokens \in Nat /\ logins = {}
    BY LimitAssumption DEF LimitInit
  <2>3. QED
    BY <2>1, <2>2 DEF LimitInit, HandlersInit, LimitTypeOK
<1>3. Inserting = {} /\ Recording = {} /\ tokens = 0 /\ recorded = 0 /\ begun = 0
  BY DEF LimitInit, HandlersInit, Inserting, Recording
<1>4. Cardinality({}) = 0 /\ Cardinality(Requests) \in Nat
  BY FS_EmptySet, SomeRequests
<1>5. TokenRoom
  BY <1>3, <1>4, LimitAssumption DEF TokenRoom
<1>6. LoginRoom
  <2> SUFFICES ASSUME NEW Q \in SUBSET Recording
               PROVE  Cardinality(Left(Q)) + Cardinality(Q)
                        <= LoginLimit - 1 + Cardinality(Requests)
    BY DEF LoginRoom
  <2>1. Q = {} /\ Left(Q) = {}
    BY <1>3 DEF Left, LimitInit
  <2>2. QED
    BY <1>4, <2>1, LimitAssumption
<1>7. RoomMade /\ BegunFirst
  BY <1>3, <1>4 DEF RoomMade, BegunFirst
<1>8. QED
  BY <1>1, <1>2, <1>5, <1>6, <1>7 DEF LimitInv

\* A step that records nothing and begins nothing gives the history more room.
LEMMA LoginsBeside ==
  ASSUME LimitInv, logins' \subseteq logins, recorded' = recorded, begun' = begun,
         Recording' \subseteq Recording,
         \A q \in Recording' : local'[q] = local[q]
  PROVE  LoginRoom' /\ RoomMade' /\ BegunFirst'
<1> USE DEF LimitInv
<1>1. LoginRoom'
  <2> SUFFICES ASSUME NEW Q \in SUBSET Recording'
               PROVE  Cardinality(Left(Q)') + Cardinality(Q)
                        <= LoginLimit - 1 + Cardinality(Requests)
    BY DEF LoginRoom, Left
  <2>1. Left(Q)' \subseteq Left(Q) /\ Left(Q) \subseteq logins
    BY DEF Left
  <2>2. /\ Cardinality(Left(Q)') <= Cardinality(Left(Q))
        /\ Cardinality(Left(Q)') \in Nat /\ Cardinality(Left(Q)) \in Nat
    BY <2>1, SomeLogins
  <2>3. Cardinality(Q) \in Nat /\ Cardinality(Requests) \in Nat
    BY SomeRequests DEF Recording
  <2>4. Cardinality(Left(Q)) + Cardinality(Q) <= LoginLimit - 1 + Cardinality(Requests)
    BY DEF LoginRoom
  <2>5. QED
    BY <2>2, <2>3, <2>4, LimitAssumption
<1>2. RoomMade'
  <2> SUFFICES ASSUME NEW r \in Recording', recorded' = local'[r].recorded
               PROVE  Cardinality(logins' \ local'[r].evict) <= LoginLimit - 1
    BY DEF RoomMade
  <2>1. r \in Recording /\ recorded = local[r].recorded /\ local'[r] = local[r]
    OBVIOUS
  <2>2. Cardinality(logins \ local[r].evict) <= LoginLimit - 1
    BY <2>1 DEF RoomMade
  <2>3. logins \ local[r].evict \in SUBSET logins
        /\ logins' \ local[r].evict \in SUBSET (logins \ local[r].evict)
    OBVIOUS
  <2>4. /\ Cardinality(logins' \ local[r].evict) <= Cardinality(logins \ local[r].evict)
        /\ Cardinality(logins' \ local[r].evict) \in Nat
        /\ Cardinality(logins \ local[r].evict) \in Nat
    BY <2>3, SomeLogins
  <2>5. QED
    BY <2>1, <2>2, <2>4, LimitAssumption
<1>3. BegunFirst'
  <2>1. IsFiniteSet(Recording) /\ Cardinality(Recording) \in Nat
    BY SomeRequests DEF Recording
  <2>2. Cardinality(Recording') <= Cardinality(Recording) /\ Cardinality(Recording') \in Nat
    BY <2>1, FS_Subset, FS_CardinalityType
  <2>3. QED
    BY <2>1, <2>2 DEF BegunFirst, LimitTypeOK
<1>4. QED
  BY <1>1, <1>2, <1>3
LEMMA LimitInvNext == LimitInv /\ [LimitNext]_<<reqVars, limitVars>> => LimitInv'
<1> SUFFICES ASSUME LimitInv, [LimitNext]_<<reqVars, limitVars>> PROVE LimitInv'
  OBVIOUS
<1> USE DEF LimitInv
<1>1. ASSUME NEW r \in Requests, CountTokens(r) PROVE LimitInv'
  <2>1. /\ tokens < TokenLimit /\ Begin(r, "insert", <<>>)
        /\ tokens' = tokens /\ logins' = logins /\ begun' = begun /\ recorded' = recorded
    BY <1>1 DEF CountTokens, limitVars
  <2>2. /\ pc[r] = "idle" /\ pc' = [pc EXCEPT ![r] = "insert"]
        /\ local' = [local EXCEPT ![r] = <<>>]
    BY <2>1 DEF Begin
  <2>3. HandlersOK'
    BY <2>1, HandlersStep
  <2>4. LimitTypeOK'
    BY <2>1, <2>2, <2>3 DEF LimitTypeOK, HandlersOK
  <2>5. TokenRoom'
    <3>1. Inserting' \in SUBSET Requests
      BY DEF Inserting
    <3>2. /\ Cardinality(Inserting') <= Cardinality(Requests)
          /\ Cardinality(Inserting') \in Nat /\ Cardinality(Requests) \in Nat
      BY <3>1, SomeRequests
    <3>3. QED
      BY <2>1, <3>2, LimitAssumption DEF TokenRoom
  <2>6. /\ Recording' \subseteq Recording
        /\ \A q \in Recording' : local'[q] = local[q]
    BY <2>2 DEF Recording, HandlersOK
  <2>7. LoginRoom' /\ RoomMade' /\ BegunFirst'
    BY <2>1, <2>6, LoginsBeside
  <2>8. QED
    BY <2>3, <2>4, <2>5, <2>7
<1>2. ASSUME NEW r \in Requests, InsertToken(r) PROVE LimitInv'
  <2>1. /\ pc[r] = "insert" /\ tokens' = tokens + 1 /\ Continue(r, "idle", <<>>)
        /\ logins' = logins /\ begun' = begun /\ recorded' = recorded
    BY <1>2 DEF InsertToken, End
  <2>2. /\ pc' = [pc EXCEPT ![r] = "idle"] /\ local' = [local EXCEPT ![r] = <<>>]
    BY <2>1 DEF Continue
  <2>3. HandlersOK'
    BY <2>1, HandlersStep
  <2>4. LimitTypeOK'
    BY <2>1, <2>2, <2>3 DEF LimitTypeOK, HandlersOK
  <2>5. TokenRoom'
    <3>1. Inserting \in SUBSET Requests /\ r \in Inserting /\ Inserting' = Inserting \ {r}
      BY <2>1, <2>2 DEF Inserting, HandlersOK
    <3>2. /\ Cardinality(Inserting') = Cardinality(Inserting) - 1
          /\ Cardinality(Inserting) \in Nat /\ Cardinality(Requests) \in Nat
      BY <3>1, SomeRequests
    <3>3. QED
      BY <2>1, <3>2, LimitAssumption DEF TokenRoom
  <2>6. /\ Recording' \subseteq Recording
        /\ \A q \in Recording' : local'[q] = local[q]
    BY <2>1, <2>2 DEF Recording, HandlersOK
  <2>7. LoginRoom' /\ RoomMade' /\ BegunFirst'
    BY <2>1, <2>6, LoginsBeside
  <2>8. QED
    BY <2>3, <2>4, <2>5, <2>7
<1>3. ASSUME NEW r \in Requests, RevokeToken(r) \/ RevokeLogin(r) \/ RevokeAllLogins(r)
      PROVE  LimitInv'
  <2>1. /\ AtOnce(r) /\ pc' = pc /\ local' = local /\ begun' = begun /\ recorded' = recorded
        /\ logins' \subseteq logins /\ (tokens' = tokens \/ (tokens > 0 /\ tokens' = tokens - 1))
    BY <1>3 DEF RevokeToken, RevokeLogin, RevokeAllLogins, AtOnce
  <2>2. HandlersOK'
    BY <2>1, HandlersStep
  <2>3. LimitTypeOK'
    BY <2>1, <2>2 DEF LimitTypeOK, HandlersOK
  <2>4. TokenRoom'
    <3>1. Inserting \in SUBSET Requests /\ Inserting' = Inserting
      BY <2>1 DEF Inserting
    <3>2. Cardinality(Inserting) \in Nat /\ Cardinality(Requests) \in Nat
      BY <3>1, SomeRequests
    <3>3. QED
      BY <2>1, <3>1, <3>2, LimitAssumption DEF TokenRoom
  <2>5. Recording' = Recording
    BY <2>1 DEF Recording
  <2>6. LoginRoom' /\ RoomMade' /\ BegunFirst'
    BY <2>1, <2>5, LoginsBeside
  <2>7. QED
    BY <2>2, <2>3, <2>4, <2>6
\* A SELECT evicts so many that less than the limit stays
<1>4. ASSUME NEW r \in Requests, SelectLogins(r) PROVE LimitInv'
  <2> DEFINE x == [entry |-> begun + 1, evict |-> Overflow(logins), recorded |-> recorded]
  <2>1. /\ begun < MaxLogins /\ Begin(r, "record", x)
        /\ begun' = begun + 1 /\ tokens' = tokens /\ logins' = logins /\ recorded' = recorded
    BY <1>4 DEF SelectLogins
  <2>2. /\ pc[r] = "idle" /\ pc' = [pc EXCEPT ![r] = "record"]
        /\ local' = [local EXCEPT ![r] = x]
    BY <2>1 DEF Begin
  <2>3. HandlersOK'
    BY <2>1, HandlersStep
  <2>4. /\ x.evict = Overflow(logins) /\ x.recorded = recorded
        /\ begun \in 0..MaxLogins /\ recorded \in 0..begun /\ logins \subseteq 1..begun
        /\ Overflow(logins) \subseteq logins
    BY DEF LimitTypeOK, Overflow
  <2>5. LimitTypeOK'
    <3>1. x \in [entry : 1..begun', evict : SUBSET (1..begun'), recorded : 0..recorded]
      <4>1. begun' = begun + 1 /\ begun \in Nat /\ recorded \in Nat
        BY <2>1, <2>4, LimitAssumption
      <4>2. begun + 1 \in 1..begun' /\ recorded \in 0..recorded
        BY <4>1
      <4>3. 1..begun \subseteq 1..begun'
        BY <4>1
      <4>4. Overflow(logins) \in SUBSET (1..begun')
        BY <2>4, <4>3, Zenon
      <4>5. QED
        BY <4>2, <4>4
    <3>2. begun' \in 0..MaxLogins /\ recorded' \in 0..begun' /\ logins' \subseteq 1..begun'
      BY <2>1, <2>4, LimitAssumption
    <3>3. ASSUME NEW q \in Requests, q # r, pc'[q] = "record"
          PROVE  local'[q] \in [entry : 1..begun', evict : SUBSET (1..begun'),
                                recorded : 0..recorded]
      <4>1. local'[q] = local[q] /\ pc[q] = "record"
        BY <2>2, <3>3 DEF HandlersOK
      <4>2. local[q] \in [entry : 1..begun, evict : SUBSET (1..begun), recorded : 0..recorded]
        BY <4>1 DEF LimitTypeOK
      <4>3. 1..begun \subseteq 1..begun'
        BY <2>1, <2>4, LimitAssumption
      <4>4. QED
        BY <4>1, <4>2, <4>3
    <3> HIDE DEF x
    <3>4. QED
      BY <2>1, <2>2, <2>3, <3>1, <3>2, <3>3 DEF LimitTypeOK, HandlersOK
  <2> HIDE DEF x
  <2>6. TokenRoom'
    <3>1. Inserting' = Inserting
      BY <2>2 DEF Inserting, HandlersOK
    <3>2. QED
      BY <2>1, <3>1 DEF TokenRoom
  <2>7. /\ Recording \in SUBSET Requests /\ r \notin Recording
        /\ Recording' = Recording \union {r}
        /\ local'[r] = x /\ \A q \in Recording : local'[q] = local[q]
    BY <2>2 DEF Recording, HandlersOK
  <2>8. logins \in SUBSET Nat /\ IsFiniteSet(logins)
    BY <2>4, SomeLogins
  <2>9. /\ Cardinality(logins \ Overflow(logins)) <= LoginLimit - 1
        /\ Cardinality(logins \ Overflow(logins)) \in Nat
    BY <2>8, OverflowLeaves
  <2>10. LoginRoom'
    <3> SUFFICES ASSUME NEW Q \in SUBSET Recording'
                 PROVE  Cardinality(Left(Q)') + Cardinality(Q)
                          <= LoginLimit - 1 + Cardinality(Requests)
      BY DEF LoginRoom, Left
    <3>1. CASE r \notin Q
      <4>1. Q \in SUBSET Recording /\ Left(Q)' = Left(Q)
        BY <2>1, <2>7, <3>1 DEF Left
      <4>2. QED
        BY <4>1 DEF LoginRoom
    <3>2. CASE r \in Q
      <4>1. Left(Q)' \in SUBSET (logins \ Overflow(logins))
        BY <2>1, <2>4, <2>7, <3>2 DEF Left
      <4>2. /\ Cardinality(Left(Q)') <= Cardinality(logins \ Overflow(logins))
            /\ Cardinality(Left(Q)') \in Nat
        BY <4>1, SomeLogins
      <4>3. Q \in SUBSET Requests
        BY <2>7
      <4>4. /\ Cardinality(Q) <= Cardinality(Requests)
            /\ Cardinality(Q) \in Nat /\ Cardinality(Requests) \in Nat
        BY <4>3, SomeRequests
      <4>5. QED
        BY <2>9, <4>2, <4>4, LimitAssumption
    <3>3. QED
      BY <3>1, <3>2
  <2>11. RoomMade'
    BY <2>1, <2>4, <2>7, <2>9 DEF RoomMade
  <2>12. BegunFirst'
    <3>1. Cardinality(Recording') = Cardinality(Recording) + 1 /\ Cardinality(Recording) \in Nat
      BY <2>7, SomeRequests DEF Recording
    <3>2. QED
      BY <2>1, <2>4, <3>1 DEF BegunFirst
  <2>13. QED
    BY <2>3, <2>5, <2>6, <2>10, <2>11, <2>12
\* The entry takes the place that its request had among those in flight
<1>5. ASSUME NEW r \in Requests, RecordLogin(r) PROVE LimitInv'
  <2> DEFINE x == local[r]
  <2>1. /\ pc[r] = "record" /\ Continue(r, "idle", <<>>) /\ recorded' = recorded + 1
        /\ logins' = (logins \ x.evict) \union {x.entry}
        /\ tokens' = tokens /\ begun' = begun
    BY <1>5 DEF RecordLogin, End
  <2>2. pc' = [pc EXCEPT ![r] = "idle"] /\ local' = [local EXCEPT ![r] = <<>>]
    BY <2>1 DEF Continue
  <2>3. HandlersOK'
    BY <2>1, HandlersStep
  <2>4. /\ Recording \in SUBSET Requests /\ r \in Recording /\ Recording' = Recording \ {r}
        /\ \A q \in Recording' : local'[q] = local[q]
    BY <2>1, <2>2 DEF Recording, HandlersOK
  <2>5. x \in [entry : 1..begun, evict : SUBSET (1..begun), recorded : 0..recorded]
    BY <2>1 DEF LimitTypeOK
  <2>6. begun \in 0..MaxLogins /\ recorded \in 0..begun /\ logins \subseteq 1..begun
    BY DEF LimitTypeOK
  <2>7. /\ Cardinality(Recording') = Cardinality(Recording) - 1
        /\ Cardinality(Recording) \in Nat
    BY <2>4, SomeRequests
  <2> HIDE DEF x
  <2>8. recorded' \in 0..begun /\ BegunFirst'
    <3>1. Cardinality(Recording') \in Nat
      BY <2>4, SomeRequests
    <3>2. QED
      BY <2>1, <2>6, <2>7, <3>1, LimitAssumption DEF BegunFirst
  <2>9. LimitTypeOK'
    <3>1. logins' \subseteq 1..begun
      BY <2>1, <2>5, <2>6
    <3>2. ASSUME NEW q \in Requests, q # r, pc'[q] = "record"
          PROVE  local'[q] \in [entry : 1..begun, evict : SUBSET (1..begun),
                                recorded : 0..recorded']
      <4>1. local'[q] = local[q] /\ pc[q] = "record"
        BY <2>2, <3>2 DEF HandlersOK
      <4>2. local[q] \in [entry : 1..begun, evict : SUBSET (1..begun), recorded : 0..recorded]
        BY <4>1 DEF LimitTypeOK
      <4>3. 0..recorded \subseteq 0..recorded'
        BY <2>1, <2>6
      <4>4. QED
        BY <4>1, <4>2, <4>3
    <3>3. QED
      BY <2>1, <2>2, <2>3, <2>6, <2>8, <3>1, <3>2 DEF LimitTypeOK, HandlersOK
  <2>10. TokenRoom'
    <3>1. Inserting' = Inserting
      BY <2>1, <2>2 DEF Inserting, HandlersOK
    <3>2. QED
      BY <2>1, <3>1 DEF TokenRoom
  <2>11. LoginRoom'
    <3> SUFFICES ASSUME NEW Q \in SUBSET Recording'
                 PROVE  Cardinality(Left(Q)') + Cardinality(Q)
                          <= LoginLimit - 1 + Cardinality(Requests)
      BY DEF LoginRoom, Left
    <3> DEFINE P == Q \union {r}
    <3>1. /\ Q \in SUBSET Requests /\ r \in Requests \ Q /\ P \in SUBSET Recording
      BY <2>4
    <3>2. /\ Cardinality(P) = Cardinality(Q) + 1
          /\ Cardinality(Q) \in Nat /\ Cardinality(Requests) \in Nat
      BY <3>1, SomeRequests
    <3>3. Left(P) \in SUBSET logins /\ Left(Q)' \subseteq Left(P) \union {x.entry}
      BY <2>1, <2>4 DEF Left, x
    <3>4. IsFiniteSet(Left(P)) /\ Cardinality(Left(P)) \in Nat
      BY <3>3, SomeLogins
    <3>5. Cardinality(Left(Q)') <= Cardinality(Left(P)) + 1 /\ Cardinality(Left(Q)') \in Nat
      BY <3>3, <3>4, OneMore
    <3>6. Cardinality(Left(P)) + Cardinality(P) <= LoginLimit - 1 + Cardinality(Requests)
      BY <3>1 DEF LoginRoom
    <3> HIDE DEF P
    <3>7. QED
      BY <3>2, <3>4, <3>5, <3>6, LimitAssumption
  <2>12. RoomMade'
    <3>1. ASSUME NEW q \in Recording' PROVE recorded' # local'[q].recorded
      <4>1. local'[q] = local[q] /\ q \in Requests /\ pc[q] = "record"
        BY <2>4 DEF Recording
      <4>2. local[q].recorded \in 0..recorded
        BY <4>1 DEF LimitTypeOK
      <4>3. QED
        BY <2>1, <2>6, <4>1, <4>2
    <3>2. QED
      BY <3>1 DEF RoomMade
  <2>13. QED
    BY <2>3, <2>8, <2>9, <2>10, <2>11, <2>12
<1>6. ASSUME NEW r \in Requests, Fail(r), UNCHANGED limitVars PROVE LimitInv'
  <2>1. /\ pc[r] # "idle" /\ Continue(r, "idle", <<>>)
        /\ pc' = [pc EXCEPT ![r] = "idle"] /\ local' = [local EXCEPT ![r] = <<>>]
        /\ tokens' = tokens /\ logins' = logins /\ begun' = begun /\ recorded' = recorded
    BY <1>6 DEF Fail, End, Continue, limitVars
  <2>2. HandlersOK'
    BY <2>1, HandlersStep
  <2>3. LimitTypeOK'
    BY <2>1, <2>2 DEF LimitTypeOK, HandlersOK
  <2>4. TokenRoom'
    <3>1. Inserting \in SUBSET Requests /\ Inserting' \subseteq Inserting
      BY <2>1 DEF Inserting, HandlersOK
    <3>2. IsFiniteSet(Inserting) /\ Cardinality(Inserting) \in Nat /\ Cardinality(Requests) \in Nat
      BY <3>1, SomeRequests
    <3>3. Cardinality(Inserting') <= Cardinality(Inserting) /\ Cardinality(Inserting') \in Nat
      BY <3>1, <3>2, FS_Subset, FS_CardinalityType
    <3>4. QED
      BY <2>1, <3>2, <3>3, LimitAssumption DEF TokenRoom
  <2>5. Recording' \subseteq Recording /\ \A q \in Recording' : local'[q] = local[q]
    BY <2>1 DEF Recording, HandlersOK
  <2>6. LoginRoom' /\ RoomMade' /\ BegunFirst'
    BY <2>1, <2>5, LoginsBeside
  <2>7. QED
    BY <2>2, <2>3, <2>4, <2>6
<1>7. CASE UNCHANGED <<reqVars, limitVars>>
  <2>1. UNCHANGED <<pc, local, overlap, tokens, logins, begun, recorded>>
    BY <1>7 DEF reqVars, limitVars
  <2>2. HandlersOK' /\ LimitTypeOK' /\ TokenRoom'
    BY <2>1 DEF HandlersOK, Flying, LimitTypeOK, TokenRoom, Inserting
  <2>3. LoginRoom' /\ RoomMade' /\ BegunFirst'
    BY <2>1 DEF LoginRoom, RoomMade, BegunFirst, Recording, Left
  <2>4. QED
    BY <2>2, <2>3
<1>8. QED
  BY <1>1, <1>2, <1>3, <1>4, <1>5, <1>6, <1>7 DEF LimitNext, TokenNext, LoginNext

LEMMA LimitInvariant == LimitSpec => []LimitInv
<1>1. QED
  BY LimitInvInit, LimitInvNext, PTL DEF LimitSpec

\* The counters, the entries and the requests keep their types.
THEOREM LimitTypeCorrect == LimitSpec => []LimitTypeOK
<1>1. LimitInv => LimitTypeOK
  BY DEF LimitInv
<1>2. QED
  BY <1>1, LimitInvariant, PTL

\* Concurrent requests exceed the limits of access tokens and of the login history
\* by less than their number, however long they go on (create_token, record_login).
THEOREM ExcessBounded == LimitSpec => []BoundedExcess
<1>1. LimitInv => BoundedExcess
  <2> SUFFICES ASSUME LimitInv PROVE BoundedExcess
    OBVIOUS
  <2> USE DEF LimitInv
  <2>1. Cardinality(Requests) \in Nat
    BY SomeRequests
  <2>2. tokens < TokenLimit + Cardinality(Requests)
    <3>1. Cardinality(Inserting) \in Nat
      BY SomeRequests DEF Inserting
    <3>2. QED
      BY <2>1, <3>1, LimitAssumption DEF TokenRoom
  <2>3. Cardinality(logins) < LoginLimit + Cardinality(Requests)
    <3>1. Left({}) = logins /\ Cardinality({}) = 0
      BY FS_EmptySet DEF Left
    <3>2. Cardinality(Left({})) + Cardinality({}) <= LoginLimit - 1 + Cardinality(Requests)
      BY DEF LoginRoom
    <3>3. Cardinality(logins) \in Nat
      BY SomeLogins
    <3>4. QED
      BY <2>1, <3>1, <3>2, <3>3, LimitAssumption
  <2>4. QED
    BY <2>2, <2>3 DEF BoundedExcess
<1>2. QED
  BY <1>1, LimitInvariant, PTL

\* An entry that is recorded with no other since its SELECT brings the history
\* back to the cap, whatever concurrent logins have left before (record_login).
THEOREM ExcessIsHealed == LimitSpec => ExcessHeals
<1> DEFINE Heals == \A r \in Requests :
                      /\ pc[r] = "record" /\ pc'[r] = "idle"
                      /\ recorded = local[r].recorded /\ recorded' = recorded + 1
                      => Cardinality(logins') <= LoginLimit
<1>1. LimitInv /\ [LimitNext]_<<reqVars, limitVars>> => Heals
  <2> SUFFICES ASSUME LimitInv, [LimitNext]_<<reqVars, limitVars>>,
                      NEW r \in Requests, pc[r] = "record", pc'[r] = "idle",
                      recorded = local[r].recorded, recorded' = recorded + 1
               PROVE  Cardinality(logins') <= LoginLimit
    OBVIOUS
  <2> USE DEF LimitInv
  <2>1. PICK q \in Requests : RecordLogin(q)
    <3>1. recorded' # recorded
      BY DEF LimitTypeOK
    <3>2. QED
      BY <3>1 DEF LimitNext, TokenNext, LoginNext, limitVars, reqVars, CountTokens, InsertToken,
                  RevokeToken, SelectLogins, RevokeLogin, RevokeAllLogins
  <2>2. q = r
    BY <2>1 DEF RecordLogin, End, Continue, HandlersOK
  <2>3. logins' = (logins \ local[r].evict) \union {local[r].entry}
    BY <2>1, <2>2 DEF RecordLogin
  <2>4. r \in Recording
    BY DEF Recording
  <2>5. Cardinality(logins \ local[r].evict) <= LoginLimit - 1
    BY <2>4 DEF RoomMade
  <2>6. IsFiniteSet(logins \ local[r].evict) /\ Cardinality(logins \ local[r].evict) \in Nat
    BY SomeLogins
  <2>7. Cardinality(logins') <= Cardinality(logins \ local[r].evict) + 1
        /\ Cardinality(logins') \in Nat
    BY <2>3, <2>6, OneMore
  <2>8. QED
    BY <2>5, <2>6, <2>7, LimitAssumption
<1>2. QED
  BY <1>1, LimitInvariant, PTL DEF LimitSpec, ExcessHeals
-----------------------------------------------------------------------------
(* RegistrationLimit                                                       *)

\* The entries are registrations that were let through, and those in the window
\* are all there: what is pruned now lies outside every window to come.
HitsKept ==
  /\ \A h \in hits : answers[h.of].allowed /\ answers[h.of].at = h.at
  /\ \A i \in 1..Len(answers) :
       /\ answers[i].at <= now
       /\ answers[i].allowed /\ answers[i].at > now - HitWindow
            => [of |-> i, at |-> answers[i].at] \in hits

RegisterInv == RegisterTypeOK /\ HitsKept /\ WindowIsExact

LEMMA RegisterInvInit == RegisterInit => RegisterInv
<1> SUFFICES ASSUME RegisterInit PROVE RegisterInv
  OBVIOUS
<1> USE RegistrationAssumption, MaxTimeAssumption
<1>1. now = 0 /\ hits = {} /\ answers = <<>>
  BY DEF RegisterInit, HandlersInit
<1>2. RegisterTypeOK
  BY <1>1, FS_EmptySet DEF RegisterTypeOK
<1>3. HitsKept /\ WindowIsExact
  BY <1>1 DEF HitsKept, WindowIsExact
<1>4. QED
  BY <1>2, <1>3 DEF RegisterInv

\* The entries that a check keeps are as many as the registrations let through in
\* the window that ends now.
LEMMA KeptAreCounted ==
  ASSUME RegisterInv
  PROVE  LET through == {j \in 1..Len(answers) :
                           answers[j].allowed /\ answers[j].at > now - HitWindow}
         IN  /\ IsFiniteSet(Pruned(hits))
             /\ Cardinality(Pruned(hits)) = Cardinality(through)
<1> DEFINE through == {j \in 1..Len(answers) :
                         answers[j].allowed /\ answers[j].at > now - HitWindow}
           f == [j \in through |-> [of |-> j, at |-> answers[j].at]]
<1>1. Len(answers) \in Nat
  BY DEF RegisterInv, RegisterTypeOK
<1>2. IsFiniteSet(through)
  <2>1. IsFiniteSet(1..Len(answers))
    BY <1>1, FS_Interval
  <2>2. QED
    BY <2>1, FS_Subset
<1>3. ASSUME NEW j \in through PROVE f[j] \in Pruned(hits)
  BY DEF Pruned, RegisterInv, HitsKept
<1>4. ASSUME NEW h \in Pruned(hits) PROVE h.of \in through /\ f[h.of] = h
  BY DEF Pruned, RegisterInv, HitsKept, RegisterTypeOK
<1>5. f \in Bijection(through, Pruned(hits))
  <2>1. f \in [through -> Pruned(hits)]
    BY <1>3
  <2>2. \A i, j \in through : f[i] = f[j] => i = j
    OBVIOUS
  <2>3. \A h \in Pruned(hits) : \E j \in through : f[j] = h
    BY <1>4
  <2>4. QED
    BY <2>1, <2>2, <2>3 DEF Bijection, Injection, Surjection, IsInjective
<1>6. ExistsBijection(through, Pruned(hits))
  BY <1>5 DEF ExistsBijection
<1>7. QED
  BY <1>2, <1>6, FS_Bijection

LEMMA RegisterInvNext ==
  RegisterInv /\ [RegisterNext]_<<reqVars, registerVars>> => RegisterInv'
<1> SUFFICES ASSUME RegisterInv, [RegisterNext]_<<reqVars, registerVars>> PROVE RegisterInv'
  OBVIOUS
<1> USE RegistrationAssumption, MaxTimeAssumption DEF RegisterInv
<1>0. /\ now \in Nat /\ now <= MaxTime /\ Len(answers) \in Nat
      /\ \A i \in 1..Len(answers) :
           answers[i] \in [at : 0..MaxTime, allowed : BOOLEAN] /\ answers[i].at \in Nat
  <2>1. now \in Nat /\ now <= MaxTime /\ Len(answers) \in Nat
    BY DEF RegisterTypeOK
  <2>2. ASSUME NEW i \in 1..Len(answers)
        PROVE  answers[i] \in [at : 0..MaxTime, allowed : BOOLEAN]
    <3>1. answers \in Seq([at : 0..MaxTime, allowed : BOOLEAN])
      BY DEF RegisterTypeOK
    <3>2. \A T : answers \in Seq(T) => answers[i] \in T
      OBVIOUS
    <3>3. QED
      BY <3>1, <3>2
  <2>3. \A t \in 0..MaxTime : t \in Nat
    OBVIOUS
  <2>4. QED
    BY <2>1, <2>2, <2>3
<1>1. CASE Tick /\ UNCHANGED registerVars
  <2>1. now < MaxTime /\ now' = now + 1 /\ UNCHANGED <<hits, answers>>
    BY <1>1 DEF Tick, registerVars
  <2>2. RegisterTypeOK'
    BY <1>0, <2>1 DEF RegisterTypeOK
  <2>3. HitsKept'
    <3>1. ASSUME NEW i \in 1..Len(answers)
          PROVE  /\ answers[i].at <= now + 1
                 /\ answers[i].allowed /\ answers[i].at > (now + 1) - HitWindow
                      => [of |-> i, at |-> answers[i].at] \in hits
      <4>1. answers[i].at \in Nat /\ answers[i].at <= now
        BY <1>0 DEF HitsKept
      <4>2. answers[i].at > (now + 1) - HitWindow => answers[i].at > now - HitWindow
        BY <1>0, <4>1
      <4>3. QED
        BY <1>0, <4>1, <4>2 DEF HitsKept
    <3>2. QED
      BY <2>1, <3>1 DEF HitsKept
  <2>4. WindowIsExact'
    BY <2>1 DEF WindowIsExact, LetThrough
  <2>5. QED
    BY <2>2, <2>3, <2>4
<1>2. ASSUME NEW r \in Requests, CheckAndRecord(r) PROVE RegisterInv'
  <2> DEFINE kept == Pruned(hits)
  <2>0. PICK n \in Nat : n = Len(answers) + 1
    BY <1>0
  <2>1. /\ IsFiniteSet(kept) /\ Cardinality(kept) \in Nat /\ kept \subseteq hits
        /\ Cardinality(kept) <= MaxRegistrations
    <3>1. IsFiniteSet(kept) /\ kept \subseteq hits
      BY KeptAreCounted DEF Pruned
    <3>2. Cardinality(kept) <= Cardinality(hits) /\ Cardinality(hits) \in Nat
      BY <3>1, FS_Subset, FS_CardinalityType DEF RegisterTypeOK
    <3>3. QED
      BY <3>1, <3>2, FS_CardinalityType DEF RegisterTypeOK
  <2>2. PICK b \in BOOLEAN :
          /\ b <=> Cardinality(kept) < MaxRegistrations
          /\ hits' = kept \union (IF b THEN {[of |-> n, at |-> now]} ELSE {})
          /\ answers' = Append(answers, [at |-> now, allowed |-> b])
          /\ Len(answers) < MaxAttempts /\ now' = now
    <3>1. PICK c \in BOOLEAN : c = (Cardinality(kept) < MaxRegistrations)
      <4>1. (Cardinality(kept) < MaxRegistrations) \in BOOLEAN
        BY <2>1
      <4>2. QED
        BY <4>1, Zenon
    <3>2. /\ hits' = kept \union (IF Cardinality(kept) < MaxRegistrations
                                  THEN {[of |-> Len(answers) + 1, at |-> now]} ELSE {})
          /\ answers' = Append(answers, [at |-> now, allowed |-> Cardinality(kept) < MaxRegistrations])
          /\ Len(answers) < MaxAttempts /\ now' = now
      BY <1>2, Zenon DEF CheckAndRecord, AtOnce
    <3>3. /\ hits' = kept \union (IF c THEN {[of |-> n, at |-> now]} ELSE {})
          /\ answers' = Append(answers, [at |-> now, allowed |-> c])
      BY <2>0, <3>1, <3>2, Zenon
    <3>4. QED
      BY <3>1, <3>2, <3>3, Zenon
  <2> DEFINE answer == [at |-> now, allowed |-> b]
             hit == [of |-> n, at |-> now]
  <2> HIDE DEF kept
  <2>3. /\ answers' \in Seq([at : 0..MaxTime, allowed : BOOLEAN])
        /\ Len(answers') = n /\ answers'[n] = answer
        /\ \A i \in 1..Len(answers) : answers'[i] = answers[i]
    <3>1. answer \in [at : 0..MaxTime, allowed : BOOLEAN]
      BY <1>0
    <3>2. answers \in Seq([at : 0..MaxTime, allowed : BOOLEAN])
      BY DEF RegisterTypeOK
    <3>3. answers' = Append(answers, answer)
      BY <2>2
    <3> HIDE DEF answer
    <3>4. QED
      BY <2>0, <3>1, <3>2, <3>3
  <2>4. RegisterTypeOK'
    <3>1. hits' \subseteq [of : 1..n, at : 0..MaxTime]
      <4>1. hit \in [of : 1..n, at : 0..MaxTime]
        BY <1>0, <2>0
      <4>2. kept \subseteq [of : 1..n, at : 0..MaxTime]
        <5>1. 1..Len(answers) \subseteq 1..n
          BY <1>0, <2>0
        <5>2. QED
          BY <2>1, <5>1 DEF RegisterTypeOK
      <4>3. QED
        BY <2>2, <4>1, <4>2
    <3>2. IsFiniteSet(hits') /\ Cardinality(hits') <= MaxRegistrations
      <4>1. CASE b
        <5>1. hits' = kept \union {hit}
          BY <2>2, <4>1
        <5>2. IsFiniteSet(hits') /\ Cardinality(hits') \in {Cardinality(kept), Cardinality(kept) + 1}
          BY <2>1, <5>1, FS_AddElement
        <5>3. QED
          BY <2>1, <2>2, <4>1, <5>2
      <4>2. CASE ~ b
        <5>1. hits' = kept
          BY <2>2, <4>2
        <5>2. QED
          BY <2>1, <5>1
      <4>3. QED
        BY <4>1, <4>2
    <3>3. QED
      BY <1>0, <2>0, <2>2, <2>3, <3>1, <3>2 DEF RegisterTypeOK
  <2>5. HitsKept'
    <3>1. ASSUME NEW h \in hits' PROVE answers'[h.of].allowed /\ answers'[h.of].at = h.at
      <4>1. CASE h \in kept
        <5>1. h \in hits /\ h.of \in 1..Len(answers)
          BY <2>1, <4>1 DEF RegisterTypeOK
        <5>2. QED
          BY <2>3, <5>1 DEF HitsKept
      <4>2. CASE b /\ h = hit
        BY <2>3, <4>2
      <4>3. QED
        BY <2>2, <4>1, <4>2
    <3>2. ASSUME NEW i \in 1..n
          PROVE  /\ answers'[i].at <= now
                 /\ answers'[i].allowed /\ answers'[i].at > now - HitWindow
                      => [of |-> i, at |-> answers'[i].at] \in hits'
      <4>1. CASE i = n
        <5>1. answers'[i].at = now /\ answers'[i].allowed = b
          BY <2>3, <4>1
        <5>2. b => hit \in hits'
          BY <2>2
        <5>3. QED
          BY <1>0, <4>1, <5>1, <5>2
      <4>2. CASE i # n
        <5>1. i \in 1..Len(answers) /\ answers'[i] = answers[i]
          BY <1>0, <2>0, <2>3, <4>2
        <5>2. QED
          BY <2>2, <5>1 DEF HitsKept, kept, Pruned
      <4>3. QED
        BY <4>1, <4>2
    <3>3. QED
      BY <2>0, <2>2, <2>3, <3>1, <3>2 DEF HitsKept
  <2>6. WindowIsExact'
    <3>1. ASSUME NEW i \in 1..Len(answers)
          PROVE  answers'[i].allowed <=> Cardinality(LetThrough(i)') < MaxRegistrations
      <4>1. /\ answers'[i] = answers[i]
            /\ \A j \in 1..(i - 1) : answers'[j] = answers[j]
        BY <1>0, <2>0, <2>3
      <4>2. LetThrough(i)' = LetThrough(i)
        BY <4>1 DEF LetThrough
      <4>3. QED
        BY <4>1, <4>2 DEF WindowIsExact
    <3>2. answers'[n].allowed <=> Cardinality(LetThrough(n)') < MaxRegistrations
      <4> DEFINE through == {j \in 1..Len(answers) :
                               answers[j].allowed /\ answers[j].at > now - HitWindow}
      <4>1. n - 1 = Len(answers) /\ answers'[n].at = now /\ answers'[n].allowed = b
        BY <1>0, <2>0, <2>3
      <4>2. LetThrough(n)' = through
        BY <2>0, <2>3, <4>1 DEF LetThrough
      <4>3. Cardinality(kept) = Cardinality(through)
        BY KeptAreCounted DEF kept
      <4>4. QED
        BY <2>2, <4>1, <4>2, <4>3
    <3>3. QED
      <4>1. \A i \in 1..n : i = n \/ i \in 1..Len(answers)
        BY <1>0, <2>0
      <4>2. QED
        BY <2>3, <3>1, <3>2, <4>1 DEF WindowIsExact
  <2>7. QED
    BY <2>4, <2>5, <2>6
<1>3. CASE UNCHANGED <<reqVars, registerVars>>
  BY <1>3 DEF reqVars, registerVars, RegisterTypeOK, HitsKept, WindowIsExact, LetThrough
<1>4. QED
  BY <1>1, <1>2, <1>3 DEF RegisterNext

LEMMA RegisterInvariant == RegisterSpec => []RegisterInv
BY RegisterInvInit, RegisterInvNext, PTL DEF RegisterSpec

\* Every variable of RegistrationLimit keeps its type, and the memory kept for an
\* address holds no more entries than the limit (_RegCounter.check_and_record).
THEOREM RegisterTypeCorrect == RegisterSpec => []RegisterTypeOK
BY RegisterInvariant, PTL DEF RegisterInv

\* A registration is let through exactly when fewer than the limit have been in
\* the window that ends with it, at every moment, although the list is pruned only
\* when somebody registers (_RegCounter.check_and_record).
THEOREM WindowStaysExact == RegisterSpec => []WindowIsExact
BY RegisterInvariant, PTL DEF RegisterInv
=============================================================================
