------------------------- MODULE OneTimeCredentials -------------------------
(***************************************************************************)
(* What the service hands out once and takes back once, for one user:      *)
(* magic links, email codes, confirmations of a new address, authorization *)
(* codes and the challenges of the passkey ceremonies.                     *)
(*                                                                         *)
(* The first four store a hash or the code, commit, and then mail it or    *)
(* redirect with it.  A challenge goes into the response, and get_session  *)
(* commits after the response has been sent.                               *)
(*                                                                         *)
(* Most lookups compare a column with `is None` or negate it with `not`:   *)
(* Python evaluates both, to False, so the condition is constantly false.  *)
(* Only the challenges, and among them only those of a registration, find  *)
(* what they look for.  The library webauthn is external: it accepts a     *)
(* response to a challenge, or raises.                                     *)
(***************************************************************************)
EXTENDS Handlers, FiniteSets

CONSTANTS
  Ids,           \* the random values that will be drawn: bounds them
  Authenticators \* the user's passkey devices; each one has one credential id

Kinds == {"magic_link", "email_otp", "email_change", "auth_code"}
Purposes == {"registration", "authentication"}

VARIABLES
  stored,      \* stored[k]: committed rows of kind k
  challenges,  \* committed rows of passkey_challenges: <<purpose, id>>
  passkeys,    \* committed credentials: <<authenticator, revoked>>
  drawn,       \* history: the values drawn
  out,         \* history: <<kind or purpose, id>> that have left the service
  usedFor      \* history: usedFor[i]: the credentials registered with challenge i

onceVars == <<stored, challenges, passkeys, drawn, out, usedFor>>

Challenges == Purposes \X Ids

OnceTypeOK ==
  /\ overlap \in BOOLEAN
  /\ stored \in [Kinds -> SUBSET Ids]
  /\ challenges \subseteq Challenges
  /\ passkeys \subseteq Authenticators \X BOOLEAN
  /\ drawn \subseteq Ids
  /\ out \subseteq (Kinds \union Purposes) \X Ids
  /\ usedFor \in [Ids -> SUBSET Authenticators]
  /\ \A r \in Requests :
       /\ pc[r] \in {"idle", "commit", "deliver", "respond", "store", "register"}
       /\ pc[r] \in {"commit", "deliver"} => local[r] \in [kind : Kinds, id : Ids]
       /\ pc[r] \in {"respond", "store"} =>
            local[r] \in [purpose : Purposes, id : Ids, gone : SUBSET Challenges]
       /\ pc[r] = "register" =>
            local[r] \in [challenge : Challenges, gone : SUBSET Challenges,
                          device : Authenticators]

OnceInit ==
  /\ HandlersInit
  /\ stored = [k \in Kinds |-> {}]
  /\ challenges = {} /\ passkeys = {} /\ drawn = {} /\ out = {}
  /\ usedFor = [i \in Ids |-> {}]

-----------------------------------------------------------------------------
(* Handing out: links, codes and confirmations                             *)

\* A new value in the open transaction.
Draw(r, k) ==
  \E i \in Ids \ drawn :
    /\ Begin(r, "commit", [kind |-> k, id |-> i])
    /\ drawn' = drawn \union {i}
    /\ UNCHANGED <<stored, challenges, passkeys, out, usedFor>>

\* Mutation: the mail is on its way before the row is committed.
CommitLate(r) ==
  /\ pc[r] = "commit"
  /\ out' = out \union {<<local[r].kind, local[r].id>>}
  /\ Continue(r, "deliver", local[r])
  /\ UNCHANGED <<stored, challenges, passkeys, drawn, usedFor>>

CommitDrawn(r) ==
  /\ pc[r] = "commit"
  /\ stored' = [stored EXCEPT ![local[r].kind] = @ \union {local[r].id}]
  /\ Continue(r, "deliver", local[r])
  /\ UNCHANGED <<challenges, passkeys, drawn, out, usedFor>>

\* The mail, or the redirect to the client.
Deliver(r) ==
  /\ pc[r] = "deliver"
  /\ out' = out \union {<<local[r].kind, local[r].id>>}
  /\ End(r)
  /\ UNCHANGED <<stored, challenges, passkeys, drawn, usedFor>>

SendMagicLink(r) == Draw(r, "magic_link")
SendEmailOtp(r) == Draw(r, "email_otp")
\* The UPDATE that is to invalidate older requests finds none of them.
RequestEmailChange(r) == Draw(r, "email_change")
\* For a client whose users need not consent.
Authorize(r) == Draw(r, "auth_code")
Consent(r) == Draw(r, "auth_code")

(* Taking back                                                             *)

\* The value is brought back, and the lookup returns no row: 400.  What the handlers
\* do with a row they have found is never reached.
TakeBack(r, k) ==
  /\ \E i \in Ids : <<k, i>> \in out
  /\ AtOnce(r)
  /\ UNCHANGED onceVars

VerifyMagicLink(r) == TakeBack(r, "magic_link")
VerifyEmailOtp(r) == TakeBack(r, "email_otp")
ConfirmEmailChange(r) == TakeBack(r, "email_change")
CodeGrant(r) == TakeBack(r, "auth_code")

-----------------------------------------------------------------------------
(* Passkeys                                                                *)

\* _store_challenge, not committed yet: the rows it deletes and the one it adds.
BeginCeremony(r, p) ==
  \E i \in Ids \ drawn :
    /\ Begin(r, "respond", [purpose |-> p, id |-> i, gone |-> {c \in challenges : c[1] = p}])
    /\ drawn' = drawn \union {i}
    /\ UNCHANGED <<stored, challenges, passkeys, out, usedFor>>

BeginRegistration(r) == BeginCeremony(r, "registration")
BeginAuthentication(r) == BeginCeremony(r, "authentication")

\* The response leaves before get_session commits.
RespondChallenge(r) ==
  /\ pc[r] = "respond"
  /\ out' = out \union {<<local[r].purpose, local[r].id>>}
  /\ Continue(r, "store", local[r])
  /\ UNCHANGED <<stored, challenges, passkeys, drawn, usedFor>>

StoreChallenge(r) ==
  /\ pc[r] = "store"
  /\ challenges' = (challenges \ local[r].gone) \union {<<local[r].purpose, local[r].id>>}
  /\ End(r)
  /\ UNCHANGED <<stored, passkeys, drawn, out, usedFor>>

\* Mutation: the challenge is read and not deleted.
ConsumeChallengeKeeps(r) ==
  \E c \in challenges \intersect out, a \in Authenticators :
    /\ c[1] = "registration"
    /\ Begin(r, "register", [challenge |-> c, gone |-> {}, device |-> a])
    /\ UNCHANGED onceVars

\* One of the stored rows is selected, and deleted in the transaction of the
\* request.  The row count of the DELETE is not looked at.
ConsumeChallenge(r) ==
  \E c \in challenges \intersect out, a \in Authenticators :
    /\ c[1] = "registration"
    /\ Begin(r, "register", [challenge |-> c, gone |-> {c}, device |-> a])
    /\ UNCHANGED onceVars

\* The device answers the challenge and its credential id is new, by a SELECT
\* and by the unique index; all of it commits at once.
CompleteRegistration(r) ==
  /\ pc[r] = "register"
  /\ {local[r].device} \X BOOLEAN \intersect passkeys = {}
  /\ challenges' = challenges \ local[r].gone
  /\ passkeys' = passkeys \union {<<local[r].device, FALSE>>}
  /\ usedFor' = [usedFor EXCEPT ![local[r].challenge[2]] = @ \union {local[r].device}]
  /\ End(r)
  /\ UNCHANGED <<stored, drawn, out>>

\* The credential is looked up under a constantly false condition: 400, and the
\* deletion of the challenge is rolled back.
CompleteAuthentication(r) ==
  /\ \E c \in challenges \intersect out : c[1] = "authentication"
  /\ AtOnce(r)
  /\ UNCHANGED onceVars

\* Soft deletion by the owner, in one UPDATE.
RevokeCredential(r) ==
  /\ \E a \in Authenticators :
       /\ {a} \X BOOLEAN \intersect passkeys # {}
       /\ passkeys' = (passkeys \ {<<a, FALSE>>}) \union {<<a, TRUE>>}
  /\ AtOnce(r)
  /\ UNCHANGED <<stored, challenges, drawn, out, usedFor>>

-----------------------------------------------------------------------------
OnceNext ==
  \E r \in Requests :
    \/ SendMagicLink(r) \/ SendEmailOtp(r) \/ RequestEmailChange(r)
    \/ Authorize(r) \/ Consent(r)
    \/ CommitDrawn(r) \/ Deliver(r)
    \/ VerifyMagicLink(r) \/ VerifyEmailOtp(r) \/ ConfirmEmailChange(r) \/ CodeGrant(r)
    \/ BeginRegistration(r) \/ BeginAuthentication(r)
    \/ RespondChallenge(r) \/ StoreChallenge(r)
    \/ ConsumeChallenge(r) \/ CompleteRegistration(r)
    \/ CompleteAuthentication(r) \/ RevokeCredential(r)
    \/ Fail(r) /\ UNCHANGED onceVars

OnceSpec == OnceInit /\ [][OnceNext]_<<reqVars, onceVars>>

-----------------------------------------------------------------------------
(* Safety, for any number of concurrent requests and failures              *)

\* What is mailed or redirected with has been committed before: no link, code
\* or confirmation is on its way that a later lookup could not know.
HandedOutIsStored == \A k \in Kinds, i \in Ids : <<k, i>> \in out => i \in stored[k]

(* Safety as long as no two requests overlap; refuted without that         *)

\* "Single-use WebAuthn challenge stored in DB": a challenge is answered by one
\* registration at most, whichever attempts failed before it.
OneCredentialPerChallenge == ~ overlap => \A i \in Ids : Cardinality(usedFor[i]) <= 1
=============================================================================
