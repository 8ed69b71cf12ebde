------------------------------- MODULE Signup -------------------------------
(***************************************************************************)
(* New organisations (app/api/v1/auth.py): signup, which makes a tenant and*)
(* its owner, and create_tenant, with which a superuser makes a tenant.    *)
(*                                                                         *)
(* Both look first and insert then; what decides between two requests is   *)
(* the unique indexes on the slug and on the address.                      *)
(***************************************************************************)
EXTENDS Handlers, FiniteSets

CONSTANTS
  Slugs,     \* slugs an organisation's name and its random suffixes give
  Emails,
  MaxOrgs    \* bound on the organisations ever made

VARIABLES
  tenants,   \* committed tenants: [id, slug, by]
  owners,    \* committed users: [email, tenant]
  answered   \* history: [email, tenant] of the signups answered with 201

signupVars == <<tenants, owners, answered>>

SignupTypeOK ==
  /\ overlap \in BOOLEAN
  /\ tenants \subseteq [id : 1..MaxOrgs, slug : Slugs, by : {"signup", "admin"}]
  /\ owners \subseteq [email : Emails, tenant : 1..MaxOrgs]
  /\ answered \subseteq [email : Emails, tenant : 1..MaxOrgs]
  /\ \A r \in Requests :
       /\ pc[r] \in {"idle", "commit", "answer", "create"}
       /\ pc[r] = "create" => local[r] \in [id : 1..MaxOrgs, slug : Slugs]
       /\ pc[r] \in {"commit", "answer"} =>
            local[r] \in [id : 1..MaxOrgs, slug : Slugs, email : Emails]

SignupInit == HandlersInit /\ tenants = {} /\ owners = {} /\ answered = {}

-----------------------------------------------------------------------------
Taken(s) == \E t \in tenants : t.slug = s
Known(e) == \E o \in owners : o.email = e

\* uuid4: an id that no tenant has, committed or about to be.
NewIds ==
  (1..MaxOrgs) \ ({t.id : t \in tenants}
                   \union {local[r].id : r \in {q \in Requests : pc[q] # "idle"}})

\* The SELECT of _unique_tenant_slug for one candidate; the last of five
\* attempts takes its slug without looking.
UniqueTenantSlug(s) == ~ Taken(s) \/ \A x \in Slugs : Taken(x)

\* 409 for a known address.
SignupRead(r, e, s) ==
  /\ ~ Known(e) /\ UniqueTenantSlug(s)
  /\ \E i \in NewIds :
       Begin(r, "commit", [id |-> i, slug |-> s, email |-> e])
  /\ UNCHANGED signupVars

\* Mutation: the tenant is committed before its owner.
SignupCommitTenant(r) ==
  /\ pc[r] = "commit" /\ ~ Taken(local[r].slug)
  /\ tenants' = tenants \union {[id |-> local[r].id, slug |-> local[r].slug, by |-> "signup"]}
  /\ IF Known(local[r].email)
       THEN End(r) /\ UNCHANGED owners
       ELSE /\ owners' = owners \union {[email |-> local[r].email, tenant |-> local[r].id]}
            /\ Continue(r, "answer", local[r])
  /\ UNCHANGED answered

\* Both rows commit, or the commit fails on one of the indexes: 409.
SignupCommit(r) ==
  /\ pc[r] = "commit" /\ ~ Taken(local[r].slug) /\ ~ Known(local[r].email)
  /\ tenants' = tenants \union {[id |-> local[r].id, slug |-> local[r].slug, by |-> "signup"]}
  /\ owners' = owners \union {[email |-> local[r].email, tenant |-> local[r].id]}
  /\ Continue(r, "answer", local[r])
  /\ UNCHANGED answered

SignupAnswer(r) ==
  /\ pc[r] = "answer"
  /\ answered' = answered \union {[email |-> local[r].email, tenant |-> local[r].id]}
  /\ End(r)
  /\ UNCHANGED <<tenants, owners>>

CreateTenantRead(r, s) ==
  /\ ~ Taken(s)
  /\ \E i \in NewIds : Begin(r, "create", [id |-> i, slug |-> s])
  /\ UNCHANGED signupVars

\* A slug taken since fails the commit: 500.
CreateTenant(r) ==
  /\ pc[r] = "create" /\ ~ Taken(local[r].slug)
  /\ tenants' = tenants \union {[id |-> local[r].id, slug |-> local[r].slug, by |-> "admin"]}
  /\ End(r)
  /\ UNCHANGED <<owners, answered>>

SignupNext ==
  \E r \in Requests :
    \/ \E s \in Slugs : CreateTenantRead(r, s) \/ \E e \in Emails : SignupRead(r, e, s)
    \/ SignupCommit(r) \/ SignupAnswer(r) \/ CreateTenant(r)
    \/ Fail(r) /\ UNCHANGED signupVars

SignupSpec == SignupInit /\ [][SignupNext]_<<reqVars, signupVars>>

-----------------------------------------------------------------------------
(* Safety, for any number of concurrent requests and failures              *)

\* "Both rows commit together, so a failure rolls back atomically": an
\* organisation made by a signup has exactly one owner, no address owns two, and
\* whoever was answered 201 has one.
OrganisationsOwned ==
  /\ \A t \in tenants :
       t.by = "signup" => Cardinality({o \in owners : o.tenant = t.id}) = 1
  /\ \A o, p \in owners : o.email = p.email => o = p
  /\ \A o \in owners : \E t \in tenants : t.id = o.tenant
  /\ answered \subseteq owners
=============================================================================
