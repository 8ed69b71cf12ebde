------------------------------ MODULE Blacklist ------------------------------
(***************************************************************************)
(* What the token blacklist of LiteIAM promises (the header comment of     *)
(* app/tokens/revocation.py, as far as the code keeps it): a worker denies *)
(* a token only because it was asked to revoke it or because the           *)
(* revocation is durable; a durable revocation lasts as long as the token; *)
(* a worker never stops denying a live token while its process runs; and a *)
(* process starts from the durable revocations.                            *)
(***************************************************************************)
CONSTANTS Workers, Jtis

VARIABLES
  live,     \* the tokens that have not expired
  durable,  \* the live tokens whose revocation is committed
  alive,    \* the workers whose process runs
  asked,    \* asked[w]: revocations requested of this process of w
  denied    \* denied[w]: the live tokens w rejects

bvars == <<live, durable, alive, asked, denied>>

BInit ==
  /\ live \subseteq Jtis
  /\ durable = {}
  /\ alive = {}
  /\ asked = [w \in Workers |-> {}]
  /\ denied = [w \in Workers |-> {}]

\* The worker that is asked denies at once.
Ask(w, j) ==
  /\ w \in alive
  /\ asked' = [asked EXCEPT ![w] = @ \union {j}]
  /\ denied' = [denied EXCEPT ![w] = @ \union ({j} \intersect live)]
  /\ UNCHANGED <<live, durable, alive>>

\* Nothing becomes durable that a running worker was not asked for.
Persist(w, j) ==
  /\ w \in alive /\ j \in asked[w]
  /\ durable' = durable \union ({j} \intersect live)
  /\ UNCHANGED <<live, alive, asked, denied>>

\* A worker learns from others only what is durable.
Hear(w, j) ==
  /\ w \in alive /\ j \in durable
  /\ denied' = [denied EXCEPT ![w] = @ \union {j}]
  /\ UNCHANGED <<live, durable, alive, asked>>

Expire(S) ==
  /\ live' = live \ S
  /\ durable' = durable \ S
  /\ denied' = [w \in Workers |-> denied[w] \ S]
  /\ UNCHANGED <<alive, asked>>

\* The load may fail as a whole, never in part.
Begin(w) ==
  /\ w \notin alive
  /\ alive' = alive \union {w}
  /\ \/ denied' = [denied EXCEPT ![w] = durable]
     \/ denied' = [denied EXCEPT ![w] = {}]
  /\ UNCHANGED <<live, durable, asked>>

End(w) ==
  /\ w \in alive
  /\ alive' = alive \ {w}
  /\ asked' = [asked EXCEPT ![w] = {}]
  /\ denied' = [denied EXCEPT ![w] = {}]
  /\ UNCHANGED <<live, durable>>

BNext ==
  \/ \E w \in Workers, j \in Jtis : Ask(w, j) \/ Persist(w, j) \/ Hear(w, j)
  \/ \E w \in Workers : Begin(w) \/ End(w)
  \/ \E S \in SUBSET live : Expire(S)

BSpec == BInit /\ [][BNext]_bvars
=============================================================================
