-------------------------- MODULE RegistrationLimit --------------------------
(***************************************************************************)
(* The limit on registrations from one address in one worker               *)
(* (app/middleware/reg_rate_limit.py): a sliding window that is pruned when*)
(* a registration is attempted and counts those that were let through.  The*)
(* event loop runs each check as a whole, beside any number of requests.   *)
(***************************************************************************)
EXTENDS Handlers, Sequences, FiniteSets

CONSTANTS
  MaxRegistrations,  \* _MAX_REGISTRATIONS
  HitWindow,         \* _WINDOW_SECONDS, in ticks
  MaxAttempts        \* bound on the registrations attempted

ASSUME RegistrationAssumption ==
  MaxRegistrations \in Nat \ {0} /\ HitWindow \in Nat \ {0} /\ MaxAttempts \in Nat

VARIABLES
  hits,      \* _hits of the address: times, each with the number of its attempt
  answers    \* history: when each attempt came, and whether it was let through

registerVars == <<hits, answers>>

RegisterTypeOK ==
  /\ now \in 0..MaxTime
  /\ hits \subseteq [of : 1..Len(answers), at : 0..MaxTime]
  /\ IsFiniteSet(hits) /\ Cardinality(hits) <= MaxRegistrations
  /\ answers \in Seq([at : 0..MaxTime, allowed : BOOLEAN]) /\ Len(answers) <= MaxAttempts

RegisterInit == HandlersInit /\ hits = {} /\ answers = <<>>

-----------------------------------------------------------------------------
\* Mutation: the window starts anew when its oldest entry is out.
PrunedWhole(s) ==
  IF \E h \in s : h.at <= now - HitWindow THEN {} ELSE s

Pruned(s) == {h \in s : h.at > now - HitWindow}

\* A refused attempt leaves the pruned list and no entry.
CheckAndRecord(r) ==
  /\ Len(answers) < MaxAttempts
  /\ AtOnce(r)
  /\ LET kept == Pruned(hits)
         allowed == Cardinality(kept) < MaxRegistrations
     IN /\ hits' = kept \union (IF allowed THEN {[of |-> Len(answers) + 1, at |-> now]} ELSE {})
        /\ answers' = Append(answers, [at |-> now, allowed |-> allowed])

RegisterNext ==
  \/ Tick /\ UNCHANGED registerVars
  \/ \E r \in Requests : CheckAndRecord(r)

RegisterSpec == RegisterInit /\ [][RegisterNext]_<<reqVars, registerVars>>

-----------------------------------------------------------------------------
\* What was let through in the window that ends with attempt i.
LetThrough(i) ==
  {j \in 1..(i - 1) : answers[j].allowed /\ answers[j].at > answers[i].at - HitWindow}

(* Safety                                                                  *)

\* "5 registrations per IP per hour", at every moment: of any window no more are
\* let through, and nobody is refused for attempts that were refused before or
\* lie an hour back.
WindowIsExact ==
  \A i \in 1..Len(answers) :
    answers[i].allowed <=> Cardinality(LetThrough(i)) < MaxRegistrations
=============================================================================
