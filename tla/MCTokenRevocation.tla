------------------------- MODULE MCTokenRevocation -------------------------
(***************************************************************************)
(* Instances of TokenRevocation: two workers that may fail in every way,   *)
(* and two tokens that expire one after the other.                         *)
(***************************************************************************)
EXTENDS TokenRevocation, TLC

CONSTANTS w1, w2, j1, j2

ExpTwo == (j1 :> 1) @@ (j2 :> 2)
=============================================================================
