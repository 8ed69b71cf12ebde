-------------------------- MODULE MCRefreshTokens --------------------------
(***************************************************************************)
(* Instances of RefreshTokens: a token of a family, and a token inserted   *)
(* before the column token_family_id existed, with room for successors.    *)
(***************************************************************************)
EXTENDS RefreshTokens, TLC

CONSTANTS t1, t2, t3, t4, f1, r1, r2

SeedTwo == (t1 :> f1) @@ (t2 :> NoFamily)
=============================================================================
