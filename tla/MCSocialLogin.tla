--------------------------- MODULE MCSocialLogin ---------------------------
(***************************************************************************)
(* The instance of SocialLogin for TLC: two workers, three callbacks and a *)
(* user who may belong to another tenant.  A row that dates from the first *)
(* second expires while the state can still be young enough.               *)
(***************************************************************************)
EXTENDS SocialLogin, TLC

CONSTANTS w1, w2, c1, c2, c3

Symmetry == Permutations({w1, w2}) \union Permutations({c1, c2, c3})
=============================================================================
