--------------------------- MODULE MCClaimsCache ---------------------------
(* Instances of ClaimsCache for TLC.  Workers and requests are             *)
(* interchangeable.                                                        *)
EXTENDS ClaimsCache, TLC

CONSTANTS w1, w2, r1, r2

Symmetry == Permutations({w1, w2}) \union Permutations({r1, r2})
=============================================================================
