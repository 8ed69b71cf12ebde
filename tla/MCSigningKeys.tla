--------------------------- MODULE MCSigningKeys ---------------------------
(***************************************************************************)
(* Instances of SigningKeys: keys live three days and are due one day      *)
(* before their expiry, so every rotation happens within the bound.        *)
(***************************************************************************)
EXTENDS SigningKeys, TLC

CONSTANTS w1, w2, k1, k2, k3, k4

Symmetry == Permutations({w1, w2}) \union Permutations({k1, k2, k3, k4})
=============================================================================
