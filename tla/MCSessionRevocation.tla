------------------------ MODULE MCSessionRevocation ------------------------
(* The instance of SessionRevocation for TLC: three requests, of any kinds *)
(* and in any order.                                                       *)
EXTENDS SessionRevocation
=============================================================================
