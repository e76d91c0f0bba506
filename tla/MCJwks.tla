------------------------------- MODULE MCJwks -------------------------------
(* Constant values for model-checking Jwks.                                *)
EXTENDS Jwks, TLC

CONSTANTS k1, k2
=============================================================================
