------------------------------- MODULE MCAuth -------------------------------
(* Constant values for model-checking Auth.                                *)
EXTENDS Auth, TLC

CONSTANTS anon, user
=============================================================================
