------------------------------ MODULE KeyCache ------------------------------
(***************************************************************************)
(* What the process promises about its JWT verification keys               *)
(* (crates/server/src/jwt.rs, KeySource).  A static key is fixed at boot;  *)
(* a jwk_url key set starts empty and is replaced, whole, by sets the key  *)
(* server has served.  When a replacement happens is left open here: the   *)
(* refresher that decides it is module Jwks, which implements this one.    *)
(***************************************************************************)
CONSTANTS AllKeys,     \* every usable verification key
          StaticKeys,  \* the configured key (KeySource::Static), as a set
          JwkUrl       \* TRUE: keys come from a jwk_url (KeySource::Jwks)

ASSUME KeyAssumption ==
    /\ StaticKeys \subseteq AllKeys
    /\ JwkUrl \in BOOLEAN

VARIABLES keys,    \* the keys decode() tries
          served   \* the sets of usable keys the key server has published so far

keyVars == <<keys, served>>

KeyTypeOK ==
    /\ keys \in SUBSET AllKeys
    /\ served \in SUBSET (SUBSET AllKeys)

\* from_env_value / from_jwk_url: a static key is there at once, a JWKS is not.
KeyInit ==
    /\ keys = IF JwkUrl THEN {} ELSE StaticKeys
    /\ served \in IF JwkUrl THEN {{S} : S \in SUBSET AllKeys} ELSE {{}}

\* The key server rotates its set (external).
Publish ==
    /\ JwkUrl
    /\ \E S \in SUBSET AllKeys : served' = served \cup {S}
    /\ UNCHANGED keys

\* One successful refresh: a published set with at least one usable key
\* replaces the cached one.
Refresh ==
    /\ JwkUrl
    /\ \E S \in served \ {{}} : keys' = S
    /\ UNCHANGED served

KeyNext == Publish \/ Refresh

KeySpec == KeyInit /\ [][KeyNext]_keyVars
=============================================================================
