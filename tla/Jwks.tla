-------------------------------- MODULE Jwks --------------------------------
(***************************************************************************)
(* The JWKS refresher (crates/server/src/jwt.rs, spawn_refresher): one     *)
(* background task that fetches the key set, replaces the cached keys and  *)
(* sleeps as long as the response's caching headers say.  The key server   *)
(* rotates its keys whenever it likes and may fail or answer garbage.      *)
(***************************************************************************)
EXTENDS Integers

CONSTANTS AllKeys,   \* every usable key
          MaxAges,   \* max-age values the key server may send
          Horizon    \* bound: the age of a request is counted up to here

ASSUME JwksAssumption ==
    /\ MaxAges \subseteq Nat
    /\ Horizon \in Nat \ {0}
    /\ \A a \in MaxAges : a <= Horizon

VARIABLES keys,     \* the shared Vec<JwkKey>
          served,   \* every set published so far
          pub,      \* the set the key server publishes now
          phase,    \* "fetch", "got" or "sleep"
          body,     \* the usable keys in the response; none if it is no JWKS
          cache,    \* the caching headers of the response
          wait,     \* seconds left of the sleep
          since     \* seconds since the current request was sent

vars == <<keys, served, pub, phase, body, cache, wait, since>>

\* No max-age directive.
NoAge == -1

Headers == [noStore : BOOLEAN, noCache : BOOLEAN, maxAge : MaxAges \cup {NoAge},
            expires : BOOLEAN]
NoHeaders == [noStore |-> FALSE, noCache |-> FALSE, maxAge |-> NoAge, expires |-> FALSE]

\* Mutant: max-age is taken as it is, without the floor of one second.
RawMaxAge(h) ==
    IF h.noStore THEN 1 ELSE IF h.noCache THEN 2
    ELSE IF h.maxAge # NoAge THEN h.maxAge ELSE IF h.expires THEN 3 ELSE 1

JwkRefreshInterval(h) ==
    CASE h.noStore                         -> 1
      [] ~h.noStore /\ h.noCache           -> 2
      [] ~h.noStore /\ ~h.noCache /\ h.maxAge # NoAge
                                           -> IF h.maxAge < 1 THEN 1 ELSE h.maxAge
      [] ~h.noStore /\ ~h.noCache /\ h.maxAge = NoAge
                                           -> IF h.expires THEN 3 ELSE 1

TypeOK ==
    /\ keys \in SUBSET AllKeys
    /\ served \in SUBSET (SUBSET AllKeys)
    /\ pub \in SUBSET AllKeys
    /\ phase \in {"fetch", "got", "sleep"}
    /\ body \in SUBSET AllKeys
    /\ cache \in Headers
    /\ wait \in Nat
    /\ since \in 0..Horizon

Init ==
    /\ keys = {}
    /\ pub \in SUBSET AllKeys
    /\ served = {pub}
    /\ phase = "fetch"
    /\ body = {}
    /\ cache = NoHeaders
    /\ wait = 0
    /\ since = 0

\* The key server publishes another set (external).
Rotate ==
    /\ pub' \in SUBSET AllKeys
    /\ served' = served \cup {pub'}
    /\ UNCHANGED <<keys, phase, body, cache, wait, since>>

\* The request is answered with what is published now, or with garbage.
Answer(h) ==
    /\ phase = "fetch"
    /\ phase' = "got"
    /\ body' \in {pub, {}}
    /\ cache' = h
    /\ UNCHANGED <<keys, served, pub, wait, since>>

\* http.get(..).send() returns an error: the interval stays at one second.
RequestFails ==
    /\ phase = "fetch"
    /\ phase' = "sleep"
    /\ wait' = 1
    /\ cache' = NoHeaders
    /\ UNCHANGED <<keys, served, pub, body, since>>

\* Mutant: a response without a usable key empties the cache.
InstallAnything ==
    /\ phase = "got"
    /\ keys' = body
    /\ phase' = "sleep"
    /\ wait' = JwkRefreshInterval(cache)
    /\ UNCHANGED <<served, pub, body, cache, since>>

\* Mutant: keys are only ever installed once.
InstallOnce ==
    /\ phase = "got"
    /\ keys' = IF keys = {} THEN body ELSE keys
    /\ phase' = "sleep"
    /\ wait' = JwkRefreshInterval(cache)
    /\ UNCHANGED <<served, pub, body, cache, since>>

\* The body is parsed and, when it holds a usable key, replaces the cached
\* set; the headers decide the sleep whatever the body was.
Install ==
    /\ phase = "got"
    /\ keys' = IF body = {} THEN keys ELSE body
    /\ phase' = "sleep"
    /\ wait' = JwkRefreshInterval(cache)
    /\ UNCHANGED <<served, pub, body, cache, since>>

\* The sleep is over and the loop sends the next request.
Request ==
    /\ phase = "sleep"
    /\ wait = 0
    /\ phase' = "fetch"
    /\ since' = 0
    /\ UNCHANGED <<keys, served, pub, body, cache, wait>>

Tick ==
    /\ phase = "sleep" => wait > 0
    /\ wait' = IF phase = "sleep" THEN wait - 1 ELSE wait
    /\ since' = IF since < Horizon THEN since + 1 ELSE since
    /\ UNCHANGED <<keys, served, pub, phase, body, cache>>

Respond == \E h \in Headers : Answer(h)

Next == Rotate \/ Respond \/ RequestFails \/ Install \/ Request \/ Tick

Spec == Init /\ [][Next]_vars

\* The task is scheduled and time passes.  The last conjunct is the
\* assumption on the key server: asked often enough, it gives a real answer.
\* The code sets no timeout on the request, so nothing else ends a fetch.
Fairness ==
    /\ WF_vars(Install)
    /\ WF_vars(Request)
    /\ WF_vars(Tick)
    /\ SF_vars(Respond /\ body' = pub)

FairSpec == Spec /\ Fairness

----------------------------------------------------------------------------
KC == INSTANCE KeyCache WITH StaticKeys <- {}, JwkUrl <- TRUE

\* The refresher implements the key cache the connections are modelled with:
\* whatever fails, arrives late or is garbage, the cached keys only ever
\* change from one published non-empty set to another.
ImplementsKeyCache == KC!KeySpec

\* No directive, and no failure, makes the refresher spin: two requests are
\* at least a second apart, and a set served with a governing max-age is not
\* fetched again before it has aged.
RefetchSpacing ==
    [][phase = "sleep" /\ phase' = "fetch" =>
          /\ since >= 1
          /\ ~cache.noStore /\ ~cache.noCache => since >= cache.maxAge]_vars

\* When the key server settles on a usable set, the cache ends up with it,
\* even if an older response was in flight at the last rotation.
KeysConverge ==
    \A S \in (SUBSET AllKeys) \ {{}} : <>[](pub = S) => <>[](keys = S)
=============================================================================
