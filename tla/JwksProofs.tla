----------------------------- MODULE JwksProofs -----------------------------
(***************************************************************************)
(* The refresher implements the abstract key cache, for every set of keys  *)
(* and every caching policy of the key server.                             *)
(***************************************************************************)
EXTENDS Jwks, TLAPS

\* A response that waits to be installed carries a set that was published, or
\* no usable key at all.
InFlight ==
    /\ pub \in SUBSET AllKeys
    /\ pub \in served
    /\ phase = "got" => body = {} \/ body \in served

LEMMA InFlightInit == Init => InFlight
BY DEF Init, InFlight

LEMMA InFlightStep == InFlight /\ [Next]_vars => InFlight'
<1> SUFFICES ASSUME InFlight, [Next]_vars PROVE InFlight'
  OBVIOUS
<1>1. CASE Rotate
  BY <1>1 DEF Rotate, InFlight
<1>2. CASE Respond
  BY <1>2 DEF Respond, Answer, InFlight
<1>3. CASE RequestFails
  BY <1>3 DEF RequestFails, InFlight
<1>4. CASE Install
  BY <1>4 DEF Install, InFlight
<1>5. CASE Request
  BY <1>5 DEF Request, InFlight
<1>6. CASE Tick
  BY <1>6 DEF Tick, InFlight
<1>7. CASE UNCHANGED vars
  BY <1>7 DEF vars, InFlight
<1> QED
  BY <1>1, <1>2, <1>3, <1>4, <1>5, <1>6, <1>7 DEF Next

\* The initial states of the refresher are initial states of the cache.
LEMMA RefineInit == Init => KC!KeyInit
BY DEF Init, KC!KeyInit

\* Rotation is Publish, installing a usable set is Refresh, and every other
\* step leaves the cache alone.
LEMMA RefineStep == InFlight /\ [Next]_vars => [KC!KeyNext]_(KC!keyVars)
<1> SUFFICES ASSUME InFlight, [Next]_vars PROVE [KC!KeyNext]_(KC!keyVars)
  OBVIOUS
<1>1. CASE Rotate
  BY <1>1 DEF Rotate, KC!KeyNext, KC!Publish
<1>2. CASE Install
  <2>1. CASE body = {}
    BY <1>2, <2>1 DEF Install, KC!keyVars
  <2>2. CASE body # {}
    BY <1>2, <2>2 DEF Install, InFlight, KC!KeyNext, KC!Refresh
  <2> QED
    BY <2>1, <2>2
<1>3. CASE Respond \/ RequestFails \/ Request \/ Tick \/ UNCHANGED vars
  BY <1>3 DEF Respond, Answer, RequestFails, Request, Tick, vars, KC!keyVars
<1> QED
  BY <1>1, <1>2, <1>3 DEF Next

\* Whatever the key server rotates, delays, garbles or refuses, the cached keys
\* only change from one published non-empty set to another: the connections may
\* be modelled with KeyCache in place of the refresher.
THEOREM RefresherImplementsKeyCache == Spec => ImplementsKeyCache
BY InFlightInit, InFlightStep, RefineInit, RefineStep, PTL
DEF Spec, ImplementsKeyCache, KC!KeySpec

----------------------------------------------------------------------------
\* How old a request must be before the next one may follow it: a second, and
\* the max-age of its answer where neither no-store nor no-cache overrides it.
Due(h) == IF ~h.noStore /\ ~h.noCache /\ h.maxAge > 1 THEN h.maxAge ELSE 1

\* During a sleep, what has passed since the request and what is left of the
\* sleep make up what is due.  The age is counted up to the horizon only, and
\* no max-age lies beyond that.
Paced == phase = "sleep" => since = Horizon \/ since + wait >= Due(cache)

PacingInv == TypeOK /\ Paced

LEMMA AgeIsNumber ==
    ASSUME NEW h \in Headers
    PROVE  h.maxAge \in Int /\ h.maxAge <= Horizon
<1>1. h.maxAge \in MaxAges \/ h.maxAge = -1
  BY DEF Headers, NoAge
<1>2. Horizon \in Nat /\ -1 <= Horizon
  BY JwksAssumption
<1>3. ASSUME NEW a \in MaxAges PROVE a \in Int /\ a <= Horizon
  BY JwksAssumption
<1>4. CASE h.maxAge = -1
  BY <1>2, <1>4
<1> QED
  BY <1>1, <1>3, <1>4

\* The interval chosen from the headers is never short of what is due.
LEMMA IntervalIsDue ==
    ASSUME NEW h \in Headers
    PROVE  JwkRefreshInterval(h) \in Nat /\ JwkRefreshInterval(h) >= Due(h)
BY JwksAssumption DEF Headers, JwkRefreshInterval, Due, NoAge

LEMMA DueByHorizon ==
    ASSUME NEW h \in Headers
    PROVE  Due(h) \in Nat /\ 1 <= Due(h) /\ Due(h) <= Horizon
<1>1. Horizon \in Nat /\ 1 <= Horizon
  BY JwksAssumption
<1> QED
  BY <1>1, AgeIsNumber DEF Due

LEMMA PacingInit == Init => PacingInv
BY JwksAssumption DEF Init, PacingInv, TypeOK, Paced, Headers, NoHeaders

LEMMA PacingStep == PacingInv /\ [Next]_vars => PacingInv'
<1> SUFFICES ASSUME TypeOK, Paced, [Next]_vars PROVE TypeOK' /\ Paced'
  BY DEF PacingInv
<1>0. cache \in Headers /\ wait \in Nat /\ since \in Nat /\ since <= Horizon /\ Horizon \in Nat
  BY JwksAssumption DEF TypeOK
<1>1. CASE Rotate
  BY <1>1 DEF Rotate, TypeOK, Paced
<1>2. CASE Respond
  BY <1>2 DEF Respond, Answer, TypeOK, Paced
<1>3. CASE RequestFails
  <2>1. NoHeaders \in Headers
    BY DEF NoHeaders, Headers
  <2>2. Due(NoHeaders) = 1
    BY DEF Due, NoHeaders, NoAge
  <2>3. TypeOK'
    BY <1>3, <2>1 DEF RequestFails, TypeOK
  <2> QED
    BY <1>0, <1>3, <2>2, <2>3 DEF RequestFails, Paced
<1>4. CASE Install
  <2>1. TypeOK'
    BY <1>0, <1>4, IntervalIsDue DEF Install, TypeOK
  <2>2. Due(cache) \in Nat /\ wait' \in Nat /\ wait' >= Due(cache) /\ since' = since /\ cache' = cache
    BY <1>0, <1>4, IntervalIsDue, DueByHorizon DEF Install
  <2> QED
    BY <1>0, <2>1, <2>2 DEF Paced
<1>5. CASE Request
  BY <1>5, JwksAssumption DEF Request, TypeOK, Paced
<1>6. CASE Tick
  <2>1. TypeOK'
    BY <1>0, <1>6 DEF Tick, TypeOK
  <2>2. Due(cache) \in Nat
    BY <1>0, DueByHorizon
  <2> QED
    BY <1>0, <1>6, <2>1, <2>2 DEF Tick, Paced
<1>7. CASE UNCHANGED vars
  BY <1>7 DEF vars, TypeOK, Paced
<1> QED
  BY <1>1, <1>2, <1>3, <1>4, <1>5, <1>6, <1>7 DEF Next

\* A step that starts a request leaves a sleep that is over.
LEMMA RequestIsDue ==
    ASSUME PacingInv, [Next]_vars, phase = "sleep", phase' = "fetch"
    PROVE  since >= 1 /\ (~cache.noStore /\ ~cache.noCache => since >= cache.maxAge)
<1>1. wait = 0
  BY DEF Next, Rotate, Respond, Answer, RequestFails, Install, Request, Tick, vars
<1>2. cache \in Headers /\ since \in Nat /\ Horizon \in Nat
  BY JwksAssumption DEF PacingInv, TypeOK
<1>3. Due(cache) \in Nat /\ 1 <= Due(cache) /\ Due(cache) <= Horizon
  BY <1>2, DueByHorizon
<1>4. since >= Due(cache)
  BY <1>1, <1>2, <1>3 DEF PacingInv, Paced
<1>5. ~cache.noStore /\ ~cache.noCache => cache.maxAge <= Due(cache)
  BY <1>2, AgeIsNumber DEF Due
<1>6. cache.maxAge \in Int
  BY <1>2, AgeIsNumber
<1> QED
  BY <1>2, <1>3, <1>4, <1>5, <1>6

\* The refresher never spins: whatever headers come back, and whether or not
\* the request failed, the next request is at least a second after the last
\* one, and not before a governing max-age has passed.
THEOREM RefresherNeverSpins == Spec => RefetchSpacing
<1>1. PacingInv /\ [Next]_vars =>
        [phase = "sleep" /\ phase' = "fetch" =>
            /\ since >= 1
            /\ ~cache.noStore /\ ~cache.noCache => since >= cache.maxAge]_vars
  BY RequestIsDue
<1> QED
  BY <1>1, PacingInit, PacingStep, PTL DEF Spec, RefetchSpacing
=============================================================================
