----------------------------- MODULE AuthProofs -----------------------------
(***************************************************************************)
(* Who gets which role, for every set of roles: the answer of session      *)
(* resolution is a function of configuration, request and hook answer, and *)
(* the properties of Auth are facts about that function.                   *)
(***************************************************************************)
EXTENDS Auth, TLAPS

\* What has been decided when the request is resolved.
Decision ==
    IF conf.hook /\ ~Admin(conf, req) THEN WebhookSession(conf, answer) ELSE Resolve(conf, req)

AuthInv ==
    /\ conf \in Configs
    /\ req \in Requests
    /\ answer \in HookAnswers
    /\ pc \in {"new", "asking", "done"}
    /\ pc = "asking" => conf.hook /\ ~Admin(conf, req)
    /\ out = IF pc = "done" THEN Decision ELSE Error

LEMMA AuthInvInit == Init => AuthInv
BY DEF Init, AuthInv, NoAnswer, HookAnswers

LEMMA AuthInvStep == AuthInv /\ [Next]_vars => AuthInv'
<1> SUFFICES ASSUME AuthInv, [Next]_vars PROVE AuthInv'
  OBVIOUS
<1>1. CASE ResolveLocally
  BY <1>1 DEF ResolveLocally, AuthInv, Decision
<1>2. CASE AskHook
  BY <1>2 DEF AskHook, AuthInv
<1>3. ASSUME NEW a \in HookAnswers, HookReplies(a) PROVE AuthInv'
  BY <1>3 DEF HookReplies, AuthInv, Decision
<1>4. CASE UNCHANGED vars
  BY <1>4 DEF vars, AuthInv, Decision
<1> QED
  BY <1>1, <1>2, <1>3, <1>4 DEF Next

----------------------------------------------------------------------------
\* Every answer is a session with a role, or an error.
Sound(o) == o \in Outcomes /\ (o.ok => o.role \in Roles)

LEMMA SessionIsSound ==
    ASSUME NEW r \in Roles, NEW b \in BOOLEAN, NEW v \in Vars
    PROVE  Sound(Session(r, b, v))
BY DEF Sound, Session, Outcomes

LEMMA ErrorIsSound == Sound(Error)
BY DEF Sound, Error, Outcomes, Vars

LEMMA UnauthorizedIsSound ==
    ASSUME NEW c \in Configs PROVE Sound(Unauthorized(c))
<1>1. c.anon \in Roles \cup {None} /\ "nothing" \in Vars
  BY DEF Configs, Vars
<1> QED
  BY <1>1, ErrorIsSound, SessionIsSound DEF Unauthorized

LEMMA HeadersAreSound ==
    ASSUME NEW c \in Configs, NEW p \in Plain, NEW t \in BOOLEAN
    PROVE  Sound(SessionFromHeaders(c, p, t))
<1>1. c.anon \in Roles \cup {None} /\ p.role \in Roles \cup {None} /\ "headers" \in Vars
  BY DEF Configs, Plain, Vars
<1> QED
  BY <1>1, ErrorIsSound, SessionIsSound, UnauthorizedIsSound DEF SessionFromHeaders

LEMMA TokenIsSound ==
    ASSUME NEW c \in Configs, NEW q \in Requests
    PROVE  Sound(JwtSession(c, q))
<1> DEFINE b == q.plain.backend = "true"
<1>1. /\ q.claims \in Claims \cup {NoClaims} /\ q.plain.role \in Roles \cup {None}
      /\ q.token \in {"absent", "invalid", "valid"} /\ "claims" \in Vars
  BY DEF Requests, Plain, Vars
<1>2. q.claims.allowedKind = "list" => q.claims.allowed \in SUBSET Roles /\ q.claims.default \in Roles
  BY <1>1 DEF Claims, NoClaims
<1>3. ASSUME q.claims.allowedKind = "list"
      PROVE  Sound(RoleOf(q.claims.allowed, q.claims.default, q.plain.role, b))
  BY <1>1, <1>2, <1>3, ErrorIsSound, SessionIsSound DEF RoleOf
<1>4. Sound(NamespaceSession(q.claims, q.plain.role, b))
  BY <1>3, ErrorIsSound DEF NamespaceSession
<1>5. Sound(ClaimsMapSession(q.claims, q.plain.role, b))
  BY <1>3, ErrorIsSound DEF ClaimsMapSession
<1> QED
  BY <1>1, <1>4, <1>5, ErrorIsSound, UnauthorizedIsSound DEF JwtSession

LEMMA DecisionIsSound ==
    ASSUME AuthInv PROVE Sound(Decision)
<1>1. /\ conf \in Configs /\ req \in Requests /\ req.plain \in Plain /\ answer \in HookAnswers
      /\ (~conf.secret) \in BOOLEAN /\ conf.jwt \in {"off", "namespace", "map"}
  BY DEF AuthInv, Requests, Configs
<1>2. Sound(Resolve(conf, req))
  BY <1>1, HeadersAreSound, TokenIsSound DEF Resolve
<1>3. Sound(WebhookSession(conf, answer))
  <2>1. /\ answer.status \in {"unreachable", "401", "other"} /\ answer.role \in Roles \cup {None}
        /\ "hook" \in Vars
    BY <1>1 DEF HookAnswers, Vars
  <2> QED
    BY <1>1, <2>1, ErrorIsSound, SessionIsSound, UnauthorizedIsSound DEF WebhookSession
<1> QED
  BY <1>2, <1>3 DEF Decision

\* Session resolution always answers with a session that has a role, or with
\* an error that has none.
THEOREM AuthTypeCorrect == Spec => []TypeOK
<1>1. AuthInv => TypeOK
  <2> SUFFICES ASSUME AuthInv PROVE TypeOK
    OBVIOUS
  <2>1. Sound(out)
    BY DecisionIsSound, ErrorIsSound DEF AuthInv
  <2> QED
    BY <2>1 DEF AuthInv, TypeOK, Sound
<1> QED
  BY <1>1, AuthInvInit, AuthInvStep, PTL DEF Spec

----------------------------------------------------------------------------
\* Where a role can come from, one branch of resolution at a time.
LEMMA UnauthorizedRole ==
    ASSUME NEW c, Unauthorized(c).ok
    PROVE  Unauthorized(c).role = c.anon /\ Unauthorized(c).vars = "nothing"
BY DEF Unauthorized, Session, Error

LEMMA HeadersRole ==
    ASSUME NEW c, NEW p, SessionFromHeaders(c, p, TRUE).ok
    PROVE  SessionFromHeaders(c, p, TRUE).role \in {c.anon, p.role}
BY DEF SessionFromHeaders, Session, Error

LEMMA UntrustedHeaders ==
    ASSUME NEW c, NEW p
    PROVE  SessionFromHeaders(c, p, FALSE) = Unauthorized(c)
BY DEF SessionFromHeaders

LEMMA TokenRole ==
    ASSUME NEW c, NEW q \in Requests, JwtSession(c, q).ok
    PROVE  \/ q.token = "absent" /\ JwtSession(c, q) = Unauthorized(c)
           \/ /\ q.token = "valid"
              /\ JwtSession(c, q).role \in q.claims.allowed \cup {q.claims.default}
              /\ JwtSession(c, q).vars = "claims"
<1>1. q.token \in {"absent", "invalid", "valid"}
  BY DEF Requests
<1>2. CASE q.token = "absent"
  BY <1>2 DEF JwtSession
<1>3. CASE q.token = "invalid"
  BY <1>3 DEF JwtSession, Error
<1>4. CASE q.token = "valid"
  <2> DEFINE o == RoleOf(q.claims.allowed, q.claims.default, q.plain.role, q.plain.backend = "true")
  <2>1. JwtSession(c, q) = o \/ JwtSession(c, q) = Error
    BY <1>4 DEF JwtSession, NamespaceSession, ClaimsMapSession
  <2>2. JwtSession(c, q) = o
    BY <2>1 DEF Error
  <2>3. o.role \in q.claims.allowed \cup {q.claims.default} /\ o.vars = "claims"
    BY <2>2 DEF RoleOf, Session, Error
  <2> QED
    BY <1>4, <2>2, <2>3
<1> QED
  BY <1>1, <1>2, <1>3, <1>4

LEMMA HookRole ==
    ASSUME NEW c, NEW a \in HookAnswers, WebhookSession(c, a).ok
    PROVE  \/ WebhookSession(c, a) = Unauthorized(c)
           \/ a.status = "other" /\ WebhookSession(c, a).role = a.role
<1>1. a.status \in {"unreachable", "401", "other"}
  BY DEF HookAnswers
<1> QED
  BY <1>1 DEF WebhookSession, Session, Error

\* No combination of modes gives a request a role that neither the
\* configuration, nor a verified token, nor the hook, nor a trusted header
\* named.
THEOREM NoRoleWithoutGrant == Spec => []RoleWasGranted
<1>1. AuthInv => RoleWasGranted
  <2> SUFFICES ASSUME AuthInv, pc = "done", out.ok PROVE RoleWasGranted
    BY DEF RoleWasGranted, Resolved
  <2>0. conf \in Configs /\ req \in Requests /\ answer \in HookAnswers /\ out = Decision
    BY DEF AuthInv
  <2>1. CASE conf.hook /\ ~Admin(conf, req)
    BY <2>0, <2>1, HookRole, UnauthorizedRole DEF Decision, RoleWasGranted
  <2>2. CASE Admin(conf, req)
    BY <2>0, <2>2, HeadersRole DEF Decision, Resolve, RoleWasGranted
  <2>3. CASE ~conf.hook /\ ~Admin(conf, req) /\ conf.jwt # "off"
    <3>1. out = JwtSession(conf, req)
      BY <2>0, <2>3 DEF Decision, Resolve
    <3> QED
      BY <2>0, <2>3, <3>1, TokenRole, UnauthorizedRole DEF RoleWasGranted
  <2>4. CASE ~conf.hook /\ ~Admin(conf, req) /\ conf.jwt = "off"
    <3>1. out = SessionFromHeaders(conf, req.plain, ~conf.secret)
      BY <2>0, <2>4 DEF Decision, Resolve
    <3>2. conf.secret \in BOOLEAN
      BY <2>0 DEF Configs
    <3>3. CASE conf.secret = TRUE
      BY <3>1, <3>3, UntrustedHeaders, UnauthorizedRole DEF RoleWasGranted
    <3>4. CASE conf.secret = FALSE
      BY <2>4, <3>1, <3>4, HeadersRole DEF RoleWasGranted
    <3> QED
      BY <3>2, <3>3, <3>4
  <2> QED
    BY <2>1, <2>2, <2>3, <2>4
<1> QED
  BY <1>1, AuthInvInit, AuthInvStep, PTL DEF Spec

----------------------------------------------------------------------------
\* The backend flag is passed through and decides nothing else.
LEMMA FlagPassesThrough ==
    ASSUME NEW a, NEW d, NEW r, NEW b \in BOOLEAN, NEW b2 \in BOOLEAN, RoleOf(a, d, r, b).ok
    PROVE  /\ RoleOf(a, d, r, b2).ok
           /\ RoleOf(a, d, r, b2).role = RoleOf(a, d, r, b).role
           /\ RoleOf(a, d, r, b2).vars = RoleOf(a, d, r, b).vars
           /\ RoleOf(a, d, r, b2).backend = b2
BY DEF RoleOf, Session, Error

LEMMA MapFlag ==
    ASSUME NEW cl, NEW r, NEW b \in BOOLEAN, NEW b2 \in BOOLEAN, ClaimsMapSession(cl, r, b).ok
    PROVE  /\ ClaimsMapSession(cl, r, b2).ok
           /\ ClaimsMapSession(cl, r, b2).role = ClaimsMapSession(cl, r, b).role
           /\ ClaimsMapSession(cl, r, b2).vars = ClaimsMapSession(cl, r, b).vars
           /\ ClaimsMapSession(cl, r, b2).backend = b2
BY FlagPassesThrough DEF ClaimsMapSession, Error

LEMMA NamespaceFlag ==
    ASSUME NEW cl, NEW r, NEW b \in BOOLEAN, NEW b2 \in BOOLEAN, NamespaceSession(cl, r, b).ok
    PROVE  /\ NamespaceSession(cl, r, b2).ok
           /\ NamespaceSession(cl, r, b2).role = NamespaceSession(cl, r, b).role
           /\ NamespaceSession(cl, r, b2).vars = NamespaceSession(cl, r, b).vars
           /\ NamespaceSession(cl, r, b2).backend = b2
BY FlagPassesThrough DEF NamespaceSession, Error

\* With a token the plain headers decide which of the token's roles is taken
\* and the backend flag; without one they decide nothing.
LEMMA TokenIgnoresHeaders ==
    ASSUME NEW c, NEW q \in Requests, NEW p \in Plain, JwtSession(c, q).ok,
           NEW alt, alt = JwtSession(c, [q EXCEPT !.plain = p])
    PROVE  /\ q.token # "valid" => alt = JwtSession(c, q)
           /\ q.token = "valid" /\ alt.ok => alt.vars = JwtSession(c, q).vars
           /\ q.token = "valid" /\ p.role = q.plain.role =>
                 /\ alt.ok /\ alt.role = JwtSession(c, q).role /\ alt.vars = JwtSession(c, q).vars
                 /\ alt.backend = (p.backend = "true")
<1> DEFINE r == [q EXCEPT !.plain = p]
<1>1. /\ r \in Requests /\ r.token = q.token /\ r.claims = q.claims /\ r.plain = p
      /\ q.token \in {"absent", "invalid", "valid"}
  BY DEF Requests
<1>2. CASE q.token = "absent"
  BY <1>1, <1>2 DEF JwtSession
<1>3. CASE q.token = "invalid"
  BY <1>3 DEF JwtSession, Error
<1>4. CASE q.token = "valid"
  <2>1. alt.ok => alt.vars = JwtSession(c, q).vars
    BY <1>1, <1>4, TokenRole
  <2>2. ASSUME p.role = q.plain.role
        PROVE  /\ alt.ok /\ alt.role = JwtSession(c, q).role /\ alt.vars = JwtSession(c, q).vars
               /\ alt.backend = (p.backend = "true")
    <3>1. PICK b \in BOOLEAN : b = (q.plain.backend = "true")
      OBVIOUS
    <3>2. PICK b2 \in BOOLEAN : b2 = (p.backend = "true")
      OBVIOUS
    <3>3. CASE c.jwt = "map"
      <4>1. /\ JwtSession(c, q) = ClaimsMapSession(q.claims, q.plain.role, b)
            /\ alt = ClaimsMapSession(q.claims, q.plain.role, b2)
        BY <1>1, <1>4, <2>2, <3>1, <3>2, <3>3 DEF JwtSession
      <4>2. ClaimsMapSession(q.claims, q.plain.role, b).ok
        BY <4>1, Zenon
      <4>3. /\ ClaimsMapSession(q.claims, q.plain.role, b2).ok
            /\ ClaimsMapSession(q.claims, q.plain.role, b2).role = ClaimsMapSession(q.claims, q.plain.role, b).role
            /\ ClaimsMapSession(q.claims, q.plain.role, b2).vars = ClaimsMapSession(q.claims, q.plain.role, b).vars
            /\ ClaimsMapSession(q.claims, q.plain.role, b2).backend = b2
        BY <4>2, MapFlag, Zenon
      <4> QED
        BY <3>2, <4>1, <4>3, Zenon
    <3>4. CASE c.jwt # "map"
      <4>1. /\ JwtSession(c, q) = NamespaceSession(q.claims, q.plain.role, b)
            /\ alt = NamespaceSession(q.claims, q.plain.role, b2)
        BY <1>1, <1>4, <2>2, <3>1, <3>2, <3>4 DEF JwtSession
      <4>2. NamespaceSession(q.claims, q.plain.role, b).ok
        BY <4>1, Zenon
      <4>3. /\ NamespaceSession(q.claims, q.plain.role, b2).ok
            /\ NamespaceSession(q.claims, q.plain.role, b2).role = NamespaceSession(q.claims, q.plain.role, b).role
            /\ NamespaceSession(q.claims, q.plain.role, b2).vars = NamespaceSession(q.claims, q.plain.role, b).vars
            /\ NamespaceSession(q.claims, q.plain.role, b2).backend = b2
        BY <4>2, NamespaceFlag, Zenon
      <4> QED
        BY <3>2, <4>1, <4>3, Zenon
    <3> QED
      BY <3>3, <3>4
  <2> QED
    BY <1>4, <2>1, <2>2
<1> QED
  BY <1>1, <1>2, <1>3, <1>4

\* Without the admin secret, and with some authentication configured, a plain
\* X-Hasura-* header changes the session only beside a verified token, and
\* then only by picking one of the token's roles and the backend flag.
THEOREM HeadersOnlyPick == Spec => []PlainHeadersOnlyPick
<1>1. AuthInv => PlainHeadersOnlyPick
  <2> SUFFICES ASSUME AuthInv, NEW p \in Plain, pc = "done", out.ok, ~conf.hook,
                      ~Admin(conf, req), conf.secret \/ conf.jwt # "off",
                      NEW alt, alt = Resolve(conf, [req EXCEPT !.plain = p])
               PROVE  /\ out.vars # "headers"
                      /\ ~Verified => alt = out
                      /\ Verified /\ alt.ok => alt.vars = out.vars
                      /\ Verified /\ p.role = req.plain.role =>
                            /\ alt.ok /\ alt.role = out.role /\ alt.vars = out.vars
                            /\ alt.backend = (p.backend = "true")
    BY DEF PlainHeadersOnlyPick, Resolved
  <2>0. conf \in Configs /\ req \in Requests /\ out = Resolve(conf, req)
    BY DEF AuthInv, Decision
  <2>1. ~Admin(conf, [req EXCEPT !.plain = p])
    BY <2>0 DEF Admin, Requests
  <2>2. CASE conf.jwt # "off"
    <3>1. out = JwtSession(conf, req) /\ alt = JwtSession(conf, [req EXCEPT !.plain = p])
      BY <2>0, <2>1, <2>2 DEF Resolve
    <3>2. out.vars # "headers"
      BY <2>0, <3>1, TokenRole, UnauthorizedRole
    <3> QED
      BY <2>0, <2>2, <3>1, <3>2, TokenIgnoresHeaders DEF Verified
  <2>3. CASE conf.jwt = "off"
    <3>1. conf.secret = TRUE
      BY <2>0, <2>3 DEF Configs
    <3>2. out = Unauthorized(conf) /\ alt = Unauthorized(conf)
      BY <2>0, <2>1, <2>3, <3>1, UntrustedHeaders DEF Resolve
    <3> QED
      BY <2>3, <3>2, UnauthorizedRole DEF Verified
  <2> QED
    BY <2>2, <2>3
<1> QED
  BY <1>1, AuthInvInit, AuthInvStep, PTL DEF Spec
=============================================================================
