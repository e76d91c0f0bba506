-------------------------------- MODULE Auth --------------------------------
(***************************************************************************)
(* Session resolution (crates/server/src/gql.rs resolve_session,           *)
(* session_from_headers, webhook_session; crates/server/src/jwt.rs session *)
(* and session_from_claims_map): which role and which session variables a  *)
(* request gets, from the server's configuration, the request's headers,   *)
(* its token and the authentication hook's answer.                         *)
(*                                                                         *)
(* A session's variables are abstracted to where they were taken from.     *)
(***************************************************************************)
EXTENDS FiniteSets

CONSTANTS Roles,  \* role names
          None    \* no role: no header, no claim, nothing configured

ASSUME AuthAssumption == None \notin Roles

\* The server's configuration.
Configs == [secret : BOOLEAN,                      \* admin_secret
            hook : BOOLEAN,                        \* auth_hook
            jwt : {"off", "namespace", "map"},     \* jwt, with or without claims_map
            anon : Roles \cup {None}]              \* unauthorized_role

\* A verified token's claims.  roles/default: "absent", of the "wrong" JSON
\* type, or present.
Claims == [object : BOOLEAN,
           allowedKind : {"absent", "wrong", "list"}, allowed : SUBSET Roles,
           defaultKind : {"absent", "wrong", "string"}, default : Roles]

NoClaims == [object |-> FALSE, allowedKind |-> "absent", allowed |-> {},
             defaultKind |-> "absent", default |-> CHOOSE r \in Roles : TRUE]

\* Plain X-Hasura-* headers: the role, and the backend-only flag.
Plain == [role : Roles \cup {None}, backend : {"absent", "true", "false", "bad"}]

Requests == [secret : {"absent", "wrong", "right"},   \* x-hasura-admin-secret
             plain : Plain,
             token : {"absent", "invalid", "valid"},
             claims : Claims \cup {NoClaims}]

Vars == {"nothing", "headers", "claims", "hook"}
Outcomes == [ok : BOOLEAN, role : Roles \cup {None}, backend : BOOLEAN, vars : Vars]

Session(role, backend, from) ==
    [ok |-> TRUE, role |-> role, backend |-> backend, vars |-> from]
Error == [ok |-> FALSE, role |-> None, backend |-> FALSE, vars |-> "nothing"]

----------------------------------------------------------------------------
\* The unauthorized role, with no variables, where one is configured.
Unauthorized(c) ==
    IF c.anon = None THEN Error ELSE Session(c.anon, FALSE, "nothing")

\* Mutant: headers are taken whether or not they are trusted.
TrustHeaders(c, p, trusted) ==
    IF p.backend = "bad" THEN Error
    ELSE LET role == IF p.role # None THEN p.role ELSE c.anon
         IN IF role = None THEN Error
            ELSE Session(role, p.backend = "true", "headers")

SessionFromHeaders(c, p, trusted) ==
    IF ~trusted THEN Unauthorized(c)
    ELSE IF p.backend = "bad" THEN Error
    ELSE LET role == IF p.role # None THEN p.role ELSE c.anon
         IN IF role = None THEN Error
            ELSE Session(role, p.backend = "true", "headers")

\* Mutant: the requested role is not compared with the allowed ones.
AnyRole(allowed, default, requested, backend) ==
    Session(IF requested = None THEN default ELSE requested, backend, "claims")

\* The role a token admits: the requested one if the token allows it, its
\* default role if none is requested.
RoleOf(allowed, default, requested, backend) ==
    IF requested = None THEN Session(default, backend, "claims")
    ELSE IF requested \in allowed THEN Session(requested, backend, "claims")
    ELSE Error

\* jwt.session without claims_map: the claims are an object in a namespace.
NamespaceSession(cl, requested, backend) ==
    IF cl.object /\ cl.allowedKind = "list" /\ cl.defaultKind = "string"
    THEN RoleOf(cl.allowed, cl.default, requested, backend)
    ELSE Error

\* session_from_claims_map: every entry must resolve, and here an empty list
\* of allowed roles is an error.
ClaimsMapSession(cl, requested, backend) ==
    IF cl.allowedKind = "list" /\ cl.allowed # {} /\ cl.defaultKind = "string"
    THEN RoleOf(cl.allowed, cl.default, requested, backend)
    ELSE Error

JwtSession(c, q) ==
    LET backend == q.plain.backend = "true"
    IN CASE q.token = "absent"  -> Unauthorized(c)
         [] q.token = "invalid" -> Error
         [] q.token = "valid"   ->
              IF c.jwt = "map" THEN ClaimsMapSession(q.claims, q.plain.role, backend)
              ELSE NamespaceSession(q.claims, q.plain.role, backend)

\* The request carries the configured admin secret.
Admin(c, q) == c.secret /\ q.secret = "right"

\* Everything but the hook: which branch of resolve_session answers.
Resolve(c, q) ==
    CASE Admin(c, q)                     -> SessionFromHeaders(c, q.plain, TRUE)
      [] ~Admin(c, q) /\ c.jwt # "off"   -> JwtSession(c, q)
      [] ~Admin(c, q) /\ c.jwt = "off"   -> SessionFromHeaders(c, q.plain, ~c.secret)

\* What the hook may do: fail, refuse with 401, or answer with variables
\* that may lack a role.
HookAnswers == [status : {"unreachable", "401", "other"}, role : Roles \cup {None}]

WebhookSession(c, a) ==
    CASE a.status = "unreachable" -> Error
      [] a.status = "401"         -> Unauthorized(c)
      [] a.status = "other"       -> IF a.role = None THEN Error
                                     ELSE Session(a.role, FALSE, "hook")

----------------------------------------------------------------------------
VARIABLES conf,    \* the configuration, fixed at boot
          req,     \* the request being resolved
          pc,      \* "new", "asking" the hook, "done"
          answer,  \* the hook's answer
          out      \* the session or the error

vars == <<conf, req, pc, answer, out>>

NoAnswer == [status |-> "unreachable", role |-> None]

TypeOK ==
    /\ conf \in Configs
    /\ req \in Requests
    /\ pc \in {"new", "asking", "done"}
    /\ answer \in HookAnswers
    /\ out \in Outcomes
    /\ out.ok => out.role \in Roles

\* Claims are only looked at in a valid token.
Init ==
    /\ conf \in Configs
    /\ req \in {q \in Requests : q.token # "valid" => q.claims = NoClaims}
    /\ pc = "new"
    /\ answer = NoAnswer
    /\ out = Error

ResolveLocally ==
    /\ pc = "new"
    /\ ~conf.hook \/ Admin(conf, req)
    /\ out' = Resolve(conf, req)
    /\ pc' = "done"
    /\ UNCHANGED <<conf, req, answer>>

\* The hook is asked before the JWT configuration is looked at.
AskHook ==
    /\ pc = "new"
    /\ conf.hook
    /\ ~Admin(conf, req)
    /\ pc' = "asking"
    /\ UNCHANGED <<conf, req, answer, out>>

HookReplies(a) ==
    /\ pc = "asking"
    /\ answer' = a
    /\ out' = WebhookSession(conf, a)
    /\ pc' = "done"
    /\ UNCHANGED <<conf, req>>

Next ==
    \/ ResolveLocally
    \/ AskHook
    \/ \E a \in HookAnswers : HookReplies(a)

Spec == Init /\ [][Next]_vars

----------------------------------------------------------------------------
Resolved == pc = "done" /\ out.ok

\* Nobody gets a role that no authority gave: a resolved role is the
\* configured unauthorized role, one a verified token allows or defaults to,
\* one the hook named, or one named by a request that is trusted (it carries
\* the admin secret, or the server has no authentication configured at all).
RoleWasGranted ==
    Resolved =>
        \/ out.role = conf.anon
        \/ req.token = "valid" /\ ~conf.hook /\ conf.jwt # "off"
           /\ out.role \in req.claims.allowed \cup {req.claims.default}
        \/ conf.hook /\ answer.status = "other" /\ out.role = answer.role
        \/ out.role = req.plain.role
           /\ (Admin(conf, req) \/ ~(conf.secret \/ conf.hook \/ conf.jwt # "off"))

\* The request is answered by a token that verified.
Verified == conf.jwt # "off" /\ req.token = "valid"

\* gql.rs:59-62: without the admin secret, and with some authentication
\* configured, plain X-Hasura-* headers give no variables, and without a
\* verified token they decide nothing: any other headers had led to the very
\* same session.  Beside a verified token they pick one of the roles that the
\* token allows and the backend flag, and nothing else.  The flag is more than
\* jwt.rs:2-4 admits ("not trusted in this mode"): gql.rs:194 takes it from a
\* plain header whoever sends it.
PlainHeadersOnlyPick ==
    \A p \in Plain :
        LET alt == Resolve(conf, [req EXCEPT !.plain = p])
        IN Resolved /\ ~conf.hook /\ ~Admin(conf, req) /\ (conf.secret \/ conf.jwt # "off") =>
              /\ out.vars # "headers"
              /\ ~Verified => alt = out
              /\ Verified /\ alt.ok => alt.vars = out.vars
              /\ Verified /\ p.role = req.plain.role =>
                    /\ alt.ok /\ alt.role = out.role /\ alt.vars = out.vars
                    /\ alt.backend = (p.backend = "true")
=============================================================================
