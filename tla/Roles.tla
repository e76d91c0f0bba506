-------------------------------- MODULE Roles --------------------------------
(***************************************************************************)
(* Inherited roles (crates/schema/src/plan.rs, plan_mutation.rs): the      *)
(* worklist of expand_role, which lists the concrete roles behind a role,  *)
(* and the per-level resolution of one permission list (the insert, update *)
(* or delete permissions of a table, or a function's permissions).         *)
(*                                                                         *)
(* Nothing in the engine rejects a cycle of inherited roles, so the graph  *)
(* may have one.  The worklist is a set here: its order decides only the   *)
(* order of the result, and Predicate, whose combined filter may depend on *)
(* that order, has it as the stack of the code.                            *)
(***************************************************************************)
EXTENDS Naturals, FiniteSets

CONSTANTS Roles,        \* role names
          Graphs,       \* inherited_roles: who is inherited, and its role_set
          Perms,        \* permissions, up to serialisation
          BackendOnly,  \* those that exist for backend requests only
          None,         \* no entry for the role in the list
          Lists         \* permission lists: role -> permission or None

ASSUME RolesAssumption ==
    /\ Graphs \subseteq [inherited : SUBSET Roles, parents : [Roles -> SUBSET Roles]]
    /\ None \notin Perms
    /\ BackendOnly \subseteq Perms
    /\ Lists \subseteq [Roles -> Perms \cup {None}]

ASSUME FiniteRoles == IsFiniteSet(Roles)

VARIABLES g,        \* the inherited roles of the metadata
          list,     \* the permission list that is looked at
          backend,  \* session.backend_request
          start,    \* the role being expanded
          todo,     \* stack
          seen, out

vars == <<g, list, backend, start, todo, seen, out>>

TypeOK ==
    /\ g \in Graphs
    /\ list \in Lists
    /\ backend \in BOOLEAN
    /\ start \in Roles
    /\ todo \in SUBSET Roles
    /\ seen \in SUBSET Roles
    /\ out \in SUBSET Roles

Init ==
    /\ g \in Graphs
    /\ list \in Lists
    /\ backend \in BOOLEAN
    /\ start \in Roles
    /\ todo = {start}
    /\ seen = {}
    /\ out = {}

\* Mutant: the visited set is not consulted.
PopUnseen(r) ==
    /\ r \in todo
    /\ todo' = (todo \ {r}) \cup (IF r \in g.inherited THEN g.parents[r] ELSE {})
    /\ out' = out \cup (IF r \notin g.inherited /\ r # start THEN {r} ELSE {})
    /\ seen' = seen \cup {r}
    /\ UNCHANGED <<g, list, backend, start>>

\* Mutant: only one level is expanded.
PopOneLevel(r) ==
    /\ r \in todo
    /\ todo' = (todo \ {r}) \cup (IF r = start /\ r \notin seen THEN g.parents[r] ELSE {})
    /\ out' = out \cup (IF r # start THEN {r} ELSE {})
    /\ seen' = seen \cup {r}
    /\ UNCHANGED <<g, list, backend, start>>

\* One round of the loop: a role seen before is skipped, an inherited role is
\* replaced by its role_set, any other role is a result unless it is the one
\* that is being expanded.
Pop(r) ==
    /\ r \in todo
    /\ LET new == r \notin seen
       IN /\ todo' = (todo \ {r}) \cup (IF new /\ r \in g.inherited THEN g.parents[r] ELSE {})
          /\ out' = out \cup (IF new /\ r \notin g.inherited /\ r # start THEN {r} ELSE {})
    /\ seen' = seen \cup {r}
    /\ UNCHANGED <<g, list, backend, start>>

Next == \E r \in Roles : Pop(r)

Spec == Init /\ [][Next]_vars

\* The loop runs.
FairSpec == Spec /\ WF_vars(Next)

----------------------------------------------------------------------------
\* Mutant: of several permissions one is picked.
PickOne(found) == IF found = {} THEN None ELSE CHOOSE p \in found : TRUE

\* The parents' permissions are inherited when they are all identical.
Combine(found) == IF \E p \in found : found = {p} THEN CHOOSE p \in found : TRUE ELSE None

\* The arguments of resolve_role_perm_rec: a role, the path of roles that are
\* being resolved, and the permissions that apply.
Calls == Roles \X (SUBSET Roles) \X (SUBSET Perms)

\* resolve_role_perm_rec: a direct permission that applies wins.
ResolveRec[call \in Calls] ==
    LET r == call[1]
        visiting == call[2]
        usable == call[3]
    IN IF list[r] \in usable THEN list[r]
       ELSE IF r \in visiting \/ r \notin g.inherited THEN None
       ELSE Combine({ResolveRec[<<p, visiting \cup {r}, usable>>] : p \in g.parents[r]} \ {None})

\* The permissions that exist for this session.
Usable == IF backend THEN Perms ELSE Perms \ BackendOnly

ResolveRolePerm(r) == ResolveRec[<<r, {}, Usable>>]

\* Mutant: a conflict is reported although a direct permission overrides it,
\* or although only one parent has a permission.
ConflictsAnyway(r) ==
    r \in g.inherited /\ {ResolveRec[<<p, {}, Perms>>] : p \in g.parents[r]} \ {None} # {}

\* conflicts_in: what validate reports, whatever the session.
ConflictsIn(r) ==
    /\ list[r] = None
    /\ r \in g.inherited
    /\ Cardinality({ResolveRec[<<p, {}, Perms>>] : p \in g.parents[r]} \ {None}) > 1

\* any_role_perm (and function_allowed, without inferred permissions): the
\* role itself or one of the roles it expands to is in the list.
AnyRolePerm == \E r \in {start} \cup out : list[r] \in Perms

\* Mutant: a backend-only permission is not counted even for the backend.
InsertPublic == \E r \in {start} \cup out : list[r] \in Perms \ BackendOnly

\* insert_usable: the same for permissions that exist for this session.
InsertUsable == \E r \in {start} \cup out : list[r] \in Usable

----------------------------------------------------------------------------
Expanded == todo = {}

\* The roles behind a role: the least set that holds it and, with a role,
\* the whole role_set.
Closed(S) == \A r \in S : r \in g.inherited => g.parents[r] \subseteq S
Behind(q) == {r \in Roles : \A S \in SUBSET Roles : q \in S /\ Closed(S) => r \in S}
Reachable == Behind(start)

\* No role inherits from itself, directly or through others.
Acyclic == \A r \in g.inherited : \A p \in g.parents[r] : r \notin Behind(p)

\* plan.rs:524-525: expand_role returns the concrete roles behind a role,
\* all of them and nothing else, on any graph, cyclic ones included.
ExpandsToLeaves == Expanded => out = (Reachable \ g.inherited) \ {start}

\* The loop ends on every graph ("cycle-safe").
ExpandEnds == <>Expanded

\* plan.rs:352-356: a direct permission wins, otherwise the permissions that
\* the immediate parents themselves resolve to are inherited when there are
\* any and all are identical.  Without a cycle: on one, the role that closes
\* it contributes nothing, and a parent is resolved otherwise than by itself.
PerLevel ==
    Expanded /\ Acyclic =>
        LET R == ResolveRolePerm(start)
            P == {ResolveRolePerm(p) : p \in g.parents[start]} \ {None}
        IN CASE list[start] \in Usable -> R = list[start]
             [] list[start] \notin Usable /\ start \in g.inherited ->
                  IF Cardinality(P) = 1 THEN R \in P ELSE R = None
             [] list[start] \notin Usable /\ start \notin g.inherited -> R = None

\* plan.rs:460-461: validate reports a role exactly when some parent has a
\* permission and the role, for that reason, ends up with none.
ConflictReported ==
    Expanded /\ backend /\ Acyclic =>
        (ConflictsIn(start) <=>
            /\ list[start] = None
            /\ start \in g.inherited
            /\ \E p \in g.parents[start] : ResolveRolePerm(p) # None
            /\ ResolveRolePerm(start) = None)

\* The walk that says whether a role has a permission at all, and the walk
\* that resolves which one, as far as they agree.
WalksAgree(has, usable) ==
    LET resolved == ResolveRec[<<start, {}, usable>>]
        listed == {list[r] : r \in Reachable} \cap usable
    IN /\ has /\ resolved = None => \E p, q \in listed : p # q
       /\ ~has /\ resolved # None =>
             \E r \in (Reachable \cap g.inherited) \ {start} : list[r] = resolved

\* plan.rs:510-511: "Conflicts hide the field but keep the mutation root
\* non-empty."  On every graph, cyclic ones included, for insert permissions
\* and for the others: a role that has some permission and resolves to none is
\* the victim of a conflict, for different permissions are listed behind it.
\* And a role that resolves to a permission but counts as having none (it is
\* told, of a field it may not use, that "no mutations exist",
\* plan_mutation.rs:62) has it from an inherited role that is listed itself,
\* which expand_role leaves out.
HiddenOnlyByConflict ==
    Expanded => WalksAgree(InsertUsable, Usable) /\ WalksAgree(AnyRolePerm, Perms)
==============================================================================
