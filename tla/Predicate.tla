------------------------------ MODULE Predicate ------------------------------
(***************************************************************************)
(* What the planner makes of permissions, filters and orders               *)
(* (crates/schema/src/plan.rs and predicate.rs): table contexts, bool_exp, *)
(* row filters, order_by, and the flattening of selections.                *)
(*                                                                         *)
(* A field name is a base and a suffix ("aggregate", "connection",         *)
(* "by_pk"); arguments are records of resolved values; a bool_exp is the   *)
(* sequence of the entries of its JSON object, every column operator       *)
(* spelled out (a bare value is an _eq).  Every PlanError is Err.          *)
(* The session s carries what is request-wide: the role, its variables,    *)
(* the backend flag, the relay flag and the document's fragments.          *)
(***************************************************************************)
EXTENDS Sql

CONSTANTS Star,           \* columns: "*"
          Text,           \* a string that no row holds
          RoleNames,
          InheritedRoles, \* inherited role -> role_set, a sequence
          Metadata,       \* table -> relationships, computed fields, permissions
          SqlFunctions,      \* SQL functions: [returns, args]
          Tracked,        \* tracked functions: [fn, session, roles, mutation]
          InferFunctionPermissions

Flattened(xs) == IF AnyErr(xs) THEN Err ELSE FlattenSeq(xs)

\* Predicates that are there, in a conjunction if there are several.
Conjunction(es) ==
    IF es = Err THEN Err ELSE IF Len(es) = 1 THEN es[1] ELSE [k |-> "And", es |-> es]

Merge(ps) == LET some == SelectSeq(ps, LAMBDA p : p # None)
             IN IF some = <<>> THEN None ELSE Conjunction(some)

Eq(c, v) == [k |-> "Compare", col |-> c, op |-> [k |-> "Value", op |-> "=", v |-> v]]

----------------------------------------------------------------------------
\* expand_role, in the order in which it lists the roles (Roles has what it
\* lists).
RECURSIVE Expand(_, _, _)
Expand(role, stack, seen) ==
    IF stack = <<>> THEN <<>>
    ELSE LET cur == Last(stack)
             rest == Front(stack)
         IN IF cur \in seen THEN Expand(role, rest, seen)
            ELSE IF cur \in DOMAIN InheritedRoles
                 THEN Expand(role, rest \o InheritedRoles[cur], seen \cup {cur})
            ELSE (IF cur = role THEN <<>> ELSE <<cur>>) \o Expand(role, rest, seen \cup {cur})

ExpandRole(role) == Expand(role, <<role>>, {})

\* A table context: the table and the roles whose select permissions are in
\* effect; none in a permission filter, where anything goes.
RoleSelectPerms(t, role) ==
    IF Metadata[t].select[role] # None THEN <<role>>
    ELSE SelectSeq(ExpandRole(role), LAMBDA r : Metadata[t].select[r] # None)

TableCtx(t, role) == [t |-> t, by |-> RoleSelectPerms(t, role)]
FilterCtx(t) == [t |-> t, by |-> <<>>]
RelationshipCtx(t, s, isPermission) == IF isPermission THEN FilterCtx(t) ELSE TableCtx(t, s.role)

\* "None means does not exist for this role."
Missing(ctx) == ctx.by = <<>>

Perm(ctx, r) == Metadata[ctx.t].select[r]

PermGrantsColumn(p, c) == p.columns = Star \/ c \in p.columns

GrantingPerms(ctx, c) == SelectSeq(ctx.by, LAMBDA r : PermGrantsColumn(Perm(ctx, r), c))

ColumnAllowed(ctx, c) ==
    /\ c \in Catalog[ctx.t].cols
    /\ ctx.by = <<>> \/ GrantingPerms(ctx, c) # <<>>

AnyColumnAllowed(ctx) == \E c \in Catalog[ctx.t].cols : ColumnAllowed(ctx, c)

ColumnAllowedForFilter(ctx, c, isPermission) ==
    IF isPermission THEN c \in Catalog[ctx.t].cols ELSE ColumnAllowed(ctx, c)

AllowAggregations(ctx) == \E r \in ToSet(ctx.by) : Perm(ctx, r).aggregations

SelectPermLimit(ctx) == LargestLimit({Perm(ctx, r).limit : r \in ToSet(ctx.by)})

\* object_rel_target, array_rel_target: the remote table and the pairs of a
\* local and a remote column.
ObjectRelTarget(t, u) ==
    LET fks == {fk \in Catalog[t].fks : DOMAIN fk.map = u.cols}
        fk == CHOOSE f \in fks : TRUE
    IN IF u.manual THEN [t |-> u.t, join |-> u.join]
       ELSE IF fks = {} THEN Err
       ELSE [t |-> fk.to, join |-> {<<c, fk.map[c]>> : c \in u.cols}]

ArrayRelTarget(t, u) ==
    LET fks == {fk \in Catalog[u.t].fks : fk.to = t /\ DOMAIN fk.map = u.cols}
        fk == CHOOSE f \in fks : TRUE
    IN IF u.manual THEN [t |-> u.t, join |-> u.join]
       ELSE IF fks = {} THEN Err
       ELSE [t |-> u.t, join |-> {<<fk.map[c], c>> : c \in u.cols}]

RelationshipTarget(t, n) ==
    IF n \in DOMAIN Metadata[t].object THEN ObjectRelTarget(t, Metadata[t].object[n])
    ELSE IF n \in DOMAIN Metadata[t].array THEN ArrayRelTarget(t, Metadata[t].array[n])
    ELSE Err

----------------------------------------------------------------------------
\* resolve_session: variables are substituted in permissions only; in a
\* client's filter the name is a string like any other.
ResolveSession(v, s, isPermission) ==
    CASE v.k = "lit" -> v.v
      [] v.k = "var" -> IF ~isPermission THEN Text
                        ELSE IF s.vars[v.v] = None THEN Err ELSE s.vars[v.v]

ValueOps == [_eq |-> "=", _neq |-> "<>", _gt |-> ">", _lt |-> "<", _gte |-> ">=",
             _lte |-> "<=", _like |-> "like", _has_key |-> "?", _st_within |-> "within"]
ColumnOps == [_ceq |-> "=", _cne |-> "<>", _cgt |-> ">", _clt |-> "<", _cgte |-> ">=", _clte |-> "<="]

\* column_compare: a column, a column of the root row, or one of the first
\* row related by a relationship.
CompareRelated(op, to, c) ==
    IF to = Err THEN Err
    ELSE [k |-> "CompareColumnRel", op |-> op, t |-> to.t, join |-> to.join, col |-> c]

ColumnCompare(op, path, t) ==
    CASE Len(path) = 1 -> [k |-> "CompareColumn", op |-> op, col |-> path[1], root |-> FALSE]
      [] Len(path) = 2 /\ path[1] = "$" ->
            [k |-> "CompareColumn", op |-> op, col |-> path[2], root |-> TRUE]
      [] Len(path) = 2 /\ path[1] # "$" -> CompareRelated(op, RelationshipTarget(t, path[1]), path[2])
      [] OTHER -> Err

\* parse_ops: the operators of one field's object.
ValueCompare(op, v) ==
    CASE v = Err -> Err
      [] v # Err /\ op \in DOMAIN ValueOps -> [k |-> "Value", op |-> ValueOps[op], v |-> v]
      [] v # Err /\ op = "_in" -> [k |-> "In", vs |-> v]
      [] v # Err /\ op = "_nin" -> [k |-> "Nin", vs |-> v]
      [] v # Err /\ op = "_is_null" -> [k |-> "IsNull", v |-> v]
      [] OTHER -> Err

ParseOps(ctx, ops, s, isPermission) ==
    Collect([i \in DOMAIN ops |->
        IF ops[i].op \in DOMAIN ColumnOps THEN ColumnCompare(ColumnOps[ops[i].op], ops[i].v, ctx.t)
        ELSE ValueCompare(ops[i].op, ResolveSession(ops[i].v, s, isPermission))])

\* The arguments of a computed field's function inside a bool_exp: whatever
\* is not the session is the row.
FilterArgs(cf, s) ==
    [i \in DOMAIN SqlFunctions[cf.fn].args |->
        IF SqlFunctions[cf.fn].args[i].n = cf.session THEN [k |-> "session", v |-> s.vars]
        ELSE [k |-> "row"]]

\* What the parts of a bool_exp become; `inner` is the parsed condition on
\* the other rows, `perm` their row filter.
ColumnPredicate(c, ops) ==
    IF ops = Err THEN Err
    ELSE Conjunction([i \in DOMAIN ops |-> [k |-> "Compare", col |-> c, op |-> ops[i]]])

ComputedPredicate(fn, args, ops) ==
    IF ops = Err THEN Err
    ELSE Conjunction([i \in DOMAIN ops |->
            [k |-> "ComputedCompare", fn |-> fn, args |-> args, op |-> ops[i]]])

NestedPredicate(k, ps) == IF ps = Err THEN Err ELSE [k |-> k, es |-> ps]
NotPredicate(p) == IF p = Err THEN Err ELSE [k |-> "Not", e |-> p]
ExistsPredicate(t, p) == IF p = Err THEN Err ELSE [k |-> "Exists", t |-> t, p |-> p]

OtherRows(e, inner, perm) ==
    IF AnyErr(<<inner, perm>>) THEN Err ELSE [e EXCEPT !.p = Merge(<<inner, perm>>)]

ThroughRelationship(to) == [k |-> "Relationship", t |-> to.t, join |-> to.join, p |-> None]
ThroughFunction(cf, args) == [k |-> "RowFunctionExists", fn |-> cf.fn, args |-> args, p |-> None]

\* parse_bool_exp, computed_field_predicate, combined_filter and
\* permission_predicate.
RECURSIVE ParseBoolExp(_, _, _, _), CombinedFilter(_, _, _)
PermissionPredicate(ctx, s) == CombinedFilter(ctx.t, ctx.by, s)

\* Mutant: the row filter of a related table is left out.
RelatedUnfiltered(remote, s, isPermission) == None

\* In a client's filter the related table's own row filter applies too.
RelatedFilter(remote, s, isPermission) ==
    IF isPermission THEN None ELSE PermissionPredicate(remote, s)

Through(e, remote, sub, s, isPermission) ==
    IF ~isPermission /\ Missing(remote) THEN Err
    ELSE OtherRows(e, ParseBoolExp(sub, remote, s, isPermission), RelatedFilter(remote, s, isPermission))

ParseExists(t, exp, remote, s, isPermission) ==
    IF ~isPermission /\ Missing(remote) THEN Err
    ELSE ExistsPredicate(t, ParseBoolExp(exp, remote, s, isPermission))

\* A name that is not a column: the rows of a relationship or of a computed
\* field.
ParseThrough(e, cf, to, ctx, s, isPermission) ==
    IF cf = None /\ to = Err THEN Err
    ELSE Through(IF cf # None THEN ThroughFunction(cf, FilterArgs(cf, s)) ELSE ThroughRelationship(to),
                 RelationshipCtx(IF cf # None THEN SqlFunctions[cf.fn].returns ELSE to.t, s, isPermission),
                 e.sub, s, isPermission)

ParseField(e, cf, ctx, s, isPermission) ==
    IF ColumnAllowedForFilter(ctx, e.n, isPermission)
    THEN ColumnPredicate(e.n, ParseOps(ctx, e.ops, s, isPermission))
    ELSE IF cf # None /\ SqlFunctions[cf.fn].returns = None
    THEN ComputedPredicate(cf.fn, FilterArgs(cf, s), ParseOps(ctx, e.ops, s, isPermission))
    ELSE ParseThrough(e, cf, RelationshipTarget(ctx.t, e.n), ctx, s, isPermission)

ComputedField(t, n) == IF n \in DOMAIN Metadata[t].computed THEN Metadata[t].computed[n] ELSE None

ParseEntry(e, ctx, s, isPermission) ==
    CASE e.k \in {"_and", "_or"} ->
            NestedPredicate(IF e.k = "_and" THEN "And" ELSE "Or",
                Collect([i \in DOMAIN e.es |-> ParseBoolExp(e.es[i], ctx, s, isPermission)]))
      [] e.k = "_not" -> NotPredicate(ParseBoolExp(e.e, ctx, s, isPermission))
      [] e.k = "_exists" ->
            ParseExists(e.t, e.where, RelationshipCtx(e.t, s, isPermission), s, isPermission)
      [] e.k = "field" -> ParseField(e, ComputedField(ctx.t, e.n), ctx, s, isPermission)

ParseBoolExp(exp, ctx, s, isPermission) ==
    Conjunction(Collect([i \in DOMAIN exp |-> ParseEntry(exp[i], ctx, s, isPermission)]))

\* The row filter of several roles.
CombinedFilter(t, roles, s) ==
    LET filters == [i \in DOMAIN roles |-> Metadata[t].select[roles[i]].filter]
        upTo == UpToOpen(filters)
    IN CombineFilters(filters, [i \in DOMAIN upTo |-> ParseBoolExp(upTo[i], FilterCtx(t), s, TRUE)])

\* Mutant: cells are never guarded.
GuardNever(ctx, granting, s) == None

\* The guard of a cell: the row filter of the parents that grant it.
Guard(ctx, granting, s) ==
    IF NeedsGuard(ctx.by, granting) THEN CombinedFilter(ctx.t, granting, s) ELSE None

----------------------------------------------------------------------------
\* parse_columns_arg
ParseColumnsArg(cols, ctx) ==
    Collect([i \in DOMAIN cols |-> IF ColumnAllowed(ctx, cols[i]) THEN cols[i] ELSE Err])

Directions ==
    [asc             |-> [dir |-> "asc",  nulls |-> "last"],
     asc_nulls_first |-> [dir |-> "asc",  nulls |-> "first"],
     asc_nulls_last  |-> [dir |-> "asc",  nulls |-> "last"],
     desc             |-> [dir |-> "desc", nulls |-> "first"],
     desc_nulls_first |-> [dir |-> "desc", nulls |-> "first"],
     desc_nulls_last  |-> [dir |-> "desc", nulls |-> "last"]]

ParseOrderDirection(d) == IF d \in DOMAIN Directions THEN Directions[d] ELSE Err

\* parse_order_by: columns, columns of an object-related row, aggregates over
\* an array relationship; related rows are those the role sees.
OrderItem(k, t, join, p, fn, c, o) ==
    IF o = Err THEN Err
    ELSE [k |-> k, t |-> t, join |-> join, p |-> p, fn |-> fn, c |-> c, dir |-> o.dir, nulls |-> o.nulls]

RelatedOrder(it, to, remote, p) ==
    LET aggregate == it.sfx = "aggregate"
        kind == IF aggregate THEN "RelationshipAggregate" ELSE "Relationship"
        Key(x) == IF (aggregate /\ x.fn = "count") \/ ColumnAllowed(remote, x.c)
                  THEN OrderItem(kind, to.t, to.join, p, x.fn, x.c, ParseOrderDirection(x.dir)) ELSE Err
    IN IF to = Err THEN Err
       ELSE IF p = Err \/ Missing(remote) THEN Err
       ELSE Collect([i \in DOMAIN it.by |-> Key(it.by[i])])

OrderTarget(t, it) ==
    IF it.sfx = "aggregate" /\ it.n \in DOMAIN Metadata[t].array
    THEN ArrayRelTarget(t, Metadata[t].array[it.n])
    ELSE IF it.sfx = "" /\ it.n \in DOMAIN Metadata[t].object
    THEN ObjectRelTarget(t, Metadata[t].object[it.n])
    ELSE Err

RelatedOrderBy(it, to, s) ==
    RelatedOrder(it, to, TableCtx(to.t, s.role), PermissionPredicate(TableCtx(to.t, s.role), s))

ParseOrderBy(items, ctx, s) ==
    Flattened([i \in DOMAIN items |->
        IF items[i].sfx = "" /\ ColumnAllowed(ctx, items[i].n)
        THEN Collect(<<OrderItem("Column", ctx.t, {}, None, None, items[i].n,
                                 ParseOrderDirection(items[i].dir))>>)
        ELSE RelatedOrderBy(items[i], OrderTarget(ctx.t, items[i]), s)])

\* directives_include and flatten: fragments are spliced in; one defined on
\* another type is an error if it is named and skipped if it is inline.
DirectivesInclude(dirs) ==
    \A i \in DOMAIN dirs : dirs[i] \notin {<<"include", FALSE>>, <<"skip", TRUE>>}

RECURSIVE Flatten(_, _, _)
FlattenItem(it, type, s) ==
    CASE ~DirectivesInclude(it.dirs) -> <<>>
      [] DirectivesInclude(it.dirs) /\ it.k = "field" -> <<it>>
      [] DirectivesInclude(it.dirs) /\ it.k = "spread" ->
            IF it.frag \notin DOMAIN s.frags THEN Err
            ELSE IF type # None /\ s.frags[it.frag].on # type THEN Err
            ELSE Flatten(s.frags[it.frag].sel, type, s)
      [] DirectivesInclude(it.dirs) /\ it.k = "inline" ->
            IF it.on # None /\ type # None /\ it.on # type THEN <<>>
            ELSE Flatten(it.sel, type, s)

Flatten(sel, type, s) == Flattened([i \in DOMAIN sel |-> FlattenItem(sel[i], type, s)])

==============================================================================
