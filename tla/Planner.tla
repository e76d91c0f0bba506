------------------------------- MODULE Planner -------------------------------
(***************************************************************************)
(* The query planner (crates/schema/src/plan.rs): root fields, selections, *)
(* arguments, relationships, computed fields, aggregates, tracked          *)
(* functions and Relay connections, each turned into the intermediate      *)
(* representation that Sql gives a meaning to.                             *)
(***************************************************************************)
EXTENDS Predicate

Typename(type) == [k |-> "Typename", value |-> type]

TableFrom == [k |-> "Table"]

Select(ctx, from, fields, pred) ==
    [t |-> ctx.t, from |-> from, fields |-> fields, pred |-> pred, order |-> <<>>,
     limit |-> None, nodes |-> None, offset |-> None, distinct |-> <<>>, single |-> FALSE]

Arg(f, a, otherwise) == IF a \in DOMAIN f.args THEN f.args[a] ELSE otherwise

\* The arguments of a computed field: the session, the row it belongs to,
\* what the client gave; an argument that is none of these is missing, also
\* if it has a default.
ComputedFieldArgs(cf, given, s) ==
    LET args == SqlFunctions[cf.fn].args
    IN Collect([i \in DOMAIN args |->
        CASE args[i].n = cf.session -> [k |-> "session", v |-> s.vars]
          [] args[i].n # cf.session /\ args[i].row -> [k |-> "row"]
          [] OTHER -> IF args[i].n \in DOMAIN given
                      THEN [k |-> "val", n |-> args[i].n, v |-> given[args[i].n]] ELSE Err])

\* The arguments of a tracked function: one that has a default may be left
\* out.
FunctionArgs(tf, given, s) ==
    LET args == SqlFunctions[tf.fn].args
    IN Flattened([i \in DOMAIN args |->
        CASE args[i].n = tf.session -> <<[k |-> "val", n |-> args[i].n, v |-> s.vars]>>
          [] args[i].n # tf.session /\ args[i].n \in DOMAIN given ->
                <<[k |-> "val", n |-> args[i].n, v |-> given[args[i].n]]>>
          [] OTHER -> IF args[i].default THEN <<>> ELSE Err])

FunctionFrom(fn, args) == IF args = Err THEN Err ELSE [k |-> "Function", fn |-> fn, args |-> args]

\* DISTINCT ON columns that order_by does not mention are put before it.
LeadWith(distinct, order) ==
    LET new == SelectSeq(distinct, LAMBDA c :
                  ~\E i \in DOMAIN order : order[i].k = "Column" /\ order[i].c = c)
    IN [i \in DOMAIN new |-> [k |-> "Column", t |-> None, join |-> {}, p |-> None, fn |-> None,
                              c |-> new[i], dir |-> "asc", nulls |-> "last"]] \o order

RECURSIVE WalkTableSelection(_, _, _)

\* An optional filter of the client.
ParseWhere(f, ctx, s) ==
    IF "where" \in DOMAIN f.args THEN ParseBoolExp(f.args["where"], ctx, s, FALSE) ELSE None

\* parse_aggregate_fields: sum, max and min stand for all of COLUMN_OPS,
\* which the code treats alike.
GuardedColumn(c, guard) == IF guard = Err THEN Err ELSE [col |-> c, guard |-> guard]

AggregateColumns(ctx, op, fs, s) ==
    IF fs = Err THEN Err
    ELSE Collect([i \in DOMAIN fs |->
            IF ColumnAllowed(ctx, fs[i].n)
            THEN GuardedColumn(fs[i].n, Guard(ctx, GrantingPerms(ctx, fs[i].n), s)) ELSE Err])

CountField(ctx, f, cols) ==
    IF ~(DOMAIN f.args \subseteq {"distinct", "columns"}) \/ cols = Err
       \/ ("columns" \in DOMAIN f.args /\ ~AnyColumnAllowed(ctx))
    THEN Err
    ELSE [op |-> "count", distinct |-> Arg(f, "distinct", FALSE), columns |-> cols]

AggregateField(op, cols) == IF cols = Err THEN Err ELSE [op |-> op, columns |-> cols]

ParseAggregateField(ctx, f, s) ==
    CASE f.n = "count" -> CountField(ctx, f, ParseColumnsArg(Arg(f, "columns", <<>>), ctx))
      [] f.n \in {"sum", "max", "min"} ->
            IF AnyColumnAllowed(ctx)
            THEN AggregateField(f.n, AggregateColumns(ctx, f.n, Flatten(f.sel, None, s), s)) ELSE Err
      [] OTHER -> Err

ParseAggregateFields(ctx, fs, s) ==
    IF fs = Err THEN Err ELSE Collect([i \in DOMAIN fs |-> ParseAggregateField(ctx, fs[i], s)])

\* walk_aggregate_selection
AggregatePart(k, fields) == IF fields = Err THEN Err ELSE [k |-> k, fields |-> fields]

PlanAggregatePart(ctx, f, s) ==
    CASE f.n = "__typename" -> Typename(<<ctx.t, "aggregate">>)
      [] f.n = "aggregate" ->
            AggregatePart("Aggregate", ParseAggregateFields(ctx, Flatten(f.sel, None, s), s))
      [] f.n = "nodes" -> AggregatePart("Nodes", WalkTableSelection(ctx, f.sel, s))
      [] OTHER -> Err

PlanAggregateParts(ctx, fs, s) ==
    IF fs = Err THEN Err ELSE Collect([i \in DOMAIN fs |-> PlanAggregatePart(ctx, fs[i], s)])

WalkAggregateSelection(ctx, sel, s) == PlanAggregateParts(ctx, Flatten(sel, <<ctx.t, "aggregate">>, s), s)

\* build_select, for a root or a relationship, once its parts are parsed.
AssembleSelect(ctx, kind, from, f, where, order, distinct, perm, fields) ==
    LET pk == Catalog[ctx.t].pk
        known == IF kind = "ByPk" THEN {c \in ToSet(pk) : ColumnAllowed(ctx, c)}
                 ELSE {"where", "order_by", "limit", "offset", "distinct_on"}
                      \cup (IF from.k = "Table" THEN {} ELSE {"args"})
        keys == IF kind # "ByPk" THEN <<>>
                ELSE [i \in DOMAIN pk |-> Eq(pk[i], f.args[pk[i]])]
        cap == SelectPermLimit(ctx)
        limit == Arg(f, "limit", None)
    IN IF DOMAIN f.args \subseteq known
          /\ (kind = "ByPk" => ToSet(pk) \subseteq DOMAIN f.args)
          /\ ~AnyErr(<<where, order, distinct, perm, fields>>)
       THEN [Select(ctx, from, fields, Merge(keys \o <<where, perm>>)) EXCEPT
               !.order = LeadWith(distinct, order),
               !.limit = IF kind # "Select" \/ cap = None THEN limit
                         ELSE IF limit = None THEN cap ELSE Min({limit, cap}),
               !.nodes = IF kind = "Aggregate" THEN cap ELSE None,
               !.offset = Arg(f, "offset", None),
               !.distinct = distinct,
               !.single = kind = "ByPk"]
       ELSE Err

BuildSelect(ctx, kind, from, f, s) ==
    AssembleSelect(ctx, kind, from, f,
        ParseWhere(f, ctx, s),
        ParseOrderBy(Arg(f, "order_by", <<>>), ctx, s),
        ParseColumnsArg(Arg(f, "distinct_on", <<>>), ctx),
        PermissionPredicate(ctx, s),
        IF kind = "Aggregate" THEN WalkAggregateSelection(ctx, f.sel, s)
        ELSE WalkTableSelection(ctx, f.sel, s))

\* build_connection: a cursor is the row's key; after and before compare
\* every key column with it.  The selection is the one of edges { node },
\* the answer always has its cursors and its pageInfo.
AssembleConnection(ctx, f, join, where, order, perm, fields) ==
    LET pk == Catalog[ctx.t].pk
        a == f.args
        Beyond(arg, op) ==
          IF arg \notin DOMAIN a THEN <<>>
          ELSE LET cols == SelectSeq(pk, LAMBDA c : c \in DOMAIN a[arg])
               IN [i \in DOMAIN cols |-> [k |-> "Compare", col |-> cols[i],
                     op |-> [k |-> "Value", op |-> op, v |-> a[arg][cols[i]]]]]
        page == CASE "first" \in DOMAIN a ->
                       [size |-> a["first"], backward |-> FALSE, other |-> "after" \in DOMAIN a]
                  [] "first" \notin DOMAIN a /\ "last" \in DOMAIN a ->
                       [size |-> a["last"], backward |-> TRUE, other |-> "before" \in DOMAIN a]
                  [] OTHER -> None
    IN IF ~(DOMAIN a \subseteq {"where", "order_by", "first", "last", "after", "before"})
          \/ AnyErr(<<where, order, perm, fields>>)
       THEN Err
       ELSE [k |-> "Connection", join |-> join, pk |-> pk, page |-> page,
             q |-> [Select(ctx, TableFrom, fields,
                           Merge(<<where>> \o Beyond("after", ">") \o Beyond("before", "<") \o <<perm>>))
                    EXCEPT !.order = order, !.limit = SelectPermLimit(ctx)]]

BuildConnection(ctx, f, s, join) ==
    AssembleConnection(ctx, f, join,
        ParseWhere(f, ctx, s),
        ParseOrderBy(Arg(f, "order_by", <<>>), ctx, s),
        PermissionPredicate(ctx, s),
        WalkTableSelection(ctx, f.sel, s))

\* walk_table_selection, one kind of field after the other.
ColumnField(c, guard) == IF guard = Err THEN Err ELSE [k |-> "Column", col |-> c, guard |-> guard]

PlanColumn(ctx, f, s) ==
    IF DOMAIN f.args # {} THEN Err ELSE ColumnField(f.n, Guard(ctx, GrantingPerms(ctx, f.n), s))

ObjectField(f, join, remote, fields, perm) ==
    IF Missing(remote) \/ AnyErr(<<fields, perm>>) THEN Err
    ELSE [k |-> "Object", n |-> f.n, join |-> join,
          q |-> [Select(remote, TableFrom, fields, perm) EXCEPT !.single = TRUE]]

ObjectOf(f, join, remote, s) ==
    ObjectField(f, join, remote, WalkTableSelection(remote, f.sel, s), PermissionPredicate(remote, s))

PlanObject(f, to, s) == IF to = Err THEN Err ELSE ObjectOf(f, to.join, TableCtx(to.t, s.role), s)

\* The rows of an array relationship or of a computed field.
ArrayField(f, join, q) == IF q = Err THEN Err ELSE [k |-> "Array", n |-> f.n, join |-> join, q |-> q]

PlanArray(remote, kind, from, join, f, s) ==
    IF Missing(remote) \/ (kind = "Aggregate" /\ ~AllowAggregations(remote)) THEN Err
    ELSE ArrayField(f, join, BuildSelect(remote, kind, from, f, s))

ConnectionField(f, conn) ==
    IF conn = Err THEN Err ELSE [k |-> "NestedConnection", n |-> f.n, conn |-> conn]

PlanNestedConnection(f, to, s) ==
    IF to = Err THEN Err
    ELSE IF Missing(TableCtx(to.t, s.role)) THEN Err
    ELSE ConnectionField(f, BuildConnection(TableCtx(to.t, s.role), f, s, to.join))

ComputedScalar(f, cf, args, granting, guard) ==
    IF args = Err \/ granting = <<>> \/ guard = Err THEN Err
    ELSE [k |-> "ComputedScalar", n |-> f.n, fn |-> cf.fn, args |-> args, guard |-> guard]

PlanComputedScalar(ctx, f, cf, args, granting, s) ==
    ComputedScalar(f, cf, args, granting, Guard(ctx, granting, s))

\* A field that has rows of its own: their table, and where they come from.
ArrayRows(to) == IF to = Err THEN Err ELSE [t |-> to.t, join |-> to.join, from |-> TableFrom]

ComputedRows(cf, args) ==
    IF args = Err THEN Err
    ELSE [t |-> SqlFunctions[cf.fn].returns, join |-> {},
          from |-> [k |-> "RowFunction", fn |-> cf.fn, args |-> args]]

FieldRows(ctx, md, f, s) ==
    IF f.n \in DOMAIN md.array THEN ArrayRows(ArrayRelTarget(ctx.t, md.array[f.n]))
    ELSE ComputedRows(md.computed[f.n], ComputedFieldArgs(md.computed[f.n], Arg(f, "args", <<>>), s))

PlanRows(f, rows, s) ==
    IF rows = Err THEN Err
    ELSE PlanArray(TableCtx(rows.t, s.role), IF f.sfx = "aggregate" THEN "Aggregate" ELSE "Select",
                   rows.from, rows.join, f, s)

PlanField(ctx, md, f, s) ==
    IF f.n = "__typename" THEN Typename(<<ctx.t>>)
    ELSE IF s.relay /\ f.n = "id" /\ f.sfx = ""
    THEN [k |-> "RelayGlobalId", t |-> ctx.t, pk |-> Catalog[ctx.t].pk]
    ELSE IF s.relay /\ f.sfx = "connection" /\ f.n \in DOMAIN md.array
    THEN PlanNestedConnection(f, ArrayRelTarget(ctx.t, md.array[f.n]), s)
    ELSE IF f.sfx = "" /\ ColumnAllowed(ctx, f.n) THEN PlanColumn(ctx, f, s)
    ELSE IF f.sfx = "" /\ f.n \in DOMAIN md.object
    THEN PlanObject(f, ObjectRelTarget(ctx.t, md.object[f.n]), s)
    ELSE IF f.sfx = "" /\ f.n \notin DOMAIN md.array /\ f.n \in DOMAIN md.computed
            /\ SqlFunctions[md.computed[f.n].fn].returns = None
    THEN PlanComputedScalar(ctx, f, md.computed[f.n],
                            ComputedFieldArgs(md.computed[f.n], Arg(f, "args", <<>>), s),
                            SelectSeq(ctx.by, LAMBDA r : f.n \in Perm(ctx, r).computed), s)
    ELSE IF \/ f.sfx \in {"", "aggregate"} /\ f.n \in DOMAIN md.array
            \/ f.sfx = "" /\ f.n \in DOMAIN md.computed
    THEN PlanRows(f, FieldRows(ctx, md, f, s), s)
    ELSE Err

PlanFields(ctx, fs, s) ==
    IF fs \in {Err, <<>>} THEN Err
    ELSE Collect([i \in DOMAIN fs |-> PlanField(ctx, Metadata[ctx.t], fs[i], s)])

WalkTableSelection(ctx, sel, s) == PlanFields(ctx, Flatten(sel, <<ctx.t>>, s), s)

----------------------------------------------------------------------------
\* function_allowed
FunctionAllowed(tf, role) ==
    InferFunctionPermissions \/ tf.roles \cap ({role} \cup ToSet(ExpandRole(role))) # {}

\* Planner::new: the root a name stands for; functions are entered after
\* the tables and replace a table's root of the same name.
RootOf(n, sfx) ==
    LET kind == CASE sfx = "" -> "Select" [] sfx = "by_pk" -> "ByPk" [] sfx = "aggregate" -> "Aggregate"
                  [] OTHER -> None
    IN CASE kind \in {"Select", "Aggregate"} /\ n \in DOMAIN Tracked /\ ~Tracked[n].mutation ->
              [kind |-> kind, src |-> "function"]
         [] n \in DOMAIN Metadata /\ kind # None /\
            ~(kind # "ByPk" /\ n \in DOMAIN Tracked /\ ~Tracked[n].mutation) ->
              [kind |-> kind, src |-> "table"]
         [] OTHER -> Err

\* plan_relay_root: node(id:) and <table>_connection.  An id of a table that
\* the role cannot see selects nothing from a system table.
NodeQuery(ctx, key, fields, perm) ==
    LET pk == Catalog[ctx.t].pk
        keys == [i \in DOMAIN pk |-> Eq(pk[i], IF i \in DOMAIN key THEN key[i] ELSE Null)]
    IN IF Missing(ctx)
       THEN [Select(ctx, TableFrom, <<>>, [k |-> "Or", es |-> <<>>]) EXCEPT !.limit = 0]
       ELSE IF AnyErr(<<fields, perm>>) THEN Err
       ELSE Select(ctx, TableFrom, fields, Merge(keys \o <<perm>>))

SingleRow(q) == IF q = Err THEN Err ELSE [q EXCEPT !.single = TRUE]

NodeOf(ctx, key, f, s) ==
    SingleRow(NodeQuery(ctx, key, WalkTableSelection(ctx, f.sel, s), PermissionPredicate(ctx, s)))

PlanNode(f, s) ==
    IF "id" \notin DOMAIN f.args THEN Err
    ELSE NodeOf(TableCtx(f.args["id"][1], s.role), f.args["id"][2], f, s)

\* A root over a table or over the rows of a tracked function.
PlanSource(ctx, kind, from, f, s) ==
    LET pk == Catalog[ctx.t].pk
    IN IF from = Err \/ Missing(ctx)
          \/ (kind = "ByPk" /\ (pk = <<>> \/ \E c \in ToSet(pk) : ~ColumnAllowed(ctx, c)))
          \/ (kind = "Aggregate" /\ ~AllowAggregations(ctx))
       THEN Err
       ELSE BuildSelect(ctx, kind, from, f, s)

FunctionSource(tf, f, s) ==
    IF ~FunctionAllowed(tf, s.role) \/ SqlFunctions[tf.fn].returns = None THEN Err
    ELSE FunctionFrom(tf.fn, FunctionArgs(tf, Arg(f, "args", <<>>), s))

PlanRootField(root, f, s) ==
    LET table == root.src = "table"
    IN IF root = Err THEN Err
       ELSE PlanSource(TableCtx(IF table THEN f.n ELSE SqlFunctions[Tracked[f.n].fn].returns, s.role),
                       root.kind, IF table THEN TableFrom ELSE FunctionSource(Tracked[f.n], f, s), f, s)

RootField(k, q) == IF q = Err THEN Err ELSE [k |-> k, q |-> q]

PlanRoot(f, s) ==
    IF f.n = "__typename" THEN Typename(<<"query_root">>)
    ELSE IF s.relay /\ f.sfx = "connection" /\ RootOf(f.n, "") = [kind |-> "Select", src |-> "table"]
            /\ ~Missing(TableCtx(f.n, s.role))
    THEN BuildConnection(TableCtx(f.n, s.role), f, s, {})
    ELSE IF s.relay /\ f.n = "node" THEN RootField("Select", PlanNode(f, s))
    ELSE RootField("Select", PlanRootField(RootOf(f.n, f.sfx), f, s))

\* plan, of a query or a subscription.
PlanRoots(fs, s) ==
    IF fs \in {Err, <<>>} THEN Err ELSE Collect([i \in DOMAIN fs |-> PlanRoot(fs[i], s)])

PlanQuery(sel, s) == PlanRoots(Flatten(sel, None, s), s)

\* pick_operation
PickOperation(ops, name) ==
    LET named == {i \in DOMAIN ops : ops[i].name = name}
    IN IF name # None THEN IF named = {} THEN Err ELSE ops[Min(named)]
       ELSE IF Len(ops) = 1 THEN ops[1] ELSE Err

==============================================================================
