------------------------------ MODULE Mutations ------------------------------
(***************************************************************************)
(* The mutation planner (crates/schema/src/plan_mutation.rs) and what      *)
(* introspection.rs tells a role about its schema.  A root field's suffix  *)
(* is its kind: insert, insert_one, update, update_by_pk, delete,          *)
(* delete_by_pk, or nothing for a tracked function.  Permissions are named *)
(* by what they serialise to, as resolve_role_perm compares them.          *)
(***************************************************************************)
EXTENDS Planner

CONSTANTS InsertPerms, UpdatePerms, DeletePerms   \* name -> permission

\* resolve_role_perm: a direct permission, else what the parents agree on.
Resolver(list, backend) ==
    INSTANCE Roles WITH
        Roles <- RoleNames, Graphs <- {}, Lists <- {},
        Perms <- DOMAIN InsertPerms \cup DOMAIN UpdatePerms \cup DOMAIN DeletePerms,
        BackendOnly <- {p \in DOMAIN InsertPerms : InsertPerms[p].backend_only},
        g <- [inherited |-> DOMAIN InheritedRoles,
              parents |-> [r \in RoleNames |->
                  IF r \in DOMAIN InheritedRoles THEN ToSet(InheritedRoles[r]) ELSE {}]],
        list <- list, backend <- backend, start <- None, todo <- {}, seen <- {}, out <- {}

PermNamed(perms, p) == IF p = None THEN Err ELSE perms[p]

InsertPerm(t, s) == PermNamed(InsertPerms, Resolver(Metadata[t].insert, s.backend)!ResolveRolePerm(s.role))

UpdatePerm(t, s) == PermNamed(UpdatePerms, Resolver(Metadata[t].update, TRUE)!ResolveRolePerm(s.role))

DeletePerm(t, s) == PermNamed(DeletePerms, Resolver(Metadata[t].delete, TRUE)!ResolveRolePerm(s.role))

\* A permission's expression; none when it is empty.
ParseCheckExp(e, t, s) == IF e = <<>> THEN None ELSE ParseBoolExp(e, FilterCtx(t), s, TRUE)

\* Presets on columns that exist, session variables filled in.
Preset(c, v) == IF v = Err THEN Err ELSE [k |-> "Set", col |-> c, v |-> v]

Presets(set, t, s) ==
    LET known == SelectSeq(set, LAMBDA p : p.col \in Catalog[t].cols)
    IN Collect([i \in DOMAIN known |-> Preset(known[i].col, ResolveSession(known[i].v, s, TRUE))])

Settable(perm, t, c) == c \in Catalog[t].cols /\ (perm.columns = Star \/ c \in perm.columns)

\* parse_mutation_output: returned rows need a select permission, and show
\* what it shows of a row.
Single(f) == f.sfx \in {"insert_one", "update_by_pk", "delete_by_pk"}

ReturnedFields(ctx, sel, s) == IF Missing(ctx) THEN Err ELSE WalkTableSelection(ctx, sel, s)

Returning(fields) == IF fields = Err THEN Err ELSE [k |-> "Returning", fields |-> fields]

PlanResponseField(ctx, f, s) ==
    CASE f.n = "__typename" -> Typename(<<ctx.t, "mutation_response">>)
      [] f.n = "affected_rows" -> [k |-> "AffectedRows"]
      [] f.n = "returning" -> Returning(ReturnedFields(ctx, f.sel, s))
      [] OTHER -> Err

PlanResponse(ctx, fs, s) ==
    IF fs = Err THEN Err ELSE Collect([i \in DOMAIN fs |-> PlanResponseField(ctx, fs[i], s)])

MutationOutput(single, fields) == IF fields = Err THEN Err ELSE [single |-> single, fields |-> fields]

ParseMutationOutput(ctx, f, s) ==
    MutationOutput(Single(f), IF Single(f) THEN ReturnedFields(ctx, f.sel, s)
                              ELSE PlanResponse(ctx, Flatten(f.sel, <<ctx.t, "mutation_response">>, s), s))

\* The client's filter of a mutation: any column of the table.
MutationWhere(exp, t, s) == IF exp = None THEN None ELSE ParseBoolExp(exp, FilterCtx(t), s, FALSE)

\* Mutant: the update permission's filter is not added.
ParseOnConflictUnfiltered(oc, t, s) ==
    [cols |-> oc.update_columns, p |-> MutationWhere(oc.where, t, s), sets |-> <<>>]

\* parse_on_conflict: DO UPDATE acts as an update, under the update
\* permission that is listed for the role itself, if there is one.
AssembleConflict(oc, t, where, filter, sets) ==
    IF ~(ToSet(oc.update_columns) \subseteq Catalog[t].cols) \/ AnyErr(<<where, filter, sets>>) THEN Err
    ELSE [cols |-> oc.update_columns, p |-> Merge(<<where, filter>>), sets |-> sets]

ParseOnConflict(oc, t, s) ==
    LET direct == Metadata[t].update[s.role]
        perm == IF oc.update_columns # <<>> /\ direct # None THEN UpdatePerms[direct]
                ELSE [filter |-> <<>>, set |-> <<>>]
    IN AssembleConflict(oc, t, MutationWhere(oc.where, t, s),
                        ParseCheckExp(perm.filter, t, s), Presets(perm.set, t, s))

\* plan_insert: presets override what the client gave.
AssembleInsert(t, objects, perm, oc, presets, check, out) ==
    LET preset(c) == {i \in DOMAIN presets : presets[i].col = c}
        named == UNION {DOMAIN objects[i] : i \in DOMAIN objects}
        columns == named \cup {presets[i].col : i \in DOMAIN presets}
        row(o) == [c \in columns |-> IF preset(c) # {} THEN presets[Min(preset(c))].v
                                     ELSE IF c \in DOMAIN o THEN o[c] ELSE None]
    IN IF perm = Err THEN Err
       ELSE IF objects = <<>> \/ (\E c \in named : ~Settable(perm, t, c))
               \/ AnyErr(<<oc, presets, check, out>>)
       THEN Err
       ELSE [k |-> "Insert", t |-> t, oc |-> oc, check |-> check, out |-> out,
             rows |-> [i \in DOMAIN objects |-> row(objects[i])]]

PlanInsert(t, f, perm, s, out) ==
    LET given == IF Single(f) THEN "object" ELSE "objects"
    IN IF ~(DOMAIN f.args \subseteq {given, "on_conflict"}) \/ given \notin DOMAIN f.args THEN Err
       ELSE AssembleInsert(t, IF Single(f) THEN <<f.args[given]>> ELSE f.args[given], perm,
                IF "on_conflict" \in DOMAIN f.args THEN ParseOnConflict(f.args["on_conflict"], t, s)
                ELSE None,
                Presets(perm.set, t, s), ParseCheckExp(perm.check, t, s), out)

\* plan_update
AssembleUpdate(t, f, perm, where, presets, filter, check, out) ==
    LET keys == Arg(f, "pk_columns", <<>>)
        pk == [i \in 1 .. Cardinality(DOMAIN keys) |-> LET c == SetToSeq(DOMAIN keys)[i] IN Eq(c, keys[c])]
        ops(a, k) == LET cols == SetToSeq(DOMAIN Arg(f, a, <<>>))
                     IN [i \in DOMAIN cols |-> [k |-> k, col |-> cols[i], v |-> f.args[a][cols[i]]]]
        user == ops("_set", "Set") \o ops("_inc", "Inc")
    IN IF perm = Err THEN Err
       ELSE IF (\E i \in DOMAIN user : ~Settable(perm, t, user[i].col))
               \/ ~(DOMAIN keys \subseteq Catalog[t].cols) \/ (Single(f) /\ pk = <<>>)
               \/ AnyErr(<<where, presets, filter, check, out>>) \/ user \o presets = <<>>
       THEN Err
       ELSE [k |-> "Update", t |-> t, sets |-> user \o presets,
             pred |-> Merge(pk \o <<where, filter>>), check |-> check, out |-> out]

PlanUpdate(t, f, perm, s, out) ==
    LET on == IF Single(f) THEN "pk_columns" ELSE "where"
    IN IF ~(DOMAIN f.args \subseteq {"_set", "_inc", on}) \/ on \notin DOMAIN f.args THEN Err
       ELSE AssembleUpdate(t, f, perm, MutationWhere(Arg(f, "where", None), t, s),
                Presets(perm.set, t, s), ParseCheckExp(perm.filter, t, s),
                IF perm.check = None THEN None ELSE ParseCheckExp(perm.check, t, s), out)

\* plan_delete: by key, every argument is a key column; none has to be there.
AssembleDelete(t, f, perm, where, filter, out) ==
    LET given == IF Single(f) THEN SelectSeq(Catalog[t].pk, LAMBDA c : c \in DOMAIN f.args) ELSE <<>>
        keys == [i \in DOMAIN given |-> Eq(given[i], f.args[given[i]])]
    IN IF perm = Err THEN Err
       ELSE IF AnyErr(<<where, filter, out>>) THEN Err
       ELSE [k |-> "Delete", t |-> t, check |-> None, out |-> out,
             pred |-> Merge(keys \o <<where, filter>>)]

PlanDelete(t, f, perm, s, out) ==
    IF (IF Single(f) THEN ~(DOMAIN f.args \subseteq ToSet(Catalog[t].pk)) ELSE DOMAIN f.args # {"where"})
    THEN Err
    ELSE AssembleDelete(t, f, perm, IF Single(f) THEN None ELSE MutationWhere(f.args["where"], t, s),
                        ParseCheckExp(perm.filter, t, s), out)

PlanTableMutation(t, f, s, out) ==
    CASE f.sfx \in {"insert", "insert_one"} -> PlanInsert(t, f, InsertPerm(t, s), s, out)
      [] f.sfx \in {"update", "update_by_pk"} -> PlanUpdate(t, f, UpdatePerm(t, s), s, out)
      [] f.sfx \in {"delete", "delete_by_pk"} -> PlanDelete(t, f, DeletePerm(t, s), s, out)
      [] OTHER -> Err

\* try_plan_function_mutation
PlanFunctionMutation(f, tf, s) ==
    IF ~tf.mutation THEN Err
    ELSE RootField("FunctionCall", PlanSource(TableCtx(SqlFunctions[tf.fn].returns, s.role), "Select",
                                              FunctionSource(tf, f, s), f, s))

\* plan_mutation
PlanMutationRoot(f, s) ==
    CASE f.n = "__typename" -> Typename(<<"mutation_root">>)
      [] f.sfx = "" /\ f.n \in DOMAIN Tracked -> PlanFunctionMutation(f, Tracked[f.n], s)
      [] OTHER -> PlanTableMutation(f.n, f, s, ParseMutationOutput(TableCtx(f.n, s.role), f, s))

PlanMutationRoots(fs, s) ==
    IF fs \in {Err, <<>>} THEN Err ELSE Collect([i \in DOMAIN fs |-> PlanMutationRoot(fs[i], s)])

PlanMutation(sel, s) == PlanMutationRoots(Flatten(sel, None, s), s)

----------------------------------------------------------------------------
\* build_schema_json: the object types, root fields and arguments that the
\* role is told of.
SchemaTables(s) == {t \in DOMAIN Metadata : ~Missing(TableCtx(t, s.role))}

SchemaColumns(t, s) == {c \in Catalog[t].cols : ColumnAllowed(TableCtx(t, s.role), c)}

SchemaRelationships(t, s) ==
    {n \in DOMAIN Metadata[t].object \cup DOMAIN Metadata[t].array :
        LET to == RelationshipTarget(t, n)
        IN to # Err /\ ~Missing(TableCtx(to.t, s.role))}

SchemaQueryRoots(s) ==
    UNION {{<<t, "">>}
           \cup (IF ToSet(Catalog[t].pk) \subseteq SchemaColumns(t, s) /\ Catalog[t].pk # <<>>
                 THEN {<<t, "by_pk">>} ELSE {})
           \cup (IF AllowAggregations(TableCtx(t, s.role)) THEN {<<t, "aggregate">>} ELSE {})
           : t \in SchemaTables(s)}

\* Mutant: backend_only is not looked at.
SchemaAllMutations(s) ==
    {<<t, "insert">> : t \in {x \in SchemaTables(s) : InsertPerm(x, [s EXCEPT !.backend = TRUE]) # Err}}

SchemaMutationRoots(s) ==
    {<<t, "insert">> : t \in {x \in SchemaTables(s) : InsertPerm(x, s) # Err}}
    \cup {<<t, "update">> : t \in {x \in SchemaTables(s) : UpdatePerm(x, s) # Err}}
    \cup {<<t, "delete">> : t \in {x \in SchemaTables(s) : DeletePerm(x, s) # Err}}

BuildSchemaJson(s) ==
    [query |-> SchemaQueryRoots(s), mutation |-> SchemaMutationRoots(s),
     columns |-> [t \in SchemaTables(s) |-> SchemaColumns(t, s)],
     rels |-> [t \in SchemaTables(s) |-> SchemaRelationships(t, s)]]
==============================================================================
