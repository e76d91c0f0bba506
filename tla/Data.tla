--------------------------------- MODULE Data ---------------------------------
(***************************************************************************)
(* A database behind the planner and sqlgen: clients of several roles send *)
(* queries, mutations and introspections, and one client walks through a   *)
(* Relay connection page by page while the others write.                   *)
(*                                                                         *)
(* A query is one statement, so it sees one state.  The root fields of a   *)
(* mutation are statements of one transaction (Exec has the transaction    *)
(* itself, and requests side by side).  An answer is looked at when it is  *)
(* there, and then forgotten.                                              *)
(*                                                                         *)
(* What the permissions of the metadata and the filters of the requests    *)
(* mean is given a second time, as plain operators: the properties compare *)
(* what the code makes of the JSON expressions with those.                 *)
(***************************************************************************)
EXTENDS Mutations

CONSTANTS Requests,     \* name -> [s, ops, name]: documents that are sent
          Sessions,     \* the sessions that introspect
          Walks,        \* name -> [s, t, filter, size, back]: paged walks
          Writers,      \* those that may be sent while a walk is under way
          Possible,     \* table -> rows it may hold: bounds the writes
          RowFilter(_, _, _, _, _), \* a role's row filter: role, table, row, session, db
          Means(_, _, _),           \* a request's or walk's filter: name, row, db
          Rank(_, _, _),            \* a request's order: name, row, db
          Joins,                    \* table -> relationship -> [t, join]
          OwnRowRoles,              \* roles whose row filters read nothing but the row itself
          FilterColumns,            \* table -> columns that are keys or that row filters read
          MayInsert(_, _, _, _),    \* session, table, new row, db
          MayUpdate(_, _, _, _, _), \* session, table, old row, new row, db
          MayDelete(_, _, _, _)     \* session, table, old row, db

VARIABLES db,    \* table -> rows
          last,  \* the answer that is on its way
          walk   \* the walk under way

vars == <<db, last, walk>>

Idle == [kind |-> "idle"]
Scans == {"asc", "desc"}

PlanOperation(op, s) ==
    IF op = Err THEN Err ELSE IF op.mutation THEN PlanMutation(op.sel, s) ELSE PlanQuery(op.sel, s)

Plan(r) == PlanOperation(PickOperation(r.ops, r.name), r.s)

IsMutation(r) ==
    LET op == PickOperation(r.ops, r.name)
    IN op # Err /\ op.mutation

\* A write that would leave the bound is not followed.
InBounds(d) == \A t \in DOMAIN d : d[t] \subseteq Possible[t]

Init ==
    /\ \E S \in SUBSET UNION {Possible[t] : t \in DOMAIN Catalog} :
          db = [t \in DOMAIN Catalog |-> S \cap Possible[t]]
    /\ Consistent(db)
    /\ last = Idle
    /\ walk = Idle

----------------------------------------------------------------------------
\* What a session may see, from the declarations: the roles whose select
\* permission it has, the rows that one of them sees, and of such a row the
\* cells that one which sees it grants.
Parents(s, t) ==
    IF Metadata[t].select[s.role] # None THEN {s.role}
    ELSE {r \in Resolver(Metadata[t].insert, TRUE)!Behind(s.role) :
             r \notin DOMAIN InheritedRoles /\ Metadata[t].select[r] # None}

Visible(s, t, r, d) == \E p \in Parents(s, t) : RowFilter(p, t, r, s, d)

Granted(p, t, c) == PermGrantsColumn(Metadata[t].select[p], c)

CellVisible(s, t, r, c, d) ==
    \E p \in Parents(s, t) : RowFilter(p, t, r, s, d) /\ Granted(p, t, c)

\* Whose rows a walk may see, and the keys of those it is after.
WalkParents == [name \in DOMAIN Walks |-> Parents(Walks[name].s, Walks[name].t)]

Walked(name, d) ==
    LET w == Walks[name]
    IN {KeyOf(w.t, r) : r \in {x \in d[w.t] :
            Means(name, x, d) /\ \E p \in WalkParents[name] : RowFilter(p, w.t, x, w.s, d)}}

\* A client pages through a connection: first (or last) of a size, then after
\* (or before) the last (or first) cursor it was given, until it is told that
\* there is no further page.
StartWalk(w) ==
    /\ last = Idle /\ walk = Idle
    /\ walk' = [kind |-> "walk", w |-> w, cursor |-> None, seen |-> <<>>,
                always |-> Walked(w, db), done |-> FALSE]
    /\ UNCHANGED <<db, last>>

FieldOf(n, sfx, args, sel) ==
    [k |-> "field", n |-> n, sfx |-> sfx, args |-> args, sel |-> sel, dirs |-> <<>>]
Leaf(n) == FieldOf(n, "", <<>>, <<>>)
OneField(s, mutation, f) == [s |-> s, name |-> None, ops |-> <<[name |-> None, mutation |-> mutation, sel |-> <<f>>]>>]

PageRequest(w, cursor) ==
    LET size == IF w.back THEN "last" ELSE "first"
        from == IF w.back THEN "before" ELSE "after"
        args == (size :> w.size) @@ ("where" :> w.filter)
                @@ (IF cursor = None THEN <<>> ELSE (from :> cursor))
    IN OneField(w.s, FALSE, FieldOf(w.t, "connection", args, <<Leaf("__typename")>>))

\* A client that has introspected tries what it was told of, and what it was
\* not told of: the root field <t><sfx> { n }, with the right key.
Tried(t) ==
    {<<sfx, "__typename">> : sfx \in {"", "by_pk", "aggregate"}}
    \cup {<<"", n>> : n \in Catalog[t].cols \cup DOMAIN Joins[t]}

Listed(schema, t, sfx, n) ==
    IF n = "__typename" THEN <<t, sfx>> \in schema.query
    ELSE t \in DOMAIN schema.columns /\ n \in schema.columns[t] \cup schema.rels[t]

TryQuery(t, sfx, n) ==
    FieldOf(t, sfx, IF sfx = "by_pk" THEN [c \in ToSet(Catalog[t].pk) |-> 1] ELSE <<>>,
            <<FieldOf(n, "", <<>>, IF n \in DOMAIN Joins[t] THEN <<Leaf("__typename")>> ELSE <<>>)>>)

\* A listed mutation that sets all that it may set.
TryMutation(t, sfx, perm) ==
    FieldOf(t, sfx, CASE sfx = "insert" -> [objects |-> <<<<>>>>]
                      [] sfx = "delete" -> [where |-> <<>>]
                      [] OTHER -> [where |-> <<>>,
                                   _set |-> [c \in {x \in Catalog[t].cols : Settable(perm, t, x)} |-> 1]],
            <<Leaf("affected_rows")>>)

\* What may be sent: anything, but while a walk is under way only its next
\* page and mutations of others.
Clients(names) == {[by |-> "client", n |-> i] : i \in names}

Trials(s, schema) ==
    UNION {{[by |-> "trial", s |-> s, t |-> t, sfx |-> n[1], n |-> n[2],
             listed |-> Listed(schema, t, n[1], n[2])] : n \in Tried(t)} : t \in DOMAIN Metadata}
    \cup {[by |-> "trial", s |-> s, t |-> m[1], sfx |-> m[2], n |-> "affected_rows", listed |-> TRUE] :
             m \in schema.mutation}

Offered ==
    CASE last.kind = "schema" -> Trials(last.s, last.schema)
      [] last = Idle /\ walk = Idle -> Clients(DOMAIN Requests)
      [] last = Idle /\ walk # Idle ->
            Clients(Writers)
            \cup (IF walk.done THEN {} ELSE {[by |-> "page"]})
      [] OTHER -> {}

Document(r) ==
    CASE r.by = "client" -> Requests[r.n]
      [] r.by = "page" -> PageRequest(Walks[walk.w], walk.cursor)
      [] r.by = "trial" /\ r.n # "affected_rows" -> OneField(r.s, FALSE, TryQuery(r.t, r.sfx, r.n))
      [] r.by = "trial" /\ r.n = "affected_rows" ->
            OneField(r.s, TRUE, TryMutation(r.t, r.sfx, UpdatePerm(r.t, r.s)))

Answer(r, plan, scan, ans, steps) ==
    [kind |-> "answer", req |-> r, plan |-> plan, scan |-> scan, ans |-> ans, steps |-> steps]

\* A PlanError is the whole answer.
Refuse(r, plan) ==
    /\ r.by # "trial" /\ plan = Err
    /\ last' = Answer(r, Err, None, Err, <<>>)
    /\ UNCHANGED <<db, walk>>

Query(r, plan, scan) ==
    /\ r.by # "trial" /\ plan # Err /\ ~IsMutation(Document(r))
    /\ last' = Answer(r, plan, scan, OperationToSql(plan, [db |-> db, scan |-> scan]), <<>>)
    /\ UNCHANGED <<db, walk>>

\* The roots of a mutation in order, each on what the ones before it left;
\* one that fails undoes them all.
RunStep(acc, before, res) ==
    IF res.ans = Failed THEN [acc EXCEPT !.failed = TRUE, !.db = before, !.steps = <<>>]
    ELSE [acc EXCEPT !.db = res.db, !.ans = Append(@, res.ans),
                     !.steps = Append(@, [pre |-> acc.db, post |-> res.db])]

RunMutation(roots, before, scan) ==
    FoldLeft(LAMBDA acc, m :
        IF acc.failed THEN acc
        ELSE RunStep(acc, before, MutationToSql(m, [db |-> acc.db, scan |-> scan])),
        [db |-> before, failed |-> FALSE, ans |-> <<>>, steps |-> <<>>], roots)

\* During a walk the answers to the writers are not looked at.
Ended(r, plan, scan, res) ==
    /\ InBounds(res.db)
    /\ db' = res.db
    /\ IF walk = Idle
       THEN /\ last' = Answer(r, plan, scan, IF res.failed THEN Failed ELSE res.ans, res.steps)
            /\ walk' = walk
       ELSE /\ last' = last
            /\ walk' = [walk EXCEPT !.always = @ \cap Walked(walk.w, res.db)]

Mutate(r, plan, scan) ==
    /\ r.by # "trial" /\ plan # Err /\ IsMutation(Document(r))
    /\ Ended(r, plan, scan, RunMutation(plan, db, scan))

\* A trial is planned only.
Tries(r, plan) ==
    /\ r.by = "trial"
    /\ last' = [kind |-> "tried", req |-> r, taken |-> plan # Err]
    /\ UNCHANGED <<db, walk>>

Serve(r, plan) ==
    \/ Refuse(r, plan)
    \/ \E scan \in Scans : Query(r, plan, scan) \/ Mutate(r, plan, scan)
    \/ Tries(r, plan)

\* execute_introspection.  Neither it nor the planner reads a row, so the
\* trials are made on the empty database only.
SchemaBound == \A t \in DOMAIN Catalog : db[t] = {}

Introspect(s) ==
    /\ last = Idle /\ walk = Idle /\ SchemaBound
    /\ last' = [kind |-> "schema", s |-> s, schema |-> BuildSchemaJson(s)]
    /\ UNCHANGED <<db, walk>>

\* The client of a walk adds the page to what it has.
TakePage ==
    /\ last.kind = "answer" /\ last.req.by = "page"
    /\ LET w == Walks[walk.w]
           page == last.ans[1]
           keys == [e \in DOMAIN page.edges |-> page.edges[e].node.key]
           more == IF w.back THEN page.hasPreviousPage ELSE page.hasNextPage
       IN walk' = [walk EXCEPT !.seen = IF w.back THEN keys \o @ ELSE @ \o keys,
                               !.cursor = IF w.back THEN page.startCursor ELSE page.endCursor,
                               !.done = ~more]
    /\ last' = Idle
    /\ db' = db

Reply ==
    /\ last.kind = "tried" \/ (last.kind = "answer" /\ last.req.by = "client")
    /\ last' = Idle
    /\ UNCHANGED <<db, walk>>

EndWalk ==
    /\ last = Idle /\ walk # Idle /\ walk.done
    /\ walk' = Idle
    /\ UNCHANGED <<db, last>>

Next ==
    \/ \E r \in Offered : Serve(r, Plan(Document(r)))
    \/ \E s \in Sessions : Introspect(s)
    \/ \E w \in DOMAIN Walks : StartWalk(w)
    \/ TakePage
    \/ Reply
    \/ EndWalk

Spec == Init /\ [][Next]_vars
----------------------------------------------------------------------------
\* All rows that a part of an answer shows, those of relationships included.
RECURSIVE RowsIn(_)
RowsIn(v) ==
    LET Cells(row) == [j \in DOMAIN row.cells |->
                          IF row.cells[j].k = "rel" THEN RowsIn(row.cells[j].v) ELSE <<>>]
        Below(rows) == FlattenSeq([i \in DOMAIN rows |-> <<rows[i]>> \o FlattenSeq(Cells(rows[i]))])
    IN CASE v.k = "rows" -> Below(v.v)
         [] v.k = "parts" -> FlattenSeq([i \in DOMAIN v.v |-> RowsIn(v.v[i])])
         [] v.k = "connection" -> Below([i \in DOMAIN v.edges |-> v.edges[i].node])
         [] OTHER -> <<>>

\* The rows that a mutation returns, without what is related to them.
Returned(v) ==
    CASE v.k = "rows" -> v.v
      [] v.k = "parts" -> FlattenSeq([i \in DOMAIN v.v |-> IF v.v[i].k = "rows" THEN v.v[i].v ELSE <<>>])
      [] OTHER -> <<>>

RowBy(t, key, d) == CHOOSE r \in d[t] : KeyOf(t, r) = key

Answered == last.kind = "answer" /\ last.ans \notin {Err, Failed}

\* A row in an answer is one the session sees, and of its cells exactly those
\* are shown that a parent which sees the row grants (src/README.md:84, plan.rs:
\* 1199-1219: "cell-level NULLing"); a computed field likewise.
ShownAsGranted(s, row, d) ==
    LET r == RowBy(row.t, row.key, d)
    IN /\ Visible(s, row.t, r, d)
       /\ \A j \in DOMAIN row.cells :
             LET c == row.cells[j]
             IN CASE c.k = "col" ->
                       c.v = IF CellVisible(s, row.t, r, c.c, d) THEN r[c.c] ELSE Null
                  [] c.k = "comp" ->
                       c.v # Null => \E p \in Parents(s, row.t) :
                          RowFilter(p, row.t, r, s, d) /\ c.c \in Metadata[row.t].select[p].computed
                  [] OTHER -> TRUE

\* The rows that a mutation returns need not be visible, their cells have to
\* be granted by some parent; rows related to them are read as in a query,
\* from the state before the statement.
CellsAreGranted ==
    Answered =>
        LET s == Document(last.req).s
        IN \A j \in DOMAIN last.ans :
              LET rows == RowsIn(last.ans[j])
                  top == IF IsMutation(Document(last.req)) THEN Returned(last.ans[j]) ELSE <<>>
              IN \A i \in DOMAIN rows :
                    IF \E k \in DOMAIN top : top[k] = rows[i]
                    THEN \A k \in DOMAIN rows[i].cells :
                            rows[i].cells[k].k = "col" =>
                                \E p \in Parents(s, rows[i].t) : Granted(p, rows[i].t, rows[i].cells[k].c)
                    ELSE ShownAsGranted(s, rows[i], IF IsMutation(Document(last.req)) THEN last.steps[j].pre ELSE db)

\* The rows keyed by keys are a window of the asked rows: as many as there
\* are between offset and limit, in the order that request q asks for.
RanksLower(q, r, x) == Rank(q, x, db) < Rank(q, r, db)

IsWindow(q, rows, asked, offset, limits) ==
    /\ ToSet(rows) \subseteq asked
    /\ Cardinality(ToSet(rows)) = Len(rows)
    /\ Len(rows) = Max({0, Min({Cardinality(asked) - offset} \cup limits)})
    /\ \A i \in DOMAIN rows :
          /\ Cardinality({r \in asked : RanksLower(q, rows[i], r)}) < offset + i
          /\ Cardinality({r \in asked : ~RanksLower(q, r, rows[i])}) >= offset + i

RowsOf(t, shown) == [i \in DOMAIN shown |-> RowBy(t, shown[i].key, db)]

\* Relationships that are selected without arguments hold the visible rows
\* that the declared join relates, and so on down the selection.
Reachable(s, r, to) ==
    {y \in db[to.t] : r[to.join[1]] # Null /\ y[to.join[2]] = r[to.join[1]] /\ Visible(s, to.t, y, db)}

RECURSIVE Related(_, _, _)
RelatedThrough(f, cell, row, s) ==
    cell.k = "rel" /\ f.n \in DOMAIN Joins[row.t] /\ cell.v.k = "rows" =>
        /\ f.args = <<>> =>
              ToSet(RowsOf(Joins[row.t][f.n].t, cell.v.v)) =
                  Reachable(s, RowBy(row.t, row.key, db), Joins[row.t][f.n])
        /\ \A k \in DOMAIN cell.v.v : Related(f.sel, cell.v.v[k], s)

RelatedCells(fs, row, s) == \A j \in DOMAIN fs : RelatedThrough(fs[j], row.cells[j], row, s)

Related(sel, row, s) == RelatedCells(Flatten(sel, <<row.t>>, s), row, s)

\* The row limit of a session: the largest of its roles', if all have one.
LimitsIn(caps) == IF None \in caps THEN {} ELSE {Max(caps)}
RoleLimits(s, t) == LimitsIn({Metadata[t].select[p].limit : p \in Parents(s, t)})
Given(f, a) == IF a \in DOMAIN f.args THEN {f.args[a]} ELSE {}

\* An aggregate is over the cells that are granted.
GrantedCells(s, t, rows, c) ==
    [i \in DOMAIN rows |-> IF CellVisible(s, t, rows[i], c, db) THEN rows[i][c] ELSE Null]

TotalIsOf(a, val, s, f, asked) ==
    IF a.op = "count"
    THEN a.columns = <<>> =>
            val = Max({0, Min({Cardinality(asked) - Arg(f, "offset", 0)} \cup Given(f, "limit"))})
    ELSE Given(f, "limit") = {} =>
            \A k \in DOMAIN a.columns :
                val[k] = Aggregate(a.op, GrantedCells(s, f.n, SetToSeq(asked), a.columns[k].col))

PartIsView(q, p, s, f, asked) ==
    CASE p.k = "agg" -> \A k \in DOMAIN p.of : TotalIsOf(p.of[k], p.v[k], s, f, asked)
      [] p.k = "rows" -> IsWindow(q, RowsOf(f.n, p.v), asked, Arg(f, "offset", 0),
                                  Given(f, "limit") \cup RoleLimits(s, f.n))
      [] OTHER -> TRUE

\* A page is cut from the front with first and from the back with last, and
\* the permission's limit holds for it too.
ConnectionIsView(q, v, s, f, asked) ==
    LET nodes == RowsOf(f.n, [i \in DOMAIN v.edges |-> v.edges[i].node])
        before == Max({0} \cup {Cardinality(asked) - n : n \in Given(f, "last")})
    IN /\ IsWindow(q, nodes, asked, before, Given(f, "first") \cup RoleLimits(s, f.n))
       /\ \A n \in Given(f, "first") : v.hasNextPage = (Cardinality(asked) > n)
       /\ \A n \in Given(f, "last") : v.hasPreviousPage = (Cardinality(asked) > n)

DistinctIsView(c, rows, asked) ==
    /\ {rows[i][c] : i \in DOMAIN rows} = {r[c] : r \in asked}
    /\ \A i, j \in DOMAIN rows : rows[i][c] = rows[j][c] => i = j

RowsAreView(q, v, s, f, asked) ==
    /\ IsWindow(q, RowsOf(f.n, v.v), asked, Arg(f, "offset", 0),
                IF f.sfx = "by_pk" THEN {} ELSE Given(f, "limit") \cup RoleLimits(s, f.n))
    /\ \A i \in DOMAIN v.v : Related(f.sel, v.v[i], s)

IsView(q, v, s, f, asked) ==
    CASE v.k = "connection" -> ConnectionIsView(q, v, s, f, asked)
      [] v.k = "parts" -> \A j \in DOMAIN v.v : PartIsView(q, v.v[j], s, f, asked)
      [] v.k = "rows" /\ "distinct_on" \in DOMAIN f.args ->
            DistinctIsView(f.args["distinct_on"][1], RowsOf(f.n, v.v), asked)
      [] OTHER -> RowsAreView(q, v, s, f, asked)

RootFieldOf(r) == Flatten(PickOperation(r.ops, r.name).sel, None, r.s)[1]

AskedRows(q, s, t) == {r \in db[t] : Visible(s, t, r, db) /\ Means(q, r, db)}

RootIsView(q, s, f) == f.n \in DOMAIN Metadata => IsView(q, last.ans[1], s, f, AskedRows(q, s, f.n))

\* A query on a table answers with the visible rows that its filter asks
\* for, all of them and in the order it asks for, as far as limit, offset, the
\* size of a Relay page and the permission's limit go (plan.rs:124-139: an
\* inherited role has the largest of its parents' limits; plan.rs:1041: "The
\* permission limit caps what clients see"); aggregates are over all of them,
\* over the granted cells (src/README.md:84, "guarded aggregates").  A page
\* that is larger than the permission's limit is no document of any run: its
\* size replaces the limit (sqlgen lib.rs:120-122) and this does not hold.
RowsAreTheView ==
    Answered /\ last.req.by = "client" /\ ~IsMutation(Document(last.req)) =>
        RootIsView(last.req.n, Document(last.req).s, RootFieldOf(Document(last.req)))

\* A row is added, changed or removed only as the role's permission lets it:
\* preset and column mask, row filter before and check after, through upserts
\* too (plan_mutation.rs:312-314: "DO UPDATE acts as an update"); what the
\* statement is not about stays.
WritesArePermitted ==
    last.kind = "answer" =>
        LET s == Document(last.req).s
        IN \A j \in DOMAIN last.steps : \A t \in DOMAIN Catalog :
              LET pre == last.steps[j].pre
                  post == last.steps[j].post
                  Kept(r, d) == {x \in d[t] : KeyOf(t, x) = KeyOf(t, r)}
              IN /\ \A new \in post[t] \ pre[t] :
                       IF Kept(new, pre) = {} THEN MayInsert(s, t, new, pre)
                       ELSE MayUpdate(s, t, RowBy(t, KeyOf(t, new), pre), new, pre)
                 /\ \A old \in pre[t] : Kept(old, post) = {} => MayDelete(s, t, old, pre)

\* What the session cannot see taken away: rows, and cells that no row
\* filter reads.
Blind(s) ==
    [t \in DOMAIN Catalog |->
        {[c \in Catalog[t].cols |->
            IF c \in FilterColumns[t] \/ CellVisible(s, t, r, c, db) THEN r[c] ELSE Null] :
            r \in {x \in db[t] : Visible(s, t, x, db)}}]

\* The answer to a query does not depend on rows or cells that the role
\* cannot see, whatever it filters by, sorts by or aggregates (predicate.rs:
\* 149-151: "relationships can't leak invisible rows").
NonInterference ==
    last.kind = "answer" /\ last.ans # Err /\ ~IsMutation(Document(last.req)) =>
        LET s == Document(last.req).s
        IN s.role \in OwnRowRoles =>
             last.ans = OperationToSql(last.plan, [db |-> Blind(s), scan |-> last.scan])

\* Introspection and planner agree (src/README.md:87, "real per-role schema"):
\* the planner takes a root field, a column or a relationship exactly when
\* the schema lists it, and every mutation that the schema lists.
SchemaIsThePlanner ==
    last.kind = "tried" => (last.req.listed <=> last.taken)

\* Where a key comes in the walk under way.
Place(key) == IF Walks[walk.w].back THEN -key[1] ELSE key[1]
Places(keys) == {Place(k) : k \in keys}

Pages == INSTANCE Walk WITH
    size <- IF walk = Idle THEN 0 ELSE Walks[walk.w].size,
    rows <- IF walk = Idle THEN {} ELSE Places(Walked(walk.w, db)),
    always <- IF walk = Idle THEN {} ELSE Places(walk.always),
    shown <- IF walk = Idle THEN {} ELSE Places(ToSet(walk.seen)),
    done <- walk # Idle /\ walk.done

\* Every page that the planner and sqlgen make is the page that a connection
\* promises: the next rows after the cursor, full unless the rows run out,
\* with the right hasNextPage or hasPreviousPage, whatever was written since
\* the page before.
ImplementsWalk == Pages!Spec
==============================================================================
