--------------------------------- MODULE Sql ---------------------------------
(***************************************************************************)
(* What the statements of crates/sqlgen/src/lib.rs compute: the meaning,   *)
(* over a small database, of each form of the intermediate representation  *)
(* (crates/ir/src/lib.rs) that sqlgen compiles.  Aliases, quoting and      *)
(* casts of the SQL text are left out.                                     *)
(*                                                                         *)
(* A table is a set of rows, a row a function from columns to values.  A   *)
(* snapshot d is the database with the direction in which the database     *)
(* happens to deliver rows that ORDER BY leaves tied.  Conditions are      *)
(* three-valued: TRUE, FALSE or Null.  An answer keeps, beside what it     *)
(* shows of a row, the row's key, for the properties only.                 *)
(***************************************************************************)
EXTENDS Paging, SequencesExt

CONSTANTS Failed,           \* the statement is refused by the database
          Catalog,          \* table -> [cols, pk, fks]
          Call(_, _, _, _), \* an SQL function: name, arguments, row, database
          Match(_, _, _)    \* pattern, jsonb and PostGIS operators

----------------------------------------------------------------------------
Cmp(op, a, b) ==
    IF a = Null \/ b = Null THEN Null
    ELSE CASE op = "="  -> a = b
           [] op = "<>" -> a # b
           [] op = ">"  -> a > b
           [] op = "<"  -> a < b
           [] op = ">=" -> a >= b
           [] op = "<=" -> a <= b
           [] OTHER -> Match(op, a, b)

Joined(join, outer, inner) == \A j \in join : Cmp("=", inner[j[2]], outer[j[1]]) = TRUE

\* ORDER BY items, most significant first.
Precedes(x, y, o) ==
    CASE x = y -> FALSE
      [] x # y /\ x = Null -> o.nulls = "first"
      [] x # y /\ y = Null -> o.nulls = "last"
      [] OTHER -> IF o.dir = "asc" THEN x < y ELSE x > y

Sort(rows, order, Val(_, _)) ==
    SetToSortSeq(rows, LAMBDA a, b :
        \E i \in DOMAIN order :
            /\ Precedes(Val(order[i], a), Val(order[i], b), order[i])
            /\ \A j \in 1 .. i - 1 : Val(order[j], a) = Val(order[j], b))

\* Rows in the order in which the database happens to read them.
Natural(t, rows, d) ==
    LET pk == Catalog[t].pk
    IN Sort(rows, [i \in DOMAIN pk |-> [c |-> pk[i], dir |-> d.scan, nulls |-> "last"]],
            LAMBDA o, r : r[o.c])

\* (SELECT c FROM rows LIMIT 1)
FirstOf(t, rows, c, d) == IF rows = {} THEN Null ELSE Natural(t, rows, d)[1][c]

\* compare
Compare(x, op, row, root, d) ==
    CASE op.k = "Value" -> Cmp(op.op, x, op.v)
      [] op.k = "In" -> Disj({Cmp("=", x, op.vs[i]) : i \in DOMAIN op.vs})
      [] op.k = "Nin" -> Conj({Cmp("<>", x, op.vs[i]) : i \in DOMAIN op.vs})
      [] op.k = "IsNull" -> (x = Null) = op.v
      [] op.k = "CompareColumn" -> Cmp(op.op, x, (IF op.root THEN root ELSE row)[op.col])
      [] op.k = "CompareColumnRel" ->
            Cmp(op.op, x, FirstOf(op.t, {r \in d.db[op.t] : Joined(op.join, row, r)}, op.col, d))

\* bool_exp
RECURSIVE BoolExp(_, _, _, _)
BoolExp(e, row, root, d) ==
    CASE e.k = "And" -> Conj({BoolExp(e.es[i], row, root, d) : i \in DOMAIN e.es})
      [] e.k = "Or" -> Disj({BoolExp(e.es[i], row, root, d) : i \in DOMAIN e.es})
      [] e.k = "Not" -> Neg(BoolExp(e.e, row, root, d))
      [] e.k = "Compare" -> Compare(row[e.col], e.op, row, root, d)
      [] e.k = "ComputedCompare" ->
            Compare(Call(e.fn, e.args, row, d.db), e.op, row, root, d)
      [] e.k = "Relationship" ->
            \E r \in d.db[e.t] : Joined(e.join, row, r) /\ BoolExp(e.p, r, root, d) = TRUE
      [] e.k = "Exists" -> \E r \in d.db[e.t] : BoolExp(e.p, r, r, d) = TRUE
      [] e.k = "RowFunctionExists" ->
            \E r \in Call(e.fn, e.args, row, d.db) : BoolExp(e.p, r, root, d) = TRUE

\* A WHERE, or a CASE WHEN around a guarded cell.
Passes(p, row, d) == p = None \/ BoolExp(p, row, row, d) = TRUE

Aggregate(fn, vs) ==
    LET some == SelectSeq(vs, LAMBDA v : v # Null)
    IN CASE fn = "count" -> Len(some)
         [] some = <<>> /\ fn # "count" -> Null
         [] fn = "sum" -> FoldLeft(LAMBDA a, b : a + b, 0, some)
         [] fn = "max" -> Max(ToSet(some))
         [] fn = "min" -> Min(ToSet(some))

\* The value that an ORDER BY item sorts a row by, which has the remote rows
\* related to it.
SortKey(o, row, remote, d) ==
    CASE o.k = "Column" -> row[o.c]
      [] o.k = "Relationship" -> FirstOf(o.t, remote, o.c, d)
      [] o.k = "RelationshipAggregate" ->
            IF o.c = None THEN Cardinality(remote)
            ELSE Aggregate(o.fn, [i \in 1 .. Cardinality(remote) |-> Natural(o.t, remote, d)[i][o.c]])

OrderValue(o, row, d) ==
    SortKey(o, row, {r \in d.db[o.t] : Joined(o.join, row, r) /\ Passes(o.p, r, d)}, d)

\* distinct_clause: the first row of every combination of the columns.
DistinctOn(cols, rows) ==
    IF cols = <<>> THEN rows
    ELSE FoldLeft(LAMBDA acc, r :
        IF \E i \in DOMAIN acc : \A k \in DOMAIN cols : acc[i][cols[k]] = r[cols[k]]
        THEN acc ELSE Append(acc, r), <<>>, rows)

\* from_where_order: the rows of a select in order; `outer` is the enclosing
\* row of a relationship or of a computed field.
FromWhereOrder(q, outer, join, d) ==
    LET base == CASE q.from.k = "Table" -> d.db[q.t]
                  [] q.from.k # "Table" -> Call(q.from.fn, q.from.args, outer, d.db)
        tied == [i \in DOMAIN Catalog[q.t].pk |->
                    [k |-> "Column", t |-> q.t, c |-> Catalog[q.t].pk[i],
                     dir |-> d.scan, nulls |-> "last"]]
        kept == {r \in base : Joined(join, outer, r) /\ Passes(q.pred, r, d)}
    IN Window(q, DistinctOn(q.distinct,
                            Sort(kept, q.order \o tied, LAMBDA o, r : OrderValue(o, r, d))))

\* The statement is one that the database accepts: one LIMIT only, and the
\* DISTINCT ON columns lead ORDER BY.
RECURSIVE Accepted(_)
Accepted(q) ==
    /\ ~(q.single /\ q.limit # None)
    /\ \A i \in DOMAIN q.distinct :
          q.order[i].k = "Column" /\ q.order[i].c \in ToSet(q.distinct)
    /\ \A i \in DOMAIN q.fields :
          LET f == q.fields[i]
          IN CASE f.k \in {"Object", "Array"} -> Accepted(f.q)
               [] f.k = "NestedConnection" -> Accepted(f.conn.q)
               [] f.k = "Nodes" -> Accepted([q EXCEPT !.fields = f.fields])
               [] OTHER -> TRUE

----------------------------------------------------------------------------
\* aggregate_json
AggregateJson(fields, rows, d) ==
    LET Cells(c) == [i \in DOMAIN rows |->
                        IF Passes(c.guard, rows[i], d) THEN rows[i][c.col] ELSE Null]
        Tuples(cols) == [i \in DOMAIN rows |-> [k \in DOMAIN cols |-> rows[i][cols[k]]]]
        Count(f) == CASE f.columns = <<>> -> Len(rows)
                      [] Len(f.columns) = 1 ->
                            LET some == SelectSeq(Tuples(f.columns), LAMBDA v : v[1] # Null)
                            IN IF f.distinct THEN Cardinality(ToSet(some)) ELSE Len(some)
                      [] OTHER -> IF f.distinct THEN Cardinality(ToSet(Tuples(f.columns)))
                                  ELSE Len(rows)
    IN [i \in DOMAIN fields |->
          IF fields[i].op = "count" THEN Count(fields[i])
          ELSE [j \in DOMAIN fields[i].columns |->
                  Aggregate(fields[i].op, Cells(fields[i].columns[j]))]]

KeyOf(t, row) == [i \in DOMAIN Catalog[t].pk |-> row[Catalog[t].pk[i]]]

\* A JSON array of rows, or the at most one row of a single object.
RowsJson(rows) == [k |-> "rows", v |-> rows]

\* The key columns are appended to the order, reversed when paging back.
PageOrder(conn) ==
    LET back == conn.page # None /\ conn.page.backward
        missing == SelectSeq(conn.pk, LAMBDA c :
                     ~\E i \in DOMAIN conn.q.order :
                         conn.q.order[i].k = "Column" /\ conn.q.order[i].c = c)
        keys == [i \in DOMAIN missing |->
                   [k |-> "Column", t |-> conn.q.t, c |-> missing[i],
                    dir |-> IF back THEN "desc" ELSE "asc", nulls |-> "last"]]
    IN conn.q.order \o keys

PageQuery(conn) == [conn.q EXCEPT !.order = PageOrder(conn), !.limit = PageLimit(conn.page, @)]

\* row_json, select_expr, aggregate_expr and connection_expr: the JSON values.
RECURSIVE RowJson(_, _, _, _)

NodesJson(fields, t, rows, d) == RowsJson([i \in DOMAIN rows |-> RowJson(fields, t, rows[i], d)])

\* Aggregates are over all the rows, the nodes beside them have a limit of
\* their own.
SelectJson(q, rows, d) ==
    IF \E i \in DOMAIN q.fields : q.fields[i].k \in {"Aggregate", "Nodes"}
    THEN [k |-> "parts", v |-> [i \in DOMAIN q.fields |->
            LET f == q.fields[i]
            IN CASE f.k = "Aggregate" ->
                      [k |-> "agg", of |-> f.fields, v |-> AggregateJson(f.fields, rows, d)]
                 [] f.k = "Nodes" -> NodesJson(f.fields, q.t, FirstRows(q.nodes, rows), d)
                 [] f.k = "Typename" -> [k |-> "type", v |-> f.value]]]
    ELSE NodesJson(q.fields, q.t, FirstRows(IF q.single THEN 1 ELSE None, rows), d)

SelectExpr(q, outer, join, d) == SelectJson(q, FromWhereOrder(q, outer, join, d), d)

\* The row that was read beyond the page says that there are more.
ConnectionJson(conn, raw, d) ==
    LET page == conn.page
        back == page # None /\ page.backward
        shown == PageRows(page, raw)
        a == IF back THEN Reverse(shown) ELSE shown
        more == PageHasMore(page, raw)
        Cursor(row) == [c \in ToSet(conn.pk) |-> row[c]]
    IN [k |-> "connection",
        edges |-> [i \in DOMAIN a |->
                     [cursor |-> Cursor(a[i]), node |-> RowJson(conn.q.fields, conn.q.t, a[i], d)]],
        startCursor |-> IF a = <<>> THEN Null ELSE Cursor(a[1]),
        endCursor |-> IF a = <<>> THEN Null ELSE Cursor(a[Len(a)]),
        hasNextPage |-> IF page = None THEN FALSE
                        ELSE IF back THEN page.other ELSE more,
        hasPreviousPage |-> IF page = None THEN FALSE
                            ELSE IF back THEN more ELSE page.other]

ConnectionExpr(conn, outer, d) ==
    ConnectionJson(conn, FromWhereOrder(PageQuery(conn), outer, conn.join, d), d)

RowJson(fields, t, row, d) ==
    [t |-> t, key |-> KeyOf(t, row), cells |->
        [i \in DOMAIN fields |->
            LET f == fields[i]
                Guarded(v) == IF Passes(f.guard, row, d) THEN v ELSE Null
            IN CASE f.k = "Column" -> [k |-> "col", c |-> f.col, v |-> Guarded(row[f.col])]
                 [] f.k = "Typename" -> [k |-> "type", v |-> f.value]
                 [] f.k \in {"Object", "Array"} ->
                      [k |-> "rel", n |-> f.n, v |-> SelectExpr(f.q, row, f.join, d)]
                 [] f.k = "RelayGlobalId" ->
                      [k |-> "id", v |-> <<f.t, [j \in DOMAIN f.pk |-> row[f.pk[j]]]>>]
                 [] f.k = "NestedConnection" ->
                      [k |-> "rel", n |-> f.n, v |-> ConnectionExpr(f.conn, row, d)]
                 [] f.k = "ComputedScalar" ->
                      [k |-> "comp", c |-> f.n, v |-> Guarded(Call(f.fn, f.args, row, d.db))]]]

\* operation_to_sql: one statement, so one snapshot, for all root fields.
OperationToSql(roots, d) ==
    IF \E i \in DOMAIN roots : roots[i].k # "Typename" /\ ~Accepted(roots[i].q)
    THEN Failed
    ELSE [i \in DOMAIN roots |->
            CASE roots[i].k = "Typename" -> [k |-> "type", v |-> roots[i].value]
              [] roots[i].k = "Select" -> SelectExpr(roots[i].q, Null, {}, d)
              [] roots[i].k = "Connection" -> ConnectionExpr(roots[i], Null, d)]

----------------------------------------------------------------------------
\* What the database itself enforces: keys and references.
Consistent(db) ==
    \A t \in DOMAIN Catalog : \A r \in db[t] :
        /\ \A c \in ToSet(Catalog[t].pk) : r[c] # Null
        /\ \A x \in db[t] : KeyOf(t, x) = KeyOf(t, r) => x = r
        /\ \A fk \in Catalog[t].fks :
              \/ \E c \in DOMAIN fk.map : r[c] = Null
              \/ \E x \in db[fk.to] : \A c \in DOMAIN fk.map : x[fk.map[c]] = r[c]

\* SET: no column twice, Inc adds to the row's own value.
Assignable(cols) == \A i, j \in DOMAIN cols : cols[i] = cols[j] => i = j

Assign(row, sets) ==
    [c \in DOMAIN row |->
        LET mine == {i \in DOMAIN sets : sets[i].col = c}
            op == sets[CHOOSE i \in mine : TRUE]
        IN CASE mine = {} -> row[c]
             [] mine # {} /\ op.k = "Set" -> op.v
             [] OTHER -> IF row[c] = Null \/ op.v = Null THEN Null ELSE row[c] + op.v]

\* INSERT .. ON CONFLICT: row after row; a row that this statement itself
\* wrote cannot be updated by it again.  A statement's effect is the rows of
\* its table and those it returns.
Upsert(t, oc, d, acc, new) ==
    LET old == {x \in acc.rows : KeyOf(t, x) = KeyOf(t, new)}
        cur == CHOOSE x \in old : TRUE
        upd == Assign(cur, [i \in DOMAIN oc.cols |->
                              [k |-> "Set", col |-> oc.cols[i], v |-> new[oc.cols[i]]]] \o oc.sets)
        fails == \/ oc = None
                 \/ cur \in ToSet(acc.out)
                 \/ \E x \in acc.rows \ {cur} : KeyOf(t, x) = KeyOf(t, upd)
    IN CASE ~acc.ok -> acc
         [] acc.ok /\ old = {} -> [acc EXCEPT !.rows = @ \cup {new}, !.out = Append(@, new)]
         [] OTHER ->
              IF oc # None /\ (oc.cols \o oc.sets = <<>> \/ (cur \notin ToSet(acc.out) /\ ~Passes(oc.p, cur, d)))
              THEN acc
              ELSE IF fails THEN [acc EXCEPT !.ok = FALSE]
              ELSE [acc EXCEPT !.rows = (@ \ {cur}) \cup {upd}, !.out = Append(@, upd)]

InsertSql(m, d) ==
    LET Full(r) == [c \in Catalog[m.t].cols |->
                      IF c \in DOMAIN r /\ r[c] # None THEN r[c] ELSE Catalog[m.t].default[c]]
        valid == /\ DOMAIN m.rows[1] # {}
                 /\ m.oc # None => Assignable(m.oc.cols \o [i \in DOMAIN m.oc.sets |-> m.oc.sets[i].col])
    IN FoldLeft(LAMBDA acc, r : Upsert(m.t, m.oc, d, acc, Full(r)),
                [rows |-> d.db[m.t], out |-> <<>>, ok |-> valid], m.rows)

UpdateEffect(m, hit, d) ==
    LET new == [i \in DOMAIN hit |-> Assign(hit[i], m.sets)]
        rows == (d.db[m.t] \ ToSet(hit)) \cup ToSet(new)
    IN [rows |-> rows, out |-> new,
        ok |-> /\ Assignable([i \in DOMAIN m.sets |-> m.sets[i].col])
               /\ Cardinality(rows) = Cardinality(d.db[m.t])]

DeleteEffect(m, hit, d) == [rows |-> d.db[m.t] \ ToSet(hit), out |-> hit, ok |-> TRUE]

UpdateSql(m, d) == UpdateEffect(m, Natural(m.t, {r \in d.db[m.t] : Passes(m.pred, r, d)}, d), d)

DeleteSql(m, d) == DeleteEffect(m, Natural(m.t, {r \in d.db[m.t] : Passes(m.pred, r, d)}, d), d)

\* mutation_select: the answer is made of the rows the statement returned;
\* everything it reads besides them is as it was before the statement.  A
\* check that is not FALSE, an unknown one too, lets a row pass.
MutationAnswer(m, touched, d) ==
    IF m.out.single THEN NodesJson(m.out.fields, m.t, FirstRows(1, touched), d)
    ELSE [k |-> "parts", v |-> [i \in DOMAIN m.out.fields |->
            LET f == m.out.fields[i]
            IN CASE f.k = "AffectedRows" -> [k |-> "affected", v |-> Len(touched)]
                 [] f.k = "Typename" -> [k |-> "type", v |-> f.value]
                 [] f.k = "Returning" -> NodesJson(f.fields, m.t, touched, d)]]

MutationSelect(m, effect, d) ==
    LET after == [d.db EXCEPT ![m.t] = effect.rows]
        checked == \A i \in DOMAIN effect.out :
                     m.check = None \/ BoolExp(m.check, effect.out[i], effect.out[i], d) # FALSE
    IN IF ~effect.ok \/ ~checked \/ ~Consistent(after) THEN [db |-> d.db, ans |-> Failed]
       ELSE [db |-> after, ans |-> MutationAnswer(m, effect.out, d)]

\* mutation_to_sql
MutationToSql(m, d) ==
    CASE m.k = "Typename" -> [db |-> d.db, ans |-> [k |-> "type", v |-> m.value]]
      [] m.k = "FunctionCall" ->
            [db |-> d.db, ans |-> IF Accepted(m.q) THEN SelectExpr(m.q, Null, {}, d) ELSE Failed]
      [] m.k \in {"Insert", "Update", "Delete"} ->
            MutationSelect(m, CASE m.k = "Insert" -> InsertSql(m, d)
                                [] m.k = "Update" -> UpdateSql(m, d)
                                [] m.k = "Delete" -> DeleteSql(m, d), d)
==============================================================================
