------------------------------- MODULE MCData -------------------------------
(* A small database of authors and articles, its metadata, the requests    *)
(* that are sent, and what the filters among them mean.                    *)
EXTENDS Data

\* Documents.
Field(n, sfx, args, sel) ==
    [k |-> "field", n |-> n, sfx |-> sfx, args |-> args, sel |-> sel, dirs |-> <<>>]
Col(n) == Field(n, "", <<>>, <<>>)
Cols(ns) == [i \in DOMAIN ns |-> Col(ns[i])]
Rel(n, sel) == Field(n, "", <<>>, sel)
Lit(v) == [k |-> "lit", v |-> v]
Is(n, op, v) == [k |-> "field", n |-> n, ops |-> <<[op |-> op, v |-> v]>>, sub |-> <<>>]
Via(n, exp) == [k |-> "field", n |-> n, ops |-> <<>>, sub |-> exp]
AnyOf(es) == [k |-> "_or", es |-> es]
Operation(name, mutation, sel) == [name |-> name, mutation |-> mutation, sel |-> sel]
Ask(s, f) == [s |-> s, name |-> None, ops |-> <<Operation(None, FALSE, <<f>>)>>]
Do(s, fs) == [s |-> s, name |-> None, ops |-> <<Operation(None, TRUE, fs)>>]

----------------------------------------------------------------------------
Article(id, owner, pub) == [id |-> id, owner |-> owner, pub |-> pub]
Author(id, name, karma) == [id |-> id, name |-> name, karma |-> karma]

MCCatalog ==
    [author  |-> [cols |-> {"id", "name", "karma"}, pk |-> <<"id">>, fks |-> {},
                  default |-> Author(Null, Null, Null)],
     article |-> [cols |-> {"id", "owner", "pub"}, pk |-> <<"id">>,
                  fks |-> {[map |-> [owner |-> "id"], to |-> "author"]},
                  default |-> Article(Null, Null, 0)]]

MCPossible ==
    [author  |-> {Author(1, 1, 1), Author(2, 2, Null), Author(2, 0, 2)},
     article |-> {Article(1, 1, 0), Article(1, 1, 1), Article(2, 2, 0), Article(2, 2, 1),
                  Article(2, Null, 0), Article(2, Null, 1), Article(3, 1, 1), Article(3, 2, 0)}]

MCRoleNames == {"user", "anon", "guest", "staff", "both", "crowd"}
MCInherited == [both |-> <<"user", "anon">>, crowd |-> <<"anon", "guest">>]

Uid == [k |-> "var", v |-> "uid"]
Select0 == [columns |-> Star, filter |-> <<>>, limit |-> None, aggregations |-> FALSE, computed |-> {}]
PerRole(given) == [r \in MCRoleNames |-> IF r \in DOMAIN given THEN given[r] ELSE None]
Published == <<Is("pub", "_eq", Lit(1))>>
Own == <<Is("owner", "_eq", Uid)>>

MCMetadata ==
    [author |->
       [object |-> <<>>,
        array |-> [articles |-> [manual |-> FALSE, t |-> "article", join |-> {}, cols |-> {"owner"}]],
        computed |-> [score |-> [fn |-> "score", session |-> None],
                      works |-> [fn |-> "works", session |-> "session"]],
        select |-> PerRole([user |-> [Select0 EXCEPT !.filter = <<Is("id", "_eq", Uid)>>,
                                                     !.aggregations = TRUE, !.computed = {"score"}],
                            anon |-> [Select0 EXCEPT !.columns = {"id", "name"}, !.aggregations = TRUE],
                            staff |-> [Select0 EXCEPT !.computed = {"score"}]]),
        insert |-> PerRole([staff |-> "any"]), update |-> PerRole(<<>>), delete |-> PerRole(<<>>)],
     article |->
       [object |-> [author |-> [manual |-> FALSE, t |-> None, join |-> {}, cols |-> {"owner"}],
                    peer |-> [manual |-> TRUE, t |-> "author", join |-> {<<"id", "id">>}, cols |-> {}]],
        array |-> <<>>,
        computed |-> <<>>,
        select |-> PerRole([user |-> [Select0 EXCEPT !.filter = <<AnyOf(<<Own, Published>>)>>,
                                                     !.aggregations = TRUE],
                            anon |-> [Select0 EXCEPT !.columns = {"id", "pub"}, !.filter = Published,
                                                     !.limit = 2, !.aggregations = TRUE],
                            guest |-> [Select0 EXCEPT !.columns = {"id"}, !.filter = Published, !.limit = 1],
                            staff |-> [Select0 EXCEPT !.filter = <<Via("author", <<Is("karma", "_gt", Lit(0))>>)>>]]),
        insert |-> PerRole([user |-> "own", guest |-> "draft", staff |-> "good"]),
        update |-> PerRole([user |-> "own", staff |-> "publish"]),
        delete |-> PerRole([user |-> "own"])]]

MCInsertPerms ==
    [any   |-> [columns |-> Star, check |-> <<>>, set |-> <<>>, backend_only |-> FALSE],
     own   |-> [columns |-> {"id", "pub"}, check |-> Own, set |-> <<[col |-> "owner", v |-> Uid]>>,
                backend_only |-> FALSE],
     draft |-> [columns |-> Star, check |-> <<Is("pub", "_eq", Lit(0))>>, set |-> <<>>, backend_only |-> FALSE],
     good  |-> [columns |-> Star, check |-> <<Via("author", <<Is("karma", "_gt", Lit(0))>>)>>, set |-> <<>>,
                backend_only |-> TRUE]]
MCUpdatePerms ==
    [own     |-> [columns |-> {"pub"}, filter |-> Own, check |-> Own, set |-> <<>>],
     publish |-> [columns |-> {"owner"}, filter |-> <<Is("pub", "_eq", Lit(0))>>, check |-> None,
                  set |-> <<[col |-> "pub", v |-> Lit(1)]>>]]
MCDeletePerms == [own |-> [filter |-> Own]]

\* SQL functions.
MCSqlFunctions ==
    [search |-> [returns |-> "article", args |-> <<[n |-> "min", row |-> FALSE, default |-> TRUE]>>],
     score  |-> [returns |-> None, args |-> <<[n |-> "a", row |-> TRUE, default |-> FALSE]>>],
     works  |-> [returns |-> "article", args |-> <<[n |-> "a", row |-> TRUE, default |-> FALSE],
                                                   [n |-> "session", row |-> FALSE, default |-> FALSE]>>]]
MCTracked ==
    [search |-> [fn |-> "search", session |-> None, roles |-> {"anon"}, mutation |-> FALSE],
     touch  |-> [fn |-> "search", session |-> None, roles |-> {"user"}, mutation |-> TRUE]]
MCCall(fn, args, row, d) ==
    CASE fn = "search" -> {r \in d["article"] : args = <<>> \/ r["pub"] >= args[1].v}
      [] fn = "score" -> row["karma"]
      [] fn = "works" -> {r \in d["article"] : r["owner"] = row["id"]}
MCMatch(op, a, b) == a % 2 = b % 2

----------------------------------------------------------------------------
\* Sessions.
Session(role, uid) == [role |-> role, vars |-> [uid |-> uid], backend |-> FALSE, relay |-> FALSE,
                       frags |-> [f |-> [on |-> <<"article">>, sel |-> Cols(<<"pub", "owner">>)]]]
User1 == Session("user", 1)
User2 == Session("user", 2)
Both1 == Session("both", 1)
Anon == Session("anon", None)
Guest == Session("guest", None)
Crowd == Session("crowd", None)
Staff == Session("staff", None)
Backend == [Staff EXCEPT !.backend = TRUE]
Relay(s) == [s EXCEPT !.relay = TRUE]
MCSessions == {User1, Both1, Anon, Guest, Crowd, Staff, Backend}

Articles(args) == Field("article", "", args, Cols(<<"id", "pub">>))
Authors(args) == Field("author", "", args, Cols(<<"id", "name">>))
Where(e) == [where |-> <<e>>]
By(items) == [order_by |-> items]
Asc(n) == [n |-> n, sfx |-> "", dir |-> "asc"]
Desc(n) == [n |-> n, sfx |-> "", dir |-> "desc"]
Count(cols, distinct) ==
    Field("count", "", IF cols = <<>> THEN <<>> ELSE [columns |-> cols, distinct |-> distinct], <<>>)
Totals(t, args, aggs, nodes) ==
    Field(t, "aggregate", args, <<Rel("aggregate", aggs), Rel("nodes", nodes), Col("__typename")>>)
Everything == <<Col("id"), Col("owner"), Col("pub"), Rel("author", Cols(<<"id", "name", "karma">>)),
                Rel("peer", <<Col("name"), Rel("articles", Cols(<<"id", "owner">>))>>)>>

QueryRequests ==
    [all     |-> Ask(User1, Field("article", "", <<>>, Everything)),
     bothAll |-> Ask(Both1, Field("article", "", <<>>, Everything)),
     bothOwn |-> Ask(Both1, Field("author", "", <<>>, <<Col("karma"), Col("score"), Rel("articles", Everything),
                       Field("articles", "aggregate", <<>>, <<Rel("aggregate", <<Count(<<>>, FALSE)>>)>>)>>)),
     capped  |-> Ask(Anon, Articles(By(<<Asc("id")>>))),
     crowd   |-> Ask(Crowd, Articles([limit |-> 3, offset |-> 1])),
     logic   |-> Ask(User1, Articles([where |-> <<AnyOf(<<<<Is("owner", "_is_null", Lit(TRUE))>>,
                        <<[k |-> "_not", e |-> <<Via("author", <<Is("name", "_eq", Lit(1))>>)>>],
                          [k |-> "_and", es |-> <<<<Is("id", "_gt", Lit(1))>>, <<Is("id", "_lte", Lit(2))>>>>]>>>>)>>,
                        order_by |-> <<Desc("pub"), Asc("id")>>])),
     related |-> Ask(User1, Articles(Where(Via("author", <<Is("karma", "_gt", Lit(0))>>)))),
     members |-> Ask(User2, Articles([where |-> <<Is("id", "_in", Lit(<<1, 3>>)), Is("owner", "_nin", Lit(<<2>>))>>])),
     odd     |-> Ask(Anon, Articles(Where(Is("id", "_like", Lit(1))))),
     columns |-> Ask(Staff, Articles([where |-> <<Is("id", "_ceq", <<"owner">>),
                        Via("author", <<Is("karma", "_clt", <<"$", "id">>)>>)>>])),
     remote  |-> Ask(Staff, Articles([where |-> <<Is("id", "_cgte", <<"author", "karma">>),
                        [k |-> "_exists", t |-> "author", where |-> <<Is("karma", "_gt", Lit(1))>>]>>])),
     byRel   |-> Ask(User1, Articles([limit |-> 2, order_by |-> <<[n |-> "author", sfx |-> "",
                        by |-> <<[fn |-> None, c |-> "name", dir |-> "desc_nulls_last"]>>]>>])),
     byCount |-> Ask(Anon, Authors(By(<<[n |-> "articles", sfx |-> "aggregate",
                        by |-> <<[fn |-> "count", c |-> None, dir |-> "desc"], [fn |-> "max", c |-> "id", dir |-> "asc"]>>]>>))),
     totals  |-> Ask(User1, Totals("article", <<>>, <<Count(<<>>, FALSE), Rel("sum", <<Col("pub")>>),
                        Rel("max", Cols(<<"id", "owner">>))>>, Cols(<<"id">>))),
     guarded |-> Ask(Both1, Totals("author", <<>>, <<Rel("sum", Cols(<<"karma">>)), Rel("min", Cols(<<"name">>))>>,
                        Cols(<<"karma">>))),
     anonTot |-> Ask(Anon, Totals("article", [offset |-> 1], <<Count(<<>>, FALSE), Count(<<"pub">>, TRUE)>>, Cols(<<"id">>))),
     counts  |-> Ask(User1, Totals("article", [limit |-> 2], <<Count(<<>>, FALSE), Count(<<"owner">>, FALSE),
                        Count(<<"owner", "pub">>, TRUE)>>, Cols(<<"id">>))),
     owners  |-> Ask(User1, Articles([distinct_on |-> <<"owner">>])),
     owners2 |-> Ask(User1, Articles([distinct_on |-> <<"owner">>, order_by |-> <<Desc("owner"), Asc("pub")>>])),
     owners3 |-> Ask(User1, Articles([distinct_on |-> <<"owner">>, order_by |-> <<Asc("pub"), Desc("owner")>>])),
     byPk    |-> Ask(User1, Field("article", "by_pk", [id |-> 2], Cols(<<"id", "owner">>))),
     window  |-> Ask(User1, Articles([order_by |-> <<Desc("owner")>>, limit |-> 1, offset |-> 1])),
     frag    |-> Ask(User1, Field("article", "", <<>>, <<[k |-> "spread", frag |-> "f", dirs |-> <<>>],
                        [k |-> "inline", on |-> <<"author">>, sel |-> Cols(<<"name">>), dirs |-> <<>>],
                        [k |-> "inline", on |-> None, sel |-> Cols(<<"id">>), dirs |-> <<>>],
                        [Col("nothing") EXCEPT !.dirs = <<<<"skip", TRUE>>>>]>>)),
     search  |-> Ask(Anon, Field("search", "", [args |-> [min |-> 1], order_by |-> <<Desc("id")>>], Cols(<<"id">>))),
     found   |-> Ask(Crowd, Totals("search", <<>>, <<Count(<<>>, FALSE)>>, Cols(<<"pub">>))),
     works   |-> Ask(User1, Field("author", "", <<>>, <<Col("score"), Rel("works", Cols(<<"id", "owner">>))>>)),
     score   |-> Ask(Staff, Authors(Where(Is("score", "_gte", Lit(2))))),
     writers |-> Ask(Anon, Authors(Where(Via("works", <<Is("id", "_gt", Lit(1))>>)))),
     node    |-> Ask(Relay(User1), Field("node", "", [id |-> <<"article", <<2>>>>], <<Col("id"), Col("pub")>>)),
     noNode  |-> Ask(Relay(Guest), Field("node", "", [id |-> <<"author", <<1>>>>], Cols(<<"id">>))),
     conn    |-> Ask(Relay(Anon), Field("article", "connection", <<>>, Cols(<<"id", "pub">>))),
     page    |-> Ask(Relay(User1), Field("article", "connection", [first |-> 1, after |-> [id |-> 1]], Cols(<<"pub">>))),
     front   |-> Ask(Relay(Anon), Field("article", "connection", [first |-> 2], Cols(<<"id">>))),
     single  |-> Ask(Relay(Guest), Field("article", "connection", [first |-> 1, after |-> [id |-> 1]], Cols(<<"id">>))),
     back    |-> Ask(Relay(Crowd), Field("article", "connection", [last |-> 2], Cols(<<"pub">>))),
     nested  |-> Ask(Relay(Anon), Field("author", "", <<>>, <<Col("name"), Field("articles", "connection",
                        [last |-> 1], Cols(<<"id">>))>>)),
     named   |-> [Ask(User1, Col("__typename")) EXCEPT !.name = "b",
                    !.ops = <<Operation("a", TRUE, <<Col("no")>>), Operation("b", FALSE, <<Col("__typename")>>)>>]]

RefusedRequests ==
    [noName  |-> [Ask(User1, Col("__typename")) EXCEPT !.name = "c"],
     unnamed |-> [Ask(User1, Col("__typename")) EXCEPT !.ops = @ \o @],
     hidden  |-> Ask(Anon, Field("article", "", <<>>, Cols(<<"owner">>))),
     noFilter |-> Ask(Anon, Articles(Where(Is("owner", "_eq", Lit(1))))),
     sorted  |-> Ask(Anon, Authors(By(<<Asc("karma")>>))),
     noTable |-> Ask(Guest, Articles(Where(Via("author", <<Is("id", "_eq", Lit(1))>>)))),
     noVar   |-> Ask(Session("both", None), Articles(<<>>)),
     wrongOn |-> Ask(Anon, Field("author", "", <<>>, <<[k |-> "spread", frag |-> "f", dirs |-> <<>>]>>)),
     noAggr  |-> Ask(Guest, Totals("article", <<>>, <<Count(<<>>, FALSE)>>, Cols(<<"id">>))),
     noCall  |-> Ask(User1, Field("search", "", <<>>, Cols(<<"id">>))),
     preset  |-> Do(User1, <<Field("article", "insert_one", [object |-> Article(3, 2, 1)], Cols(<<"id">>))>>),
     masked  |-> Do(User1, <<Field("article", "update", [where |-> <<>>, _set |-> [owner |-> 2]], Cols(<<"affected_rows">>))>>),
     frontend |-> Do(Staff, <<Field("article", "insert_one", [object |-> Article(3, 2, 0)], Cols(<<"id">>))>>),
     noDelete |-> Do(Anon, <<Field("article", "delete", [where |-> <<>>], Cols(<<"affected_rows">>))>>)]

Result == <<Col("affected_rows"), Col("__typename"), Rel("returning", Everything)>>
Conflict(cols, where) == [update_columns |-> cols, where |-> where]
Put(id, pub) == [id |-> id, pub |-> pub]

MutationRequests ==
    [add     |-> Do(User1, <<Field("article", "insert", [objects |-> <<Put(3, 1), [id |-> 1]>>], Result)>>),
     addOne  |-> Do(Both1, <<Field("article", "insert_one", [object |-> Put(1, 0)], Everything)>>),
     draft   |-> Do(Guest, <<Field("article", "insert", [objects |-> <<Article(2, 2, 0), Article(3, 1, 1)>>],
                        Cols(<<"affected_rows">>))>>),
     draft2  |-> Do(Guest, <<Field("article", "insert", [objects |-> <<Article(2, 2, 0)>>], Cols(<<"affected_rows">>))>>),
     good    |-> Do(Backend, <<Field("article", "insert_one", [object |-> Article(3, 2, 0)], Cols(<<"id">>))>>),
     newGuy  |-> Do(Backend, <<Field("author", "insert_one", [object |-> Author(2, 0, 2)], Cols(<<"karma">>)),
                               Field("article", "insert_one", [object |-> Article(3, 2, 0)], Cols(<<"id">>))>>),
     upsert  |-> Do(User1, <<Field("article", "insert", [objects |-> <<Put(1, 1), Put(3, 1)>>,
                        on_conflict |-> Conflict(<<"pub">>, None)], Result)>>),
     mine    |-> Do(User2, <<Field("article", "insert_one", [object |-> Put(1, 1),
                        on_conflict |-> Conflict(<<"pub">>, <<Is("pub", "_eq", Lit(0))>>)], Cols(<<"id">>))>>),
     replace |-> Do(Backend, <<Field("article", "insert_one", [object |-> Article(2, 2, 0),
                        on_conflict |-> Conflict(<<"owner">>, None)], Everything)>>),
     ignore  |-> Do(User1, <<Field("article", "insert", [objects |-> <<Put(1, 1), Put(1, 0)>>,
                        on_conflict |-> Conflict(<<>>, None)], Result)>>),
     publish |-> Do(User1, <<Field("article", "update", [where |-> <<Is("pub", "_lt", Lit(1))>>, _set |-> [pub |-> 1]], Result)>>),
     bump    |-> Do(User2, <<Field("article", "update_by_pk", [pk_columns |-> [id |-> 2], _inc |-> [pub |-> 1]], Cols(<<"pub">>))>>),
     assign  |-> Do(Staff, <<Field("article", "update", [where |-> <<Is("id", "_eq", Lit(2))>>, _set |-> [owner |-> 2]], Result)>>),
     drop    |-> Do(User2, <<Field("article", "delete", [where |-> <<Is("id", "_gt", Lit(1))>>], Result)>>),
     dropOne |-> Do(Both1, <<Field("article", "delete_by_pk", [id |-> 1], Cols(<<"id", "owner">>))>>),
     touch   |-> Do(User1, <<Field("touch", "", <<>>, Cols(<<"id">>)), Col("__typename")>>),
     undo    |-> Do(User1, <<Field("article", "delete", [where |-> <<>>], Result),
                             Field("article", "insert_one", [object |-> Put(2, 1)], Cols(<<"id">>))>>)]

MCRequests == QueryRequests @@ RefusedRequests @@ MutationRequests

\* A client's filter on a related row that compares it with a column of ours.
RelatedRequests ==
    [same |-> Ask(User1, Authors(Where(Is("id", "_ceq", <<"articles", "owner">>)))),
     best |-> Ask(User1, Articles(Where(Is("pub", "_clt", <<"author", "karma">>))))]

\* Writes that bring rows into, or take rows out of, what a walk is after.
MCWriters == {"add", "draft2", "publish", "bump", "drop", "dropOne"}

MCWalks ==
    [forward  |-> [s |-> Relay(User1), t |-> "article", filter |-> <<>>, size |-> 1, back |-> FALSE],
     backward |-> [s |-> Relay(Both1), t |-> "article", filter |-> Published, size |-> 1, back |-> TRUE]]

----------------------------------------------------------------------------
\* What the filters above mean.
MCRowFilter(p, t, r, s, d) ==
    CASE p = "user" /\ t = "author" -> r.id = s.vars.uid
      [] p = "user" /\ t = "article" -> r.owner = s.vars.uid \/ r.pub = 1
      [] p \in {"anon", "guest"} /\ t = "article" -> r.pub = 1
      [] p = "staff" /\ t = "article" -> \E a \in d["author"] : a.id = r.owner /\ a.karma # Null /\ a.karma > 0
      [] OTHER -> TRUE

MCMeans(q, r, d) ==
    CASE q = "logic" -> r.owner = Null \/ (r.owner # 1 /\ r.id = 2)
      [] q = "related" -> r.owner = 1
      [] q = "members" -> r.id \in {1, 3} /\ r.owner \in {1}
      [] q = "odd" -> r.id \in {1, 3}
      [] q = "columns" -> r.id = r.owner /\ \E a \in d["author"] : a.id = r.owner /\ a.karma < r.id
      [] q = "remote" -> Author(2, 0, 2) \in d["author"] /\
                         \E a \in d["author"] : a.id = r.owner /\ r.id >= a.karma
      [] q = "byPk" -> r.id = 2
      [] q = "score" -> r.karma = 2
      [] q = "writers" -> \E x \in d["article"] : x.owner = r.id /\ x.id > 1 /\ x.pub = 1
      [] q \in {"page", "single"} -> r.id > 1
      [] q = "backward" -> r.pub = 1
      [] OTHER -> TRUE

\* Ascending; nulls are first in a descending order and last in an ascending one.
MCRank(q, r, d) ==
    LET mine == {x \in d["article"] : x.owner = r.id /\ x.pub = 1}
    IN CASE q = "logic" -> (1 - r.pub) * 4 + r.id
         [] q = "byRel" -> IF r.owner = 1 THEN 0 ELSE 1
         [] q = "byCount" -> (3 - Cardinality(mine)) * 4 + (IF mine = {} THEN 0 ELSE Max({x.id : x \in mine}))
         [] q = "window" -> IF r.owner = Null THEN 0 ELSE 3 - r.owner
         [] q \in {"capped", "conn", "page", "front", "single", "back"} -> r.id
         [] OTHER -> 0

MCJoins == [author |-> [articles |-> [t |-> "article", join |-> <<"id", "owner">>]],
            article |-> [author |-> [t |-> "author", join |-> <<"owner", "id">>],
                         peer |-> [t |-> "author", join |-> <<"id", "id">>]]]
MCOwnRowRoles == MCRoleNames \ {"staff"}
MCFilterColumns == [author |-> {"id"}, article |-> {"id", "owner", "pub"}]

Acts(s) == IF s.role = "both" THEN "user" ELSE s.role
MCMayInsert(s, t, r, d) ==
    CASE Acts(s) = "user" -> t = "article" /\ r.owner = s.vars.uid
      [] s.role = "guest" -> t = "article" /\ r.pub = 0
      [] s.role = "staff" -> t = "author" \/ (s.backend /\ MCRowFilter("staff", t, r, s, d))
      [] OTHER -> FALSE
MCMayUpdate(s, t, old, new, d) ==
    CASE Acts(s) = "user" -> t = "article" /\ old.owner = s.vars.uid /\ new = [old EXCEPT !.pub = new.pub]
      [] s.role = "staff" -> t = "article" /\ old.pub = 0 /\ new = [old EXCEPT !.owner = new.owner, !.pub = 1]
      [] OTHER -> FALSE
MCMayDelete(s, t, old, d) == Acts(s) = "user" /\ t = "article" /\ old.owner = s.vars.uid

\* What SelectSeq returns, as the proofs about guards take it.
ASSUME SelectSeqSelects ==
    \A by \in UNION {[1 .. n -> 1 .. 3] : n \in 0 .. 3}, grants \in SUBSET (1 .. 3) :
        Selects(SelectSeq(by, LAMBDA r : r \in grants), by, grants)
=============================================================================
