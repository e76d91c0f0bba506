------------------------------- MODULE Paging --------------------------------
(***************************************************************************)
(* The windows that crates/sqlgen/src/lib.rs cuts out of a list of rows:   *)
(* LIMIT and OFFSET, and the page of a connection, which reads one row     *)
(* more than it shows.                                                     *)
(***************************************************************************)
EXTENDS RowFilters

\* OFFSET and LIMIT.
Window(q, rows) ==
    LET from == IF q.offset = None THEN 1 ELSE q.offset + 1
        to == IF q.limit = None THEN Len(rows) ELSE Min({Len(rows), from + q.limit - 1})
    IN SubSeq(rows, from, to)

FirstRows(n, rows) == IF n = None THEN rows ELSE SubSeq(rows, 1, Min({n, Len(rows)}))

\* Mutant: no row more than the page is read.
PageLimitExact(page, limit) == IF page = None THEN limit ELSE page.size

\* A page replaces the query's own limit by its size and one row more.
PageLimit(page, limit) == IF page = None THEN limit ELSE page.size + 1

\* The rows that a page shows of those that were read, and whether there are
\* more in its direction.
PageRows(page, raw) == FirstRows(IF page = None THEN None ELSE page.size, raw)
PageHasMore(page, raw) == page # None /\ Len(raw) > page.size
==============================================================================
