-------------------------------- MODULE Walk --------------------------------
(***************************************************************************)
(* What a Relay connection promises a client that pages through it         *)
(* (crates/schema/src/plan.rs, connection arguments and cursors, and       *)
(* crates/sqlgen/src/lib.rs, connection_expr): a page holds the next rows  *)
(* in key order after those that were shown, as the database is at that    *)
(* moment, filled up to the page size unless the rows run out, and says    *)
(* rightly whether they did.  Rows come and go between pages.  How a page  *)
(* is planned and read is left open here: Data implements this module.     *)
(*                                                                         *)
(* A key is its place in the direction of the walk.                        *)
(***************************************************************************)
EXTENDS Integers, FiniteSets

VARIABLES size,    \* the page size of the walk, 0: there is no walk
          rows,    \* the keys of the rows it is after, now
          always,  \* those that have been there since it began
          shown,   \* the keys on the pages so far
          done     \* the last page said that there are no more

vars == <<size, rows, always, shown, done>>

Init == size = 0 /\ rows = {} /\ always = {} /\ shown = {} /\ done = FALSE

Begin ==
    /\ size = 0
    /\ size' \in Nat \ {0}
    /\ rows' \in SUBSET Int
    /\ always' = rows'
    /\ UNCHANGED <<shown, done>>

\* Others insert, change and delete.
Write ==
    /\ size # 0
    /\ UNCHANGED <<size, shown, done>>
    /\ rows' \in SUBSET Int
    /\ always' = always \cap rows'

Ahead == {k \in rows : \A s \in shown : s < k}

Page ==
    /\ size # 0
    /\ ~done
    /\ LET ahead == Ahead
       IN \E page \in SUBSET ahead :
             /\ shown' = shown \cup page
             /\ done' = (page = ahead)
             /\ \A k \in page, q \in ahead \ page : k < q
             /\ IsFiniteSet(page)
             /\ Cardinality(page) <= size
             /\ page # ahead => Cardinality(page) = size
    /\ UNCHANGED <<size, rows, always>>

End ==
    /\ done
    /\ size' = 0 /\ rows' = {} /\ always' = {} /\ shown' = {} /\ done' = FALSE

Next == Begin \/ Write \/ Page \/ End

Spec == Init /\ [][Next]_vars

----------------------------------------------------------------------------
\* A walk that is done has shown every row that was there all the while.
Complete == done => always \subseteq shown
=============================================================================
