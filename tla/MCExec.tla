------------------------------- MODULE MCExec -------------------------------
(* Constant values for model-checking Exec.                                *)
EXTENDS Exec, TLC

CONSTANTS q1, m1, m2, a1, x, y

Empty(kind, listed) ==
    [kind |-> kind, fields |-> <<>>, steps |-> <<>>, joins |-> FALSE, listed |-> listed]
Query(joins, listed) == [Empty("query", listed) EXCEPT !.joins = joins]
Mutate(rows, listed) == [Empty("mutation", listed) EXCEPT !.fields = rows]
Action(steps, joins, listed) ==
    [Empty("action", listed) EXCEPT !.steps = steps, !.joins = joins]

\* Two mutations that write the same rows in opposite orders, a query with a
\* remote join, and an action with an output relationship.
Contention == m1 :> Mutate(<<x, y>>, TRUE) @@ m2 :> Mutate(<<y, x>>, TRUE)
              @@ q1 :> Query(TRUE, TRUE) @@ a1 :> Action(<<"call", "select">>, TRUE, TRUE)

\* The other kinds of requests, some of them off the allowlist (which a
\* document for a remote or an action never comes to), and an action
\* document whose third field is refused.
Routing == m1 :> Mutate(<<x>>, FALSE) @@ m2 :> Empty("invalid", TRUE)
           @@ q1 :> Empty("remote", FALSE)
           @@ a1 :> Action(<<"call", "select", "denied", "call">>, FALSE, TRUE)
Reading == m1 :> Query(FALSE, FALSE) @@ m2 :> Mutate(<<x>>, TRUE)
           @@ q1 :> Empty("introspection", TRUE) @@ a1 :> Action(<<"select", "call">>, FALSE, FALSE)

Mixed == {Contention, Routing, Reading}
=============================================================================
