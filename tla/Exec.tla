-------------------------------- MODULE Exec --------------------------------
(***************************************************************************)
(* Concurrent GraphQL requests (crates/server/src/gql.rs execute_full):    *)
(* routing to a remote schema, to an action or to SQL, the allowlist gate, *)
(* the connection pool, one statement per query, one transaction per       *)
(* mutation, and remote joins, which call out while a connection is held.  *)
(*                                                                         *)
(* PostgreSQL and deadpool are external: a statement reads a snapshot of   *)
(* what is committed, a mutation field locks the row it writes until its   *)
(* transaction ends, a cycle of lock waits is broken by failing a victim,  *)
(* and pool.get() waits, without a timeout, for a free connection.         *)
(***************************************************************************)
EXTENDS Integers, Sequences, FiniteSets

CONSTANTS Reqs,       \* requests
          Workloads,  \* what the requests may be: functions from Reqs to Shapes
          Rows,       \* rows that mutation fields write
          PoolSize,   \* connections in the default pool
          Allowlist,  \* allowlist_enabled
          Faults      \* bound: failures of the database, the remotes, the clients

\* kind: where the document's top-level fields belong ("invalid": the parser,
\* the remote's SDL or the planner refuses it); fields: the rows that a
\* mutation's fields write, in order; steps: what an action document does, in
\* order: call the handler of a field, refuse a field the role has no
\* permission for, select an output relationship; joins: a select has a remote
\* join; listed: on the allowlist.
Shapes == [kind : {"remote", "action", "introspection", "query", "mutation", "invalid"},
           fields : Seq(Rows), steps : Seq({"call", "denied", "select"}),
           joins : BOOLEAN, listed : BOOLEAN]

NoReq == "none"

ASSUME ExecAssumption ==
    /\ NoReq \notin Reqs
    /\ Workloads \subseteq [Reqs -> Shapes]
    /\ \A w \in Workloads, r \in Reqs : w[r].kind = "action" => w[r].steps # <<>>
    /\ PoolSize \in Nat \ {0}
    /\ Allowlist \in BOOLEAN
    /\ Faults \in Nat

VARIABLES shape,    \* what each request is
          pc,       \* where each request is in execute_full
          done,     \* fields of its mutation, or steps of its action, done so far
          lock,     \* row -> the request whose transaction locked it
          applied,  \* effects committed: <<request, field index>>
          seen,     \* the effects a request's statement read
          answer,   \* what the client is told: "none", "data", "error"
          out,      \* calls of a remote schema or an action handler: <<request, step>>
          faults    \* failures so far

vars == <<shape, pc, done, lock, applied, seen, answer, out, faults>>

Effects(r) == {r} \X DOMAIN shape[r].fields

\* States in which a request holds a pooled connection.
Holding == {"run", "joining", "commit"}
Holders == {r \in Reqs : pc[r] \in Holding}
Ended(r) == pc[r] = "end"

Init ==
    /\ shape \in Workloads
    /\ pc = [r \in Reqs |-> "new"]
    /\ done = [r \in Reqs |-> 0]
    /\ lock = [w \in Rows |-> NoReq]
    /\ applied = {}
    /\ seen = [r \in Reqs |-> {}]
    /\ answer = [r \in Reqs |-> "none"]
    /\ out = {}
    /\ faults = 0

----------------------------------------------------------------------------
\* Mutant: an early return leaves the transaction open.
FinishOnly(r, a) ==
    /\ pc' = [pc EXCEPT ![r] = "end"]
    /\ answer' = [answer EXCEPT ![r] = a]
    /\ lock' = lock

\* The request ends: its connection goes back to the pool, and an open
\* transaction is rolled back or has been committed, so its locks are gone.
Finish(r, a) ==
    /\ pc' = [pc EXCEPT ![r] = "end"]
    /\ answer' = [answer EXCEPT ![r] = a]
    /\ lock' = [w \in Rows |-> IF lock[w] = r THEN NoReq ELSE lock[w]]

Goto(r, place) ==
    /\ pc' = [pc EXCEPT ![r] = place]
    /\ UNCHANGED <<answer, lock>>

Fault ==
    /\ faults < Faults
    /\ faults' = faults + 1

\* Parsing, remote routing, action routing, the allowlist gate, introspection
\* and planning happen in this order, under one read of the engine: a document
\* for a remote schema or an action never comes to the gate.
Route(r) ==
    /\ pc[r] = "new"
    /\ LET s == shape[r]
       IN CASE s.kind = "remote" -> Goto(r, "forward") /\ out' = out \cup {<<r, 1>>}
            [] s.kind = "action" -> Goto(r, "acting") /\ UNCHANGED out
            [] s.kind \notin {"remote", "action"} ->
                 /\ UNCHANGED out
                 /\ \/ Allowlist /\ ~s.listed /\ Finish(r, "error")
                    \/ /\ ~Allowlist \/ s.listed
                       /\ CASE s.kind = "introspection" -> Finish(r, "data")
                            [] s.kind = "invalid" -> Finish(r, "error")
                            [] s.kind \in {"query", "mutation"} -> Goto(r, "wait")
    /\ UNCHANGED <<done, applied, seen, faults>>

\* remote::forward returns.
Forwarded(r) ==
    /\ pc[r] = "forward"
    /\ Finish(r, "data")
    /\ UNCHANGED <<done, applied, seen, out, faults>>

\* Mutant: a field without permission is left out of the answer.
SkipDenied(r) ==
    /\ pc[r] = "acting"
    /\ LET step == shape[r].steps[done[r] + 1]
       IN \/ step = "call" /\ Goto(r, "webhook") /\ out' = out \cup {<<r, done[r] + 1>>}
          \/ step = "select" /\ Goto(r, "wait") /\ UNCHANGED out
          \/ step = "denied" /\ Finish(r, "data") /\ UNCHANGED out
    /\ UNCHANGED <<done, applied, seen, faults>>

\* action::resolve takes the next step: it looks at a field's permission only
\* when the fields before it have been resolved.
Act(r) ==
    /\ pc[r] = "acting"
    /\ LET step == shape[r].steps[done[r] + 1]
       IN \/ step = "call" /\ Goto(r, "webhook") /\ out' = out \cup {<<r, done[r] + 1>>}
          \/ step = "select" /\ Goto(r, "wait") /\ UNCHANGED out
          \/ step = "denied" /\ Finish(r, "error") /\ UNCHANGED out
    /\ UNCHANGED <<done, applied, seen, faults>>

\* A step of an action is over.
Proceed(r) ==
    /\ done' = [done EXCEPT ![r] = @ + 1]
    /\ IF done[r] + 1 = Len(shape[r].steps) THEN Finish(r, "data") ELSE Goto(r, "acting")

\* The action's handler answers.
HandlerAnswers(r) ==
    /\ pc[r] = "webhook"
    /\ Proceed(r)
    /\ UNCHANGED <<applied, seen, out, faults>>

\* pool.get().
GetConnection(r) ==
    /\ pc[r] = "wait"
    /\ Cardinality(Holders) < PoolSize
    /\ Goto(r, "run")
    /\ UNCHANGED <<done, applied, seen, out, faults>>

\* A select is done: the answer of a query, a step of an action.  The
\* connection goes back either way.
Selected(r) ==
    IF shape[r].kind = "action" THEN Proceed(r) ELSE Finish(r, "data") /\ UNCHANGED done

\* A query, and each select of an action, is one SQL statement; the
\* connection is kept for its remote joins.
RunQuery(r) ==
    /\ pc[r] = "run"
    /\ shape[r].kind # "mutation"
    /\ seen' = [seen EXCEPT ![r] = applied]
    /\ IF shape[r].joins THEN Goto(r, "joining") /\ UNCHANGED done ELSE Selected(r)
    /\ UNCHANGED <<applied, out, faults>>

\* resolve_remote_joins returns.
Joined(r) ==
    /\ pc[r] = "joining"
    /\ Selected(r)
    /\ UNCHANGED <<applied, seen, out, faults>>

\* The remote, the handler, the pool, the statement or the join fails: the
\* early return drops the connection and, in a mutation, the transaction.
Fails(r) ==
    /\ pc[r] \in {"forward", "webhook", "wait", "run", "joining"}
    /\ Fault
    /\ Finish(r, "error")
    /\ UNCHANGED <<done, applied, seen, out>>

NextRow(r) == shape[r].fields[done[r] + 1]
Running(r) == pc[r] = "run" /\ shape[r].kind = "mutation" /\ done[r] < Len(shape[r].fields)

\* Mutant: every field commits on its own.
AutoCommitField(r) ==
    /\ Running(r)
    /\ lock[NextRow(r)] \in {r, NoReq}
    /\ applied' = applied \cup {<<r, done[r] + 1>>}
    /\ done' = [done EXCEPT ![r] = @ + 1]
    /\ UNCHANGED <<pc, lock, seen, answer, out, faults>>

\* tx.query_one of the next field, inside the transaction.
ExecField(r) ==
    /\ Running(r)
    /\ lock[NextRow(r)] \in {r, NoReq}
    /\ lock' = [lock EXCEPT ![NextRow(r)] = r]
    /\ done' = [done EXCEPT ![r] = @ + 1]
    /\ UNCHANGED <<pc, applied, seen, answer, out, faults>>

\* Who waits for whom in the database.
WaitsFor == {e \in Reqs \X Reqs :
                Running(e[1]) /\ lock[NextRow(e[1])] = e[2] /\ e[1] # e[2]}
Cyclic(r) == \E D \in SUBSET Reqs :
                 /\ r \in D
                 /\ \A x \in D : \E y \in D : <<x, y>> \in WaitsFor
                 /\ \A y \in D : \E x \in D : <<x, y>> \in WaitsFor

\* The database's deadlock detector fails a statement of the cycle.
DeadlockVictim(r) ==
    /\ Cyclic(r)
    /\ Finish(r, "error")
    /\ UNCHANGED <<done, applied, seen, out, faults>>

\* After the last field, COMMIT is sent.
SendCommit(r) ==
    /\ pc[r] = "run"
    /\ shape[r].kind = "mutation"
    /\ done[r] = Len(shape[r].fields)
    /\ Goto(r, "commit")
    /\ UNCHANGED <<done, applied, seen, out, faults>>

\* tx.commit() returns.
Commit(r) ==
    /\ pc[r] = "commit"
    /\ Finish(r, "data")
    /\ applied' = applied \cup Effects(r)
    /\ UNCHANGED <<done, seen, out, faults>>

\* An error of tx.commit() leaves open whether the database committed.
CommitFails(r) ==
    /\ pc[r] = "commit"
    /\ Fault
    /\ Finish(r, "error")
    /\ applied' \in {applied, applied \cup Effects(r)}
    /\ UNCHANGED <<done, seen, out>>

\* The client goes away and the handler's future is dropped where it waits.
Dropped(r) ==
    /\ pc[r] \notin {"new", "acting", "end"}
    /\ Fault
    /\ Finish(r, "none")
    /\ \/ UNCHANGED applied
       \/ pc[r] = "commit" /\ applied' = applied \cup Effects(r)
    /\ UNCHANGED <<done, seen, out>>

----------------------------------------------------------------------------
Step(r) ==
    \/ Forwarded(r) \/ Act(r) \/ HandlerAnswers(r) \/ GetConnection(r) \/ RunQuery(r) \/ Joined(r)
    \/ ExecField(r) \/ DeadlockVictim(r) \/ SendCommit(r) \/ Commit(r)

Next ==
    /\ \E r \in Reqs : Route(r) \/ Step(r) \/ Fails(r) \/ CommitFails(r) \/ Dropped(r)
    /\ UNCHANGED shape

Spec == Init /\ [][Next]_vars

\* Every request that is not blocked goes on, and the pool and the row locks
\* are not kept from a waiting request for ever (deadpool queues its waiters,
\* PostgreSQL its lock waiters).
FairSpec == Spec /\ \A r \in Reqs : SF_vars(Step(r) /\ UNCHANGED shape)

----------------------------------------------------------------------------
Mutation(r) == shape[r].kind = "mutation"

\* All the fields of a mutation take effect or none does, whatever fails and
\* whenever: a field, a lock wait, the pool, the commit, or the client.
AtomicMutation ==
    \A r \in Reqs : Mutation(r) =>
        /\ applied \cap Effects(r) \in {{}, Effects(r)}
        /\ answer[r] = "data" => Effects(r) \subseteq applied

\* A query's answer is computed from whole mutations: it never shows one
\* field of a concurrent mutation without the others.
QuerySeesWholeMutations ==
    \A r, m \in Reqs : seen[r] \cap Effects(m) \in {{}, Effects(m)}

\* An action document is answered with data only when every handler it names
\* was called and no field was refused, and after a refused field no further
\* handler is called.
ActionAnswerIsWhole ==
    \A r \in Reqs : shape[r].kind = "action" =>
        LET calls == {i \in DOMAIN shape[r].steps : shape[r].steps[i] = "call"}
            refused == {i \in DOMAIN shape[r].steps : shape[r].steps[i] = "denied"}
        IN /\ answer[r] = "data" => refused = {} /\ \A i \in calls : <<r, i>> \in out
           /\ \A i \in refused, j \in calls : i < j => <<r, j>> \notin out

\* No path out of execute_full keeps a connection or a row lock: connections
\* in use never exceed the pool, and an ended request holds nothing.
NothingLeaks ==
    /\ Cardinality(Holders) <= PoolSize
    /\ \A w \in Rows : lock[w] # NoReq => lock[w] \in Holders

\* What each disjunct of Step waits for.
Ready(r) ==
    \/ pc[r] \in {"forward", "webhook", "joining", "commit"}
    \/ pc[r] = "acting" /\ done[r] < Len(shape[r].steps)
    \/ pc[r] = "wait" /\ Cardinality(Holders) < PoolSize
    \/ pc[r] = "run" /\ shape[r].kind # "mutation"
    \/ pc[r] = "run" /\ shape[r].kind = "mutation" /\ done[r] = Len(shape[r].fields)
    \/ Running(r) /\ lock[NextRow(r)] \in {r, NoReq}
    \/ Cyclic(r)

Routed == {r \in Reqs : pc[r] \notin {"new", "end"}}

\* The requests that are under way never all wait for one another: a full pool
\* has a connection whose request can go on, and requests that wait for row
\* locks only lead to one that does not, or to a cycle that the database breaks.
NoStandstill == Routed # {} => \E r \in Routed : Ready(r)

\* Every request that was routed is answered or dropped, with any number of
\* requests competing for a pool of any size: waiting for the pool, for row
\* locks in opposite orders and for remotes never adds up to a standstill.
EveryRequestEnds == \A r \in Reqs : pc[r] # "new" ~> Ended(r)
=============================================================================
