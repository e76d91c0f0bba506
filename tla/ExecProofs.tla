----------------------------- MODULE ExecProofs -----------------------------
(***************************************************************************)
(* Proofs about Exec: for any requests, rows, pool size and number of      *)
(* failures, mutations are atomic, queries see whole mutations, no path    *)
(* out of execute_full keeps a connection or a row lock, the requests      *)
(* under way never all wait for one another, and every step brings one of  *)
(* them nearer to its end.                                                 *)
(***************************************************************************)
EXTENDS Exec, TLAPS, FiniteSetTheorems, WellFoundedInduction

Places == {"new", "forward", "acting", "webhook", "wait", "run", "joining", "commit", "end"}
Answers == {"none", "data", "error"}

\* Where a mutation can be, and where only a mutation can be.
KindInv ==
    \A r \in Reqs :
        /\ pc[r] \in {"forward", "acting", "webhook", "joining"} => ~Mutation(r)
        /\ pc[r] = "commit" => Mutation(r)

\* What is committed, and what any statement has read, is made of whole
\* mutations.
Whole(S) == \A m \in Reqs : S \cap Effects(m) \in {{}, Effects(m)}
WholeInv == Whole(applied) /\ \A r \in Reqs : Whole(seen[r])

\* A mutation that was answered with data has taken effect.
AnsweredInv == \A r \in Reqs : Mutation(r) /\ answer[r] = "data" => Effects(r) \subseteq applied

\* Row locks belong to mutations that hold a connection.
LockInv == \A w \in Rows : lock[w] # NoReq => lock[w] \in Holders /\ Mutation(lock[w])

PoolInv == IsFiniteSet(Holders) /\ Cardinality(Holders) <= PoolSize

\* The parts of the state that the steps below change together.
Core ==
    /\ shape \in Workloads
    /\ pc \in [Reqs -> Places]
    /\ lock \in [Rows -> Reqs \cup {NoReq}]
    /\ applied \subseteq UNION {Effects(r) : r \in Reqs}
    /\ seen \in [Reqs -> SUBSET UNION {Effects(r) : r \in Reqs}]
    /\ answer \in [Reqs -> Answers]

CoreInv == Core /\ KindInv /\ WholeInv /\ AnsweredInv /\ LockInv /\ PoolInv

\* A step reads for one request, or for none.
Reads(r) == seen' \in {seen, [seen EXCEPT ![r] = applied]}

----------------------------------------------------------------------------
\* The effects of different requests are different.
LEMMA EffectsDisjoint ==
    ASSUME NEW r \in Reqs, NEW m \in Reqs, r # m
    PROVE  Effects(r) \cap Effects(m) = {}
BY DEF Effects

\* Giving up, or taking while one is free, a connection.
LEMMA PoolStep ==
    ASSUME PoolInv, NEW r \in Reqs,
           \/ Holders' \subseteq Holders
           \/ Holders' \subseteq Holders \cup {r} /\ Cardinality(Holders) < PoolSize
    PROVE  PoolInv'
<1>0. PoolSize \in Nat /\ Cardinality(Holders) \in Nat
  BY ExecAssumption, FS_CardinalityType DEF PoolInv
<1>1. CASE Holders' \subseteq Holders
  <2>1. IsFiniteSet(Holders') /\ Cardinality(Holders') <= Cardinality(Holders)
    BY <1>1, FS_Subset DEF PoolInv
  <2>2. Cardinality(Holders') \in Nat
    BY <2>1, FS_CardinalityType
  <2> QED
    BY <2>1, <2>2, <1>0 DEF PoolInv
<1>2. CASE Holders' \subseteq Holders \cup {r} /\ Cardinality(Holders) < PoolSize
  <2>1. /\ IsFiniteSet(Holders \cup {r})
        /\ \/ Cardinality(Holders \cup {r}) = Cardinality(Holders)
           \/ Cardinality(Holders \cup {r}) = Cardinality(Holders) + 1
    BY FS_AddElement DEF PoolInv
  <2>2. IsFiniteSet(Holders') /\ Cardinality(Holders') <= Cardinality(Holders \cup {r})
    BY <1>2, <2>1, FS_Subset
  <2>3. Cardinality(Holders') \in Nat
    BY <2>2, FS_CardinalityType
  <2> QED
    BY <1>0, <1>2, <2>1, <2>2, <2>3 DEF PoolInv
<1> QED
  BY <1>1, <1>2

\* Reading keeps whole what was whole.
LEMMA ReadsKeep ==
    ASSUME CoreInv, NEW r \in Reqs, Reads(r), UNCHANGED <<shape, applied>>
    PROVE  /\ seen' \in [Reqs -> SUBSET UNION {Effects(q) : q \in Reqs}]
           /\ WholeInv'
<1>1. \A q \in Reqs : seen'[q] \in {seen[q], applied}
  BY DEF CoreInv, Core, Reads
<1>2. \A q \in Reqs : Effects(q)' = Effects(q)
  BY DEF Effects
<1>3. \A q \in Reqs : Whole(seen'[q]) /\ Whole(applied)
  BY <1>1 DEF CoreInv, WholeInv
<1>4. WholeInv'
  BY <1>2, <1>3 DEF WholeInv, Whole
<1>5. seen' \in [Reqs -> SUBSET UNION {Effects(q) : q \in Reqs}]
  BY DEF CoreInv, Core, Reads
<1> QED
  BY <1>4, <1>5

\* A request goes to another place, keeping its locks.
LEMMA GotoKeeps ==
    ASSUME CoreInv, NEW r \in Reqs, NEW p \in Places, Goto(r, p), Reads(r),
           UNCHANGED <<shape, applied>>,
           p \in {"forward", "acting", "webhook", "joining"} => ~Mutation(r),
           p = "commit" => Mutation(r),
           \/ pc[r] \in Holding
           \/ p \notin Holding
           \/ Cardinality(Holders) < PoolSize,
           pc[r] \in Holding /\ p \notin Holding => ~Mutation(r)
    PROVE  CoreInv'
<1>0. /\ pc' = [pc EXCEPT ![r] = p] /\ pc \in [Reqs -> Places]
      /\ answer' = answer /\ lock' = lock /\ shape' = shape /\ applied' = applied
  BY DEF Goto, CoreInv, Core
<1>1. pc' \in [Reqs -> Places] /\ pc'[r] = p /\ \A q \in Reqs : q # r => pc'[q] = pc[q]
  BY <1>0
<1>2. \A q \in Reqs : Mutation(q)' = Mutation(q) /\ Effects(q)' = Effects(q)
  BY <1>0 DEF Mutation, Effects
<1>3. seen' \in [Reqs -> SUBSET UNION {Effects(q) : q \in Reqs}] /\ WholeInv'
  BY ReadsKeep
<1>4. Core'
  BY <1>0, <1>1, <1>3 DEF Core, CoreInv, Effects
<1>5. KindInv'
  BY <1>1, <1>2 DEF KindInv, CoreInv
<1>6. AnsweredInv'
  BY <1>0, <1>2 DEF AnsweredInv, CoreInv
<1>7. \A q \in Reqs : q # r => (q \in Holders' <=> q \in Holders)
  BY <1>1 DEF Holders
<1>8. LockInv'
  <2> SUFFICES ASSUME NEW w \in Rows, NEW h \in Reqs, lock[w] = h
               PROVE  h \in Holders' /\ Mutation(h)'
    BY <1>0 DEF LockInv, CoreInv, Core, Mutation
  <2>1. h \in Holders /\ Mutation(h)
    BY ExecAssumption DEF CoreInv, LockInv
  <2>2. h = r => p \in Holding
    BY <2>1 DEF Holders
  <2> QED
    BY <1>1, <1>2, <1>7, <2>1, <2>2 DEF Holders
<1>9. PoolInv'
  <2>1. Holders' \subseteq Holders \cup {r}
    BY <1>7 DEF Holders
  <2>2. (pc[r] \in Holding \/ p \notin Holding) => Holders' \subseteq Holders
    BY <1>1, <1>7 DEF Holders
  <2> QED
    BY <2>1, <2>2, PoolStep DEF CoreInv
<1> QED
  BY <1>3, <1>4, <1>5, <1>6, <1>8, <1>9 DEF CoreInv

\* A request ends: it holds nothing afterwards.
LEMMA FinishGivesBack ==
    ASSUME CoreInv, NEW r \in Reqs, NEW a \in Answers, Finish(r, a), UNCHANGED shape
    PROVE  /\ pc' \in [Reqs -> Places] /\ answer' \in [Reqs -> Answers]
           /\ lock' \in [Rows -> Reqs \cup {NoReq}]
           /\ \A q \in Reqs : q # r => answer'[q] = answer[q]
           /\ answer'[r] = a
           /\ KindInv' /\ LockInv' /\ PoolInv'
<1>0. /\ pc' = [pc EXCEPT ![r] = "end"] /\ pc \in [Reqs -> Places]
      /\ answer' = [answer EXCEPT ![r] = a] /\ answer \in [Reqs -> Answers]
      /\ lock' = [w \in Rows |-> IF lock[w] = r THEN NoReq ELSE lock[w]]
      /\ lock \in [Rows -> Reqs \cup {NoReq}]
  BY DEF Finish, CoreInv, Core
<1>1. /\ pc' \in [Reqs -> Places] /\ answer' \in [Reqs -> Answers]
      /\ lock' \in [Rows -> Reqs \cup {NoReq}]
      /\ \A q \in Reqs : q # r => answer'[q] = answer[q] /\ pc'[q] = pc[q]
      /\ answer'[r] = a /\ pc'[r] = "end"
  BY <1>0 DEF Places
<1>2. \A q \in Reqs : Mutation(q)' = Mutation(q)
  BY DEF Mutation
<1>3. KindInv'
  BY <1>1, <1>2 DEF KindInv, CoreInv
<1>4. Holders' = Holders \ {r}
  BY <1>1 DEF Holders, Holding
<1>5. LockInv'
  <2> SUFFICES ASSUME NEW w \in Rows, NEW h \in Reqs, lock'[w] = h
               PROVE  h \in Holders' /\ Mutation(h)'
    BY <1>1 DEF LockInv, Mutation
  <2>1. lock[w] = h /\ h # r
    BY <1>0, ExecAssumption
  <2>2. h \in Holders /\ Mutation(h)
    BY <2>1, ExecAssumption DEF CoreInv, LockInv
  <2> QED
    BY <1>2, <1>4, <2>1, <2>2
<1>6. PoolInv'
  BY <1>4, PoolStep DEF CoreInv
<1> QED
  BY <1>1, <1>3, <1>5, <1>6

\* A request ends without committing; a mutation is not told "data".
LEMMA FinishKeeps ==
    ASSUME CoreInv, NEW r \in Reqs, NEW a \in Answers, Finish(r, a), Reads(r),
           UNCHANGED <<shape, applied>>, a = "data" => ~Mutation(r)
    PROVE  CoreInv'
<1>1. /\ pc' \in [Reqs -> Places] /\ answer' \in [Reqs -> Answers]
      /\ lock' \in [Rows -> Reqs \cup {NoReq}]
      /\ \A q \in Reqs : q # r => answer'[q] = answer[q]
      /\ answer'[r] = a
      /\ KindInv' /\ LockInv' /\ PoolInv'
  BY FinishGivesBack
<1>2. seen' \in [Reqs -> SUBSET UNION {Effects(q) : q \in Reqs}] /\ WholeInv'
  BY ReadsKeep
<1>3. Core'
  BY <1>1, <1>2 DEF Core, CoreInv, Effects
<1>4. AnsweredInv'
  BY <1>1 DEF AnsweredInv, CoreInv, Mutation, Effects
<1> QED
  BY <1>1, <1>2, <1>3, <1>4 DEF CoreInv

\* A transaction takes effect, whatever its client is told.
LEMMA FinishCommits ==
    ASSUME CoreInv, NEW r \in Reqs, NEW a \in Answers, Finish(r, a),
           UNCHANGED <<shape, seen>>, applied' = applied \cup Effects(r)
    PROVE  CoreInv'
<1>1. /\ pc' \in [Reqs -> Places] /\ answer' \in [Reqs -> Answers]
      /\ lock' \in [Rows -> Reqs \cup {NoReq}]
      /\ \A q \in Reqs : q # r => answer'[q] = answer[q]
      /\ answer'[r] = a
      /\ KindInv' /\ LockInv' /\ PoolInv'
  BY FinishGivesBack
<1>2. \A q \in Reqs : Effects(q)' = Effects(q) /\ Mutation(q)' = Mutation(q)
  BY DEF Effects, Mutation
<1>3. \A m \in Reqs : applied' \cap Effects(m) \in {{}, Effects(m)}
  <2> TAKE m \in Reqs
  <2>1. CASE m = r
    BY <2>1
  <2>2. CASE m # r
    <3>1. applied' \cap Effects(m) = applied \cap Effects(m)
      BY <2>2, EffectsDisjoint
    <3> QED
      BY <3>1 DEF CoreInv, WholeInv, Whole
  <2> QED
    BY <2>1, <2>2
<1>4. WholeInv'
  BY <1>2, <1>3 DEF CoreInv, WholeInv, Whole
<1>5. AnsweredInv'
  BY <1>1, <1>2 DEF AnsweredInv, CoreInv
<1>6. applied' \subseteq UNION {Effects(q) : q \in Reqs}
  BY DEF CoreInv, Core
<1>7. Core'
  BY <1>1, <1>6 DEF Core, CoreInv, Effects
<1> QED
  BY <1>1, <1>4, <1>5, <1>7 DEF CoreInv

\* A field of a mutation locks its row.
LEMMA ExecFieldKeeps ==
    ASSUME CoreInv, NEW r \in Reqs, ExecField(r), UNCHANGED shape
    PROVE  CoreInv'
<1>1. /\ pc[r] = "run" /\ Mutation(r) /\ r \in Holders
      /\ lock' = [lock EXCEPT ![NextRow(r)] = r]
      /\ lock \in [Rows -> Reqs \cup {NoReq}]
      /\ UNCHANGED <<shape, pc, applied, seen, answer>>
  BY DEF ExecField, Running, Mutation, Holders, Holding, CoreInv, Core
<1>2. lock' \in [Rows -> Reqs \cup {NoReq}] /\ \A w \in Rows : lock'[w] \in {lock[w], r}
  BY <1>1
<1>3. Holders' = Holders /\ \A q \in Reqs : Mutation(q)' = Mutation(q) /\ Effects(q)' = Effects(q)
  BY <1>1 DEF Holders, Mutation, Effects
<1>4. LockInv'
  <2> SUFFICES ASSUME NEW w \in Rows, NEW h \in Reqs, lock'[w] = h
               PROVE  h \in Holders' /\ Mutation(h)'
    BY <1>2 DEF LockInv, Mutation
  <2>1. h = r \/ (lock[w] = h /\ lock[w] # NoReq)
    BY <1>2, ExecAssumption
  <2> QED
    BY <1>1, <1>3, <2>1 DEF CoreInv, LockInv
<1>5. Core'
  BY <1>1, <1>2 DEF CoreInv, Core, Effects
<1>6. KindInv' /\ WholeInv' /\ AnsweredInv' /\ PoolInv'
  BY <1>1, <1>3 DEF CoreInv, KindInv, WholeInv, Whole, AnsweredInv, PoolInv
<1> QED
  BY <1>4, <1>5, <1>6 DEF CoreInv

\* The end of an action's step.
LEMMA ProceedKeeps ==
    ASSUME CoreInv, NEW r \in Reqs, Proceed(r), Reads(r), UNCHANGED <<shape, applied>>,
           ~Mutation(r)
    PROVE  CoreInv'
<1>1. CASE Finish(r, "data")
  BY <1>1, FinishKeeps DEF Answers
<1>2. CASE Goto(r, "acting")
  BY <1>2, GotoKeeps DEF Places, Holding
<1> QED
  BY <1>1, <1>2 DEF Proceed

\* The end of a select.
LEMMA SelectedKeeps ==
    ASSUME CoreInv, NEW r \in Reqs, Selected(r), Reads(r), UNCHANGED <<shape, applied>>,
           ~Mutation(r)
    PROVE  CoreInv'
<1>1. CASE Proceed(r)
  BY <1>1, ProceedKeeps
<1>2. CASE Finish(r, "data")
  BY <1>2, FinishKeeps DEF Answers
<1> QED
  BY <1>1, <1>2 DEF Selected

----------------------------------------------------------------------------
LEMMA CoreInitially == Init => CoreInv
<1> SUFFICES ASSUME Init PROVE CoreInv
  OBVIOUS
<1>1. Core
  BY DEF Init, Core, Places, Answers
<1>2. Holders = {}
  BY DEF Init, Holders, Holding
<1>3. PoolInv
  BY <1>2, FS_EmptySet, ExecAssumption DEF PoolInv
<1>4. KindInv /\ AnsweredInv /\ LockInv
  BY DEF Init, KindInv, AnsweredInv, LockInv
<1>5. WholeInv
  BY DEF Init, WholeInv, Whole
<1> QED
  BY <1>1, <1>3, <1>4, <1>5 DEF CoreInv

LEMMA RouteKeeps ==
    ASSUME CoreInv, NEW r \in Reqs, Route(r), UNCHANGED shape
    PROVE  CoreInv'
<1>0. Reads(r) /\ UNCHANGED applied /\ pc[r] = "new"
  BY DEF Route, Reads
<1>1. CASE shape[r].kind = "remote"
  <2>1. Goto(r, "forward") /\ ~Mutation(r)
    BY <1>1 DEF Route, Mutation
  <2> QED
    BY <1>0, <2>1, GotoKeeps DEF Places, Holding
<1>2. CASE shape[r].kind = "action"
  <2>1. Goto(r, "acting") /\ ~Mutation(r)
    BY <1>2 DEF Route, Mutation
  <2> QED
    BY <1>0, <2>1, GotoKeeps DEF Places, Holding
<1>3. CASE shape[r].kind \notin {"remote", "action"}
  <2>1. \/ Finish(r, "error")
        \/ ~Mutation(r) /\ Finish(r, "data")
        \/ Goto(r, "wait")
    <3>1. shape[r].kind \in {"introspection", "invalid", "query", "mutation"}
      BY <1>3, ExecAssumption DEF CoreInv, Core, Shapes
    <3> QED
      BY <1>3, <3>1 DEF Route, Mutation
  <2>2. CASE Finish(r, "error")
    BY <1>0, <2>2, FinishKeeps DEF Answers
  <2>3. CASE ~Mutation(r) /\ Finish(r, "data")
    BY <1>0, <2>3, FinishKeeps DEF Answers
  <2>4. CASE Goto(r, "wait")
    BY <1>0, <2>4, GotoKeeps DEF Places, Holding
  <2> QED
    BY <2>1, <2>2, <2>3, <2>4
<1> QED
  BY <1>1, <1>2, <1>3

LEMMA StepKeeps ==
    ASSUME CoreInv, NEW r \in Reqs, Step(r), UNCHANGED shape
    PROVE  CoreInv'
<1>0. /\ pc[r] \in {"forward", "acting", "webhook", "joining"} => ~Mutation(r)
      /\ pc[r] = "commit" => Mutation(r)
  BY DEF CoreInv, KindInv
<1>1. CASE Forwarded(r)
  BY <1>0, <1>1, FinishKeeps DEF Forwarded, Reads, Answers
<1>2. CASE Act(r)
  <2>1. Reads(r) /\ UNCHANGED applied /\ pc[r] = "acting" /\ ~Mutation(r)
    BY <1>0, <1>2 DEF Act, Reads
  <2>2. Goto(r, "webhook") \/ Goto(r, "wait") \/ Finish(r, "error")
    BY <1>2 DEF Act
  <2>3. CASE Goto(r, "webhook")
    BY <2>1, <2>3, GotoKeeps DEF Places, Holding
  <2>4. CASE Goto(r, "wait")
    BY <2>1, <2>4, GotoKeeps DEF Places, Holding
  <2>5. CASE Finish(r, "error")
    BY <2>1, <2>5, FinishKeeps DEF Answers
  <2> QED
    BY <2>2, <2>3, <2>4, <2>5
<1>3. CASE HandlerAnswers(r)
  BY <1>0, <1>3, ProceedKeeps DEF HandlerAnswers, Reads
<1>4. CASE GetConnection(r)
  BY <1>4, GotoKeeps DEF GetConnection, Reads, Places, Holding
<1>5. CASE RunQuery(r)
  <2>1. Reads(r) /\ UNCHANGED applied /\ pc[r] = "run" /\ ~Mutation(r)
    BY <1>5 DEF RunQuery, Reads, Mutation
  <2>2. CASE Goto(r, "joining")
    BY <2>1, <2>2, GotoKeeps DEF Places, Holding
  <2>3. CASE Selected(r)
    BY <2>1, <2>3, SelectedKeeps
  <2> QED
    BY <1>5, <2>2, <2>3 DEF RunQuery
<1>6. CASE Joined(r)
  BY <1>0, <1>6, SelectedKeeps DEF Joined, Reads
<1>7. CASE ExecField(r)
  BY <1>7, ExecFieldKeeps
<1>8. CASE DeadlockVictim(r)
  BY <1>8, FinishKeeps DEF DeadlockVictim, Reads, Answers
<1>9. CASE SendCommit(r)
  BY <1>9, GotoKeeps DEF SendCommit, Reads, Places, Holding, Mutation
<1>10. CASE Commit(r)
  BY <1>10, FinishCommits DEF Commit, Answers
<1> QED
  BY <1>1, <1>2, <1>3, <1>4, <1>5, <1>6, <1>7, <1>8, <1>9, <1>10 DEF Step

\* The failures: of a step, of the commit, of the client.
LEMMA FailureKeeps ==
    ASSUME CoreInv, NEW r \in Reqs, Fails(r) \/ CommitFails(r) \/ Dropped(r), UNCHANGED shape
    PROVE  CoreInv'
<1>1. PICK a \in {"none", "error"} : Finish(r, a)
  BY DEF Fails, CommitFails, Dropped
<1>2. UNCHANGED seen /\ (applied' = applied \/ applied' = applied \cup Effects(r))
  BY DEF Fails, CommitFails, Dropped
<1>3. CASE applied' = applied
  BY <1>1, <1>2, <1>3, FinishKeeps DEF Reads, Answers
<1>4. CASE applied' = applied \cup Effects(r)
  BY <1>1, <1>2, <1>4, FinishCommits DEF Answers
<1> QED
  BY <1>2, <1>3, <1>4

LEMMA StutterKeeps == CoreInv /\ UNCHANGED vars => CoreInv'
<1> SUFFICES ASSUME CoreInv, UNCHANGED vars PROVE CoreInv'
  OBVIOUS
<1>1. /\ UNCHANGED <<shape, pc, lock, applied, seen, answer>> /\ Holders' = Holders
      /\ \A q \in Reqs : Mutation(q)' = Mutation(q) /\ Effects(q)' = Effects(q)
  BY DEF vars, Holders, Mutation, Effects
<1>2. Core' /\ KindInv' /\ WholeInv' /\ AnsweredInv' /\ PoolInv'
  BY <1>1 DEF CoreInv, Core, Effects, KindInv, WholeInv, Whole, AnsweredInv, PoolInv
<1>3. LockInv'
  BY <1>1 DEF CoreInv, LockInv, Mutation
<1> QED
  BY <1>2, <1>3 DEF CoreInv

\* CoreInv is an invariant of every behaviour.
LEMMA CoreIsInvariant == Spec => []CoreInv
<1>1. CoreInv /\ [Next]_vars => CoreInv'
  BY RouteKeeps, StepKeeps, FailureKeeps, StutterKeeps DEF Next
<1> QED
  BY CoreInitially, <1>1, PTL DEF Spec

----------------------------------------------------------------------------
\* gql.rs, execute_full: for any requests, rows, pool and failures, all the
\* fields of a mutation take effect or none, and one answered with data has
\* taken effect.
THEOREM MutationsAreAtomic == Spec => []AtomicMutation
<1>1. CoreInv => AtomicMutation
  BY DEF CoreInv, WholeInv, Whole, AnsweredInv, AtomicMutation
<1> QED
  BY CoreIsInvariant, <1>1, PTL

\* gql.rs, execute_full: no statement reads a part of a mutation.
THEOREM QueriesSeeWholeMutations == Spec => []QuerySeesWholeMutations
<1>1. CoreInv => QuerySeesWholeMutations
  BY DEF CoreInv, WholeInv, Whole, QuerySeesWholeMutations
<1> QED
  BY CoreIsInvariant, <1>1, PTL

\* gql.rs, execute_full: connections in use never exceed the pool, and row
\* locks are held only by requests that hold a connection, on every path.
THEOREM NothingIsLeaked == Spec => []NothingLeaks
<1>1. CoreInv => NothingLeaks
  BY DEF CoreInv, PoolInv, LockInv, NothingLeaks
<1> QED
  BY CoreIsInvariant, <1>1, PTL

----------------------------------------------------------------------------
\* How far an action document has come: the steps behind it were allowed and
\* their handlers called, a handler was called only up to the step it is at,
\* and it is answered with data only at the end.
Progress(r) ==
    LET s == shape[r].steps
    IN /\ done[r] <= Len(s)
       /\ pc[r] \in {"new", "acting", "webhook", "wait", "run", "joining", "end"}
       /\ pc[r] = "new" => done[r] = 0
       /\ pc[r] \in {"acting", "webhook", "wait", "run", "joining"} => done[r] < Len(s)
       /\ pc[r] = "webhook" => s[done[r] + 1] = "call" /\ <<r, done[r] + 1>> \in out
       /\ pc[r] \in {"wait", "run", "joining"} => s[done[r] + 1] = "select"
       /\ \A i \in 1..done[r] : s[i] # "denied" /\ (s[i] = "call" => <<r, i>> \in out)
       /\ \A j \in Nat : <<r, j>> \in out => j <= done[r] + 1
       /\ answer[r] = "data" => done[r] = Len(s)

IsAction(r) == shape[r].kind = "action"

ActionTypes ==
    /\ shape \in Workloads
    /\ pc \in [Reqs -> Places]
    /\ done \in [Reqs -> Nat]
    /\ answer \in [Reqs -> Answers]

ActionInv == ActionTypes /\ \A r \in Reqs : IsAction(r) => Progress(r)

LEMMA StepsAreSteps ==
    ASSUME ActionTypes, NEW r \in Reqs
    PROVE  /\ shape[r].steps \in Seq({"call", "denied", "select"})
           /\ Len(shape[r].steps) \in Nat
           /\ IsAction(r) => Len(shape[r].steps) > 0
<1>1. shape[r] \in Shapes
  BY ExecAssumption DEF ActionTypes
<1>2. shape[r].steps \in Seq({"call", "denied", "select"})
  BY <1>1 DEF Shapes
<1>3. IsAction(r) => shape[r].steps # <<>>
  BY ExecAssumption DEF ActionTypes, IsAction
<1> QED
  BY <1>2, <1>3

\* A step of one request leaves the others alone.
Alone(q) ==
    /\ shape' = shape
    /\ \A r \in Reqs \ {q} :
          /\ pc'[r] = pc[r] /\ done'[r] = done[r] /\ answer'[r] = answer[r]
          /\ \A i : <<r, i>> \in out' <=> <<r, i>> \in out

LEMMA OthersKeepProgress ==
    ASSUME ActionInv, NEW q \in Reqs, Alone(q), NEW r \in Reqs \ {q}, IsAction(r)'
    PROVE  Progress(r)'
<1>1. Progress(r)
  BY DEF ActionInv, Alone, IsAction
<1>2. /\ pc'[r] = pc[r] /\ done'[r] = done[r] /\ answer'[r] = answer[r] /\ shape'[r] = shape[r]
      /\ \A i : <<r, i>> \in out' <=> <<r, i>> \in out
  BY DEF Alone
<1> QED
  BY <1>1, <1>2 DEF Progress

\* A request that ends without data, or that is no action, is no matter.
LEMMA EndKeepsProgress ==
    ASSUME ActionInv, NEW q \in Reqs, NEW a \in {"none", "error"}, Finish(q, a),
           UNCHANGED <<shape, done, out>>, IsAction(q)
    PROVE  Progress(q)'
<1>1. Progress(q) /\ pc'[q] = "end" /\ answer'[q] = a
  BY DEF ActionInv, ActionTypes, Finish
<1> QED
  BY <1>1 DEF Progress

\* A step of an action is over, and it was allowed.
LEMMA ProceedKeepsProgress ==
    ASSUME ActionInv, NEW q \in Reqs, IsAction(q), Proceed(q), UNCHANGED <<shape, out>>,
           pc[q] \in {"webhook", "run", "joining"}
    PROVE  Progress(q)'
<1> DEFINE s == shape[q].steps
           k == done[q]
<1>0. /\ Progress(q) /\ k \in Nat /\ Len(s) \in Nat
      /\ answer \in [Reqs -> Answers] /\ pc \in [Reqs -> Places] /\ done \in [Reqs -> Nat]
  BY StepsAreSteps DEF ActionInv, ActionTypes
<1>1. k < Len(s) /\ done'[q] = k + 1
  BY <1>0 DEF Progress, Proceed
<1>2. s[k + 1] # "denied" /\ (s[k + 1] = "call" => <<q, k + 1>> \in out)
  BY <1>0 DEF Progress
<1>3. \A i \in 1..(k + 1) : s[i] # "denied" /\ (s[i] = "call" => <<q, i>> \in out)
  BY <1>0, <1>2 DEF Progress
<1>4. \A j \in Nat : <<q, j>> \in out => j <= k + 1 + 1
  BY <1>0 DEF Progress
<1>5. \/ k + 1 = Len(s) /\ pc'[q] = "end"
      \/ k + 1 < Len(s) /\ pc'[q] = "acting" /\ answer'[q] = answer[q]
  BY <1>0, <1>1 DEF Proceed, Finish, Goto
<1>6. answer'[q] = "data" => k + 1 = Len(s)
  BY <1>0, <1>1, <1>5 DEF Progress
<1> QED
  BY <1>0, <1>1, <1>3, <1>4, <1>5, <1>6 DEF Progress

LEMMA ActionInvInit == Init => ActionInv
<1> SUFFICES ASSUME Init PROVE ActionInv
  OBVIOUS
<1>1. ActionTypes
  BY DEF Init, ActionTypes, Places, Answers
<1>2. ASSUME NEW r \in Reqs PROVE Progress(r)
  <2>1. Len(shape[r].steps) \in Nat
    BY <1>1, StepsAreSteps
  <2> QED
    BY <2>1 DEF Init, Progress
<1> QED
  BY <1>1, <1>2 DEF ActionInv

\* The shape of every step: one request moves, counts and calls.
Moves(q) ==
    /\ shape' = shape
    /\ \/ \E p \in Places : Goto(q, p)
       \/ \E a \in Answers : Finish(q, a)
       \/ UNCHANGED <<pc, answer>>
    /\ done' \in {done, [done EXCEPT ![q] = @ + 1]}
    /\ out' = out \/ \E i : out' = out \cup {<<q, i>>}

LEMMA MovesAlone ==
    ASSUME ActionTypes, NEW q \in Reqs, Moves(q)
    PROVE  ActionTypes' /\ Alone(q)
<1>1. pc' \in [Reqs -> Places] /\ answer' \in [Reqs -> Answers]
  BY DEF Moves, ActionTypes, Goto, Finish, Places, Answers
<1>2. done' \in [Reqs -> Nat]
  BY DEF Moves, ActionTypes
<1>3. \A r \in Reqs \ {q} : pc'[r] = pc[r] /\ answer'[r] = answer[r]
  BY DEF Moves, ActionTypes, Goto, Finish
<1>4. \A r \in Reqs \ {q} : done'[r] = done[r]
  BY DEF Moves, ActionTypes
<1>5. \A r \in Reqs \ {q} : \A i : <<r, i>> \in out' <=> <<r, i>> \in out
  BY DEF Moves
<1> QED
  BY <1>1, <1>2, <1>3, <1>4, <1>5 DEF ActionTypes, Alone, Moves

\* An action document is routed to action::resolve, nothing else is.
LEMMA RouteProgress ==
    ASSUME ActionInv, NEW q \in Reqs, Route(q), UNCHANGED shape
    PROVE  Moves(q) /\ (IsAction(q) => Progress(q)')
<1>0. pc[q] = "new" /\ done' = done /\ shape[q] \in Shapes
  BY ExecAssumption DEF Route, ActionInv, ActionTypes
<1>1. CASE IsAction(q)
  <2>1. Goto(q, "acting") /\ out' = out
    BY <1>1 DEF Route, IsAction
  <2>2. Progress(q) /\ pc'[q] = "acting" /\ Len(shape[q].steps) > 0 /\ answer' = answer
    BY <1>1, <2>1, StepsAreSteps DEF ActionInv, ActionTypes, Goto
  <2>3. Progress(q)'
    BY <1>0, <2>1, <2>2 DEF Progress
  <2> QED
    BY <1>0, <2>1, <2>3 DEF Moves, Places
<1>2. CASE shape[q].kind = "remote"
  BY <1>0, <1>2 DEF Route, IsAction, Moves, Places
<1>3. CASE shape[q].kind \notin {"action", "remote"}
  <2>1. shape[q].kind \in {"introspection", "invalid", "query", "mutation"}
    BY <1>0, <1>3 DEF Shapes
  <2>2. out' = out /\ (Goto(q, "wait") \/ Finish(q, "error") \/ Finish(q, "data"))
    BY <1>3, <2>1 DEF Route
  <2> QED
    BY <1>0, <1>3, <2>2 DEF Moves, Places, Answers, IsAction
<1> QED
  BY <1>1, <1>2, <1>3 DEF IsAction

LEMMA ActProgress ==
    ASSUME ActionInv, NEW q \in Reqs, Act(q), UNCHANGED shape
    PROVE  Moves(q) /\ (IsAction(q) => Progress(q)')
<1> DEFINE s == shape[q].steps
           k == done[q]
<1>0. pc[q] = "acting" /\ done' = done /\ k \in Nat /\ pc \in [Reqs -> Places]
  BY DEF Act, ActionInv, ActionTypes
<1>1. CASE s[k + 1] = "call" /\ Goto(q, "webhook") /\ out' = out \cup {<<q, k + 1>>}
  <2>1. pc'[q] = "webhook" /\ answer' = answer
    BY <1>0, <1>1 DEF Goto
  <2>2. ASSUME IsAction(q) PROVE Progress(q)'
    <3>1. Progress(q)
      BY <2>2 DEF ActionInv
    <3>2. \A j \in Nat : <<q, j>> \in out' => j <= k + 1
      BY <1>0, <1>1, <3>1 DEF Progress
    <3>3. \A i \in 1..k : s[i] # "denied" /\ (s[i] = "call" => <<q, i>> \in out')
      BY <1>1, <3>1 DEF Progress
    <3> QED
      BY <1>0, <1>1, <2>1, <3>1, <3>2, <3>3 DEF Progress
  <2> QED
    BY <1>0, <1>1, <2>2 DEF Moves, Places
<1>2. CASE s[k + 1] = "select" /\ Goto(q, "wait") /\ out' = out
  <2>1. pc'[q] = "wait" /\ answer' = answer
    BY <1>0, <1>2 DEF Goto
  <2>2. ASSUME IsAction(q) PROVE Progress(q)'
    <3>1. Progress(q) /\ shape' = shape
      BY <2>2 DEF ActionInv
    <3> QED
      BY <1>0, <1>2, <2>1, <3>1 DEF Progress
  <2> QED
    BY <1>0, <1>2, <2>2 DEF Moves, Places
<1>3. CASE Finish(q, "error") /\ out' = out
  BY <1>0, <1>3, EndKeepsProgress DEF Moves, Answers
<1> QED
  BY <1>1, <1>2, <1>3 DEF Act

LEMMA ProceedMoves ==
    ASSUME NEW q \in Reqs, Proceed(q), UNCHANGED <<shape, out>>
    PROVE  Moves(q)
BY DEF Proceed, Moves, Places, Answers

\* The end of a select, of a query or of an action.
LEMMA SelectedProgress ==
    ASSUME ActionInv, NEW q \in Reqs, Selected(q), UNCHANGED <<shape, out>>,
           pc[q] \in {"run", "joining"}
    PROVE  Moves(q) /\ (IsAction(q) => Progress(q)')
<1>1. CASE IsAction(q)
  BY <1>1, ProceedMoves, ProceedKeepsProgress DEF Selected, IsAction
<1>2. CASE ~IsAction(q)
  BY <1>2 DEF Selected, IsAction, Moves, Answers
<1> QED
  BY <1>1, <1>2

\* A request changes place, within what its step allows, and nothing else.
LEMMA GotoProgress ==
    ASSUME ActionInv, NEW q \in Reqs, NEW p \in {"run", "joining"}, Goto(q, p),
           UNCHANGED <<shape, done, out>>, pc[q] \in {"wait", "run"}
    PROVE  Moves(q) /\ (IsAction(q) => Progress(q)')
<1>1. pc'[q] = p /\ answer' = answer
  BY DEF Goto, ActionInv, ActionTypes
<1>2. IsAction(q) => Progress(q)'
  BY <1>1 DEF Progress, ActionInv
<1> QED
  BY <1>2 DEF Moves, Places

\* A request ends without data.
LEMMA EndProgress ==
    ASSUME ActionInv, NEW q \in Reqs, NEW a \in {"none", "error"}, Finish(q, a),
           UNCHANGED <<shape, done, out>>
    PROVE  Moves(q) /\ (IsAction(q) => Progress(q)')
BY EndKeepsProgress DEF Moves, Answers

LEMMA StepProgress ==
    ASSUME ActionInv, NEW q \in Reqs, Step(q), UNCHANGED shape
    PROVE  Moves(q) /\ (IsAction(q) => Progress(q)')
<1>0. IsAction(q) => pc[q] \notin {"forward", "commit"}
  BY DEF ActionInv, Progress
<1>1. CASE Forwarded(q)
  BY <1>0, <1>1 DEF Forwarded, Moves, Answers
<1>2. CASE Act(q)
  BY <1>2, ActProgress
<1>3. CASE HandlerAnswers(q)
  <2>1. Proceed(q) /\ out' = out /\ pc[q] = "webhook"
    BY <1>3 DEF HandlerAnswers
  <2> QED
    BY <2>1, ProceedMoves, ProceedKeepsProgress
<1>4. CASE GetConnection(q)
  BY <1>4, GotoProgress DEF GetConnection
<1>5. CASE RunQuery(q)
  <2>0. pc[q] = "run" /\ out' = out
    BY <1>5 DEF RunQuery
  <2>1. CASE Goto(q, "joining") /\ UNCHANGED done
    BY <2>0, <2>1, GotoProgress
  <2>2. CASE Selected(q)
    BY <2>0, <2>2, SelectedProgress
  <2> QED
    BY <1>5, <2>1, <2>2 DEF RunQuery
<1>6. CASE Joined(q)
  BY <1>6, SelectedProgress DEF Joined
<1>7. CASE ExecField(q)
  BY <1>7 DEF ExecField, Running, IsAction, Moves
<1>8. CASE DeadlockVictim(q)
  BY <1>8, EndProgress DEF DeadlockVictim
<1>9. CASE SendCommit(q)
  BY <1>9 DEF SendCommit, IsAction, Moves, Places
<1>10. CASE Commit(q)
  BY <1>0, <1>10 DEF Commit, Moves, Answers
<1> QED
  BY <1>1, <1>2, <1>3, <1>4, <1>5, <1>6, <1>7, <1>8, <1>9, <1>10 DEF Step

LEMMA FailureProgress ==
    ASSUME ActionInv, NEW q \in Reqs, Fails(q) \/ CommitFails(q) \/ Dropped(q), UNCHANGED shape
    PROVE  Moves(q) /\ (IsAction(q) => Progress(q)')
<1>1. PICK a \in {"none", "error"} : Finish(q, a)
  BY DEF Fails, CommitFails, Dropped
<1>2. UNCHANGED <<done, out>>
  BY DEF Fails, CommitFails, Dropped
<1> QED
  BY <1>1, <1>2, EndProgress

LEMMA ActionInvStep == ActionInv /\ [Next]_vars => ActionInv'
<1> SUFFICES ASSUME ActionInv, [Next]_vars PROVE ActionInv'
  OBVIOUS
<1>1. ASSUME NEW q \in Reqs, Route(q) \/ Step(q) \/ Fails(q) \/ CommitFails(q) \/ Dropped(q),
             UNCHANGED shape
      PROVE  ActionInv'
  <2>1. Moves(q) /\ (IsAction(q) => Progress(q)')
    BY <1>1, RouteProgress, StepProgress, FailureProgress
  <2>2. ActionTypes' /\ Alone(q)
    BY <2>1, MovesAlone DEF ActionInv
  <2>3. IsAction(q)' <=> IsAction(q)
    BY <1>1 DEF IsAction
  <2> QED
    BY <2>1, <2>2, <2>3, OthersKeepProgress DEF ActionInv
<1>2. CASE UNCHANGED vars
  BY <1>2 DEF vars, ActionInv, ActionTypes, IsAction, Progress
<1> QED
  BY <1>1, <1>2 DEF Next

\* action.rs, resolve: a document is answered with data only when all the
\* handlers it names were called and no field was refused, and none is called
\* after a refused field, however requests interleave and whatever fails.
THEOREM ActionsAreWhole == Spec => []ActionAnswerIsWhole
<1>1. ActionInv => ActionAnswerIsWhole
  <2> SUFFICES ASSUME ActionInv, NEW r \in Reqs, shape[r].kind = "action"
               PROVE  LET s == shape[r].steps
                          calls == {i \in DOMAIN s : s[i] = "call"}
                          refused == {i \in DOMAIN s : s[i] = "denied"}
                      IN /\ answer[r] = "data" => refused = {} /\ \A i \in calls : <<r, i>> \in out
                         /\ \A i \in refused, j \in calls : i < j => <<r, j>> \notin out
    BY DEF ActionAnswerIsWhole
  <2> DEFINE s == shape[r].steps
  <2>1. Progress(r) /\ ActionTypes /\ done[r] \in Nat /\ Len(s) \in Nat
    BY StepsAreSteps DEF ActionInv, IsAction, ActionTypes
  <2>2. DOMAIN s = 1..Len(s)
    BY <2>1, StepsAreSteps
  <2>3. ASSUME answer[r] = "data", NEW i \in DOMAIN s
        PROVE  s[i] # "denied" /\ (s[i] = "call" => <<r, i>> \in out)
    BY <2>1, <2>2, <2>3 DEF Progress
  <2>4. ASSUME NEW i \in DOMAIN s, NEW j \in DOMAIN s, s[i] = "denied", i < j, <<r, j>> \in out
        PROVE  FALSE
    <3>1. i \in Nat /\ j \in Nat /\ i >= 1 /\ j <= done[r] + 1
      BY <2>1, <2>2, <2>4 DEF Progress
    <3>2. i \in 1..done[r]
      BY <2>1, <2>4, <3>1
    <3> QED
      BY <2>1, <2>4, <3>2 DEF Progress
  <2> QED
    BY <2>3, <2>4
<1> QED
  BY <1>1, ActionInvInit, ActionInvStep, PTL DEF Spec

----------------------------------------------------------------------------
(* Requests never come to a standstill, and every step brings one of them   *)
(* closer to its end.                                                       *)

\* Only routing moves a request that is new, and nothing one that has ended.
LEMMA OnlyRoutingStarts ==
    ASSUME NEW q \in Reqs, pc[q] \in {"new", "end"}
    PROVE  ~Step(q) /\ ~Fails(q) /\ ~CommitFails(q) /\ ~Dropped(q)
<1>1. ~Cyclic(q)
  BY DEF Cyclic, WaitsFor, Running
<1> QED
  BY <1>1 DEF Step, Forwarded, Act, HandlerAnswers, GetConnection, RunQuery, Joined, ExecField,
     Running, DeadlockVictim, SendCommit, Commit, Fails, CommitFails, Dropped

\* What done counts: the fields of a mutation, the steps of an action,
\* nothing for the rest; and only an action is at action::resolve.
Counts(r) ==
    /\ Mutation(r) => done[r] <= Len(shape[r].fields)
    /\ ~Mutation(r) /\ ~IsAction(r) => done[r] = 0
    /\ pc[r] \in {"acting", "webhook"} => IsAction(r)

CountInv == \A r \in Reqs : Counts(r)

LEMMA FieldsAreFields ==
    ASSUME ActionTypes, NEW r \in Reqs
    PROVE  /\ shape[r].fields \in Seq(Rows) /\ Len(shape[r].fields) \in Nat
           /\ \A i \in 1..Len(shape[r].fields) : shape[r].fields[i] \in Rows
<1>1. shape[r] \in Shapes
  BY ExecAssumption DEF ActionTypes
<1>2. shape[r].fields \in Seq(Rows)
  BY <1>1 DEF Shapes
<1> QED
  BY <1>2

LEMMA CountsStay ==
    ASSUME ActionTypes, NEW q \in Reqs, Counts(q), NEW p, done' = done, shape' = shape, pc'[q] = p,
           p \in {"acting", "webhook"} => IsAction(q)
    PROVE  Counts(q)'
BY DEF Counts, Mutation, IsAction

LEMMA FinishCounts ==
    ASSUME ActionTypes, NEW q \in Reqs, Counts(q), NEW a, Finish(q, a), UNCHANGED <<done, shape>>
    PROVE  Counts(q)'
<1>1. pc'[q] = "end"
  BY DEF Finish, ActionTypes
<1> QED
  BY <1>1, CountsStay

LEMMA GotoCounts ==
    ASSUME ActionTypes, NEW q \in Reqs, Counts(q), NEW p, Goto(q, p), UNCHANGED <<done, shape>>,
           p \in {"acting", "webhook"} => IsAction(q)
    PROVE  Counts(q)'
<1>1. pc'[q] = p
  BY DEF Goto, ActionTypes
<1> QED
  BY <1>1, CountsStay

LEMMA ProceedCounts ==
    ASSUME NEW q \in Reqs, IsAction(q), UNCHANGED shape
    PROVE  Counts(q)'
BY DEF Counts, Mutation, IsAction

LEMMA SelectedCounts ==
    ASSUME ActionTypes, NEW q \in Reqs, Counts(q), Selected(q), UNCHANGED shape
    PROVE  Counts(q)'
BY ProceedCounts, FinishCounts DEF Selected, IsAction

LEMMA RouteCounts ==
    ASSUME ActionTypes, NEW q \in Reqs, Counts(q), Route(q), UNCHANGED shape
    PROVE  Counts(q)'
<1>0. shape[q] \in Shapes /\ done' = done
  BY ExecAssumption DEF ActionTypes, Route
<1>1. CASE shape[q].kind = "remote"
  BY <1>0, <1>1, GotoCounts DEF Route
<1>2. CASE IsAction(q)
  BY <1>0, <1>2, GotoCounts DEF Route, IsAction
<1>3. CASE shape[q].kind \notin {"remote", "action"}
  <2>1. shape[q].kind \in {"introspection", "invalid", "query", "mutation"}
    BY <1>0, <1>3 DEF Shapes
  <2>2. Goto(q, "wait") \/ \E a \in Answers : Finish(q, a)
    BY <1>3, <2>1 DEF Route, Answers
  <2> QED
    BY <1>0, <2>2, GotoCounts, FinishCounts
<1> QED
  BY <1>1, <1>2, <1>3 DEF IsAction

LEMMA ExecFieldCounts ==
    ASSUME ActionTypes, NEW q \in Reqs, Counts(q), ExecField(q), UNCHANGED shape
    PROVE  Counts(q)'
<1>1. /\ Mutation(q) /\ pc'[q] = "run" /\ done[q] \in Nat
      /\ done[q] < Len(shape[q].fields) /\ done'[q] = done[q] + 1
  BY DEF ExecField, Running, Mutation, ActionTypes
<1>2. Len(shape[q].fields) \in Nat
  BY FieldsAreFields
<1> QED
  BY <1>1, <1>2 DEF Counts, Mutation

LEMMA StepCounts ==
    ASSUME ActionTypes, NEW q \in Reqs, Counts(q), Step(q), UNCHANGED shape
    PROVE  Counts(q)'
<1>1. CASE Forwarded(q) \/ DeadlockVictim(q) \/ Commit(q)
  BY <1>1, FinishCounts DEF Forwarded, DeadlockVictim, Commit
<1>2. CASE Act(q)
  <2>1. IsAction(q) /\ done' = done
    BY <1>2 DEF Act, Counts
  <2>2. Goto(q, "webhook") \/ Goto(q, "wait") \/ Finish(q, "error")
    BY <1>2 DEF Act
  <2> QED
    BY <2>1, <2>2, GotoCounts, FinishCounts
<1>3. CASE HandlerAnswers(q)
  BY <1>3, ProceedCounts DEF HandlerAnswers, Counts
<1>4. CASE GetConnection(q) \/ SendCommit(q)
  BY <1>4, GotoCounts DEF GetConnection, SendCommit
<1>5. CASE RunQuery(q)
  BY <1>5, GotoCounts, SelectedCounts DEF RunQuery
<1>6. CASE Joined(q)
  BY <1>6, SelectedCounts DEF Joined
<1>7. CASE ExecField(q)
  BY <1>7, ExecFieldCounts
<1> QED
  BY <1>1, <1>2, <1>3, <1>4, <1>5, <1>6, <1>7 DEF Step

LEMMA FailureCounts ==
    ASSUME ActionTypes, NEW q \in Reqs, Counts(q), Fails(q) \/ CommitFails(q) \/ Dropped(q),
           UNCHANGED shape
    PROVE  Counts(q)'
<1>1. PICK a \in {"none", "error"} : Finish(q, a)
  BY DEF Fails, CommitFails, Dropped
<1>2. done' = done
  BY DEF Fails, CommitFails, Dropped
<1> QED
  BY <1>1, <1>2, FinishCounts

LEMMA CountInvStep == ActionInv /\ CountInv /\ [Next]_vars => CountInv'
<1> SUFFICES ASSUME ActionInv, CountInv, [Next]_vars, NEW r \in Reqs PROVE Counts(r)'
  BY DEF CountInv
<1>0. Counts(r) /\ ActionTypes
  BY DEF CountInv, ActionInv
<1>1. ASSUME NEW q \in Reqs, Route(q) \/ Step(q) \/ Fails(q) \/ CommitFails(q) \/ Dropped(q),
             UNCHANGED shape
      PROVE  Counts(r)'
  <2>1. CASE r = q
    BY <1>0, <1>1, <2>1, RouteCounts, StepCounts, FailureCounts
  <2>2. CASE r # q
    <3>1. Alone(q)
      BY <1>0, <1>1, RouteProgress, StepProgress, FailureProgress, MovesAlone
    <3>2. pc'[r] = pc[r] /\ done'[r] = done[r] /\ shape' = shape
      BY <2>2, <3>1 DEF Alone
    <3> QED
      BY <1>0, <3>2 DEF Counts, Mutation, IsAction
  <2> QED
    BY <2>1, <2>2
<1>2. CASE UNCHANGED vars
  BY <1>0, <1>2 DEF vars, Counts, Mutation, IsAction
<1> QED
  BY <1>1, <1>2 DEF Next

LEMMA CountIsInvariant == Spec => []CountInv
<1>1. Init => CountInv
  <2> SUFFICES ASSUME Init, NEW r \in Reqs PROVE Counts(r)
    BY DEF CountInv
  <2>1. ActionTypes
    BY ActionInvInit DEF ActionInv
  <2>2. Len(shape[r].fields) \in Nat
    BY <2>1, FieldsAreFields
  <2> QED
    BY <2>2 DEF Init, Counts
<1> QED
  BY <1>1, CountInvStep, ActionInvInit, ActionInvStep, PTL DEF Spec

\* Ready leaves out no step that a request can take.
LEMMA StepIsReady ==
    ASSUME ActionInv, CountInv, NEW r \in Reqs, Step(r)
    PROVE  Ready(r)
<1>1. CASE Act(r)
  <2>1. pc[r] = "acting" /\ IsAction(r)
    BY <1>1 DEF Act, CountInv, Counts
  <2> QED
    BY <2>1 DEF ActionInv, Progress, Ready
<1>2. CASE Forwarded(r) \/ HandlerAnswers(r) \/ Joined(r) \/ Commit(r)
  BY <1>2 DEF Forwarded, HandlerAnswers, Joined, Commit, Ready
<1>3. CASE GetConnection(r) \/ RunQuery(r) \/ SendCommit(r)
  BY <1>3 DEF GetConnection, RunQuery, SendCommit, Ready
<1>4. CASE ExecField(r) \/ DeadlockVictim(r)
  BY <1>4 DEF ExecField, DeadlockVictim, Ready
<1> QED
  BY <1>1, <1>2, <1>3, <1>4 DEF Step

LEMMA LeastOf ==
    ASSUME NEW T \in SUBSET Nat, T # {}
    PROVE  \E n \in T : \A m \in T : n <= m
<1>1. PICK n \in T : \A m \in T : ~(<<m, n>> \in OpToRel(<, Nat))
  BY NatLessThanWellFounded, WFMin
<1>2. \A m \in T : ~(m < n)
  BY <1>1 DEF OpToRel
<1> QED
  BY <1>2

\* In a finite set, following a function from member to member ends up going
\* round: the smallest set that it does not leave is one that it also fills.
LEMMA FollowingGoesRound ==
    ASSUME NEW H, IsFiniteSet(H), H # {}, NEW f \in [H -> H]
    PROVE  \E D \in SUBSET H : /\ D # {}
                               /\ \A x \in D : f[x] \in D
                               /\ \A y \in D : \E x \in D : f[x] = y
<1> DEFINE Closed == {D \in SUBSET H : D # {} /\ \A x \in D : f[x] \in D}
           Sizes == {Cardinality(D) : D \in Closed}
<1>1. \A D \in Closed : IsFiniteSet(D) /\ Cardinality(D) \in Nat
  BY FS_Subset, FS_CardinalityType
<1>2. H \in Closed
  OBVIOUS
<1>3. Sizes \in SUBSET Nat /\ Sizes # {}
  BY <1>1, <1>2
<1>4. PICK D \in Closed : \A E \in Closed : Cardinality(D) <= Cardinality(E)
  <2>1. PICK n \in Sizes : \A m \in Sizes : n <= m
    BY <1>3, LeastOf
  <2> QED
    BY <2>1
<1> DEFINE E == {f[x] : x \in D}
<1>5. E \in Closed /\ E \subseteq D
  BY <1>4
<1>6. E = D
  <2>1. IsFiniteSet(D) /\ Cardinality(D) \in Nat /\ Cardinality(E) \in Nat
    BY <1>1, <1>4, <1>5
  <2>2. Cardinality(D) <= Cardinality(E)
    BY <1>4, <1>5
  <2> HIDE DEF Closed, E
  <2>3. Cardinality(E) <= Cardinality(D) /\ (Cardinality(D) = Cardinality(E) => D = E)
    BY <1>5, <2>1, FS_Subset
  <2> QED
    BY <2>1, <2>2, <2>3
<1> QED
  BY <1>4, <1>6

\* A request that cannot go on waits for a connection or for a row that
\* another request, which holds a connection, has locked.
LEMMA WhatBlocks ==
    ASSUME CoreInv, ActionInv, CountInv, NEW r \in Routed, ~Ready(r)
    PROVE  \/ pc[r] = "wait" /\ Holders # {}
           \/ /\ r \in Holders /\ Running(r)
              /\ lock[NextRow(r)] \in Holders /\ lock[NextRow(r)] # r
<1>0. r \in Reqs /\ pc[r] \in Places /\ pc[r] \notin {"new", "end"} /\ ActionTypes /\ done[r] \in Nat
  BY DEF Routed, CoreInv, Core, ActionInv, ActionTypes
<1>1. pc[r] \in {"acting", "wait", "run"}
  BY <1>0 DEF Places, Ready
<1>2. pc[r] # "acting"
  <2>1. pc[r] = "acting" => IsAction(r) /\ Progress(r)
    BY <1>0 DEF CountInv, Counts, ActionInv
  <2> QED
    BY <2>1 DEF Progress, Ready
<1>3. CASE pc[r] = "wait"
  <2>1. ~(Cardinality(Holders) < PoolSize)
    BY <1>3 DEF Ready
  <2>2. Cardinality({}) = 0 /\ 0 < PoolSize
    BY FS_EmptySet, ExecAssumption
  <2> QED
    BY <1>3, <2>1, <2>2
<1>4. CASE pc[r] = "run"
  <2>1. Mutation(r) /\ done[r] # Len(shape[r].fields)
    BY <1>4 DEF Ready, Mutation
  <2>2. done[r] < Len(shape[r].fields) /\ Len(shape[r].fields) \in Nat
    BY <1>0, <2>1, FieldsAreFields DEF CountInv, Counts
  <2>3. Running(r) /\ r \in Holders
    BY <1>0, <1>4, <2>1, <2>2 DEF Running, Mutation, Holders, Holding
  <2>4. lock[NextRow(r)] # r /\ lock[NextRow(r)] # NoReq
    BY <2>3 DEF Ready
  <2>5. NextRow(r) \in Rows
    BY <1>0, <2>2, FieldsAreFields DEF NextRow
  <2> QED
    BY <2>3, <2>4, <2>5 DEF CoreInv, LockInv
<1> QED
  BY <1>1, <1>2, <1>3, <1>4

\* Requests that all wait for one another's rows wait in a circle, and that
\* is what the database looks for.
LEMMA NoStandstillHere == CoreInv /\ ActionInv /\ CountInv => NoStandstill
<1> SUFFICES ASSUME CoreInv, ActionInv, CountInv, Routed # {}, \A r \in Routed : ~Ready(r)
             PROVE  FALSE
  BY DEF NoStandstill
<1>1. Holders \subseteq Routed /\ Holders \subseteq Reqs
  BY DEF Holders, Holding, Routed
<1>2. Holders # {}
  BY WhatBlocks
<1>3. \A r \in Holders : /\ Running(r)
                         /\ lock[NextRow(r)] \in Holders /\ lock[NextRow(r)] # r
  <2> TAKE r \in Holders
  <2>1. pc[r] # "wait"
    BY DEF Holders, Holding
  <2> QED
    BY <1>1, <2>1, WhatBlocks
<1> DEFINE f == [r \in Holders |-> lock[NextRow(r)]]
<1>4. f \in [Holders -> Holders]
  BY <1>3
<1>5. PICK D \in SUBSET Holders : /\ D # {}
                                  /\ \A x \in D : f[x] \in D
                                  /\ \A y \in D : \E x \in D : f[x] = y
  <2>1. IsFiniteSet(Holders)
    BY DEF CoreInv, PoolInv
  <2> HIDE DEF f
  <2> QED
    BY <1>2, <1>4, <2>1, FollowingGoesRound
<1>6. \A x \in D : <<x, f[x]>> \in WaitsFor
  <2> TAKE x \in D
  <2>1. x \in Reqs /\ f[x] \in Reqs /\ f[x] = lock[NextRow(x)] /\ f[x] # x /\ Running(x)
    BY <1>1, <1>3, <1>5
  <2> HIDE DEF f
  <2> QED
    BY <2>1 DEF WaitsFor
<1>7. PICK r \in D : TRUE
  BY <1>5
<1>8. Cyclic(r)
  <2>1. D \in SUBSET Reqs
    BY <1>1
  <2>2. \A x \in D : \E y \in D : <<x, y>> \in WaitsFor
    BY <1>5, <1>6
  <2>3. \A y \in D : \E x \in D : <<x, y>> \in WaitsFor
    BY <1>5, <1>6
  <2> HIDE DEF f
  <2> QED
    BY <1>7, <2>1, <2>2, <2>3 DEF Cyclic
<1> QED
  BY <1>1, <1>7, <1>8 DEF Ready

\* gql.rs, execute_full: for any number of requests, any pool of at least one
\* connection and rows locked in any order, requests that are under way never
\* all wait for one another, as long as the database breaks cycles of locks.
THEOREM RequestsNeverStandStill == Spec => []NoStandstill
BY NoStandstillHere, CoreIsInvariant, CountIsInvariant, ActionInvInit, ActionInvStep, PTL DEF Spec

----------------------------------------------------------------------------
\* How much of a request is left: its fields and steps to do, and the places
\* on the way through one of them.
Rank(place) == IF place = "new" THEN 6 ELSE IF place = "acting" THEN 5
               ELSE IF place = "wait" THEN 4 ELSE IF place = "run" THEN 3 ELSE 1
Todo(r) == Len(shape[r].steps) + Len(shape[r].fields) - done[r]
Left(r) == IF pc[r] = "end" THEN 0 ELSE Rank(pc[r]) + 6 * Todo(r)

LeftType == \A r \in Reqs : Left(r) \in Nat

\* One request comes closer to its end and no other is set back.
Advances(q) ==
    /\ Left(q) \in Nat /\ Left(q)' \in Nat
    /\ Left(q)' < Left(q)
    /\ \A r \in Reqs \ {q} : Left(r)' = Left(r)

LEMMA TodoType ==
    ASSUME ActionInv, CountInv, NEW r \in Reqs
    PROVE  Todo(r) \in Nat /\ Rank(pc[r]) \in 1..6 /\ Left(r) \in Nat
<1>1. /\ Len(shape[r].steps) \in Nat /\ Len(shape[r].fields) \in Nat /\ done[r] \in Nat
  BY StepsAreSteps, FieldsAreFields DEF ActionInv, ActionTypes
<1>2. done[r] <= Len(shape[r].fields) \/ done[r] <= Len(shape[r].steps)
  <2>1. Counts(r) /\ (IsAction(r) => Progress(r))
    BY DEF ActionInv, CountInv
  <2>2. CASE IsAction(r)
    BY <2>1, <2>2 DEF Progress
  <2>3. CASE Mutation(r)
    BY <2>1, <2>3 DEF Counts
  <2>4. CASE ~IsAction(r) /\ ~Mutation(r)
    BY <1>1, <2>1, <2>4 DEF Counts
  <2> QED
    BY <2>2, <2>3, <2>4
<1>3. Todo(r) \in Nat
  BY <1>1, <1>2 DEF Todo
<1>4. Rank(pc[r]) \in 1..6
  BY DEF Rank
<1> QED
  BY <1>3, <1>4 DEF Left

LEMMA FinishAdvances ==
    ASSUME ActionInv, CountInv, NEW q \in Reqs, NEW a, Finish(q, a), pc[q] # "end"
    PROVE  Left(q)' < Left(q)
<1>1. pc'[q] = "end"
  BY DEF Finish, ActionInv, ActionTypes
<1>2. Left(q)' = 0
  BY <1>1 DEF Left
<1> QED
  BY <1>2, TodoType DEF Left

LEMMA GotoAdvances ==
    ASSUME ActionInv, CountInv, NEW q \in Reqs, NEW p, Goto(q, p), UNCHANGED <<shape, done>>,
           pc[q] # "end", p # "end", Rank(p) < Rank(pc[q])
    PROVE  Left(q)' < Left(q)
<1>1. pc'[q] = p
  BY DEF Goto, ActionInv, ActionTypes
<1>2. Todo(q)' = Todo(q)
  BY DEF Todo
<1>3. Left(q)' = Rank(p) + 6 * Todo(q) /\ Left(q) = Rank(pc[q]) + 6 * Todo(q)
  BY <1>1, <1>2 DEF Left
<1>4. Rank(p) \in Nat
  BY DEF Rank
<1> QED
  BY <1>3, <1>4, TodoType

LEMMA DoneAdvances ==
    ASSUME ActionInv, NEW q \in Reqs, UNCHANGED shape,
           done' = [done EXCEPT ![q] = @ + 1]
    PROVE  Todo(q)' = Todo(q) - 1
<1>1. /\ Len(shape[q].steps) \in Nat /\ Len(shape[q].fields) \in Nat /\ done[q] \in Nat
      /\ done'[q] = done[q] + 1 /\ shape'[q] = shape[q]
  BY StepsAreSteps, FieldsAreFields DEF ActionInv, ActionTypes
<1>2. Todo(q)' = Len(shape[q].steps) + Len(shape[q].fields) - done'[q]
  BY <1>1 DEF Todo
<1>3. Todo(q) = Len(shape[q].steps) + Len(shape[q].fields) - done[q]
  BY DEF Todo
<1> QED
  BY <1>1, <1>2, <1>3

LEMMA ProceedAdvances ==
    ASSUME ActionInv, CountInv, NEW q \in Reqs, Proceed(q), UNCHANGED shape, pc[q] # "end"
    PROVE  Left(q)' < Left(q)
<1>1. CASE Finish(q, "data")
  BY <1>1, FinishAdvances
<1>2. CASE Goto(q, "acting")
  <2>1. pc'[q] = "acting"
    BY <1>2 DEF Goto, ActionInv, ActionTypes
  <2>2. Todo(q)' = Todo(q) - 1
    BY DoneAdvances DEF Proceed
  <2>3. Left(q)' = 5 + 6 * (Todo(q) - 1) /\ Left(q) = Rank(pc[q]) + 6 * Todo(q)
    BY <2>1, <2>2 DEF Left, Rank
  <2> QED
    BY <2>3, TodoType
<1> QED
  BY <1>1, <1>2 DEF Proceed

LEMMA SelectedAdvances ==
    ASSUME ActionInv, CountInv, NEW q \in Reqs, Selected(q), UNCHANGED shape, pc[q] # "end"
    PROVE  Left(q)' < Left(q)
BY ProceedAdvances, FinishAdvances DEF Selected

LEMMA RouteAdvances ==
    ASSUME ActionInv, CountInv, NEW q \in Reqs, Route(q), UNCHANGED shape
    PROVE  Left(q)' < Left(q)
<1>0. shape[q] \in Shapes /\ done' = done /\ pc[q] = "new"
  BY ExecAssumption DEF ActionInv, ActionTypes, Route
<1>1. \/ Goto(q, "forward") \/ Goto(q, "acting") \/ Goto(q, "wait")
      \/ \E a \in Answers : Finish(q, a)
  <2>1. shape[q].kind \in {"remote", "action", "introspection", "query", "mutation", "invalid"}
    BY <1>0 DEF Shapes
  <2> QED
    BY <2>1 DEF Route, Answers
<1>2. Rank("forward") < Rank("new") /\ Rank("acting") < Rank("new") /\ Rank("wait") < Rank("new")
  BY DEF Rank
<1> QED
  BY <1>0, <1>1, <1>2, GotoAdvances, FinishAdvances

LEMMA StepAdvances ==
    ASSUME ActionInv, CountInv, NEW q \in Reqs, Step(q), UNCHANGED shape
    PROVE  Left(q)' < Left(q)
<1>0. pc[q] # "end"
  BY OnlyRoutingStarts
<1>1. CASE Forwarded(q) \/ DeadlockVictim(q) \/ Commit(q)
  BY <1>0, <1>1, FinishAdvances DEF Forwarded, DeadlockVictim, Commit
<1>2. CASE Act(q)
  <2>1. Rank("webhook") < Rank("acting") /\ Rank("wait") < Rank("acting")
    BY DEF Rank
  <2>2. Goto(q, "webhook") \/ Goto(q, "wait") \/ Finish(q, "error")
    BY <1>2 DEF Act
  <2>3. done' = done /\ pc[q] = "acting"
    BY <1>2 DEF Act
  <2> QED
    BY <2>1, <2>2, <2>3, GotoAdvances, FinishAdvances
<1>3. CASE HandlerAnswers(q)
  BY <1>0, <1>3, ProceedAdvances DEF HandlerAnswers
<1>4. CASE GetConnection(q)
  <2>1. Rank("run") < Rank("wait")
    BY DEF Rank
  <2> QED
    BY <1>4, <2>1, GotoAdvances DEF GetConnection
<1>5. CASE RunQuery(q)
  <2>1. Rank("joining") < Rank("run")
    BY DEF Rank
  <2> QED
    BY <1>0, <1>5, <2>1, GotoAdvances, SelectedAdvances DEF RunQuery
<1>6. CASE Joined(q)
  BY <1>0, <1>6, SelectedAdvances DEF Joined
<1>7. CASE ExecField(q)
  <2>1. Todo(q)' = Todo(q) - 1 /\ pc' = pc
    BY <1>7, DoneAdvances DEF ExecField
  <2>2. Left(q)' = Rank(pc[q]) + 6 * (Todo(q) - 1) /\ Left(q) = Rank(pc[q]) + 6 * Todo(q)
    BY <1>0, <2>1 DEF Left
  <2> QED
    BY <2>2, TodoType
<1>8. CASE SendCommit(q)
  <2>1. Rank("commit") < Rank("run")
    BY DEF Rank
  <2> QED
    BY <1>8, <2>1, GotoAdvances DEF SendCommit
<1> QED
  BY <1>1, <1>2, <1>3, <1>4, <1>5, <1>6, <1>7, <1>8 DEF Step

LEMMA FailureAdvances ==
    ASSUME ActionInv, CountInv, NEW q \in Reqs, Fails(q) \/ CommitFails(q) \/ Dropped(q)
    PROVE  Left(q)' < Left(q)
<1>1. PICK a \in {"none", "error"} : Finish(q, a)
  BY DEF Fails, CommitFails, Dropped
<1>2. pc[q] # "end"
  BY OnlyRoutingStarts
<1> QED
  BY <1>1, <1>2, FinishAdvances

\* gql.rs, execute_full: every step of the system, a failure or a dropped
\* client included, brings exactly one request closer to its end, by a
\* measure that cannot fall for ever, and sets no other back.  No request is
\* retried and none loops; with RequestsNeverStandStill, a system of finitely
\* many requests that keeps moving comes to the end of all of them.
THEOREM EveryStepAdvances == Spec => [][\E q \in Reqs : Advances(q)]_vars
<1>1. ActionInv /\ CountInv /\ LeftType' /\ Next => \E q \in Reqs : Advances(q)
  <2> SUFFICES ASSUME ActionInv, CountInv, LeftType', Next
               PROVE  \E q \in Reqs : Advances(q)
    OBVIOUS
  <2>1. PICK q \in Reqs : Route(q) \/ Step(q) \/ Fails(q) \/ CommitFails(q) \/ Dropped(q)
    BY DEF Next
  <2>2. UNCHANGED shape
    BY DEF Next
  <2>3. Left(q)' < Left(q)
    BY <2>1, <2>2, RouteAdvances, StepAdvances, FailureAdvances
  <2>4. Left(q) \in Nat
    BY TodoType
  <2>5. Left(q)' \in Nat
    BY DEF LeftType
  <2>6. ASSUME NEW r \in Reqs \ {q} PROVE Left(r)' = Left(r)
    <3>1. Alone(q)
      BY <2>1, <2>2, RouteProgress, StepProgress, FailureProgress, MovesAlone DEF ActionInv
    <3> QED
      BY <3>1 DEF Alone, Left, Todo
  <2> QED
    BY <2>3, <2>4, <2>5, <2>6 DEF Advances
<1>2. ActionInv /\ CountInv => LeftType
  BY TodoType DEF LeftType
<1> QED
  BY <1>1, <1>2, CountIsInvariant, ActionInvInit, ActionInvStep, PTL DEF Spec
=============================================================================
