# dist-api: TLA+ models, TLC runs and TLAPS proofs

dist-api is a Hasura-compatible GraphQL engine in Rust: it boots from YAML
metadata, introspects its PostgreSQL sources, and answers GraphQL over HTTP and
over websockets (`graphql-ws`), with role-based permissions, JWT or webhook
authentication, remote schemas and actions. This directory holds the models of
its stateful parts, the configurations TLC checks them with, and the proofs
TLAPS checks.

`tlc -config <cfg> <module>` repeats a run, `tlapm <module>` a proof.
`PROJECT.json` lists runs, mutants (a plausible bug for every property, as an
operator marked `Mutant:` next to the definition it would replace), the source
lines behind every definition, the findings and the hazards.

## 1. Inventory

| Component (source) | State it keeps | Operations | What is hard | What makes it correct |
|---|---|---|---|---|
| **graphql-ws connection** (`server/src/ws.rs`) | session headers, map id → task handle, expiry task, shared sink | frames `connection_init`, `start`, `stop`, `connection_terminate`, unknown; poller per live query; expiry timer | reader, pollers and timer share a sink and abort each other; abort does not wait; peers stall or vanish | no poller is lost or outlives its stop; a mutation runs once; the connection ends at token expiry; live queries converge |
| **JWT keys** (`server/src/jwt.rs`) | shared key set | fetch, install, sleep | failing key servers, rotation, caching headers | only served sets are installed, keys survive failures, the refresher never spins, it converges |
| **session resolution** (`server/src/gql.rs`, `jwt.rs`) | none | secret, trusted headers, JWT, hook, unauthorized role | four modes in combination | a role is one that somebody granted; untrusted headers only pick among what a token grants, and the backend flag |
| **request execution** (`gql.rs`, `action.rs`, `remote.rs`) | pool of connections, open transactions | route, forward, call handlers, select, join, mutate, commit | pool without timeout, row locks in any order, every early return, clients that go away | mutations are atomic, nothing leaks, every request ends, an action's answer is whole |
| **deploy and boot** (`migrate.rs`, `main.rs`, `state.rs`) | databases, migration history, pools, catalogs, pruned metadata | `migrate`, `validate`, `sync_sources`, retry loop | separate processes, outages and crashes between any two statements | what is served is backed by the database it is sent to; validated metadata boots whole; boot decides, and serves once its databases are up |
| **inherited roles** (`schema/src/plan.rs`, `plan_mutation.rs`) | none (a worklist) | `expand_role`, `resolve_role_perm`, conflicts | cycles are not rejected; two different walks answer related questions | expansion is exactly the concrete roles; resolution is per level; a permission is lost to a conflict only |
| **query planner** (`plan.rs`, `predicate.rs`) | none | document → IR: roots, selections, filters, orders, limits, aggregates, computed fields, functions, Relay | permissions of several parent roles meet in one statement; every path to another table needs that table's filter | an answer shows exactly the rows and cells the role is granted, and depends on nothing else |
| **mutation planner** (`plan_mutation.rs`) | none | insert, upsert, update, delete, functions as mutations | presets, masks, filters and checks; an upsert is an insert or an update | every row written is one the permission allows |
| **SQL generation** (`sqlgen`, `ir`) | none | IR → one statement per query or mutation field | NULLs, ties, limits at three places, cursors, conflicts inside a statement | the statement means what the IR says; pages neither lose nor repeat rows |
| **introspection** (`introspection.rs`) | none | role → schema | separate code from the planner | it lists what the planner takes |
| naming (`naming.rs`), metadata API queries (`v1.rs`) | none | names of roots; `plan_v1_*` | — | not modelled: a root is a table and a suffix; `plan_v1_*` is called by `crates/schema/tests/planner.rs` only |
| catalog introspection (`catalog`) | none | two groups of `pg_catalog` statements | not in a transaction | see Deploy |
| metadata loader (`metadata`) | none | YAML with includes | include cycles | terminates, includes everything once (not modelled) |
| remote schemas, actions beyond routing | none | SDL permissions, presets, output validation | text and types | not modelled |
| conformance harness | test servers | — | — | not part of the engine |

**Interactions.** `main` loads metadata, calls `sync_sources` until it succeeds
or 30 attempts have failed, spawns the JWKS refresher and serves. An HTTP
request and a websocket `start` frame both call `resolve_session`, then
`execute_with`; a live query repeats the latter once a second. The key cache is
shared by all connections, the pools by all requests. `execute_with` plans the
document (`Planner`), or answers an introspection, and runs what `sqlgen` makes
of the plan.

## 2. Modules

| Module | Models | Extends / instantiates |
|---|---|---|
| `KeyCache` | abstract specification: what a process promises about its keys | — |
| `Jwks` | the refresher of `spawn_refresher` | shown to implement `KeyCache` |
| `WsConnection` | `serve`, its pollers and its expiry task | composes with `KeyCache` |
| `Auth` | `resolve_session` and what it calls | — |
| `Exec` | `execute_full`, `action::resolve`, `remote::forward`, `resolve_remote_joins` | — |
| `Deploy` | `migrate`, `validate`, `main`, `sync_sources`, `default_pool`, `default_catalog` | — |
| `Roles` | `expand_role`, `resolve_role_perm`, conflict reports, `any_role_perm`, `insert_usable` | — |
| `RowFilters` | `combined_filter`, the test for a cell guard, `select_perm_limit`, over parsed filters; three-valued logic | — |
| `Paging` | LIMIT and OFFSET, and the page of a connection | extends `RowFilters` |
| `Sql` | what the statements of `sqlgen` compute | extends `Paging` |
| `Predicate` | table contexts, `parse_bool_exp`, row filters, `parse_order_by`, `flatten` | extends `Sql` |
| `Planner` | `plan`, `build_select`, `walk_table_selection`, aggregates, Relay | extends `Predicate` |
| `Mutations` | `plan_mutation`, and `build_schema_json` | extends `Planner`, instantiates `Roles` |
| `Walk` | abstract specification: what a Relay connection promises a client that pages through it | — |
| `Data` | clients, the planner and a database; the properties of all four | extends `Mutations`, shown to implement `Walk` |
| `MC*` | constant values for TLC | the module they name |
| `*Proofs` | theorems | the module they name |

### KeyCache and Jwks
`KeyCache` is what the rest of the process relies on: a static key never
changes; a `jwk_url` set starts empty and is replaced, whole, by a non-empty set
the key server has published. `Jwks` is the loop that does it: send the request,
look at status, body and caching headers, replace the vector only when a key is
usable, sleep. `JwkRefreshInterval` is `jwk_refresh_interval` with its floor of
one second; no-cache, no-store and expires each keep their own branch.

### WsConnection
One connection; connections share only the database and the keys. `rd` is the
reader: it takes a frame only when the handler of the previous one has returned,
and a handler that sends is a sequence of sends, each of which may wait for the
peer. `op[n]` is the n-th `start` frame; a live query's record is its poller:
`exec` (in the database), `have` (response in hand), `sleep`, `dying` (aborted
while running past its last await: it may still emit one frame), `dead`. `subs`
is the map of handles by `id_key`, in which every id that is not a JSON string
is `""`. Between `RecvStart` and `Register` the poller runs without being in the
map, as between `tokio::spawn` and `insert`. A database state is a number, a
response the state it was computed from. `Aborted` and `Cancel` model
`JoinHandle::abort`.

### Auth
The three resolution paths as functions of configuration, request, token claims
and hook answer; session variables are reduced to where they came from. `Init`
chooses all of them, one step calls the hook where there is one.

### Exec
`shape` fixes what the concurrent requests are; each request walks through
`execute_full`. PostgreSQL and deadpool are external: snapshots, row locks held
to the end of the transaction, a deadlock detector, a pool whose `get` waits. An
error of `commit` leaves open whether it took effect. `Dropped` is hyper
dropping the handler's future when the client leaves.

### Deploy
`yaml` fixes the metadata; a database is the set of tables and functions it
holds. Each of validate's and sync's introspections is two steps (tables, then
functions), and migrations, outages and crashes fall between any two steps. A
failed sync keeps its pools and the helper it created, and loses its catalogs.
The hash maps are functions from names (`Insert`), and `LastNamed` is the entry
that later sources of the same name have overridden.

### Roles
`Pop` is one round of the worklist, as a set (the order of the stack decides
only the order of the result). `ResolveRec` is the recursion of
`resolve_role_perm_rec` with its `visiting` path, as a recursive function of
the three arguments of a call (`Calls`).
`Mutations` takes its permissions from this very definition.

### RowFilters and Paging
The operators of the planner and of SQL generation that do not recurse over
documents, in modules of their own so that theorems can be stated about them:
what the planner makes of the filters, grants and limits of several parents once
the filters are parsed, and which rows a page reads and shows. `Predicate` and
`Sql` use these very definitions.

### Sql, Predicate, Planner, Mutations
Operators, one per function of the code or per branch of a long one, in the
order in which the data flows backwards: `Mutations` and `Planner` make a plan
of a document, `Predicate` the conditions and orders in it, `Sql` is the meaning
of a plan. A table is a set of rows, a condition is TRUE, FALSE or `Null`, a
result is a sequence whose ties are broken by `scan`, the order in which the
database happens to read (both are tried). `Err` is a `PlanError`, `Failed` a
statement that the database refuses; a plan with an `Err` anywhere is `Err`, as
`?` makes it. An operator `Assemble...` builds the plan from parsed parts, its
namesake parses them. Field names are a base and a suffix (`aggregate`, `by_pk`,
`connection`, `insert`, ...). Permissions, tables, functions and inherited roles
are constants.

### Walk
Keys are numbers in the direction of the walk. A page is any set of keys that
comes first among those ahead of all that were shown, filled up to the page size
unless the rows run out, and `done` is what `hasNextPage` (or
`hasPreviousPage`) says of it. Nothing is said of cursors, statements or limits:
`Data` has those, and maps its walk to this one by a row's key (`Place`,
negated when the client pages backwards).

### Data
The state is the database, the answer that is being looked at and the Relay walk
under way. A step plans a request and runs it: a query as one statement
(`OperationToSql` on one state), a mutation field after field with all of it
undone when one fails. Walking clients ask for page after page while the
`Writers` write; other clients introspect and then try fields that the schema
lists and fields that it does not. What metadata and filters *mean* is given a
second time by constants that `MCData` defines by hand (`RowFilter`, `Means`,
`Rank`, `Joins`, `MayInsert`, `MayUpdate`, `MayDelete`): the properties compare
what the code computes with those, never with the planner itself. Answers carry
the keys of the rows they show, for the properties only.

## 3. Runs

| Run | Shows | Bounds, and why they are enough |
|---|---|---|
| `ws_safety` | `NoOrphanPoller`, `StopSilences`, `EndedByItsOwner`, `MutationOnce` under every interleaving, a stalling peer included | 3 starts over a string id and a numeric one: an id is reused while an operation with the other id runs; 620 000 states |
| `ws_expiry` | `SessionHasTimer`, `ExpiryCloses`: no order of inits and starts lets a session in without a timer | 4 kinds of token (short, long, eternal, foreign key), 2 starts, clock to 2 |
| `ws_live` | `LiveQueryConverges`, `DeadConnectionDrains`, `ReaderReturns` | 2 starts of one id, 2 commits of others, rotating JWKS |
| `ws_jwks` (violation) | `connection_init` before the first key fetch arms no timer | one token |
| `jwks` | `ImplementsKeyCache`, `RefetchSpacing`, `KeysConverge` | 2 keys, max-age 0 and 2, all header combinations |
| `auth` | `RoleWasGranted`, `PlainHeadersOnlyPick` (every request against the same one with other plain headers, the backend flag included) | all configurations × requests × hook answers over 2 roles: no rule compares more than two roles |
| `exec` | `AtomicMutation`, `QuerySeesWholeMutations`, `NothingLeaks`, `ActionAnswerIsWhole`, `NoStandstill`, `EveryRequestEnds` | 4 concurrent requests in 3 mixes, pool of 2, one failure anywhere: a lock cycle needs two mutations with two rows each, pool starvation a third request |
| `deploy` | `ServedIsBacked`, `ValidatedBootsWhole`, `BootServes`, `BootDecides` | 4 metadata sets, 3 migrations (create, extend, drop), 2 retries, 1 crash; `MaxAttempts` stands for the code's 30, and one retry more than needed to fail at the second source after succeeding at the first |
| `deploy_multi` (violation) | with the default source second, statements go to another database | 2 sources |
| `roles` | `ExpandsToLeaves`, `ExpandEnds`, `PerLevel`, `ConflictReported`, `HiddenOnlyByConflict` (every graph, wherever permissions are listed) | 4 roles: a conflict one level below the role that is looked at needs four; all acyclic graphs, and all graphs of 2 mutually inheriting roles |
| `data` | `CellsAreGranted`, `RowsAreTheView`, `WritesArePermitted`, `NonInterference`, `SchemaIsThePlanner`, `ImplementsWalk` | 2 tables related by a foreign key, 6 roles (2 inherited, with parents that grant different columns, rows and limits), 8 sessions, 68 documents that use every kind of field, argument and mutation, 2 walks, every initial database of at most 2 authors and 3 articles that the constraints admit; 20 000 states |
| `data_related` (violation) | a filter that compares a column with one of a related row reads rows the role cannot see | 2 documents |

The bounds of `Data` are named: `Possible` (the rows tables may hold; `InBounds`
drops a write that leaves them), `Writers` (the mutations sent during a walk:
those that move rows into or out of it), `SchemaBound` (introspection, which
reads no row, is tried on the empty database only). Two tables are enough for
every path from one table to another and back; three articles for a page, the
row after it and one row that a writer moves; two parents for a cell that some
grant and others do not, three limits (none, 1, 2) for the largest and for none.

`CHECK_DEADLOCK FALSE` is said only where the system really stops: a closed
connection, answered requests, a finished expansion or resolution.

**Fairness.** `WsConnection`: weak fairness of the reader, of every poller, of
the expiry task (tokio schedules every woken task) and of time; none of the
client, the transport, the key server or the database's other users. `Jwks`:
weak fairness of the loop and of time, and, as an assumption about the key
server stated with the property, that real answers come back again and again
(the request has no timeout). `Exec`: strong fairness of each request's steps,
since deadpool queues its waiters and PostgreSQL its lock waiters, and remotes
and handlers answer or fail. `Deploy`: weak fairness of what a started process
does by itself (sync, sleep, retry, install), and of nothing else: nobody has to
start it, or to start it again after it has given up or crashed, for nothing in
the repository does. `BootServes` is therefore about one boot, and a boot that
gives up too early breaks it. `Roles`: the loop runs.

## 4. Proofs

| Theorem | Says |
|---|---|
| `WsConnectionProofs!TypeCorrect` | `Spec => []TypeOK` |
| `WsConnectionProofs!NoPollerIsLost` | `Spec => []NoOrphanPoller` |
| `WsConnectionProofs!StopReachesItsPoller` | `Spec => StopSilences` |
| `WsConnectionProofs!OnlyItsOwnerEnds` | `Spec => EndedByItsOwner`, if no two ids of the client share an `id_key` (`Distinct`) |
| `WsConnectionProofs!ExpiryTaskExists` | `Spec => []SessionHasTimer`, with static keys and the Authorization header |
| `WsConnectionProofs!HandlersComeToAnEnd` | `Spec => [][Nears]_vars`: a frame's handler is at most three steps from the next frame, and only comes nearer |
| `WsConnectionProofs!MutationsRunOnce` | `Spec => []MutationOnce`, if no document has a mutation beside a subscription (`Separate`) |
| `JwksProofs!RefresherImplementsKeyCache` | `Spec => KeyCache` under the refinement mapping |
| `JwksProofs!RefresherNeverSpins` | `Spec => RefetchSpacing` |
| `AuthProofs!AuthTypeCorrect` | `Spec => []TypeOK` |
| `AuthProofs!NoRoleWithoutGrant` | `Spec => []RoleWasGranted` |
| `AuthProofs!HeadersOnlyPick` | `Spec => []PlainHeadersOnlyPick` |
| `ExecProofs!MutationsAreAtomic` | `Spec => []AtomicMutation` |
| `ExecProofs!QueriesSeeWholeMutations` | `Spec => []QuerySeesWholeMutations` |
| `ExecProofs!NothingIsLeaked` | `Spec => []NothingLeaks` |
| `ExecProofs!ActionsAreWhole` | `Spec => []ActionAnswerIsWhole` |
| `ExecProofs!RequestsNeverStandStill` | `Spec => []NoStandstill` |
| `ExecProofs!EveryStepAdvances` | every step brings one request nearer to its end, by a natural number, and sets no other back |
| `DeployProofs!BootIsBacked` | `Spec => []ServedIsBacked` |
| `DeployProofs!ValidatedIsServed` | `Spec => []ValidatedBootsWhole` |
| `DeployProofs!AlignedStatementsHit` | `Spec => []StatementsHitTheirSource`, if `default_pool` finds the pool of the first source (`Aligned`); the metadata of `deploy_multi` is not such |
| `DeployProofs!BootDescends` | every step of a boot that is not decided uses up an attempt or leaves less of this one |
| `RolesProofs!ExpandIsCorrect` | `Spec => []ExpandsToLeaves` |
| `RolesProofs!ExpandShrinks` | `Spec => [][Shrinks]_vars`: every round leaves fewer roles unseen, or as many and a shorter stack |
| `RolesProofs!LostThroughConflict` | `Spec => []HiddenOnlyByConflict` |
| `RolesProofs!ResolutionIsPerLevel` | `Spec => []PerLevel` |
| `RolesProofs!ConflictsAreReported` | `Spec => []ConflictReported` |
| `WalkProofs!PagesAddUp` | `Spec => []Complete`: a walk that is done has shown every row that was there all the while |
| `WalkProofs!ReadingKeepsThePromise` | size + 1 rows read after the cursor, the first size shown: a `Page` of `Walk`, and the cursor of its last row |
| `RowFiltersProofs!FilterIsTheUnion` | the combined filter passes the rows that some parent's filter passes |
| `RowFiltersProofs!GuardShowsTheGranted` | on a visible row a cell is shown exactly if a parent that grants it sees the row |
| `RowFiltersProofs!LimitIsTheMostGenerous` | the limit is the largest of the parents', none exactly if one has none |

The theorems hold for any sets of ids, keys, tokens, documents, requests, rows,
sources, migrations and (finitely many) roles, any pool size, page size and
bounds that satisfy the named assumptions (`KeyAssumption`, `WsAssumption`,
`JwksAssumption`, `ExecAssumption`, `AuthAssumption`, `DeployAssumption`,
`RolesAssumption`, `FiniteRoles`, `FilterAssumption`), which TLC evaluates in the runs. A further
hypothesis of a theorem is one the code needs: section 5 says what happens
without it.

*NoPollerIsLost.* `NoOrphanPoller` alone is not inductive: when `Register`
overwrites a map entry, one has to know that the poller whose entry disappears
is the one that was aborted. The strengthening (`OwnerInv`) says that an entry
of the map names an operation with that very key, that the operation being
registered is not in the map yet, and that free slots are nowhere. *StopSilences*
then follows from the same invariant. *ExpiryTaskExists* rests on `TimerInv`:
with static keys a token that decodes at `start` decoded at the `connection_init`
that set it, and a timer once armed is not disarmed. *RefresherImplementsKeyCache*
needs only that a response in flight carries a published set. The three theorems
of *ExecProofs* share one invariant, `CoreInv`: besides the properties it says
which places a mutation can be at (otherwise a remote join or an action step
could answer it), that a lock belongs to a mutation that holds a connection
(otherwise a select that returns its connection could keep one), and that the
set of holders is finite. Each action is a `Goto`, a `Finish` or a `Finish` that
commits, and there is one lemma for each of these. *ExpandIsCorrect*
uses the loop invariant: what was seen is closed up to the worklist, everything
seen or pending is reachable, and the result is the concrete part of what was
seen. *MutationsRunOnce* rests on `OnceInv`: the number of executions of an
operation is fixed by the state it is in, and an operation that polls carries a
subscription. *RefresherNeverSpins* needs `Paced`: while the refresher sleeps,
the time since the request plus the time left is at least what the headers
allow, or the clock of the model has reached its end. The theorems of
*AuthProofs* reduce to one fact about states, `Decision`: the outcome is what
`Resolve`, or the hook, makes of the configuration and the request; the rest is
one lemma per authentication mode. *ActionsAreWhole* uses `Progress`: where an
action document stands, which handlers have been called, and that none was
passed over; a refused field stops it there.

*OnlyItsOwnerEnds* extends `OwnerInv` to `EndInv`: a started operation carries
an id of the client, and what the reader executes is no poller. Then the entry
that `Register` or `RecvStop` aborts has the key of the frame's id, and
`Distinct` makes it the frame's own id.

*RequestsNeverStandStill.* Suppose that no request under way can go on. Each of
them waits for a connection or for a row (`WhatBlocks`); one that waits for a
connection finds the pool used up, so somebody holds one; a holder waits for a
row that another holder has locked. Following these waits from holder to holder
in a finite set ends up going round (`FollowingGoesRound`: the smallest set of
holders that the waits do not leave is one that they fill), which is a cycle of
row locks, and the database fails one of its statements: that request can go on.
`NothingLeaks` is what makes it true: a lock or a connection without a running
request would be a wait for nobody. `CountInv` is needed besides: how far `done`
can be in a request of each kind. `StepIsReady` shows that `Ready` leaves out no
step; that a ready request has one is a fact about ENABLED, outside this prover,
and can be read off `Step`, disjunct by disjunct. That requests do end is
`EveryRequestEnds`, which TLC checks.

*The measures.* `EveryStepAdvances`, `ExpandShrinks`, `BootDescends` and
`HandlersComeToAnEnd` are the well-founded halves of `EveryRequestEnds`,
`ExpandEnds`, `BootDecides` and `ReaderReturns`: each step of the loop, whatever
else happens in between, lowers a natural number or a pair of them, so nothing
is retried for ever. What fairness adds, that the next step is taken, is left to
TLC.

*RowFiltersProofs* are the kernels of `RowsAreTheView` and `CellsAreGranted`
where several parents meet. A filter is an opaque value, `parse` what
`parse_bool_exp` makes of it and `truth` what SQL makes of the result at one row
(`Evaluates`: an OR is SQL's OR over three values). A row that some parents'
filters leave unknown passes if another's is true; a filter that stands after an
empty one is not parsed; and a guard is left out only where it would change
nothing (all parents grant the cell, or there is one parent). `Selects` says what
`granting_perms` returns; that `SelectSeq`, with which `Predicate` computes it,
meets it for short lists is an ASSUME of `MCData`.

*DeployProofs* has one invariant, `BootInv`. `ServedIsBacked` is about the end
of a sync and says nothing of the way there, so `ProgressInv` says that the
sources before `next` are synced in this attempt and that a failed attempt
starts over with none; `PoolsInv` that a pool which an earlier attempt has left
is on the right database all the same (sync takes it over unseen);
`MetaInv` that what is served is the loaded metadata pruned by the very catalogs
that are installed with it; `CheckInv` that a verdict of `validate` is about the
deployed metadata. `Url` depends on names and URLs only, which pruning keeps
(`UrlOfPruned`).

*RolesProofs.* What a recursive function returns is not given by its definition:
a solution has to exist. `ShortSolution` builds it for calls with at most n
roles off the path, by induction on n, and `ResolveUnfolds` is the equation for
all calls; the set of roles is finite, so the recursion ends on every graph.
Inductions are over sets in place of predicates (`NatStrongInduction` from the
least element of a non-empty set of numbers, `CallInduction` for calls), which
keeps them within first-order reasoning. By `CallInduction`, a permission that is
found is listed for a role behind the one asked for (`ResolvedIsBehind`), a
permission that is the only one behind a role is found (`OnlyOneIsFound`: a path
to it need not come back to where it starts, `PathAvoids`, so the `visiting` set
never cuts off all of them, cycles or not), which together are
`LostThroughConflict`, and a path that meets nothing behind the role makes no
difference (`PathIsIrrelevant`: hence, where there is no cycle, a parent
resolves under its child as by itself, and `ResolutionIsPerLevel`).

*PagesAddUp.* `Complete` is not inductive: `WalkInv` adds that every row which
was there all the while is shown already or lies beyond everything shown, so a
page that takes all that is ahead takes it. `ReadingKeepsThePromise` shows, for
any page size, that the limit, the rows shown, the has-more flag and the cursor
of `connection_expr` make such a page, given that the statement returns the rows
past the cursor in the order of the key; that the planner's statements do is
`ImplementsWalk`, which `data` checks. Together this is why a client of the real
planner and SQL loses no row.

Model-checked only: everything under fairness (`KeysConverge`,
`LiveQueryConverges`, `DeadConnectionDrains`, `ReaderReturns`, `ExpiryCloses`,
`EveryRequestEnds`, `BootServes`, `BootDecides`, `ExpandEnds`: outside
this prover; the measures above are what can be proved of four of them), and
the properties of `Data` (`CellsAreGranted`, `RowsAreTheView`,
`WritesArePermitted`, `NonInterference`, `SchemaIsThePlanner`,
`ImplementsWalk`), whose modules are recursive over documents, filters and
selections (`RECURSIVE` operators and induction over data, outside this prover
too): what is proved of them is the kernel in `RowFilters` and `Paging`, for any
parsed filters, and not that every place of a document uses it.

## 5. Where the code and its words disagree

Shown by a run: a connection that outlives its token (`ws_jwks`); statements
sent to another source's database (`deploy_multi`); a client's filter that
depends on related rows outside the role's view (`data_related`).

Met while modelling, and visible in the models, without a run of their own:

* `ws.rs:229`: `is_subscription` looks at any operation of the document, so a
  mutation beside a subscription is taken for a live query and re-run on every
  poll, while `ws.rs:2` says "Queries/mutations answer with one `data` +
  `complete`" (hence `Separate`).
* `gql.rs:461`: documents for remote schemas and actions are routed before the
  allowlist is consulted; `state.rs:33` says "non-listed queries are rejected".
  `Route` has that order, and `exec` has such documents off the list: they run.
* `gql.rs:194`: with JWT the backend flag is taken from a plain header of any
  request; `jwt.rs:3-4` says "plain X-Hasura-* headers are not trusted in this
  mode". `PlainHeadersOnlyPick` states what holds: beside a verified token plain
  headers set this flag and choose among the token's roles, and do nothing else.
* `ws.rs:127`: ids that are not strings share one key, so a second such live
  query ends the first, and `stop` ends neither (two members of `OtherIds` in
  `MCWs_safety.cfg` break `EndedByItsOwner`).
* `ws.rs:86`: the expiry code reads only the Authorization header, while the
  token may come in a cookie or a custom header (`AtAuthorization = FALSE`
  breaks `ExpiryCloses`); `ws.rs:102`: it waits for a peer that does not drain
  (`CanStall = TRUE`).
* `gql.rs:113`: a trusted request without a role gets the unauthorized role,
  against the comment above it.
* `state.rs:171`: the serving binary creates a schema and a function at boot;
  `migrate.rs:4-5` says that it never runs DDL.
* `migrate.rs:75`: relationship targets, which `migrate.rs:7-8` names, are not
  compared with the database.
* `plan.rs:377`: on a cycle of inherited roles resolution is not per level
  (hence `Acyclic` in `PerLevel`); `plan.rs:539`: `expand_role` returns concrete
  roles only, so a function permission granted to an inherited role is not seen
  from its heirs, while `plan.rs:405-406` says "via any inherited ancestor".
* `plan_mutation.rs:19-40`: an heir of an inherited role that has an insert,
  update or delete permission of its own resolves it and may use the field, but
  `role_has_any_mutation`, which expands to concrete roles, counts it as having
  none, and another field that it may not use is refused with "no mutations
  exist". `HiddenOnlyByConflict` has this case as its second half.
* Other paths on which an answer depends on what the role is not shown, left
  out of `data` for the same reason that `data_related` is a run: `_exists` adds
  no row filter (`predicate.rs:64`), `_ceq` accepts columns that are not granted,
  a computed field in a filter needs no grant (`predicate.rs:111`), and
  `count(columns:)`, `where` and `order_by` on a cell that only some parents
  grant are not guarded (`src/README.md:84`: "guarded aggregates").
* Upserts (`plan_mutation.rs:312`): `update_columns` is not compared with the
  update permission's columns, and the filter and presets are those of a
  permission listed for the role itself, not of an inherited one.
* `plan_mutation.rs:568`: `delete_by_pk` without arguments deletes every row
  that the permission admits; `update_by_pk` takes any columns as a key; a column
  that is both preset and given by the client in an update is assigned twice,
  which the database refuses; an insert of `{}` without presets is a syntax error.
* `sqlgen/src/lib.rs:946`: a check that is unknown (NULL) lets a row pass, as CHECK
  does in SQL; checks and returned relationships read the state before the statement.
* Relay: a cursor of several key columns is compared column by column, and with
  `order_by` still by key, so pages lose rows; a page's size replaces the
  permission's limit (`sqlgen/src/lib.rs:120-122`), so a role gets more rows than
  `plan.rs:1041-1042` says ("The permission limit caps what clients see"):
  `RowsAreTheView` requires both limits, `data` has capped roles with pages up to
  their limit, and a page beyond it breaks the property; `node(id:)` of a table the role cannot see makes a
  statement with two LIMITs; two selections of `node` share the last one's fields.
* `plan.rs:1007`: DISTINCT ON columns lead ORDER BY only if `order_by` does not
  name them; named in another order, the statement is refused.
* `X_aggregate { __typename }` alone is answered with an array.
* `plan.rs:1088`: whether a filter that misses its session variable is an error
  or ignored depends on the order of the parents, when another is unrestricted.
* Introspection: an object relationship over a NOT NULL key is NON_NULL although
  the remote filter can make it null (`introspection.rs:543`), and so is a NOT
  NULL column that is guarded; `<table>_mutation_response` is defined only beside
  an insert permission; tables with a mutation permission only are left out;
  insert and set inputs list columns outside the permission's mask.

Hazards no property covers, with the reason in `PROJECT.json`: the last frame of
an aborted poller, the token behind a running poller, the JWKS request without a
timeout, what comes before the allowlist gate, remote joins into the engine
itself, catalogs mixed from two states of the schema or stale after boot, `page.size + 1` at the largest integer, cyclic fragments.

## 6. Abstractions and what is left out

Documents are reduced, per module, to what its properties tell apart. In `Exec`:
which operation kinds a document has, which rows a mutation writes, whether a
select has remote joins. In `Data`: fields, arguments and literals, already
parsed; the conversion of literals and variables (`value_to_json`), aliases,
quoting, casts, type names and error texts are left out. `sum`, `max` and `min`
stand for all aggregates that the code passes on by name; a comparison that the
code passes on by name (`_like`, jsonb, PostGIS) is one uninterpreted operator.
A connection is answered with edges, cursors and pageInfo whatever part of them
is selected. The conflict target is the primary key. SQL functions have no side
effects. Remote relationships have no fields in `Planner`; `Exec` has the calls.
Signatures, JSON paths and header spelling are reduced to whether a token
verifies and a claim is found. `make_pool` fails exactly for URLs that do not parse.

Not modelled: naming (custom root names, whose collisions are therefore not
seen), `v1.rs` (no request reaches it), the contents of `pg_catalog`, the
loader's file reading, SDL and output validation of remotes and actions
(conversions of text, without state), the conformance harness (tests).

## 7. Plan

1. Core (done): `KeyCache`, `Jwks`, `WsConnection`, then `Auth`, `Exec`,
   `Deploy`, `Roles`, with their proofs.
2. Planner, mutations, SQL and introspection over a small database (done):
   `Sql`, `Predicate`, `Planner`, `Mutations`, `Data`.
3. Proofs of `Jwks`, `Auth`, `Exec` actions and `MutationOnce` (done).
4. Proofs of `Deploy`, of the resolution of permissions in `Roles` and of
   `EndedByItsOwner`; `Walk`, its proof and the check that
   `Data` implements it (done).
5. No standstill, the measures of the loops, and `RowFilters` and `Paging` taken
   out of the recursive modules and proved about (done).
6. Left: a remote that calls back into the engine (a second connection while the
   first is held), output validation of actions and role-scoped remote schemas,
   the loader's include chain.
