------------------------------- MODULE Deploy -------------------------------
(***************************************************************************)
(* Deploying and booting the engine (crates/server/src/migrate.rs,         *)
(* main.rs and state.rs): `migrate` applies pending migrations, `validate` *)
(* compares the YAML metadata with the database, and the serving binary    *)
(* loads the metadata, connects to every source, introspects it, prunes    *)
(* what does not exist and serves.  The three run as separate processes    *)
(* and databases come and go between any two of their statements.          *)
(*                                                                         *)
(* A database schema is the set of tables and functions it holds.  An      *)
(* introspection reads tables and functions with separate statements and   *)
(* no transaction, so it is two steps here.                                *)
(***************************************************************************)
EXTENDS Integers, Sequences

CONSTANTS Names,        \* source names
          Default,      \* the source name "default"
          Tables, Functions,
          Urls,         \* database URLs
          BadUrls,      \* URLs that make_pool cannot parse
          DefaultUrl,   \* --database-url
          Unset,        \* from_env of a variable that is not set
          Yamls,        \* metadata to deploy: sequences of sources
          Conflicts,    \* the planner finds conflicting inherited permissions
          Migrations,   \* <<[adds, drops], ...>>, applied to DefaultUrl
          MaxAttempts,  \* retries of the first sync (30 in the code)
          MaxCrashes    \* bound: crashes of the server

\* A tracked table and the functions of its computed fields.
TableEntries == [name : Tables, computed : SUBSET Functions]
Sources == [name : Names, url : Urls \cup {Unset},
            tables : SUBSET TableEntries, functions : SUBSET Functions]
Objects == Tables \cup Functions

ASSUME DeployAssumption ==
    /\ Default \in Names
    /\ Yamls \subseteq Seq(Sources)
    /\ BadUrls \subseteq Urls /\ DefaultUrl \in Urls \ BadUrls
    /\ Tables \cap Functions = {}
    /\ Conflicts \in BOOLEAN
    /\ Migrations \in Seq([adds : SUBSET Objects, drops : SUBSET Objects])
    /\ MaxAttempts \in Nat /\ MaxCrashes \in Nat

VARIABLES yaml,      \* the metadata's sources, in order
          schema,    \* the objects in each database
          helper,    \* databases that hold dist_api.check_violation
          up,        \* databases that accept connections
          history,   \* migrations applied (refinery_schema_history)
          check,     \* the validate run: [pc, cat, ok]
          pc,        \* where main() is
          next,      \* index of the source being synced
          attempt,   \* failed syncs so far
          fresh,     \* new_catalogs
          pools,     \* source name -> URL of its pool
          meta,      \* engine.metadata.sources
          catalogs,  \* engine.catalogs
          crashes

server == <<pc, next, attempt, fresh, pools, meta, catalogs>>
vars == <<yaml, schema, helper, up, history, check, pc, next, attempt, fresh, pools,
          meta, catalogs, crashes>>

Nothing == <<>>

\* A map with one entry inserted or replaced.
Insert(f, k, v) == [x \in DOMAIN f \cup {k} |-> IF x = k THEN v ELSE f[x]]

----------------------------------------------------------------------------
ResolveSourceUrl(s) == IF s.url = Unset THEN DefaultUrl ELSE s.url

EnsureDefaultSource(ss) ==
    IF ss # <<>> THEN ss
    ELSE <<[name |-> Default, url |-> Unset, tables |-> {}, functions |-> {}]>>

\* Later same-named sources override earlier ones: a name is synced where it
\* first occurs, with the URL of its last occurrence.
IsFirst(ss, i) == \A j \in 1..(i - 1) : ss[j].name # ss[i].name
LastNamed(names, name) ==
    CHOOSE i \in DOMAIN names :
        names[i] = name /\ \A j \in DOMAIN names : names[j] = name => j <= i

SourceNames(ss) == [i \in DOMAIN ss |-> ss[i].name]
SourceUrls(ss) == [i \in DOMAIN ss |-> ResolveSourceUrl(ss[i])]
Url(ss, name) == SourceUrls(ss)[LastNamed(SourceNames(ss), name)]

\* What the database lacks is untracked.
Prune(s, cat) ==
    [s EXCEPT !.tables = {[t EXCEPT !.computed = @ \cap cat] : t \in {u \in s.tables : u.name \in cat}},
              !.functions = @ \cap cat]

\* Mutant: computed fields are not looked at.
TableProblems(ss, cat) ==
    UNION {{t.name : t \in {u \in ss[i].tables : u.name \notin cat}} : i \in DOMAIN ss}

\* check_consistency: the problems it reports, over every source but against
\* one database.
Problems(ss, cat) ==
    LET entries == UNION {ss[i].tables : i \in DOMAIN ss}
    IN {t.name : t \in {u \in entries : u.name \notin cat}}
       \cup UNION {t.computed \ cat : t \in {u \in entries : u.name \in cat}}

\* Databases other than the migrated one may hold anything.
Init ==
    /\ yaml \in Yamls
    /\ schema \in {s \in [Urls -> {{}, Objects}] : \A u \in BadUrls \cup {DefaultUrl} : s[u] = {}}
    /\ helper = {}
    /\ up \in {f \in [Urls -> BOOLEAN] : \A u \in BadUrls : ~f[u]}
    /\ history = 0
    /\ check = [pc |-> "none", cat |-> {}, ok |-> FALSE]
    /\ pc = "off"
    /\ next = 1
    /\ attempt = 0
    /\ fresh = Nothing
    /\ pools = Nothing
    /\ meta = <<>>
    /\ catalogs = Nothing
    /\ crashes = 0

----------------------------------------------------------------------------
(* The deploy-time subcommands.                                             *)

\* `migrate`: refinery applies the next pending version in a transaction of
\* its own and records it; a run that fails leaves the earlier ones applied.
Migrate ==
    /\ up[DefaultUrl]
    /\ history < Len(Migrations)
    /\ LET m == Migrations[history + 1]
       IN schema' = [schema EXCEPT ![DefaultUrl] = (@ \cup m.adds) \ m.drops]
    /\ history' = history + 1
    /\ UNCHANGED <<helper, up, check, server, crashes>>

\* `validate` introspects the tables ...
ValidateTables ==
    /\ up[DefaultUrl]
    /\ check' = [pc |-> "functions", cat |-> schema[DefaultUrl] \cap Tables, ok |-> FALSE]
    /\ UNCHANGED <<schema, helper, up, history, server, crashes>>

\* ... then the functions, and gives its verdict.
ValidateFunctions ==
    /\ check.pc = "functions"
    /\ up[DefaultUrl]
    /\ LET cat == check.cat \cup (schema[DefaultUrl] \cap Functions)
       IN check' = [pc |-> "done", cat |-> cat, ok |-> Problems(yaml, cat) = {} /\ ~Conflicts]
    /\ UNCHANGED <<schema, helper, up, history, server, crashes>>

----------------------------------------------------------------------------
(* The serving binary.                                                      *)

\* main() up to the first sync_sources: the metadata is loaded as it is.
Boot ==
    /\ pc = "off"
    /\ pc' = "tables"
    /\ meta' = EnsureDefaultSource(yaml)
    /\ next' = 1
    /\ attempt' = 0
    /\ fresh' = Nothing
    /\ pools' = Nothing
    /\ catalogs' = Nothing
    /\ UNCHANGED <<schema, helper, up, history, check, crashes>>

Current == meta[next].name
CurrentUrl == Url(meta, Current)
WithPool == Insert(pools, Current, CurrentUrl)

\* A name already seen is not in `resolved` a second time.
SkipSource ==
    /\ pc = "tables"
    /\ next <= Len(meta)
    /\ ~IsFirst(meta, next)
    /\ next' = next + 1
    /\ UNCHANGED <<schema, helper, up, history, check, pc, attempt, fresh, pools, meta,
                   catalogs, crashes>>

\* One source, up to the tables of its catalog: the pool is stored before
\* the first connection, and the helper function is created.
SyncTables ==
    /\ pc = "tables"
    /\ next <= Len(meta)
    /\ IsFirst(meta, next)
    /\ CurrentUrl \notin BadUrls
    /\ up[CurrentUrl]
    /\ pools' = WithPool
    /\ helper' = helper \cup {CurrentUrl}
    /\ fresh' = Insert(fresh, Current, schema[CurrentUrl] \cap Tables)
    /\ pc' = "functions"
    /\ UNCHANGED <<schema, up, history, check, next, attempt, meta, catalogs, crashes>>

\* The functions of its catalog.
SyncFunctions ==
    /\ pc = "functions"
    /\ up[CurrentUrl]
    /\ fresh' = [fresh EXCEPT ![Current] = @ \cup (schema[CurrentUrl] \cap Functions)]
    /\ next' = next + 1
    /\ pc' = "tables"
    /\ UNCHANGED <<schema, helper, up, history, check, attempt, pools, meta, catalogs, crashes>>

\* Mutant: a failed sync is taken up where it stopped, without the catalogs
\* it had read.
SyncResumes ==
    /\ \/ pc = "tables" /\ next <= Len(meta) /\ IsFirst(meta, next) /\ ~up[CurrentUrl]
       \/ pc = "functions" /\ ~up[CurrentUrl]
    /\ pools' = WithPool
    /\ fresh' = Nothing
    /\ UNCHANGED next
    /\ \/ attempt < MaxAttempts /\ attempt' = attempt + 1 /\ pc' = "sleep"
       \/ attempt = MaxAttempts /\ UNCHANGED attempt /\ pc' = "failed"
    /\ UNCHANGED <<schema, helper, up, history, check, meta, catalogs, crashes>>

\* Mutant: attempts are not counted.
SyncRetriesForever ==
    /\ pc = "tables" /\ next <= Len(meta) /\ IsFirst(meta, next)
    /\ CurrentUrl \in BadUrls \/ ~up[CurrentUrl]
    /\ fresh' = Nothing
    /\ next' = 1
    /\ pc' = "sleep"
    /\ UNCHANGED <<schema, helper, up, history, check, attempt, pools, meta, catalogs, crashes>>

\* A source cannot be reached, or its URL not parsed: sync_sources returns
\* early, dropping the catalogs it has read, and main() retries or gives up.
SyncFails ==
    /\ \/ /\ pc = "tables" /\ next <= Len(meta) /\ IsFirst(meta, next)
          /\ \/ CurrentUrl \in BadUrls /\ UNCHANGED pools
             \/ CurrentUrl \notin BadUrls /\ ~up[CurrentUrl] /\ pools' = WithPool
       \/ pc = "functions" /\ ~up[CurrentUrl] /\ UNCHANGED pools
    /\ fresh' = Nothing
    /\ next' = 1
    /\ \/ attempt < MaxAttempts /\ attempt' = attempt + 1 /\ pc' = "sleep"
       \/ attempt = MaxAttempts /\ UNCHANGED attempt /\ pc' = "failed"
    /\ UNCHANGED <<schema, helper, up, history, check, meta, catalogs, crashes>>

\* Mutant: the last sleep is not followed by an attempt.
RetryGivesUp ==
    /\ pc = "sleep"
    /\ pc' = IF attempt = MaxAttempts THEN "failed" ELSE "tables"
    /\ UNCHANGED <<schema, helper, up, history, check, next, attempt, fresh, pools, meta,
                   catalogs, crashes>>

\* The half-second sleep between two attempts is over.
Retry ==
    /\ pc = "sleep"
    /\ pc' = "tables"
    /\ UNCHANGED <<schema, helper, up, history, check, next, attempt, fresh, pools, meta,
                   catalogs, crashes>>

\* Every source is in: under the engine's write lock the metadata is pruned
\* and the catalogs are replaced, and the server starts listening.
InstallCatalogs ==
    /\ pc = "tables"
    /\ next > Len(meta)
    /\ meta' = [i \in DOMAIN meta |->
                  IF meta[i].name \in DOMAIN fresh THEN Prune(meta[i], fresh[meta[i].name])
                  ELSE meta[i]]
    /\ catalogs' = fresh
    /\ pc' = "serving"
    /\ UNCHANGED <<schema, helper, up, history, check, next, attempt, fresh, pools, crashes>>

\* The process is gone and all it kept in memory with it.
Gone ==
    /\ pc' = "off"
    /\ next' = 1 /\ attempt' = 0
    /\ fresh' = Nothing /\ pools' = Nothing /\ meta' = <<>> /\ catalogs' = Nothing
    /\ UNCHANGED <<schema, helper, up, history, check>>

\* main() has returned an error; a supervisor may start it again (external).
Exit == pc = "failed" /\ Gone /\ UNCHANGED crashes

Crash ==
    /\ pc # "off"
    /\ crashes < MaxCrashes
    /\ Gone
    /\ crashes' = crashes + 1

\* A database stops or starts accepting connections (external).
DbFlips(u) ==
    /\ u \notin BadUrls
    /\ up' = [up EXCEPT ![u] = ~@]
    /\ UNCHANGED <<schema, helper, history, check, server, crashes>>

\* What the process does by itself once it has been started.
ServerStep ==
    \/ SkipSource \/ SyncTables \/ SyncFunctions \/ SyncFails \/ Retry \/ InstallCatalogs

Next ==
    /\ \/ Migrate \/ ValidateTables \/ ValidateFunctions
       \/ Boot \/ ServerStep \/ Exit \/ Crash
       \/ \E u \in Urls : DbFlips(u)
    /\ UNCHANGED yaml

Spec == Init /\ [][Next]_vars

\* A process that was started runs.  Nobody has to start it, again or at all.
FairSpec == Spec /\ WF_vars(ServerStep /\ UNCHANGED yaml)

----------------------------------------------------------------------------
(* What a request uses.                                                     *)

\* default_catalog(): the catalog a document is planned against.
DefaultCatalog ==
    IF Default \in DOMAIN catalogs THEN catalogs[Default]
    ELSE IF meta[1].name \in DOMAIN catalogs THEN catalogs[meta[1].name] ELSE {}

\* default_pool(): "default", or any entry of the hash map.
DefaultPoolUrls ==
    IF Default \in DOMAIN pools THEN {pools[Default]} ELSE {pools[n] : n \in DOMAIN pools}

\* Planner::new takes the tables of the first source, and a table that is
\* not in the catalog does not exist.
PlannedTables == {t \in meta[1].tables : t.name \in DefaultCatalog}

----------------------------------------------------------------------------
\* A server that serves has, for every source, a catalog and a pool on the
\* database the last source of that name points at, finds there the helper
\* that permission checks call, and refers to nothing its catalog lacks,
\* however many syncs failed half-way before; a server that does not serve
\* yet has installed nothing.
ServedIsBacked ==
    IF pc = "serving"
    THEN \A i \in DOMAIN meta :
            LET n == meta[i].name
            IN /\ n \in DOMAIN catalogs
               /\ n \in DOMAIN pools /\ pools[n] = Url(meta, n) /\ pools[n] \in helper
               /\ meta[i].functions \subseteq catalogs[n]
               /\ \A t \in meta[i].tables : t.name \in catalogs[n] /\ t.computed \subseteq catalogs[n]
    ELSE /\ catalogs = Nothing
         /\ meta \in {<<>>, EnsureDefaultSource(yaml)}

\* What `validate` passed boots whole: if every source the server introspected
\* looked as the validated database did, no tracked table and no computed
\* field was pruned.
ValidatedBootsWhole ==
    (/\ pc = "serving" /\ check.pc = "done" /\ check.ok
     /\ \A n \in DOMAIN catalogs : catalogs[n] = check.cat)
    => \A i \in DOMAIN meta : meta[i].tables = EnsureDefaultSource(yaml)[i].tables

\* README.md:94: "multi-source metadata; per-source pools/catalogs".  A
\* statement planned for a table is sent to the database of the source that
\* tracks the table.
StatementsHitTheirSource ==
    pc = "serving" /\ PlannedTables # {} => DefaultPoolUrls = {Url(meta, meta[1].name)}

\* main.rs:206: "The database may still be starting; retry the first sync."  A
\* boot that has not given up when the databases come up for good serves, from
\* whatever half-done attempt or sleep it is in and without being started
\* again, unless a source's URL cannot be parsed.
Parsable == \A i \in DOMAIN yaml : Url(yaml, yaml[i].name) \notin BadUrls
AllUp == \A u \in Urls \ BadUrls : up[u]
Booting == {"tables", "functions", "sleep"}
BootServes ==
    [](pc \in Booting /\ Parsable /\ [](AllUp /\ pc # "off") => <>(pc = "serving"))

\* The retry loop is bounded: a boot ends, serving or with an error, even if
\* a source can never be reached or databases keep failing half-way.
BootDecides == pc = "tables" ~> pc \in {"serving", "failed", "off"}
=============================================================================
