---------------------------- MODULE DeployProofs ----------------------------
(***************************************************************************)
(* Booting over failing databases, for every metadata, every sequence of   *)
(* migrations and any number of attempts and crashes: what a server serves *)
(* is backed by the databases it is connected to, and a boot decides.      *)
(***************************************************************************)
EXTENDS Deploy, TLAPS

\* What the server has loaded, before anything is pruned.
Loaded == EnsureDefaultSource(yaml)

\* The part of a sync that a source name has behind it.
Synced(n) == n \in DOMAIN fresh /\ n \in DOMAIN pools /\ pools[n] \in helper

\* `next` counts sources, and meta is the loaded metadata or nothing, until
\* it is pruned by the catalogs that are installed with it.
MetaInv ==
    /\ yaml \in Yamls
    /\ pc \in {"off", "tables", "functions", "sleep", "failed", "serving"}
    /\ next \in Nat \ {0}
    /\ pc = "off" => meta = <<>>
    /\ pc \notin {"off", "serving"} => meta = Loaded
    /\ pc # "serving" => catalogs = Nothing
    /\ pc = "serving" =>
          /\ DOMAIN meta = DOMAIN Loaded
          /\ \A i \in DOMAIN Loaded :
                /\ Loaded[i].name \in DOMAIN catalogs
                /\ meta[i] = Prune(Loaded[i], catalogs[Loaded[i].name])

\* A pool, also one that an earlier attempt has left, is on the database of
\* its source.
PoolsInv ==
    \A n \in DOMAIN pools :
        /\ pools[n] = Url(Loaded, n)
        /\ \E i \in DOMAIN Loaded : Loaded[i].name = n

\* The sources before `next` are synced in this attempt; a failed attempt
\* starts over with none.
ProgressInv ==
    /\ pc \in {"off", "sleep", "failed"} => next = 1
    /\ pc \in {"tables", "functions"} =>
          \A j \in DOMAIN Loaded : j < next => Synced(Loaded[j].name)
    /\ pc = "functions" => next \in DOMAIN Loaded /\ Synced(Loaded[next].name)
    /\ pc = "serving" =>
          /\ fresh = catalogs
          /\ \A j \in DOMAIN Loaded : Synced(Loaded[j].name)

\* A verdict of `validate` is about the metadata that is deployed.
CheckInv == check.pc = "done" /\ check.ok => Problems(yaml, check.cat) = {}

BootInv == MetaInv /\ PoolsInv /\ ProgressInv /\ CheckInv

----------------------------------------------------------------------------
(* The operators.                                                           *)

LEMMA LoadedSources ==
    ASSUME NEW ss \in Yamls
    PROVE  /\ EnsureDefaultSource(ss) \in Seq(Sources)
           /\ Len(EnsureDefaultSource(ss)) > 0
           /\ DOMAIN EnsureDefaultSource(ss) = 1..Len(EnsureDefaultSource(ss))
<1>1. ss \in Seq(Sources)
  BY DeployAssumption
<1>2. CASE ss # <<>>
  BY <1>1, <1>2 DEF EnsureDefaultSource
<1>3. CASE ss = <<>>
  <2> DEFINE d == [name |-> Default, url |-> Unset, tables |-> {}, functions |-> {}]
  <2>1. d \in Sources
    BY DeployAssumption DEF Sources
  <2>2. EnsureDefaultSource(ss) = <<d>>
    BY <1>3 DEF EnsureDefaultSource
  <2> HIDE DEF d
  <2> QED
    BY <2>1, <2>2
<1> QED
  BY <1>2, <1>3

\* Pruning keeps the name and the URL of a source, and leaves in it nothing
\* that the catalog lacks.
LEMMA Pruned ==
    ASSUME NEW s \in Sources, NEW cat
    PROVE  LET p == Prune(s, cat)
           IN /\ p.name = s.name /\ p.url = s.url
              /\ p.functions \subseteq cat
              /\ \A t \in p.tables : t.name \in cat /\ t.computed \subseteq cat
<1>1. \A t \in s.tables : t \in TableEntries
  BY DEF Sources
<1> QED
  BY <1>1 DEF Prune, Sources, TableEntries

\* A URL depends on the names and the URLs of the sources only.
LEMMA UrlOfPruned ==
    ASSUME NEW ss \in Seq(Sources), NEW tt, NEW n,
           DOMAIN tt = DOMAIN ss,
           \A i \in DOMAIN ss : tt[i].name = ss[i].name /\ tt[i].url = ss[i].url
    PROVE  Url(tt, n) = Url(ss, n)
<1>1. SourceNames(tt) = SourceNames(ss)
  BY DEF SourceNames
<1>2. SourceUrls(tt) = SourceUrls(ss)
  BY DEF SourceUrls, ResolveSourceUrl
<1> QED
  BY <1>1, <1>2 DEF Url

\* A source without problems is not pruned.
LEMMA NothingPruned ==
    ASSUME NEW ss \in Seq(Sources), NEW cat, Problems(ss, cat) = {}, NEW i \in DOMAIN ss
    PROVE  Prune(ss[i], cat).tables = ss[i].tables
<1> DEFINE F(t) == [t EXCEPT !.computed = @ \cap cat]
<1>1. ss[i] \in Sources
  OBVIOUS
<1>2. \A t \in ss[i].tables : t \in TableEntries
  BY <1>1 DEF Sources
<1>3. \A t \in ss[i].tables : t.name \in cat /\ t.computed \subseteq cat
  <2> DEFINE entries == UNION {ss[j].tables : j \in DOMAIN ss}
  <2> SUFFICES ASSUME NEW t \in ss[i].tables PROVE t.name \in cat /\ t.computed \subseteq cat
    OBVIOUS
  <2>1. t \in entries
    OBVIOUS
  <2>2. {u.name : u \in {w \in entries : w.name \notin cat}} = {}
    BY DEF Problems
  <2>3. UNION {u.computed \ cat : u \in {w \in entries : w.name \in cat}} = {}
    BY DEF Problems
  <2> HIDE DEF entries
  <2>4. t.name \in cat
    BY <2>1, <2>2
  <2>5. t.computed \ cat = {}
    BY <2>1, <2>3, <2>4
  <2> QED
    BY <2>4, <2>5
<1>4. \A t \in ss[i].tables : F(t) = t
  <2> SUFFICES ASSUME NEW t \in ss[i].tables PROVE F(t) = t
    OBVIOUS
  <2>1. t \in [name : Tables, computed : SUBSET Functions] /\ t.computed \cap cat = t.computed
    BY <1>2, <1>3 DEF TableEntries
  <2> QED
    BY <2>1
<1>5. {u \in ss[i].tables : u.name \in cat} = ss[i].tables
  BY <1>3
<1>6. Prune(ss[i], cat).tables
         = {F(t) : t \in {u \in ss[i].tables : u.name \in cat}}
  BY <1>1 DEF Prune, Sources
<1> HIDE DEF F
<1> QED
  BY <1>4, <1>5, <1>6

----------------------------------------------------------------------------
(* The invariant.                                                           *)

LEMMA BootInvInit == Init => BootInv
BY DEF Init, BootInv, MetaInv, PoolsInv, ProgressInv, CheckInv, Nothing

\* The steps of `migrate`, of `validate` and of the databases leave the
\* server alone.
LEMMA OthersKeepBootInv ==
    ASSUME BootInv, UNCHANGED <<yaml, helper, server>>, CheckInv'
    PROVE  BootInv'
<1>1. MetaInv'
  BY DEF BootInv, MetaInv, Loaded, server
<1>2. PoolsInv'
  BY DEF BootInv, PoolsInv, Loaded, server
<1>3. ProgressInv'
  BY DEF BootInv, ProgressInv, Loaded, Synced, server
<1> QED
  BY <1>1, <1>2, <1>3 DEF BootInv

LEMMA BootKeepsBootInv ==
    ASSUME BootInv, Boot, UNCHANGED yaml PROVE BootInv'
<1>1. Loaded' = Loaded /\ DOMAIN Loaded = 1..Len(Loaded) /\ Len(Loaded) \in Nat
  BY LoadedSources DEF BootInv, MetaInv, Loaded
<1>2. pc' = "tables" /\ next' = 1 /\ meta' = Loaded /\ catalogs' = Nothing /\ pools' = Nothing
  BY DEF Boot, Loaded
<1>3. MetaInv'
  BY <1>1, <1>2 DEF BootInv, MetaInv
<1>4. PoolsInv'
  BY <1>2 DEF PoolsInv, Nothing
<1>5. ProgressInv'
  BY <1>1, <1>2 DEF ProgressInv
<1>6. CheckInv'
  BY DEF Boot, BootInv, CheckInv
<1> QED
  BY <1>3, <1>4, <1>5, <1>6 DEF BootInv

LEMMA SkipKeepsBootInv ==
    ASSUME BootInv, SkipSource, UNCHANGED yaml PROVE BootInv'
<1>1. Loaded = meta /\ DOMAIN Loaded = 1..Len(Loaded) /\ next \in DOMAIN Loaded /\ next \in Nat \ {0}
  BY LoadedSources DEF SkipSource, BootInv, MetaInv, Loaded
<1>2. PICK j \in 1..(next - 1) : Loaded[j].name = Loaded[next].name
  BY <1>1 DEF SkipSource, IsFirst
<1>3. Synced(Loaded[j].name)
  BY <1>1, <1>2 DEF SkipSource, BootInv, ProgressInv
<1>4. \A i \in DOMAIN Loaded : i < next + 1 => Synced(Loaded[i].name)
  BY <1>1, <1>2, <1>3 DEF SkipSource, BootInv, ProgressInv
<1>5. MetaInv' /\ PoolsInv' /\ CheckInv'
  BY DEF SkipSource, BootInv, MetaInv, PoolsInv, CheckInv, Loaded
<1>6. ProgressInv'
  BY <1>4 DEF SkipSource, ProgressInv, Synced, Loaded
<1> QED
  BY <1>5, <1>6 DEF BootInv

LEMMA SyncTablesKeepsBootInv ==
    ASSUME BootInv, SyncTables, UNCHANGED yaml PROVE BootInv'
<1>1. Loaded = meta /\ DOMAIN Loaded = 1..Len(Loaded) /\ next \in DOMAIN Loaded /\ next \in Nat \ {0}
  BY LoadedSources DEF SyncTables, BootInv, MetaInv, Loaded
<1>2. Current = Loaded[next].name /\ CurrentUrl = Url(Loaded, Current)
  BY <1>1 DEF Current, CurrentUrl
<1>3. /\ DOMAIN pools' = DOMAIN pools \cup {Current}
      /\ \A n \in DOMAIN pools' : pools'[n] = IF n = Current THEN CurrentUrl ELSE pools[n]
      /\ DOMAIN fresh' = DOMAIN fresh \cup {Current}
      /\ helper' = helper \cup {CurrentUrl}
  BY DEF SyncTables, WithPool, Insert
<1>4. Synced(Loaded[next].name)'
  BY <1>2, <1>3 DEF Synced, Loaded, SyncTables
<1>5. \A n : Synced(n) => Synced(n)'
  BY <1>3 DEF Synced
<1>6. PoolsInv'
  BY <1>1, <1>2, <1>3 DEF PoolsInv, BootInv, Loaded
<1>7. MetaInv' /\ CheckInv'
  BY DEF SyncTables, BootInv, MetaInv, CheckInv, Loaded
<1>8. ProgressInv'
  BY <1>1, <1>4, <1>5 DEF SyncTables, BootInv, ProgressInv, Loaded
<1> QED
  BY <1>6, <1>7, <1>8 DEF BootInv

LEMMA SyncFunctionsKeepsBootInv ==
    ASSUME BootInv, SyncFunctions, UNCHANGED yaml PROVE BootInv'
<1>1. next \in Nat \ {0} /\ DOMAIN Loaded = 1..Len(Loaded) /\ Len(Loaded) \in Nat
  BY LoadedSources DEF BootInv, MetaInv, Loaded
<1>2. DOMAIN fresh' = DOMAIN fresh
  BY DEF SyncFunctions
<1>3. \A n : Synced(n) => Synced(n)'
  BY <1>2 DEF Synced, SyncFunctions
<1>4. MetaInv' /\ CheckInv' /\ PoolsInv'
  BY DEF SyncFunctions, BootInv, MetaInv, CheckInv, PoolsInv, Loaded
<1>5. ProgressInv'
  BY <1>1, <1>3 DEF SyncFunctions, BootInv, ProgressInv, Loaded
<1> QED
  BY <1>4, <1>5 DEF BootInv

LEMMA SyncFailsKeepsBootInv ==
    ASSUME BootInv, SyncFails, UNCHANGED yaml PROVE BootInv'
<1>1. PoolsInv'
  <2>1. CASE UNCHANGED pools
    BY <2>1 DEF BootInv, PoolsInv, Loaded
  <2>2. CASE pc = "tables" /\ next <= Len(meta) /\ pools' = WithPool
    <3>1. Loaded = meta /\ DOMAIN Loaded = 1..Len(Loaded) /\ next \in DOMAIN Loaded
      BY <2>2, LoadedSources DEF BootInv, MetaInv, Loaded
    <3>2. Current = Loaded[next].name /\ CurrentUrl = Url(Loaded, Current)
      BY <3>1 DEF Current, CurrentUrl
    <3>3. /\ DOMAIN pools' = DOMAIN pools \cup {Current}
          /\ \A n \in DOMAIN pools' : pools'[n] = IF n = Current THEN CurrentUrl ELSE pools[n]
      BY <2>2 DEF WithPool, Insert
    <3> QED
      BY <3>1, <3>2, <3>3 DEF PoolsInv, BootInv, Loaded
  <2> QED
    BY <2>1, <2>2 DEF SyncFails
<1>2. MetaInv' /\ CheckInv' /\ ProgressInv'
  BY DEF SyncFails, BootInv, MetaInv, CheckInv, ProgressInv, Loaded
<1> QED
  BY <1>1, <1>2 DEF BootInv

LEMMA RetryKeepsBootInv ==
    ASSUME BootInv, Retry, UNCHANGED yaml PROVE BootInv'
<1>1. DOMAIN Loaded = 1..Len(Loaded) /\ Loaded' = Loaded
  BY LoadedSources DEF BootInv, MetaInv, Loaded
<1>2. MetaInv'
  BY <1>1 DEF Retry, BootInv, MetaInv
<1>3. PoolsInv'
  BY <1>1 DEF Retry, BootInv, PoolsInv
<1>4. ProgressInv'
  BY <1>1 DEF Retry, BootInv, ProgressInv
<1>5. CheckInv'
  BY DEF Retry, BootInv, CheckInv
<1> QED
  BY <1>2, <1>3, <1>4, <1>5 DEF BootInv

LEMMA InstallKeepsBootInv ==
    ASSUME BootInv, InstallCatalogs, UNCHANGED yaml PROVE BootInv'
<1>1. /\ Loaded = meta /\ Loaded \in Seq(Sources) /\ DOMAIN Loaded = 1..Len(Loaded)
      /\ next \in Nat \ {0} /\ Loaded' = Loaded
  BY LoadedSources DEF InstallCatalogs, BootInv, MetaInv, Loaded
<1>2. \A j \in DOMAIN Loaded : Synced(Loaded[j].name)
  BY <1>1 DEF InstallCatalogs, BootInv, ProgressInv
<1>3. catalogs' = fresh /\ UNCHANGED <<fresh, pools, helper, next>> /\ pc' = "serving"
  BY DEF InstallCatalogs
<1>4. DOMAIN meta' = DOMAIN Loaded
  BY <1>1 DEF InstallCatalogs
<1>5. \A i \in DOMAIN Loaded : /\ Loaded[i].name \in DOMAIN fresh
                               /\ meta'[i] = Prune(Loaded[i], fresh[Loaded[i].name])
  BY <1>1, <1>2 DEF InstallCatalogs, Synced
<1>6. MetaInv'
  BY <1>1, <1>3, <1>4, <1>5 DEF BootInv, MetaInv
<1>7. ProgressInv'
  BY <1>1, <1>2, <1>3 DEF ProgressInv, Synced
<1>8. PoolsInv' /\ CheckInv'
  BY <1>1, <1>3 DEF InstallCatalogs, BootInv, PoolsInv, CheckInv
<1> QED
  BY <1>6, <1>7, <1>8 DEF BootInv

LEMMA GoneKeepsBootInv ==
    ASSUME BootInv, Gone, UNCHANGED yaml PROVE BootInv'
<1>1. MetaInv'
  BY DEF Gone, BootInv, MetaInv
<1>2. PoolsInv'
  BY DEF Gone, PoolsInv, Nothing
<1>3. ProgressInv' /\ CheckInv'
  BY DEF Gone, BootInv, ProgressInv, CheckInv
<1> QED
  BY <1>1, <1>2, <1>3 DEF BootInv

LEMMA BootInvStep == BootInv /\ [Next]_vars => BootInv'
<1> SUFFICES ASSUME BootInv, [Next]_vars PROVE BootInv'
  OBVIOUS
<1>1. CASE UNCHANGED vars
  BY <1>1, OthersKeepBootInv DEF vars, server, BootInv, CheckInv
<1> SUFFICES ASSUME Next PROVE BootInv'
  BY <1>1
<1>2. UNCHANGED yaml
  BY DEF Next
<1>3. CASE Migrate
  BY <1>2, <1>3, OthersKeepBootInv DEF Migrate, BootInv, CheckInv
<1>4. CASE ValidateTables
  BY <1>2, <1>4, OthersKeepBootInv DEF ValidateTables, CheckInv
<1>5. CASE ValidateFunctions
  BY <1>2, <1>5, OthersKeepBootInv DEF ValidateFunctions, CheckInv
<1>6. CASE Crash
  BY <1>2, <1>6, GoneKeepsBootInv DEF Crash
<1>7. CASE \E u \in Urls : DbFlips(u)
  BY <1>2, <1>7, OthersKeepBootInv DEF DbFlips, BootInv, CheckInv
<1>8. CASE ServerStep
  BY <1>2, <1>8, SkipKeepsBootInv, SyncTablesKeepsBootInv, SyncFunctionsKeepsBootInv,
     SyncFailsKeepsBootInv, RetryKeepsBootInv, InstallKeepsBootInv DEF ServerStep
<1>9. CASE Boot
  BY <1>2, <1>9, BootKeepsBootInv
<1>10. CASE Exit
  BY <1>2, <1>10, GoneKeepsBootInv DEF Exit
<1> QED
  BY <1>3, <1>4, <1>5, <1>6, <1>7, <1>8, <1>9, <1>10 DEF Next

LEMMA BootInvIsInvariant == Spec => []BootInv
BY BootInvInit, BootInvStep, PTL DEF Spec

----------------------------------------------------------------------------
(* The theorems.                                                            *)

\* The metadata that is served has the names and the URLs of the loaded one.
LEMMA ServedSources ==
    ASSUME BootInv, pc = "serving"
    PROVE  /\ DOMAIN meta = DOMAIN Loaded
           /\ \A i \in DOMAIN Loaded : meta[i].name = Loaded[i].name
           /\ \A n : Url(meta, n) = Url(Loaded, n)
<1>1. Loaded \in Seq(Sources) /\ DOMAIN meta = DOMAIN Loaded
  BY LoadedSources DEF BootInv, MetaInv, Loaded
<1>2. \A i \in DOMAIN Loaded : Loaded[i] \in Sources
  BY <1>1
<1>3. \A i \in DOMAIN Loaded : meta[i].name = Loaded[i].name /\ meta[i].url = Loaded[i].url
  BY <1>2, Pruned DEF BootInv, MetaInv
<1> QED
  BY <1>1, <1>3, UrlOfPruned

LEMMA ServesWhatIsThere == BootInv => ServedIsBacked
<1> SUFFICES ASSUME BootInv PROVE ServedIsBacked
  OBVIOUS
<1>1. CASE pc # "serving"
  BY <1>1 DEF BootInv, MetaInv, ServedIsBacked, Loaded
<1>2. CASE pc = "serving"
  <2> SUFFICES ASSUME NEW i \in DOMAIN meta, NEW n, n = meta[i].name
               PROVE  /\ n \in DOMAIN catalogs
                      /\ n \in DOMAIN pools /\ pools[n] = Url(meta, n) /\ pools[n] \in helper
                      /\ meta[i].functions \subseteq catalogs[n]
                      /\ \A t \in meta[i].tables : t.name \in catalogs[n] /\ t.computed \subseteq catalogs[n]
    BY <1>2 DEF ServedIsBacked
  <2>1. i \in DOMAIN Loaded /\ n = Loaded[i].name /\ Url(meta, n) = Url(Loaded, n)
    BY <1>2, ServedSources
  <2>2. Loaded[i] \in Sources
    BY <2>1, LoadedSources DEF BootInv, MetaInv, Loaded
  <2>3. n \in DOMAIN pools /\ pools[n] \in helper /\ pools[n] = Url(Loaded, n)
    BY <1>2, <2>1 DEF BootInv, ProgressInv, PoolsInv, Synced
  <2>4. n \in DOMAIN catalogs /\ meta[i] = Prune(Loaded[i], catalogs[n])
    BY <1>2, <2>1 DEF BootInv, MetaInv
  <2> QED
    BY <2>1, <2>2, <2>3, <2>4, Pruned
<1> QED
  BY <1>1, <1>2

\* Whatever databases do during a boot, however many attempts fail half-way
\* and however often the process dies: a server that serves has for every
\* source a catalog, a pool on the right database with the helper function
\* in it, and metadata its catalogs back (state.rs, sync_sources); one that
\* does not has installed nothing.
THEOREM BootIsBacked == Spec => []ServedIsBacked
BY BootInvIsInvariant, ServesWhatIsThere, PTL

LEMMA BootsWhole == BootInv => ValidatedBootsWhole
<1> SUFFICES ASSUME BootInv, pc = "serving", check.pc = "done", check.ok,
                    \A n \in DOMAIN catalogs : catalogs[n] = check.cat,
                    NEW i \in DOMAIN meta
             PROVE  meta[i].tables = Loaded[i].tables
  BY DEF ValidatedBootsWhole, Loaded
<1>1. /\ yaml \in Yamls /\ yaml \in Seq(Sources) /\ Problems(yaml, check.cat) = {}
      /\ i \in DOMAIN Loaded /\ meta[i] = Prune(Loaded[i], check.cat)
  BY DeployAssumption DEF BootInv, MetaInv, CheckInv
<1>2. CASE yaml # <<>>
  BY <1>1, <1>2, NothingPruned DEF Loaded, EnsureDefaultSource
<1>3. CASE yaml = <<>>
  <2>1. Loaded[i] \in Sources
    BY <1>1, LoadedSources DEF Loaded
  <2>2. Loaded = <<[name |-> Default, url |-> Unset, tables |-> {}, functions |-> {}]>>
    BY <1>3 DEF Loaded, EnsureDefaultSource
  <2>3. Loaded[i].tables = {}
    BY <1>1, <2>2
  <2>4. Prune(Loaded[i], check.cat).tables = {}
    BY <2>1, <2>3 DEF Prune, Sources
  <2> QED
    BY <1>1, <2>3, <2>4
<1> QED
  BY <1>2, <1>3

\* What `validate` passed boots whole (migrate.rs, check_consistency against
\* state.rs, sync_sources): no tracked table and no computed field is lost
\* when every introspected database looks as the validated one did, for
\* every metadata, migrations between the two reads included.
THEOREM ValidatedIsServed == Spec => []ValidatedBootsWhole
BY BootInvIsInvariant, BootsWhole, PTL

\* The database that default_pool() finds is the one of the source whose
\* tables are planned: the source named default, or any source if none is,
\* lies on the database of the first.
Aligned(ss) ==
    IF \E i \in DOMAIN ss : ss[i].name = Default THEN Url(ss, Default) = Url(ss, ss[1].name)
    ELSE \A i \in DOMAIN ss : Url(ss, ss[i].name) = Url(ss, ss[1].name)

LEMMA AlignedHits ==
    ASSUME BootInv, Aligned(Loaded), pc = "serving"
    PROVE  DefaultPoolUrls = {Url(meta, meta[1].name)}
<1>1. 1 \in DOMAIN Loaded
  BY LoadedSources DEF BootInv, MetaInv, Loaded
<1>2. Url(meta, meta[1].name) = Url(Loaded, Loaded[1].name)
  BY <1>1, ServedSources
<1>3. \A j \in DOMAIN Loaded : Loaded[j].name \in DOMAIN pools
  BY DEF BootInv, ProgressInv, Synced
<1>4. CASE \E i \in DOMAIN Loaded : Loaded[i].name = Default
  <2>1. Default \in DOMAIN pools /\ pools[Default] = Url(Loaded, Loaded[1].name)
    BY <1>3, <1>4 DEF Aligned, BootInv, PoolsInv
  <2> QED
    BY <1>2, <2>1 DEF DefaultPoolUrls
<1>5. CASE ~\E i \in DOMAIN Loaded : Loaded[i].name = Default
  <2>1. Default \notin DOMAIN pools
    BY <1>5 DEF BootInv, PoolsInv
  <2>2. \A n \in DOMAIN pools : pools[n] = Url(Loaded, Loaded[1].name)
    BY <1>5 DEF Aligned, BootInv, PoolsInv
  <2>3. DefaultPoolUrls = {pools[n] : n \in DOMAIN pools}
    BY <2>1 DEF DefaultPoolUrls
  <2> QED
    BY <1>1, <1>2, <1>3, <2>2, <2>3
<1> QED
  BY <1>4, <1>5

\* Statements reach the source they were planned for (state.rs, default_pool
\* against plan.rs, Planner::new) whenever the deployed metadata is aligned;
\* the run deploy_multi has metadata that is not.
THEOREM AlignedStatementsHit ==
    ASSUME \A ss \in Yamls : Aligned(EnsureDefaultSource(ss))
    PROVE  Spec => []StatementsHitTheirSource
<1>1. BootInv => StatementsHitTheirSource
  BY AlignedHits DEF StatementsHitTheirSource, BootInv, MetaInv, Loaded
<1> QED
  BY <1>1, BootInvIsInvariant, PTL

----------------------------------------------------------------------------
(* A boot decides after finitely many steps.                                *)

\* The attempts are counted up to their bound, the sources up to their end.
AttemptInv ==
    /\ attempt \in 0..MaxAttempts
    /\ pc = "tables" => next <= Len(meta) + 1

\* What an attempt has left to do: sleep, then two steps for every source.
BootLeft == CASE pc = "sleep" -> 2 * Len(meta) + 2
              [] pc = "tables" -> 2 * (Len(meta) + 1 - next) + 1
              [] OTHER -> 2 * (Len(meta) + 1 - next)

\* A boot that goes on has used up an attempt, or has less left of this one.
Descends ==
    \/ UNCHANGED server
    \/ attempt' > attempt /\ attempt' <= MaxAttempts
    \/ /\ attempt' = attempt
       /\ BootLeft \in Nat /\ BootLeft' \in Nat
       /\ BootLeft' < BootLeft

UndecidedDescends == pc \in Booting /\ pc' \in Booting => Descends

LEMMA MetaLength ==
    ASSUME BootInv, pc \in Booting
    PROVE  Len(meta) \in Nat /\ DOMAIN meta = 1..Len(meta) /\ meta = Loaded
BY LoadedSources DEF BootInv, MetaInv, Booting, Loaded

LEMMA AttemptInvStep == BootInv /\ AttemptInv /\ [Next]_vars => AttemptInv'
<1> SUFFICES ASSUME BootInv, AttemptInv, [Next]_vars PROVE AttemptInv'
  OBVIOUS
<1>0. MaxAttempts \in Nat /\ attempt \in Nat /\ next \in Nat \ {0}
  BY DeployAssumption DEF AttemptInv, BootInv, MetaInv
<1>1. CASE UNCHANGED server
  BY <1>1 DEF AttemptInv, server
<1>2. CASE Gone
  BY <1>0, <1>2 DEF Gone, AttemptInv
<1>3. CASE Boot /\ UNCHANGED yaml
  <2>1. Len(meta') \in Nat
    BY <1>3, LoadedSources DEF Boot, BootInv, MetaInv
  <2> QED
    BY <1>0, <1>3, <2>1 DEF Boot, AttemptInv
<1>4. CASE SkipSource
  <2>1. Len(meta) \in Nat
    BY <1>4, MetaLength DEF SkipSource, Booting
  <2> QED
    BY <1>0, <1>4, <2>1 DEF SkipSource, AttemptInv
<1>5. CASE SyncTables
  BY <1>5 DEF SyncTables, AttemptInv
<1>6. CASE SyncFunctions
  <2>1. Len(meta) \in Nat /\ next \in 1..Len(meta)
    BY <1>6, MetaLength DEF SyncFunctions, Booting, BootInv, ProgressInv
  <2> QED
    BY <1>0, <1>6, <2>1 DEF SyncFunctions, AttemptInv
<1>7. CASE SyncFails
  <2>1. attempt' \in 0..MaxAttempts /\ pc' \in {"sleep", "failed"}
    BY <1>0, <1>7 DEF SyncFails, AttemptInv
  <2> QED
    BY <2>1 DEF AttemptInv
<1>8. CASE Retry
  <2>1. next' = 1 /\ Len(meta) \in Nat /\ meta' = meta /\ attempt' = attempt
    BY <1>8, MetaLength DEF Retry, Booting, BootInv, ProgressInv
  <2> QED
    BY <2>1 DEF AttemptInv
<1>9. CASE InstallCatalogs
  BY <1>9 DEF InstallCatalogs, AttemptInv
<1>10. \/ UNCHANGED server \/ Gone \/ SkipSource \/ SyncTables \/ SyncFunctions \/ SyncFails
       \/ Retry \/ InstallCatalogs \/ (Boot /\ UNCHANGED yaml)
  BY DEF Next, vars, server, Migrate, ValidateTables, ValidateFunctions, ServerStep, Crash,
     DbFlips, Exit
<1> QED
  BY <1>1, <1>2, <1>3, <1>4, <1>5, <1>6, <1>7, <1>8, <1>9, <1>10

\* main.rs, the retry loop of the first sync: as long as a boot neither serves
\* nor fails, each of its steps uses up one of the bounded attempts or leaves
\* less to do in this one, whatever the databases do meanwhile; so it takes
\* finitely many steps to decide.
THEOREM BootDescends == Spec => [][UndecidedDescends]_vars
<1>1. Init => AttemptInv
  BY DeployAssumption DEF Init, AttemptInv
<1>2. BootInv /\ AttemptInv /\ [Next]_vars /\ pc \in Booting /\ pc' \in Booting => Descends
  <2> SUFFICES ASSUME BootInv, AttemptInv, [Next]_vars, pc \in Booting, pc' \in Booting
               PROVE  Descends
    OBVIOUS
  <2>0. /\ MaxAttempts \in Nat /\ attempt \in 0..MaxAttempts /\ next \in Nat \ {0}
        /\ Len(meta) \in Nat
    BY DeployAssumption, MetaLength DEF AttemptInv, BootInv, MetaInv
  <2>1. CASE SkipSource \/ SyncTables
    <3>1. pc = "tables" /\ next <= Len(meta) /\ meta' = meta /\ attempt' = attempt
      BY <2>1 DEF SkipSource, SyncTables
    <3>2. \/ pc' = "tables" /\ next' = next + 1
          \/ pc' = "functions" /\ next' = next
      BY <2>1 DEF SkipSource, SyncTables
    <3>3. CASE pc' = "tables" /\ next' = next + 1
      BY <2>0, <3>1, <3>3 DEF Descends, BootLeft
    <3>4. CASE pc' = "functions" /\ next' = next
      BY <2>0, <3>1, <3>4 DEF Descends, BootLeft
    <3> QED
      BY <3>2, <3>3, <3>4
  <2>2. CASE SyncFunctions
    <3>1. /\ pc = "functions" /\ next <= Len(meta) /\ meta' = meta /\ attempt' = attempt
          /\ pc' = "tables" /\ next' = next + 1
      BY <2>2, MetaLength DEF SyncFunctions, BootInv, ProgressInv
    <3> QED
      BY <2>0, <3>1 DEF Descends, BootLeft
  <2>3. CASE SyncFails
    <3>1. attempt < MaxAttempts /\ attempt' = attempt + 1
      BY <2>3 DEF SyncFails, Booting
    <3> QED
      BY <2>0, <3>1 DEF Descends
  <2>4. CASE Retry
    <3>1. pc = "sleep" /\ pc' = "tables" /\ next' = 1 /\ meta' = meta /\ attempt' = attempt
      BY <2>4 DEF Retry, BootInv, ProgressInv
    <3> QED
      BY <2>0, <3>1 DEF Descends, BootLeft
  <2>5. \/ UNCHANGED server \/ SkipSource \/ SyncTables \/ SyncFunctions \/ SyncFails \/ Retry
    BY DEF Next, vars, server, Migrate, ValidateTables, ValidateFunctions, ServerStep, Crash,
       DbFlips, Exit, Gone, InstallCatalogs, Boot, Booting
  <2> QED
    BY <2>1, <2>2, <2>3, <2>4, <2>5 DEF Descends
<1> QED
  BY <1>1, <1>2, AttemptInvStep, BootInvIsInvariant, PTL DEF Spec, UndecidedDescends
=============================================================================
