-------------------------- MODULE ChartPreparation --------------------------
(***************************************************************************)
(* What happens to the charts of a state file before and after its command *)
(* (Run.WithPreparedCharts): repositories are synced, a temporary directory*)
(* is made, the lock file pins versions, workers bring every release's     *)
(* chart into a form helm can use, dependencies are built, and in the end  *)
(* what was made is removed.  A run handles one state file; the runs of a  *)
(* process share the repositories and the cache of downloaded charts.      *)
(*                                                                         *)
(* A job is <<run, release>>.  Temporary directories are <<kind, run,      *)
(* release>>: of a "run", a "chart" downloaded into it, a "copy" whose     *)
(* dependencies are rewritten, the output of chartify ("chartified").      *)
(***************************************************************************)
EXTENDS ReleaseValues, ChartLock, FiniteSets

CONSTANTS
  Runs,     \* 1..n, in the order of the state files
  Setups    \* what is asked: see MCPreparedRun for the fields

ASSUME ChartPreparationAssumption ==
  /\ Runs \subseteq Nat \ {0}
  /\ \A s \in Setups : \A j \in DOMAIN s.rel :
       /\ j = <<j[1], j[2]>> /\ j[1] \in Runs
       /\ s.rel[j].kind = "repo" => s.rel[j].repo \in DOMAIN s.published
  /\ \A s \in Setups : \A p \in DOMAIN s.published :
       s.published[p] # {} => \E newest \in s.published[p] \cap Nat : s.published[p] \subseteq 0..newest

VARIABLES
  setup,
  hooked,     \* the global hooks a run has executed, by their index
  lock,       \* helmfile.lock
  cache,      \* downloadedCharts: key -> {} or {the directory}
  dirs,       \* temporary directories that exist
  files,      \* temporary values files that exist
  pc,         \* where each run is
  prep,       \* how far each job's chart is
  mine,       \* files the worker of a job removes when it is done
  path,       \* the temporary directory a job's chart is in: {} or {it}
  tracked,    \* chartifyTempDirs of each run
  built,      \* jobs whose dependencies were built
  updated,    \* runs that updated the repositories for their builds
  reported    \* runs that returned an error

prepVars == <<setup, hooked, lock, cache, dirs, files, pc, prep, mine, path, tracked, built,
              updated, reported>>

Jobs == DOMAIN setup.rel
Rel(j) == setup.rel[j]
JobsOf(r) == {j \in Jobs : j[1] = r}
\* the releases of a state file, also in its order
RelsOf(r) == {Rel(j) : j \in JobsOf(r)}
Listed(rels) == [i \in {rel.at : rel \in rels} |-> CHOOSE rel \in rels : rel.at = i]

Fail(r) == pc' = [pc EXCEPT ![r] = "deferred"] /\ reported' = reported \cup {r}
Go(r, to) == pc' = [pc EXCEPT ![r] = to] /\ UNCHANGED reported

-----------------------------------------------------------------------------
\* Decisions of prepareChartForRelease

\* release.X != nil && *release.X || release.X == nil && HelmDefaults.X
Either(own, default) == own = "on" \/ (own = "unset" /\ default)
SkipDeps(j) ==
  Rel(j).kind = "repo" \/ setup.skipDeps \/ Either(Rel(j).skipDeps, setup.defSkipDeps)
SkipRefresh(j) ==
  Rel(j).kind # "local" \/ setup.skipRefresh \/ Either(Rel(j).skipRefresh, setup.defSkipRefresh)

\* a directory without Chart.yaml is made a chart; patches are applied to one
LocalDir(j) == Rel(j).kind \in {"local", "getter"} /\ ~Rel(j).chartYaml
NeedsChartify(j) == LocalDir(j) \/ Rel(j).patches # <<>>
Chartifies(j) == NeedsChartify(j) /\ (setup.cmd # "pull" \/ LocalDir(j))

\* releasesNeedCharts, filterReleasesForBuild
Needed(r) == {j \in JobsOf(r) : Rel(j).desired /\ (setup.cmd = "build" => Rel(j).patches = <<>>)}

Key(j) == <<Rel(j).chart, IF Rel(j).kind = "repo" THEN Pinned(lock, Rel(j)) ELSE {}>>
Keys == {Key(j) : j \in Jobs}
\* PrepareCharts: downloaded once if several releases use it, with the same
\* flags, and helm need not verify it
Shared(r, key) ==
  LET users == {j \in Needed(r) : Key(j) = key}
  IN  /\ setup.prefetch /\ Cardinality(users) > 1
      /\ Cardinality({Rel(j).flags : j \in users}) = 1
      /\ \A j \in users : ~Rel(j).verify /\ Rel(j).kind = "repo"
Forced(j) == setup.forceDownload \/ Shared(j[1], Key(j))

-----------------------------------------------------------------------------
\* The run, up to the workers

\* state files are handled one after the other, the first error ends it, or all
\* at once
MayStart(r) == setup.parallel \/ \A q \in Runs : q < r => pc[q] = "done" /\ q \notin reported
NeverStarts(r) == ~setup.parallel /\ \E q \in reported : q < r /\ pc[q] = "done"

\* Bus.Trigger: the hooks of an event, up to the first that fails; disabling
\* hooks is for those who have none
TriggeredBy(event) ==
  {i \in DOMAIN setup.hooks : event \in setup.hooks[i].events}
Trigger(event) ==
  LET bad == {i \in TriggeredBy(event) : ~setup.hooks[i].ok}
  IN  IF setup.hooksDisabled /\ setup.hooks # <<>> THEN [ok |-> FALSE, executed |-> {}]
      ELSE [ok |-> bad = {},
            executed |-> {i \in TriggeredBy(event) : \A b \in bad : i <= b}]
Triggers(r, event) == hooked' = [hooked EXCEPT ![r] = @ \cup Trigger(event).executed]

\* repositories, for some commands only the registries; then the directory,
\* unless the command is given one
Start(r) ==
  /\ pc[r] = "idle" /\ MayStart(r)
  /\ \/ /\ Go(r, "prepare")
        /\ dirs' = dirs \cup (IF setup.outputDir THEN {} ELSE {<<"run", r, "">>})
     \/ /\ pc' = [pc EXCEPT ![r] = "done"] /\ reported' = reported \cup {r}
        /\ UNCHANGED dirs
  /\ UNCHANGED <<setup, hooked, lock, cache, files, prep, mine, path, tracked, built, updated>>

\* the versions of the lock file, or of the repositories, before the selection; then
\* a job for each release that needs its chart
PrepareCharts(r) == Resolvable(lock, RelsOf(r)) /\ Go(r, "workers")
NoCharts == setup.cmd \in {"write-values", "list"}
\* the global prepare hooks; then, for commands that use charts, the versions
\* are pinned, which needs repositories helm can read, and the workers start
Prepare(r) ==
  /\ pc[r] = "prepare" /\ Triggers(r, "prepare")
  /\ \/ ~Trigger("prepare").ok /\ Fail(r)
     \/ Trigger("prepare").ok /\ NoCharts /\ Go(r, "command")
     \/ Trigger("prepare").ok /\ ~NoCharts /\ PrepareCharts(r)
     \/ Trigger("prepare").ok /\ ~NoCharts /\ Fail(r)
  /\ UNCHANGED <<setup, lock, cache, dirs, files, prep, mine, path, tracked, built, updated>>

-----------------------------------------------------------------------------
\* A worker, with one release

At(j, where) == pc[j[1]] = "workers" /\ j \in Needed(j[1]) /\ prep[j] = where
Set(j, to) == prep' = [prep EXCEPT ![j] = to]
Removed(fs) == files' = files \ (IF setup.skipCleanup THEN {} ELSE fs)
\* the deferred clean() of PrepareChartify
Leave(j, to) == Set(j, to) /\ Removed(mine[j]) /\ mine' = [mine EXCEPT ![j] = {}]
unchangedPrep == <<setup, hooked, lock, tracked, built, updated, pc, reported>>

\* goGetterChart: what is not written for go-getter stays as it is
GoGetterChart(j) ==
  Set(j, "fetched") \/ (Rel(j).kind = "getter" /\ Set(j, "failed"))
\* the prepare hooks, which may make the chart, then go-getter
Fetch(j) ==
  /\ At(j, "todo")
  /\ GoGetterChart(j) \/ Set(j, "failed")
  /\ UNCHANGED <<unchangedPrep, cache, dirs, files, mine, path>>

\* the files chartify will need
PrepareChartify(j) ==
  LET f == ChartifyFiles(<<j, "chartify">>, Rel(j), setup.handler)
  IN  /\ At(j, "fetched")
      /\ IF ~NeedsChartify(j) THEN Set(j, "place") /\ UNCHANGED <<files, mine>>
         ELSE IF f.ok THEN /\ Set(j, IF ~Chartifies(j) THEN "place" ELSE "chartify")
                           /\ files' = files \cup f.files
                           /\ mine' = [mine EXCEPT ![j] = f.files]
         ELSE /\ Set(j, "failed")
              /\ files' = files \cup f.left \cup (IF setup.skipCleanup THEN f.files ELSE {})
              /\ UNCHANGED mine
      /\ UNCHANGED <<unchangedPrep, cache, dirs, path>>

\* rewriteChartDependencies: relative file:// dependencies do not survive the
\* move of the chart, so chartify is given a copy; it is removed on errors
HasFileDeps(j) == Rel(j).fileDeps /\ Rel(j).kind # "repo" /\ Rel(j).chartYaml
Copy(j) == <<"copy", j[1], j[2]>>
RewriteDependencies(j) ==
  /\ At(j, "chartify") /\ HasFileDeps(j)
  /\ \/ Set(j, "rewritten") /\ dirs' = dirs \cup {Copy(j)} /\ UNCHANGED <<files, mine>>
     \/ Leave(j, "failed") /\ UNCHANGED dirs
  /\ UNCHANGED <<unchangedPrep, cache, path>>
ReadyForChartify(j) ==
  \/ At(j, "rewritten")
  \/ At(j, "chartify") /\ ~HasFileDeps(j)

Chartified(j) == <<"chartified", j[1], j[2]>>
Chartify(j) ==
  /\ ReadyForChartify(j)
  /\ \/ /\ Leave(j, "ready")
        /\ dirs' = (dirs \ {Copy(j)}) \cup {Chartified(j)}
        /\ path' = [path EXCEPT ![j] = {Chartified(j)}]
        /\ tracked' = [tracked EXCEPT ![j[1]] = @ \cup {Chartified(j)}]
     \/ /\ Leave(j, "failed") /\ dirs' = dirs \ {Copy(j)}
        /\ UNCHANGED <<path, tracked>>
  /\ UNCHANGED <<setup, hooked, lock, cache, pc, built, updated, reported>>

\* directories are used where they are, except that pull copies them
Downloaded(j) == <<"chart", IF setup.outputDir THEN 0 ELSE j[1], j[2]>>
UseDirectory(j) ==
  /\ At(j, "place") /\ Rel(j).kind # "repo"
  /\ \/ setup.cmd # "pull" /\ Leave(j, "ready") /\ UNCHANGED <<dirs, path>>
     \/ setup.cmd = "pull" /\ Leave(j, "failed") /\ UNCHANGED <<dirs, path>>
     \/ /\ setup.cmd = "pull" /\ Leave(j, "ready")
        /\ dirs' = dirs \cup {Downloaded(j)} /\ path' = [path EXCEPT ![j] = {Downloaded(j)}]
  /\ UNCHANGED <<unchangedPrep, cache>>
\* helm downloads the chart itself when it uses it
LeaveToHelm(j) ==
  /\ At(j, "place") /\ Rel(j).kind = "repo" /\ ~Forced(j)
  /\ Leave(j, "ready") /\ UNCHANGED <<unchangedPrep, cache, dirs, path>>

\* A bug: what the cache names is not looked for.
InCacheUnchecked(j) == cache[Key(j)] # {}
InCache(j) == cache[Key(j)] # {} /\ cache[Key(j)] \subseteq dirs
\* forcedDownloadChart: the cache is read without a lock, and again with it
UseCached(j) ==
  /\ At(j, "place") /\ Rel(j).kind = "repo" /\ Forced(j) /\ InCache(j)
  /\ Leave(j, "ready") /\ path' = [path EXCEPT ![j] = cache[Key(j)]]
  /\ UNCHANGED <<unchangedPrep, cache, dirs>>
Download(j) ==
  /\ At(j, "place") /\ Rel(j).kind = "repo" /\ Forced(j) /\ ~InCache(j)
  /\ \/ /\ Leave(j, "ready")
        /\ dirs' = dirs \cup {Downloaded(j)} /\ path' = [path EXCEPT ![j] = {Downloaded(j)}]
        /\ cache' = [cache EXCEPT ![Key(j)] = {Downloaded(j)}]
     \/ Leave(j, "failed") /\ UNCHANGED <<dirs, path, cache>>
  /\ UNCHANGED unchangedPrep

Worker(j) == \/ Fetch(j) \/ PrepareChartify(j) \/ RewriteDependencies(j) \/ Chartify(j)
             \/ UseDirectory(j) \/ LeaveToHelm(j) \/ UseCached(j) \/ Download(j)

-----------------------------------------------------------------------------
\* The run, after the workers

unchangedRun == <<setup, lock, cache, dirs, files, prep, mine, path, tracked>>

\* the first error ends it; all workers have returned by then
Gather(r) ==
  /\ pc[r] = "workers" /\ \A j \in Needed(r) : prep[j] \in {"ready", "failed"}
  /\ IF \E j \in Needed(r) : prep[j] = "failed" THEN Fail(r) ELSE Go(r, "build")
  /\ UNCHANGED <<unchangedRun, hooked, built, updated>>

Builds(r) == {j \in Needed(r) : prep[j] = "ready" /\ ~SkipDeps(j)}
\* A bug: the repositories are only updated if no build refreshes them itself.
UpdatesIfAllSkip(r) ==
  /\ Builds(r) # {} /\ (\A j \in Builds(r) : SkipRefresh(j))
  /\ ~setup.skipRefresh /\ ~setup.defSkipRefresh /\ setup.needsUpdate
\* runHelmDepBuilds: one update for all builds that are told to skip theirs
UpdatesRepos(r) ==
  /\ \E j \in Builds(r) : SkipRefresh(j)
  /\ ~setup.skipRefresh /\ ~setup.defSkipRefresh /\ setup.needsUpdate
UpdateRepo(r) ==
  /\ pc[r] = "build" /\ UpdatesRepos(r) /\ r \notin updated
  /\ \/ updated' = updated \cup {r} /\ UNCHANGED <<pc, reported>>
     \/ Fail(r) /\ UNCHANGED updated
  /\ UNCHANGED <<unchangedRun, hooked, built>>

\* one at a time; an error is tolerated for a chart go-getter fetched
BuildDeps(r, j) ==
  /\ pc[r] = "build" /\ (UpdatesRepos(r) => r \in updated)
  /\ j \in Builds(r) \ built
  /\ \/ built' = built \cup {j} /\ UNCHANGED <<pc, reported>>
     \/ Rel(j).kind # "getter" /\ Fail(r) /\ UNCHANGED built
  /\ UNCHANGED <<unchangedRun, hooked, updated>>
Prepared(r) ==
  /\ pc[r] = "build" /\ Builds(r) \subseteq built /\ Go(r, "command")
  /\ UNCHANGED <<unchangedRun, hooked, built, updated>>

\* global cleanup hooks, whose error is all that WithPreparedCharts returns; not
\* after a preparation that failed
GlobalCleanup(r) ==
  /\ pc[r] = "cleanup" /\ Triggers(r, "cleanup")
  /\ IF Trigger("cleanup").ok THEN Go(r, "deferred") ELSE Fail(r)
  /\ UNCHANGED <<unchangedRun, built, updated>>

\* the deferred functions: CleanupChartifyTempDirs, then the run's directory
Deferred(r) ==
  /\ pc[r] = "deferred" /\ Go(r, "done")
  /\ dirs' = {d \in dirs \ tracked[r] : ~(d[1] \in {"run", "chart"} /\ d[2] = r)}
  /\ tracked' = [tracked EXCEPT ![r] = {}]
  /\ UNCHANGED <<setup, hooked, lock, cache, files, prep, mine, path, built, updated>>

\* the constraints may have been edited since the lock file was written
WhenLocked(rels) ==
  [i \in DOMAIN rels |-> [kind |-> rels[i].kind, chart |-> rels[i].chart, repo |-> rels[i].repo,
                          allowed |-> rels[i].wasAllowed]]

PrepInit ==
  /\ setup \in Setups
  /\ lock \in {NoLock, UpdateLock(NoLock, WhenLocked(Listed(RelsOf(1))), setup.published)}
  /\ cache = [k \in Keys |-> {}]
  /\ dirs = {} /\ files = {} /\ built = {} /\ updated = {} /\ reported = {}
  /\ hooked = [r \in Runs |-> {}]
  /\ pc = [r \in Runs |-> "locate"] /\ tracked = [r \in Runs |-> {}]
  /\ prep = [j \in Jobs |-> "todo"] /\ mine = [j \in Jobs |-> {}]
  /\ path = [j \in Jobs |-> {}]

PrepNext ==
  \/ \E r \in Runs : \/ Start(r) \/ Prepare(r) \/ Gather(r) \/ UpdateRepo(r) \/ Prepared(r)
                     \/ GlobalCleanup(r) \/ Deferred(r)
  \/ \E r \in Runs : \E j \in JobsOf(r) : BuildDeps(r, j)
  \/ \E j \in Jobs : Worker(j)
=============================================================================
