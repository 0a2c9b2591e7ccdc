# A verification of helmfile in TLA+

helmfile reads state files that declare helm releases and brings a cluster to what they say:
it loads and merges the files, plans the releases along their `needs`, downloads and prepares
their charts, and runs helm and hooks for them, concurrently where it may. This directory holds
TLA+ modules of the parts where order, concurrency and partial failure matter, the TLC
configurations that check them, and proofs for the TLA+ proof system.

- [The system](#the-system): its components, their state, how they interact, what is hard
- [Modules](#modules): which module models what, and how it corresponds to the code
- [Runs](#runs): what is checked, with which bounds, and under which fairness
- [Proofs](#proofs)
- [Disagreements between code and documentation](#disagreements)
- [What is not modelled](#not-modelled), and the [plan](#plan)

Paths such as `state.go:1442` are relative to `pkg/state`, `app.go:…` to `pkg/app`;
`PROJECT.json` maps every definition to the lines it stands for and lists the hazards.

## The system

### Components

| component | code | state | operations |
|---|---|---|---|
| command line | `main.go`, `cmd/`, `pkg/config` | the flags of one command | parse, one getter per option, exit code |
| visiting state files | `app.go`, `app/context.go` | working directory, `updatedRepos`, errors and matches of the files | visit files in parallel or in sequence, sub-helmfiles, add repositories once |
| needs and plan | `state_run.go`, `app.go`, `state.go` | the graph of releases | select, resolve duplicates, collect needs, plan, split and plan again |
| commands | `app.go`, `app/run.go` | releases to update and to delete, affected releases, errors | apply, sync, destroy; diff, template, lint, status, test |
| worker pool | `state_run.go` | two channels and a WaitGroup | scatterGather, iterateOnReleases |
| upgrading releases | `state.go` SyncReleases | affected releases and their mutex, chart locks, results | hooks, list, uninstall, upgrade, reinstall, track |
| deleting releases | `state.go` DeleteReleasesForSync, DeleteReleases | affected releases | hooks, uninstall |
| kubedog tracking | `pkg/kubedog`, `helmx.go` | contexts, channels and flags per release | baselines, freshness gates, tracking, two safety valves |
| chart download | `state.go` getOCIChart, forcedDownloadChart | directories, table of downloaded charts, four layers of locks | look up, lock, validate, refresh, download, release |
| chart preparation | `app/run.go`, `state.go` PrepareCharts, `helmx.go`, `chart_dependency.go` | temporary directories and values files, `helmfile.lock`, repositories updated | global hooks, download, chartify, dependency builds, pinning of versions, clean-up |
| values of releases | `state.go` generateValuesFiles, `storage.go` | temporary files | look for files, render, decrypt, write, remove |
| diff and its like | `state.go` DiffReleases, TemplateReleases, … | generated values files, results | prepare, helm diff, exit codes; template, lint, unittest, write-values |
| loading of state | `desired_state_file_loader.go`, `two_pass_renderer.go`, `create.go`, `envvals_loader.go`, `inherited.go`, `state_exec_tmpl.go` | layers of values, decrypted secrets | render, decode, merge, decrypt concurrently, inherit, execute templates |
| helm command lines | `state.go`, `helmx.go` | none | the flags of fetch, pull, diff, upgrade, template, lint, delete |
| helm processes | `pkg/helmexec` | decrypted secrets, extra arguments | run, interrupt, retry |
| hooks | `pkg/event` | none | trigger the hooks of an event |
| remote files | `pkg/remote` | a cache directory | fetch |
| values | `pkg/maputil`, `pkg/environment`, `pkg/hcllang`, `pkg/tmpl`, `release_filters.go` | none | merge, set, evaluate, match labels |
| support | `pkg/policy`, `pkg/plugins`, `pkg/filesystem`, `pkg/cluster`, `pkg/agent`, … | none that matters here | |

### How they interact

A command visits the state files. For each, the releases are selected and planned, charts are
downloaded and prepared, and the command works on the groups of the plan one after the other.
The releases of a group go through the worker pool; a worker runs hooks and helm, with kubedog
next to it. Everything is in one process and shares the working directory, the environment,
the helm executors (one per kube context), the table of downloaded charts and the context with
the updated repositories. Several helmfile processes share the chart cache on the disk, and
the cluster.

### What is hard, and what correct means

| component | hard because | correct when |
|---|---|---|
| worker pool | producer, workers and aggregator meet in two channels, with three sets of capacities and an aggregator that may leave early | it is a bounded parallel loop: each input once, return after the last |
| needs and plan | five options, selectors, conditions, duplicates, two plans in a row | exactly what was asked for is planned, needs first |
| commands | three rounds over groups, each may stop half way; a confirmation; flags set in closures | order, nothing before confirmation, success means converged, exit code tells |
| upgrading, deleting | three to five fallible steps per release, shared lists, locks held over helm | summary, errors and cluster agree; the call returns |
| tracking | six goroutines, timers, contexts; kubedog and helm may hang | a verdict is backed by the cluster; everything ends |
| visiting files | goroutines share the working directory and repositories; sub-helmfiles before or after | the result covers every file; the right directory; each repository once |
| chart download | goroutines and processes, mutexes and file locks, refresh, crashes | the chart in use is complete, downloaded once, nobody waits for ever |
| chart preparation, diff | a dozen fallible steps per release, whose files and directories have five owners; a cache that outlives a run; a lock file older than the charts | nothing stays on disk, a chart is where the run believes it is, dependencies are built from fresh repositories, a failure is never swallowed, versions hold |
| loading of state | parts, bases, five sources of values with their own merge rules, workers that share a cache of secrets, references resolved in rounds | the value of every path is that of its highest layer, references are resolved or refused |
| helm command lines | some fifty options, seven commands, each combining up to six layers in its own code | what is shown is what is done, what is downloaded or pulled ahead is what helm would take, and verified once |

## Modules

```
  ParallelFor  <== implemented by ==  ScatterGather
                                          |  (who takes which release, when the call returns)
  Selectors                               |
     |                                    |
  VisitStates    ReleaseGraph              ReleaseWorkers
  (files)         |        |               /            \
               NeedsPlan  Converge   ReleaseSync    ReleaseDelete    (one group in detail)
                          (one command)   |     implement     |
                              |           |   ReleaseBatch    (one group, as its caller sees it)
                              `--- takes its steps ---^
                                       Tracking (one release)      ChartCache (before the groups)

  PreparedRun     (diff, template, lint, unittest, write-values, over one or two files)
     StateLoading    (a state file: parts, layers, secrets, templates)
        RemoteFiles     (where it comes from)
           ChartPreparation   (charts, dependencies, hooks, clean-up)
              ReleaseValues, ChartLock
        ReleaseTemplates, ValueMaps, HCLValues   (operators)

  HelmFlags       (what the commands pass to helm)
```

Each module is instantiated for TLC by `MC<module>.tla`. Operators whose
comment starts with "A bug:" are faulty variants of the definition below them; each shows that a
property can be violated by a plausible mistake in the code, and none is part of a specification.

- **`ParallelFor`** is the abstract specification of the pool: inputs are handed out in order to
  a bounded number of slots, each is finished, and the loop returns when all are.
- **`ScatterGather`** is `HelmState.scatterGather` and its callers: a producer, workers, two FIFO
  channels kept as one log with two indices, the aggregator, the WaitGroup. The callers differ in
  the capacities and in whether the aggregator leaves at the first error (`PrepareCharts`);
  `Wirings` lists them. `ImplementsParallelFor` is the refinement.
- **`ReleaseWorkers`** is what the two modules below share: the releases in the jobs channel, what a
  worker knows of the release it is at, the mutex and the errors of the call.
- **`ReleaseBatch`** is the abstract specification of a group: every release ends once, as it was
  asked for (`Succeed`), with an error (`Fail`) or, after its helm was interrupted by kubedog, without an error
  and whatever there is in the cluster (`Presume`); and a group whose values cannot be prepared ends before
  any release is touched. It says what each end can leave in the cluster.
- **`ReleaseSync`** is one call of `SyncReleases`: preparation that may abort it, then per worker
  `presync`, `helm list`, the uninstall of an undesired release under the mutex, `helm upgrade`
  under the lock of its chart, `performSyncOrReinstallOfRelease`, tracking, hooks afterwards. The
  lists of affected releases are sets, and `cluster` says what helm left behind (`Leaves`): a helm that kubedog
  interrupts may have changed nothing yet, left the release pending, or upgraded it, and counts as a success
  in any case (`killed` remembers for which releases). For the caller a
  release counts as on its way (`Pending`) until its result is sent, and until then as it was at the `start`
  (`SeenStatus`): so seen the call implements `ReleaseBatch` (`SyncImplementsBatch`).
- **`ReleaseDelete`** is `DeleteReleasesForSync`, with its mutex, and `DeleteReleases`, without: an
  append without a mutex is a load and a store. Its definitions begin with `Delete`. It implements
  `ReleaseBatch` as well, whatever becomes of the appends (`DeleteImplementsBatch`).
- **`ReleaseGraph`** has the operators of the plan. The graph library is external, described by
  what the code and its tests rely on: a level per node, errors for unknown and unhandled needs.
- **`NeedsPlan`** is selection and planning: `getSelectedReleases`, `collectNeedsWithTransitives`,
  `GetPlannedAndSelectedReleasesWithNeeds` for apply and sync (`command` is "apply"), `withNeeds` with its second
  plan and `--enforce-needs-are-installed`, with `includeDisabled` for diff and without it for template, lint
  and unittest ("diff", "template"). That check walks from a release along names: each is visited once, and of
  several releases with a name the first in the state is followed (`Walk`).
- **`Converge`** is one apply, sync or destroy from preparation to exit code, over the groups of
  the plan; the end of a release in a group is a step of `ReleaseBatch`, whose instances `Deletion` and
  `Upgrading` it takes (`AbortGroup` is its `Abort`), so that what `ReleaseSync` and `ReleaseDelete` are shown
  to do is what a command is shown to rely on.
- **`Selectors`** says which releases of a file a command is for: labels, selectors, conditions, and
  when the selectors of the command line and of a sub-helmfile conflict.
- **`VisitStates`** is the visit of the files of a command: a goroutine per file, or one file
  after the other, `errChan` and `matchChan`, sub-helmfiles with the selectors they are given, `within`
  and its change of directory, `SyncReposOnce` under its lock, with the retries of `AddRepo`.
- **`ChartCache`** is the download of charts by workers of several processes. A lock is held
  exactly while its holder is at certain places, so the tables of holders are definitions on `pc`,
  and a crash gives everything up but the disk.
- **`Tracking`** is the background tracking of one upgrade: worker, helm, cluster, a goroutine per
  resource, the tracker, `wait`, the safety valve, the helm killer and the backstop. kubedog is
  not trusted: it may miss what happens, report the old version as ready, and ignore being
  cancelled. A valve fires in the order of the code: flag, context, signal. What the valves take for converged
  (`Converged`) is the code's comparison: of a Deployment or DaemonSet (`Rolling`) the generation that was
  observed and the pods that are available, which old pods are too while an update rolls out (`relied`).
- **`ChartPreparation`** is `Run.WithPreparedCharts` and `PrepareCharts`: global hooks, a temporary
  directory per run, a worker per release that looks up, shares or downloads a chart, chartifies it,
  rewrites its dependencies and decides whether they are built, the builds after one update of
  the repositories, and what the deferred functions remove. The runs of a process (state files, one
  after the other or at the same time) share `downloadedCharts`.
- **`ReleaseValues`** is the generation of the values files of a release; a generator that fails
  returns an error and forgets what it wrote. **`ChartLock`** is `helmfile.lock`: written by
  `helmfile deps`, read by every other command, with versions published in between. A list of
  dependencies is a function from the places of the releases in the state file.
- **`RemoteFiles`** is the cache of state files given by a URL, and what a fetch that fails leaves.
- **`StateLoading`** is the loading of one state file: its parts, each rendered with the values so
  far, their bases, which must load on their own before they are merged (`BaseLoads`), environment values from files, maps and HCL, the concurrent decryption of
  environment secrets with the cache of the helm executor, overrides, templates. The append of a
  worker to the shared list is two steps (`Append1`, `Append2`).
- **`ReleaseTemplates`** (release templates, inheritance between files, `ExecuteTemplateExpressions`
  round by round), **`ValueMaps`** (merging with its strategies for lists, indexed paths) and
  **`HCLValues`** (order of evaluation, cycles, last definition wins) are operators that `StateLoading`
  uses. The properties compare what the steps come to with a definition that looks at the whole:
  `ValuesExact` with the highest layer that has a path, `ReleasesExact` with all that is declared for a
  release, in its order, `TemplatesResolved` with the ends of the chains of references; `SettingsWin` is about the
  layer of the command line alone, already while the parts are rendered. `LayersExact` has the three about layers.
- **`PreparedRun`** composes these with `DiffReleases` and the commands that go release by release.
- **`HelmFlags`** has the flags every command builds for one release, from six layers of options,
  for three versions of helm and two of helm-diff. The commands build them in any order; the
  properties relate what two commands built. A repository chart may be fetched ahead (`Prefetch`, with
  `chartFetchFlags`); one in a registry is pulled before any command (`Pull`), with the flags of `getOCIChart`:
  those of its repository (`OCIFlags`), and those for its verification, which helm upgrade is not given.

How the state of a module corresponds to the code is said next to its VARIABLES; in short:

| in the modules | in the code |
|---|---|
| `pc[w]`, `job[w]`, `failing` | the place of a worker goroutine, its release, its `relErr # nil` |
| `affected`, `deleted`, `deleteFailed`, `failed` | `AffectedReleases` |
| `errs` | the `*ReleaseError`s that are returned |
| `killed` (ReleaseSync), `presumed` | releases for which `WasHelmKilled` made an error of helm a success |
| `m`, `opLock` | the mutex of the call, `withChartOperationLock` |
| `cluster` | what helm would list: absent, old, failed, or as the state file says |
| `groups`, `g`, `left` | `SortedReleaseGroups`, the loop of `withBatches`, the releases still in the pool |
| `cwd`, `prev`, `updated` | `os.Getwd`, `prev` of `within`, `Context.updatedRepos` |
| `dirs`, `files`, `path`, `mine`, `owned`, `tracked` | temporary directories and files that exist; `chartPath`; what a worker, the command and `chartifyTempDirs` remove |
| `cache`, `lock`, `built`, `updated` (ChartPreparation) | `downloadedCharts`, the lock file, finished dependency builds, `UpdateRepo` |
| `env`, `rendered`, `dec`, `decrypted`, `keeper`, `fields` | `Environment`, `RenderedValues`, the decryption workers, `decryptedSecrets`, `decryptedFilesKeeper`, the fields of a release |
| `conf`, `out` | options by layer, flags by command |
| `disk`, `memory`, `pc` | chart directories, `downloadedCharts`, and who holds which of the locks |
| `trackCtx`, `releaseCtx`, `resultCh`, `helmDone`, `safetyFired`, `triggered`, `killed`, `canceled` | the variables of these names in `startBackgroundKubedogTracking` (`helmDone`: `helmDoneCh` and the tracker's `upstreamDoneCh`) |
| `hooked`, `cleaned`, `removed`, `loaded`, `gaveUp`, `relied`, `expired`, … ("history") | nothing: they record what happened, for the properties |

## Runs

Every run is exhaustive for its instance. "Violation" runs check the one property named, and TLC
finds it violated: each is a disagreement between the code and what it says of itself.

| run | instance | distinct states | shows |
|---|---|---|---|
| `scatter` | 4 inputs, concurrency 2, three wirings | 50,969 | the pool implements `ParallelFor`, aggregates every result, returns after its workers (`ReturnsQuiescent`), ends |
| `sync` | 2 upgrades with one remote chart, both tracked, one with the reinstall strategy, and 1 uninstall; 2 workers; every step may fail except the uninstall of a reinstallation, and a tracked helm may be interrupted at any stage | 178,592 | the call implements `ReleaseBatch`; no error is lost, and summary and cluster agree, except about a release whose helm was interrupted; a reinstalled release is not lost silently, chart operations exclude each other, the call returns |
| `sync_leak` | 2 releases, the uninstall of a reinstallation fails | violation of `Terminates` | the mutex stays locked |
| `delete` | 3 releases, 2 workers with the mutex, 1 without | 568 | the calls implement `ReleaseBatch`, so that nothing is left silently; the summary lists exactly what was deleted |
| `plan` | all 64 graphs of three releases, chains and diamonds of four, two definitions of one ID and an unknown need, two releases of one name in two namespaces; every selection, option and set of disabled releases; apply, diff, template | 725,572 | needs come first, exactly what was asked for is planned, nothing is hidden and nothing shown to the wrong command, needs are enforced |
| `converge` | 3 releases, the 6 shapes of an acyclic graph, every plan and cluster, all three commands; two releases whose helm may be interrupted | 1,705,584 | order of the groups, nothing before the confirmation, success means converged, exit code, cleanup hooks |
| `visit` | a file with two levels of sub-helmfiles, with selectors of its own or of the command line; three files; two files of which one has sub-helmfiles; parallel or not, destroy or not; repositories that fail once or for good | 150,866 | result, order, directory, repositories; nobody blocks (deadlock check) |
| `chart` | 2 processes with 3 workers and one shared directory, or 1 process with 2 directories; refresh or not; 2 attempts at a file lock; 1 crash | 126,354 | the chart in use is complete, downloads happen once, everyone gets an answer |
| `tracking` | 2 resources in four setups: filtered or not, changed or not, errors count or not, helm killer or not; one of them keeps its old pods while it is updated | 675,418 | a success is backed by the cluster (but for the old pods that may be counted), a failure by a failure, `wait` and the valves end, a wedged helm is recovered from |
| `prepare` | one file with one or two releases, or two files in sequence or in parallel: every command with every kind of chart and of values, options, shared charts and lock files, hooks, layers of values, HCL, secrets, templates and inheritance, remote files; every step that may fail fails | 58,315 | nothing is left behind, charts and dependencies are there in time, failures end the run with an error and diff is exact, versions hold, values and releases are what their layers come to (`LayersExact`), references are followed to their end |
| `load_override` | an environment with values, and a `--state-values-file` with others | violation of `ValuesExact` | the file does not override the environment |
| `flags` | every setting of every option on every layer, and pairs of options that interact; 3 versions of helm, 2 of helm-diff, 3 kinds of chart | 1,191,360 | diff and template show what upgrade does, a download or a pull gets what helm would, verified exactly once |

### Bounds

The bounds are the sets of the instances, and
- in `ChartCache` `MaxRetries` (attempts at a file lock, 3 in the code, 2 in the run: the first may
  fail, the last may fail) and `MaxCrashes` (1: the other process lives through it);
- in `VisitStates` `RepoRetry` (retries of adding a repository, an option in the code, 1 in the run:
  the first attempt may fail, the last may fail).

They are small, and chosen so that every branch of every action is taken: two workers are enough
for any pair of steps to interleave and a third release lets one worker go on while another waits;
three releases have every shape in which one need hides behind another, and a fourth makes a
diamond; two resources let one converge without the other, one with old pods that are counted (`Rolling`) and one without; two runs are enough for one to remove
what the other uses, three parts and two bases for every pair of layers. The inputs of `prepare` are
a list of setups, each made for a rule of the code, rather than a product, which would be out of reach.

What the instances avoid, since the code does not do there what the property says, as described
[below](#disagreements):
- `sync`: the uninstall of a reinstallation does not fail (then the call would not return, `sync_leak`);
- `delete`: `DeleteReleases` has one worker (with two the unprotected appends lose entries);
- `visit`: at most one of several parallel files has sub-helmfiles;
- `prepare`: a map and a scalar in the place of each other are the lowest or the highest layer;
  values of `--state-values-file` are not also those of the last part's environment
  (`load_override`); a state file has at most one HCL secret; parallel files do not share a
  secret whose decryption is `wrapped`, a URL, or a chart whose download is forced.

In `chart`, what a download leaves that was cut off is excluded from `ChartIntact` (`disturbed`): a
directory with a Chart.yaml is a chart for the code.

### Fairness

Weak fairness only, on what the Go scheduler and the environment guarantee:

- `ScatterGather`: producer, every worker, and the caller; what a job does is assumed to end.
- `ReleaseSync`: the call and every worker. A worker waiting for a mutex competes with finitely
  many steps of the others, so that weak fairness suffices; helm and hooks are assumed to end.
- `ChartCache`: every worker. Crashes are not fair, and a file lock may time out every time.
- `Tracking`: the worker, both valves and the backstop, whose timers run out, and the end of
  helm unless its hook waiter is wedged. Nothing is assumed of kubedog or of the cluster.

`NeedsPlan`, `Converge`, `ReleaseDelete`, `VisitStates` and `PreparedRun` are checked for safety and
deadlock: their behaviours are finite, so that without a deadlock they end.
`sync_leak` has `CHECK_DEADLOCK FALSE`, as its point is that the workers stop for ever, and
`HelmFlags` has, as there is nothing to do once every command has built its flags.

## Proofs

TLAPS checks these theorems for every value of the constants that satisfies the assumption named
in the module; TLC evaluates the same assumptions in the runs.

**`ScatterGather_proofs`** (from `ScatterGatherAssumption`: any number of inputs, any requested
concurrency, channels that are unbuffered or have one place per input, and an aggregator that
leaves early only where the results channel has room for everything): `TypeCorrect`,
`Accounting`, `Aggregation`, `Quiescence` and `Implementation`, the last being that the goroutines
implement `ParallelFor`. The properties are not inductive as they stand. Their strengthening
`IInv` adds
- `Counting`: the WaitGroup counts the workers that have not left, and a worker leaves only when
  the channel is closed and drained. Without it "the caller goes on" says nothing of workers;
- `LogBound` and `Outcomes`: what is in the results channel was received and processed;
- `Aggregating`: where the aggregator's loop stands, early exit included.

From the accounting of jobs follows, by counting, that all ran when no worker is left (`AllRan`).
The refinement maps a slot to a worker, its input to the job held while it is being processed,
and `next` to the jobs taken; `Receive` is `Start`, `Do` is `Finish`, `Wait` is `Return`, all other
steps stutter.

**`Converge_proofs`** (from `ConvergeAssumption`: any finite set of releases, any acyclic graphs):
`TypeCorrect`, `Ordered`, `Confirmed`, `Converged`, `Reports` and `CleanedUp`, that is all properties of
the run `converge`. The argument has three parts.
- About the graph (`ReachesLower`, `LevelsLevelled`, `GroupsFacts`): levels fall along needs, also
  through releases that are not planned, so the groups are disjoint, cover the plan and separate
  a release from what it needs, in both directions.
- About the traversal: `IInv` adds to the properties what the phase was planned for (`Detected`,
  `Control`), that groups and `left` are those of the plan (`InGroups`), that nothing is worked on
  twice (`Fresh`), that every group before the current one has succeeded (`Progress`; this is what
  makes the order inductive), what applied and untouched releases look like (`AtTarget`,
  `Worked`), and what has been reported (`Reported`). A release that failed may look like anything, so that
  `AtTarget` leaves it out.
- About the cleanup hooks, which three places trigger: `Cleaned` says that the hook was triggered for
  whatever has ended well, and for the whole plan once a command has `GoneThrough` with something to change.

**`ReleaseWorkers_proofs`** has the theorems of `ReleaseSync` (from `ReleaseWorkersAssumption` and
`ReleaseSyncAssumption`: any releases, workers, charts and faults): `TypeCorrect`, `FailuresReported`,
`SummaryTrue`, `LossesReported`, `ChartsExclusive` and `SyncRefines`, all properties of the run `sync` but
`Terminates`, and without its restriction: the uninstall of a reinstallation may fail.
The properties speak of calls that have returned, and say nothing of a release on its way; `IInv` says
for each place of a worker what is true of its release there (`AtWork`: on no list yet, or listed and
converged unless its helm was interrupted, or lost and known to have failed), what is true of a release nobody has taken
(`Untouched`) and of one somebody is done with (`Settled`). A step of a worker disturbs its own
release only (`OnlyFor`, `Elsewhere`), so `OneTurn` leaves for each action what concerns its worker
(`Turn`). For the locks, `Holding`: who runs helm with a chart has the lock of that chart.

`SyncRefines` (`SyncImplementsBatch`) is the refinement: what it needs besides `IInv` is in `MapInv` (a pending
release has no error yet, one that is to go is as it was at the start or absent, and before the workers nothing
has happened). Then `Prepare` that fails is `Abort`, the step that sends the result of a release (`Finish`)
is `Succeed`, `Presume` or `Fail` according to the error and to whether helm was interrupted, which is where `AtWork` tells what the cluster has, and all
other steps stutter, since they change only a release that is pending (`BetweenSteps`). `SyncReturnsLast`: when
the call is over, nothing is pending, so that the next group starts from what this one left. Stating this
abstraction corrected `Converge`, which did not have all a group can come to: an interrupted helm ends without an error, whatever
it has done; a reinstallation that fails may leave the release absent, and an upgrade that fails an up-to-date release behind what was asked for; and a group whose
values cannot be prepared is given up before anything is run.

It has those of `ReleaseDelete` as well (from `ReleaseWorkersAssumption` and `ReleaseDeleteAssumption`):
`DeleteRefines` (`DeleteImplementsBatch`), `DeleteReturnsLast` and `NothingSkipped`, for both functions and any
number of workers, and `SummaryExact`, for calls that have the mutex or a single worker. The argument is the same; `Alone` is what an append needs so that
the list it loaded is the list it extends, and that theorem's assumption marks where `DeleteReleases`
falls short.

**`NeedsPlan_proofs`** (from `NeedsPlanAssumption`: finitely many definitions): `TypeCorrect`,
`OrderRespected` (`NeedsComeFirst`), `NothingLost` (`NothingHidden`), `PlannedExactly` (`PlanExact`) and `Enforced`
(`NeedsEnforced`), that is all properties of the run `plan`. About the groups,
`ReachedIsLower` and `GroupsPlaced`: whatever a release reaches is on a lower level, and the place of a
release, one more than the number of used levels below its own, grows with the level (`Placed`).
`Ordered` then carries from stage to stage that the planned releases are nodes of a graph without cycles
or unknown needs, that the groups are placed, and that every selected release is in the plan;
`Select` and the second pass of `Split` are the steps where it could be lost.
What is in a plan is another matter, and depends on names: `Exact` describes the plan stage by stage
(`Selecting`: what is marked, and which definitions of an ID are left; `Planning`: that the plan is what
apply or sync make of the marked releases by option; `Checking`: what passed the check for installed needs).
- `NothingLost`: what `withNeeds` hands to the command is described by `Rendered` and `ToUninstall`; the latter is empty
  for template, lint and unittest.
- `PlannedExactly`: a plan of apply and sync has what was asked for and, unless transitive needs are collected among
  releases that share a name, nothing else: `state.go:3565` collects all releases with the name of a need.
- `Enforced`: the walk of the check follows the release's own plain needs, and where no two releases share a name
  all plain needs from there (`WalkFinds`); nothing is assumed of the names. A need with a namespace is never found,
  and of two releases with one name only the first is followed: see [disagreements](#disagreements).

**`VisitStates_proofs`** (from `VisitStatesAssumption` and `ListedOnce`: any tree of files, every entry of a list
of files being a file of its own): `TypeCorrect` and all properties of the run `visit`.
- `VInv` places every file below the file that visits it: `Places` says which sub-helmfiles have begun when
  a file is at its `kid`-th, `Reached` that a file that has begun is below a top file that has, and `Stages`
  what a file has behind it at each step. `InOrder`
  (`VisitOrder`) follows.
- `ResultCorrect` (`ResultSound`) adds that an error rises to the file above, and from the top files into
  `errChan` or to the loop (`Results`, `Tops`, `Over`), that matches do (`Matches`), and which selectors files
  have (`Options`). That a skipped sub-helmfile holds nothing that both selections match is a theorem about
  selectors alone, `SkippedHaveNothing`, and with conditions `SkippedSelectNothing`.
- `ReposOnce` (`EveryRepoOnce`): who adds repositories has the mutex of the context (`Mutex`), and what is added
  and not recorded yet is so by its holder (`AddedOnce`). It needs `ListedApart`: no file lists a repository
  twice, since `SyncRepos` skips what earlier files added, and not what it has just added itself.
- `WithinDirectory` (`OwnDirectory`): one file at a time is at work in the working directory (`Focus`), and
  `Directories` says where the process is by where that file stands. It needs `Alone`: of files
  that are visited in parallel at most one has sub-helmfiles, as the working directory is that of the
  process ([disagreements](#disagreements), `app.go:894`).

**`ChartCache_proofs`** (from `ChartCacheAssumption` and `OwnDirectories`: a directory is made for one
chart and version, and outside the shared cache for one process): `TypeCorrect`, `OneFetch`
(`DownloadedOnce`) and `ChartsComplete` (`ChartIntact`).
- `OneDownload` and `OneWriter` are the mutual exclusion of the mutex per chart and of the file lock.
- That a process downloads once needs to know that what was downloaded is still there when the next
  worker looks: `Kept` says it of every worker that has not looked yet, and `First` that whoever is
  on its way to a download is the first. `Remembered` ties the table and the path a worker found to
  directories of the same chart, so that `StepRemoves`, the only ways a directory disappears, cannot be
  about one of them.
- `Undisturbed` extends this to what is in the directories: the user of a chart holds no lock, so that
  its chart stays because its process knows it (`CompleteStays`), not because anybody waits.

**`Tracking_proofs`** (from `TrackingAssumption`: any resources): `TypeCorrect`, `FailuresHaveCauses`
(`NoPhantomFailure`) and `SuccessTrue` (`SuccessConfirmed`, with what it leaves out: an interrupted helm, resources the tracker gave up on,
and rolling updates whose old pods the valve counted). A failure is decided in `wait`, from an answer
and four flags that others set at other times. `Reasons` says for each cancelled context, and for
each answer that has not been read yet, who is behind it, `Announced` that a valve sets its flag
before it acts. For the successes, `Applied` says what helm has changed by when, and `Confirmed` what each
of the three that can end the tracking has seen before it does, unless the tracker was cancelled: the valve has seen
every resource ready, or is known to have relied on old pods (`relied`).

**`PreparedRun_proofs`** has the theorems of `PreparedRun`, with the modules it is made of, from
`ChartPreparationAssumption`: runs are numbers, a job belongs to a run, a release whose chart is in a
repository names one that publishes versions, and of these there is a newest. The setups are otherwise
arbitrary: any files, releases, hooks, options, charts, values and failures.
- `Moves` is how a run goes on and what it has seen when it does, and every step is a move of one run or
  of none (`Flow`). With it `IInv` says what lies behind a run at each place: that nobody who reported
  an error goes on (`Ended`), what a run that has left the workers knows of its releases (`Preparing`) and of
  their dependencies (`Building`), that a hook that failed was reported (`HooksReported`), what the
  command has done with each release (`Commanding`) and put into the result (`Results`). The runs take
  turns, or work at the same time (`InOrder`). From it follow `TypeCorrect`, `NoErrorLost`
  (`ResultExact`) and `DependenciesBuilt` (`DependenciesReady`).
- `ChartsStay` (`ChartPresent`): every directory belongs to somebody who removes it last (`Directories`), the
  cache names directories of its key (`Caching`), and the chart of a release is in a directory of its own run
  (`Placed`). That needs `Apart`: of state files that are handled at the same time, no two download a chart
  they share. The code does not keep the property without it ([disagreements](#disagreements), `state.go:2032`).
- `VersionsHold` (`LockHolds`): the lock file is what the releases came to when it was written (`Locking`), its
  versions are the newest of sets that are not empty (`MaxOfVersions`, from the well-foundedness of
  inclusion, as induction is out of reach), and a run passes the preparation only with a version
  for every release (`Pinning`).
- `NothingStays` (`NothingLeftBehind`): every file that exists has someone on whose list it is
  (`Files`, `Ownership`), from the worker that decrypts it (`Decryptions`, `Kept`) and the one that
  prepares the chart to the command; what is fetched is whole when its run goes on (`Remotes`). That needs
  `OneHcl`: no part of a file has two HCL secrets, whose unlocked append (`create.go:503`) can lose one.

- `ReferencesEnd` (`TemplatesResolved`): what the rounds of `ExecuteTemplates` come to, for any number of fields and any
  references among them. After k rounds a field has the text of the field k references on (`RoundsFollow`);
  when a round changes nothing, none does from there (`LastRounds`), so that after the sixth a field is where its
  references end. `LeadsToEnd` is that they end there in fewer steps than there are fields: a chain that is
  longer has a field twice (`FS_PigeonHole`), goes round, and would not have settled. `Settling` carries
  to every later place of a run that a release is handled with what was put together and executed. It needs
  `RefsKnown`: templates refer to fields their release has.
- `SettingsHold` (`SettingsWin`, a part of `LayersExact`): whatever has the command line on top keeps it when it is merged
  over anything (`MergedWins`), element by element where both have a list, and nothing stays in the place of what
  was set; it needs nothing of the values themselves.

It also has the theorems of `HelmFlags`, which needs no assumption: the options, their layers and the
versions are arbitrary. `RenderedAlike` (`SameRendering`) sorts the groups of flags of each command into
those that decide what is rendered (`Rendered`, `Applied`) and those that do not (`Aside`): the former are the
same in all three (`UpgradeSorted`, `DiffSorted`, `TemplateSorted`). `FetchedAlike` (`SameAcquisition`)
likewise sorts out the flags of a download (`UpgradeSorted`) and, for charts in a registry, those of a pull (`PulledFlags`,
`PulledAlike`). `FlagsInv` ties what commands have built to
what they would build now (`DecisionsKept`).

**What only TLC checks.**
- Termination and the other liveness properties: liveness under fairness and ENABLED are out of this
  prover's reach.
- `LayersExact`, but for the command line (`SettingsHold`): `ValuesExact` and `ReleasesExact` compare folds over
  sequences (merging layer by layer, inheritance template by template) with what is expected of the whole,
  and the library's induction takes an operator as parameter, which the installed provers cannot instantiate. The
  rounds of templates could be proved about since there are six of them. For the same reason `Reaches` is defined as a smallest closed set, the levels by what characterises them,
  and the lists of `ChartLock` and the layers of `HelmFlags` by places and their least element
  instead of folds.

No module declares a RECURSIVE operator.

## Disagreements

With a run that shows it:

- `state.go:1442` leaves the mutex of `SyncReleases` locked when the uninstall of a reinstallation
  fails (`sync_leak`).
- `create.go:437`: values of `--state-values-file` are merged below those of the environment of the
  last part, against `docs/values-and-merging.md:22` (`load_override`).

Met while modelling, in the modules where they apply, without a run of their own. Planning and
commands:

- `state.go:3735` compares names with IDs: `--enforce-needs-are-installed` finds nothing for
  releases with a namespace.
- `state.go:3565` follows a need by the last part of its ID, to all releases with that name.
- `app.go:2602`: `withNeeds` passes `IncludeNeeds` to its second plan, which the comment above it
  says it does not, as it "will include the needs of needs". It does: `NothingHidden` admits direct needs
  of what is rendered.
- `state.go:3727`: the check that enforces needs remembers the names it has visited, so that of two releases with one
  name the needs of the second are not looked at. `NeedsEnforced` follows transitive needs where names are unique.
- `cmd/sync.go:44`, `cmd/apply.go:50`: sync and apply accept `--enforce-needs-are-installed` and do
  not look at it.
- `app.go:1908`: an apply that finds nothing to change returns before the loop over the cleanup
  hooks, though the prepare hook of every release ran (`docs/hooks.md:45`). `CleanupPaired` is
  stated for a command that has something to change; destroy never triggers them either.
- `app.go:2012`: apply reports changes after a declined confirmation, so that
  `--detailed-exitcode` returns 2 although nothing was synced (`cmd/apply.go:41`). `ChangesReported`
  says only that changes are never hidden.
- `state.go:3341`: `DeleteReleases` appends to shared lists without a mutex. `ReleaseDelete` has the
  two steps of such an append; with two workers `DeletedListExact` does not hold.
- `state.go:1166` appends to `Failed` and assigns the result to `DeleteFailed`, which loses what was
  there before.
- `helmx.go:568` takes the version that is running for the one helm brings: the killer may interrupt
  helm before it has changed anything, and `state.go:1306` makes that a success: the release is listed as
  upgraded, and the command succeeds, with the old version or a pending one in the cluster. The properties of
  `ReleaseSync` and `Converge` are stated for the other releases (`killed`, `presumed`).
- `tracker.go:686`, `tracker.go:730` (`pkg/kubedog`): of a Deployment or DaemonSet `VerifyAllConverged` compares
  the observed generation and the pods that are available, not those that are updated, so that old pods make a
  rolling update converged, and the valve ends the tracking with a success, also with `trackFailOnError`; a
  StatefulSet must be updated. `SuccessConfirmed` leaves these out (`OldPodsCounted`).

Several state files at the same time:

- `app.go:894` changes the working directory of the process for sub-helmfiles, while files are
  visited in parallel, against `docs/releases.md:116`.
- `app.go:1078`: `processStateFileParallel` looks at the error of the clean-up before the deferred function
  sets it; the error is lost. In sequence (`app.go:1317`) it is returned.
- `state.go:2032`: runs share `downloadedCharts`, and the directory of the run that downloaded a
  chart is removed with that run (`run.go:99`), while another one's helm may still use it. `ChartPresent`
  does not hold for two parallel files with one chart whose download is forced, against the
  comment at `state.go:2029`.
- `app/context.go:21`: updated repositories are known by name; a second file that uses a name for another
  URL never has it added.
- `app.go:347` (Lint, Unittest: deferred errors appended by several files at once), `app.go:968` (files
  share the extra arguments of a helm executor, which `BuildDeps` and its like save and restore),
  `app.go:2873` (`GetArgs` appends to `HelmDefaults.Args` at every call).

Loading, values and secrets:

- `create.go:503`: the workers that decrypt append to one slice without a lock; with two HCL secrets one
  can be lost, and their order is that in which decryption ends. If one secret fails, the plaintext of
  the HCL secrets decrypted before stays on the disk.
- `exec.go:752` of `pkg/helmexec`: an error leaves an empty entry in the cache of secrets, which the next
  file takes for the secret.
- A missing values file of an environment is handled by the environment's `missingFileHandler` only, a
  missing secrets file by the environment's, then the state file's. `docs/configuration.md:345` gives
  sub-helmfiles another default than `getReleaseMissingFileHandler` has.
- The comment that defers the check for a missing environment until all parts are loaded stands above a
  check inside the loop over the parts.
- A map and a scalar in the place of each other in several layers are merged differently, depending on how the
  layers are grouped.
- `ExecuteTemplateExpressions` stops after six rounds, so that a chain of six references is refused, and
  accepts a `name` that refers to itself. A blank entry of `inherit` without `defaultInherit` makes
  the release inherit nothing at all.
- The generators of values files forget what they wrote when they return an error (`--skip-cleanup`,
  `cmd/apply.go:46`, promises otherwise); `NothingLeftBehind` excepts those files (`Excused`). The global
  cleanup hooks are not triggered after a preparation that failed.
- `remote.go:531`: an http transfer that breaks off leaves part of a file, which the next run takes for
  all of it; a re-fetch that fails removes a directory that others use.
- The lock file is looked up by chart and version only, not by repository or alias.
- `state.go:4482`: for a chart in a registry `chartOCIFlags` adds `--verify` if the repository has it, also when the
  release says `verify: false`; and `getOCIChart` puts the repository's `--insecure-skip-tls-verify` next to a
  `--plain-http` of the release or the defaults, which it undoes by the comment in `chartOCIFlags`. `SameAcquisition` leaves that flag
  out where `--plain-http` is given. A chart that is in the cache is neither pulled nor verified again.
- `state.go:3158`: the version of Kubernetes detected in the cluster is passed to helm diff even if the
  release sets `kubeVersion`, against `docs/configuration.md:468`.

Helm processes: `runner.go:102`, an interrupt for a process that may not have been started (in
`Tracking`, the outcome `panicked`).

## Not modelled

- Text: what a template renders to, the spelling of flags, output, colours, parsing of YAML, URLs and
  selectors. The modules have what of it decides something: which values a template needs, which
  field refers to which, which flag has its value from which layer.
- The commands that only read the cluster (list, status, test), the parsing of the command line,
  looking for state files in directories, ad-hoc dependencies, `--output-dir-template`, what chartify
  does inside, the functions of templates and HCL expressions.
- The printer and the failure watchdog of kubedog, signals and shutdown of the process, `doctor` and
  its language model client, and the packages that wrap a library.
- In `ReleaseSync` kubedog is an outcome; `Tracking` has it in detail for one release. The gate
  of a resource that cannot be read for three seconds after helm is the same step as that of a
  resource that was not changed (`GiveUp`), and `SuccessConfirmed` excepts it.
- In `Converge` a group is worked on in any order with the steps of `ReleaseBatch`, and one
  state file is converged on; several are `VisitStates`.
- In `VisitStates` the loading of a file is one step, which `StateLoading` has in detail; in
  `ChartPreparation` a download is one step, which `ChartCache` has in detail.
- In `StateLoading`, the context a base is rendered with while it is loaded on its own; its secrets are decrypted
  with those of the whole part, once, as the cache makes of it. In `HelmFlags`, the refusal of the version `latest` for a
  chart in a registry. In `Tracking`, a volume claim, of which `VerifyAllConverged` looks at the phase only.
- In `ChartCache`, `--output-dir-template` with one directory for two versions, two processes that
  fetch to one output directory (`OwnDirectories`), and `helmfile cache cleanup`, which takes no lock.
- `PROJECT.json` says of every component what is left out, and lists the hazards no property
  covers yet with the reason.

## Plan

What is left, the most important first:

1. **Proofs.** Every safety property the runs check is a theorem but `LayersExact`, of which the command
   line is; next, that the secrets of an environment go before its other values, and what one merge does to a
   path in general. `ChartPresent` and `NothingLeftBehind` without `Apart` and `OneHcl`, when the code changes.
2. **Refinements.** A cache of results with one computation per key, which `ChartCache` and the decryption of
   secrets implement; one file of `VisitStates` as an abstraction of `Converge`.
3. **Helm processes and shutdown** (`runner.go`, `main.go`): signals, contexts, the WaitGroup of
   clean-ups, extra arguments of shared executors.
4. **The commands that only read**, over `NeedsPlan`: what list, status and test return for several
   files.
5. **The failure watchdog and the printer** of kubedog, next to `Tracking`.

Runs stay few: a new component brings one run, or shares the run of the component it is composed with.
