------------------------- MODULE PreparedRun_proofs -------------------------
(***************************************************************************)
(* Proofs about PreparedRun: what a run returns, the dependencies and      *)
(* directories of its charts, what it leaves on the disk, the templates of *)
(* its releases and the values of the command line; and, from HelmFlags,   *)
(* the flags with which the charts are fetched and helm is run.            *)
(***************************************************************************)
EXTENDS PreparedRun, HelmFlags, FiniteSetTheorems, TLAPS

Loading == {"locate", "getting", "receiving", "load", "decrypt"}
Open == {"prepare", "workers", "build", "command", "diff", "cleanup", "deferred"}
Places == Loading \cup {"idle", "done"} \cup Open
Stages == {"todo", "new", "prepared", "bad", "running", "same", "error", "changed", "valued",
           "ran", "left out"}
Preps == {"todo", "fetched", "place", "chartify", "rewritten", "ready", "failed"}

TypeOK ==
  /\ setup \in Setups
  /\ pc \in [Runs -> Places] /\ reported \subseteq Runs /\ updated \subseteq Runs
  /\ prep \in [Jobs -> Preps] /\ stage \in [Jobs -> Stages]
  /\ DOMAIN path = Jobs /\ DOMAIN mine = Jobs /\ DOMAIN owned = Jobs
  /\ DOMAIN tracked = Runs /\ DOMAIN hooked = Runs /\ DOMAIN result = Runs
  /\ DOMAIN cache = Keys /\ built \subseteq Jobs /\ erring \subseteq Runs

\* Every release of the run that the lock file is for has a version there.
PinnedAll(r) == NoCharts \/ Resolvable(lock, RelsOf(r))
\* How a run goes on, and what it has seen when it does.
Moves(r, to) ==
  \/ /\ pc[r] \in Loading /\ to \in (Loading \ {"locate"}) \cup {"idle", "done"}
     /\ pc[r] = "locate" => MayStart(r)
  \/ pc[r] = "idle" /\ to \in {"prepare", "done"} /\ MayStart(r)
  \/ pc[r] = "prepare" /\ to = "deferred" /\ r \in reported'
  \/ pc[r] = "prepare" /\ to = (IF NoCharts THEN "command" ELSE "workers") /\ PinnedAll(r)
  \/ /\ pc[r] = "workers" /\ \A j \in Needed(r) : prep[j] \in {"ready", "failed"}
     /\ \/ to = "deferred" /\ r \in reported'
        \/ to = "build" /\ \A j \in Needed(r) : prep[j] # "failed"
  \/ pc[r] = "build" /\ to = "deferred" /\ r \in reported'
  \/ pc[r] = "build" /\ to = "command" /\ Builds(r) \subseteq built
  \/ pc[r] = "command" /\ to = "diff" /\ setup.cmd = "diff" /\ Everything(r, {"new", "prepared"})
  \/ pc[r] = "command" /\ to = "cleanup" /\ r \in reported'
  \/ pc[r] = "command" /\ to = "cleanup" /\ setup.cmd \in Sequential /\ r \notin erring
  \/ pc[r] = "command" /\ to = "cleanup" /\ setup.cmd \notin Sequential \cup {"diff"}
  \/ pc[r] = "diff" /\ to = "cleanup" /\ Everything(r, {"new", "same", "changed", "error"})
     /\ (r \in reported' \/ \A j \in Handled(r) : stage[j] # "error")
  \/ pc[r] = "cleanup" /\ to = "deferred"
  \/ pc[r] = "deferred" /\ to = "done" /\ Deferred(r)
Step(r) ==
  \E to \in Places :
    /\ Moves(r, to) /\ pc' = [pc EXCEPT ![r] = to]
    /\ reported' = reported \/ (reported' = reported \cup {r} /\ to \in {"cleanup", "deferred", "done"})
Flow == (pc' = pc /\ reported' = reported) \/ \E r \in Runs : Step(r)

----------------------------------------------------------------------------
(* Steps.                                                                   *)

LEMMA JobFacts ==
    ASSUME setup \in Setups
    PROVE  \A j \in Jobs : j = <<j[1], j[2]>> /\ j[1] \in Runs
BY ChartPreparationAssumption DEF Jobs

LEMMA RemoteFlow ==
    ASSUME TypeOK, RemoteNext
    PROVE  Flow
<1> PICK r \in Runs : \/ Locate(r) \/ FetchCached(r) \/ StartGet(r) \/ NoSuchObject(r) \/ GetFails(r)
                      \/ HttpGet(r) \/ S3Get(r) \/ GoGet(r) \/ Fetched(r)
  BY DEF RemoteNext
<1> USE DEF Flow, Step, Moves, Loading, Places, Open, Go, LoadFails
<1>1. CASE Locate(r)
  BY <1>1 DEF Locate
<1>2. CASE FetchCached(r)
  BY <1>2 DEF FetchCached
<1>3. CASE StartGet(r)
  BY <1>3 DEF StartGet
<1>4. CASE NoSuchObject(r)
  BY <1>4 DEF NoSuchObject
<1>5. CASE GetFails(r)
  BY <1>5 DEF GetFails
<1>6. CASE HttpGet(r) \/ S3Get(r) \/ GoGet(r)
  BY <1>6 DEF HttpGet, S3Get, GoGet
<1>7. CASE Fetched(r)
  BY <1>7 DEF Fetched
<1> QED BY <1>1, <1>2, <1>3, <1>4, <1>5, <1>6, <1>7

LEMMA LoadFlow ==
    ASSUME TypeOK, NEW r \in Runs, BeginPart(r) \/ EndPart(r) \/ Loaded(r)
    PROVE  Step(r)
<1> USE DEF Step, Moves, Loading, Places, Open, Go, LoadFails, LoadSkips
<1>1. CASE BeginPart(r)
  BY <1>1 DEF BeginPart
<1>2. CASE EndPart(r)
  BY <1>2 DEF EndPart
<1>3. CASE Loaded(r)
  BY <1>3 DEF Loaded
<1> QED BY <1>1, <1>2, <1>3

\* A worker that decrypts moves no run.
LEMMA DecryptsAside ==
    ASSUME NEW r, NEW s, Worker1(r, s)
    PROVE  UNCHANGED <<unchangedByLoading, remotes, pc, reported, part, env, rendered, defined>>
BY DEF Worker1, Decrypt, DecryptDone, DecryptCached, Append1, Append2, Look, Parse, ParseEmpty,
       Discard, unchangedLoad, unchangedRest

\* Nor does one that prepares a chart.
LEMMA WorkersAside ==
    ASSUME NEW j, Worker(j)
    PROVE  UNCHANGED <<setup, hooked, lock, built, updated, pc, reported>>
BY DEF Worker, Fetch, PrepareChartify, RewriteDependencies, Chartify, UseDirectory, LeaveToHelm,
       UseCached, Download, unchangedPrep
LEMMA PrepFlow ==
    ASSUME TypeOK, PrepNext
    PROVE  Flow
<1> USE DEF Flow, Step, Moves, Loading, Places, Open, Go, Fail
<1>1. ASSUME NEW r \in Runs, Start(r)
      PROVE  Flow
  BY <1>1 DEF Start
<1>2. ASSUME NEW r \in Runs, Prepare(r)
      PROVE  Flow
  BY <1>2 DEF Prepare, PrepareCharts, PinnedAll
<1>3. ASSUME NEW r \in Runs, Gather(r)
      PROVE  Flow
  BY <1>3 DEF Gather
<1>4. ASSUME NEW r \in Runs, UpdateRepo(r)
      PROVE  Flow
  BY <1>4 DEF UpdateRepo
<1>5. ASSUME NEW r \in Runs, Prepared(r)
      PROVE  Flow
  BY <1>5 DEF Prepared
<1>6. ASSUME NEW r \in Runs, GlobalCleanup(r)
      PROVE  Flow
  BY <1>6 DEF GlobalCleanup
<1>7. ASSUME NEW r \in Runs, Deferred(r)
      PROVE  Flow
  BY <1>7 DEF Deferred
<1>8. ASSUME NEW r \in Runs, NEW j, BuildDeps(r, j)
      PROVE  Flow
  BY <1>8 DEF BuildDeps
<1>9. ASSUME NEW j, Worker(j)
      PROVE  Flow
  BY <1>9, WorkersAside
<1> QED BY <1>1, <1>2, <1>3, <1>4, <1>5, <1>6, <1>7, <1>8, <1>9 DEF PrepNext

CommandStep ==
  \/ \E j \in Jobs : DiffPrepare(j) \/ DiffStart(j) \/ DiffEnd(j) \/ WriteValues(j) \/ HelmOne(j)
  \/ \E r \in Runs : DiffGather(r) \/ DiffDone(r) \/ OneByOneDone(r) \/ NothingMore(r)

LEMMA CommandFlow ==
    ASSUME TypeOK, CommandStep
    PROVE  Flow
<1> USE DEF Flow, Step, Moves, Loading, Places, Open, Go
<1>1. ASSUME NEW j, DiffPrepare(j) \/ DiffStart(j) \/ DiffEnd(j) \/ WriteValues(j) \/ HelmOne(j)
      PROVE  Flow
  BY <1>1 DEF DiffPrepare, DiffStart, DiffEnd, WriteValues, HelmOne
<1>2. ASSUME NEW r \in Runs, DiffGather(r)
      PROVE  Flow
  BY <1>2 DEF DiffGather, Everything
<1>3. ASSUME NEW r \in Runs, DiffDone(r)
      PROVE  Flow
  BY <1>3 DEF DiffDone
<1>4. ASSUME NEW r \in Runs, OneByOneDone(r)
      PROVE  Flow
  BY <1>4 DEF OneByOneDone, InCommand
<1>5. ASSUME NEW r \in Runs, NothingMore(r)
      PROVE  Flow
  BY <1>5 DEF NothingMore, Sequential
<1> QED BY <1>1, <1>2, <1>3, <1>4, <1>5 DEF CommandStep
\* Loading keeps what is prepared and what commands do, commands what is prepared.
commandVars == <<stage, owned, erring, result>>
loadingVars == <<remotes, loadVars>>
LEMMA Kinds ==
    ASSUME [Next]_vars
    PROVE  \/ LoadNext /\ UNCHANGED <<unchangedByLoading, commandVars>>
           \/ PrepNext /\ UNCHANGED <<loadingVars, commandVars>>
           \/ CommandStep /\ UNCHANGED <<setup, hooked, lock, cache, dirs, prep, mine, path, tracked,
                                         built, updated, loadingVars>>
           \/ UNCHANGED vars
<1>1. CASE LoadNext /\ UNCHANGED cmdVars
  <2>1. ASSUME NEW r \in Runs, BeginPart(r) \/ EndPart(r) \/ Loaded(r)
        PROVE  UNCHANGED unchangedByLoading
    BY <2>1 DEF BeginPart, EndPart, Loaded, unchangedRest
  <2>2. RemoteNext => UNCHANGED unchangedByLoading
    BY DEF RemoteNext, Locate, FetchCached, StartGet, NoSuchObject, GetFails, HttpGet, S3Get, GoGet, Fetched
  <2>3. UNCHANGED unchangedByLoading
    BY <1>1, <2>1, <2>2, DecryptsAside DEF LoadNext
  <2> QED BY <1>1, <2>3 DEF cmdVars, commandVars
<1>2. CASE PrepNext /\ UNCHANGED <<remotes, loadVars, cmdVars>>
  BY <1>2 DEF cmdVars, commandVars, loadingVars
<1>3. CASE CommandStep
  <2>1. ASSUME NEW j, DiffPrepare(j) \/ DiffStart(j) \/ DiffEnd(j) \/ WriteValues(j) \/ HelmOne(j)
        PROVE  UNCHANGED unchangedCmd
    BY <2>1 DEF DiffPrepare, DiffStart, DiffEnd, WriteValues, HelmOne
  <2>2. ASSUME NEW r, DiffGather(r) \/ DiffDone(r) \/ OneByOneDone(r) \/ NothingMore(r)
        PROVE  UNCHANGED unchangedCmd
    BY <2>2 DEF DiffGather, DiffDone, OneByOneDone, NothingMore
  <2>3. UNCHANGED unchangedCmd
    BY <1>3, <2>1, <2>2 DEF CommandStep
  <2> QED BY <1>3, <2>3 DEF unchangedCmd, loadingVars
<1>4. CASE UNCHANGED vars
  BY <1>4
<1> QED BY <1>1, <1>2, <1>3, <1>4 DEF Next, CommandStep, Done

LEMMA StepsFlow ==
    ASSUME TypeOK, [Next]_vars
    PROVE  Flow
<1>1. LoadNext => Flow
  BY RemoteFlow, LoadFlow, DecryptsAside DEF LoadNext, Flow
<1> QED BY <1>1, Kinds, PrepFlow, CommandFlow DEF Flow, vars, prepVars

LEMMA SetupFixed ==
    ASSUME [Next]_vars
    PROVE  UNCHANGED <<setup, lock>>
<1>1. PrepNext => UNCHANGED <<setup, lock>>
  BY WorkersAside DEF PrepNext, Start, Prepare, Gather, UpdateRepo, Prepared, GlobalCleanup, Deferred,
                      BuildDeps, unchangedRun
<1> QED BY <1>1, Kinds DEF vars, prepVars, unchangedByLoading

LEMMA Fixed ==
    ASSUME UNCHANGED <<setup, lock>>
    PROVE  /\ Jobs' = Jobs /\ Keys' = Keys /\ (NoCharts' <=> NoCharts)
           /\ \A j : Rel(j)' = Rel(j) /\ Key(j)' = Key(j) /\ Downloaded(j)' = Downloaded(j)
           /\ \A j : /\ SkipDeps(j)' <=> SkipDeps(j)
                     /\ SkipRefresh(j)' <=> SkipRefresh(j)
                     /\ Forced(j)' <=> Forced(j)
           /\ \A r : JobsOf(r)' = JobsOf(r) /\ Needed(r)' = Needed(r) /\ Handled(r)' = Handled(r)
<1>1. Jobs' = Jobs
  BY DEF Jobs
<1>2. \A j : Rel(j)' = Rel(j)
  BY DEF Rel
<1>3. \A j : Key(j)' = Key(j)
  BY <1>2 DEF Key, Pinned, Pinnable, Rel, Get
<1>4. \A r : JobsOf(r)' = JobsOf(r) /\ Needed(r)' = Needed(r) /\ Handled(r)' = Handled(r)
  BY <1>1, <1>2 DEF JobsOf, Needed, Handled
<1>5. \A r, k : Shared(r, k)' <=> Shared(r, k)
  BY <1>1, <1>2, <1>3, <1>4 DEF Shared
<1>6. \A j : /\ SkipDeps(j)' <=> SkipDeps(j)
             /\ SkipRefresh(j)' <=> SkipRefresh(j)
             /\ Forced(j)' <=> Forced(j)
             /\ Downloaded(j)' = Downloaded(j)
  BY <1>2, <1>3, <1>5 DEF SkipDeps, SkipRefresh, Forced, Downloaded
<1>7. Keys' = Keys /\ (NoCharts' <=> NoCharts)
  BY <1>1, <1>3 DEF Keys, NoCharts
<1> QED BY <1>1, <1>2, <1>3, <1>4, <1>6, <1>7
\* A worker has a job of its run, which it takes further.
LEMMA WorkerFacts ==
    ASSUME TypeOK, NEW j \in Jobs, Worker(j)
    PROVE  /\ pc[j[1]] = "workers" /\ j \in Needed(j[1]) /\ prep[j] \notin {"ready", "failed"}
           /\ \E to \in Preps \ {"todo"} : prep' = [prep EXCEPT ![j] = to]
           /\ DOMAIN path' = Jobs /\ DOMAIN mine' = Jobs /\ DOMAIN tracked' = Runs /\ DOMAIN cache' = Keys
           /\ \A k \in Jobs \ {j} : mine'[k] = mine[k] /\ path'[k] = path[k]
<1> USE DEF At, Set, Leave, Preps, TypeOK, unchangedPrep
<1>1. CASE Fetch(j)
  BY <1>1 DEF Fetch, GoGetterChart
<1>2. CASE PrepareChartify(j)
  BY <1>2 DEF PrepareChartify
<1>3. CASE RewriteDependencies(j)
  BY <1>3 DEF RewriteDependencies
<1>4. CASE Chartify(j)
  BY <1>4 DEF Chartify, ReadyForChartify
<1>5. CASE UseDirectory(j)
  BY <1>5 DEF UseDirectory
<1>6. CASE LeaveToHelm(j)
  BY <1>6 DEF LeaveToHelm
<1>7. CASE UseCached(j)
  BY <1>7 DEF UseCached
<1>8. CASE Download(j)
  BY <1>8 DEF Download
<1> QED BY <1>1, <1>2, <1>3, <1>4, <1>5, <1>6, <1>7, <1>8 DEF Worker

\* What a command does with a job it has.
CommandOf(j) == DiffPrepare(j) \/ DiffStart(j) \/ DiffEnd(j) \/ WriteValues(j) \/ HelmOne(j)
LEMMA CommandFacts ==
    ASSUME TypeOK, NEW j \in Jobs, CommandOf(j)
    PROVE  /\ UNCHANGED <<pc, reported, result>>
           /\ \E to \in Stages \ {"todo"} : stage' = [stage EXCEPT ![j] = to]
           /\ DOMAIN owned' = Jobs /\ erring' \in {erring, erring \cup {j[1]}}
           /\ \A k \in Jobs \ {j} : owned'[k] = owned[k]
<1> USE DEF Stage, Erring, Stages, TypeOK
<1>1. CASE DiffPrepare(j)
  BY <1>1 DEF DiffPrepare
<1>2. CASE DiffStart(j)
  BY <1>2 DEF DiffStart
<1>3. CASE DiffEnd(j)
  BY <1>3 DEF DiffEnd
<1>4. CASE WriteValues(j)
  BY <1>4 DEF WriteValues
<1>5. CASE HelmOne(j)
  BY <1>5 DEF HelmOne
<1> QED BY <1>1, <1>2, <1>3, <1>4, <1>5 DEF CommandOf

\* The end of a command.
EndOf(r) == DiffGather(r) \/ DiffDone(r) \/ OneByOneDone(r) \/ NothingMore(r)
LEMMA EndFacts ==
    ASSUME TypeOK, NEW r \in Runs, EndOf(r)
    PROVE  /\ UNCHANGED <<stage, owned, erring>> /\ DOMAIN result' = Runs
           /\ pc[r] \in {"command", "diff"} /\ pc'[r] \in {"diff", "cleanup"}
           /\ \A q \in Runs \ {r} : pc'[q] = pc[q] /\ result'[q] = result[q]
BY DEF EndOf, DiffGather, DiffDone, OneByOneDone, NothingMore, DiffResult, Go, TypeOK, cmdVars, InCommand
\* A run goes on with what its workers have prepared.
RunOf(r) == \/ Start(r) \/ Prepare(r) \/ Gather(r) \/ UpdateRepo(r) \/ Prepared(r)
            \/ GlobalCleanup(r) \/ Deferred(r) \/ \E j \in JobsOf(r) : BuildDeps(r, j)
LEMMA RunFacts ==
    ASSUME TypeOK, NEW r \in Runs, RunOf(r)
    PROVE  /\ UNCHANGED <<setup, lock, cache, files, prep, mine, path>>
           /\ DOMAIN tracked' = Runs /\ DOMAIN hooked' = Runs
           /\ updated' \in {updated, updated \cup {r}}
           /\ built' = built \/ \E j \in JobsOf(r) : built' = built \cup {j}
           /\ \A q \in Runs \ {r} : pc'[q] = pc[q] /\ hooked'[q] = hooked[q] /\ tracked'[q] = tracked[q]
BY DEF TypeOK, RunOf, Start, Prepare, Gather, UpdateRepo, Prepared, GlobalCleanup, Deferred, BuildDeps,
       unchangedRun, Triggers, Go, Fail, PrepareCharts

LEMMA Cases ==
    ASSUME [Next]_vars
    PROVE  \/ LoadNext /\ UNCHANGED <<unchangedByLoading, commandVars>>
           \/ \E r \in Runs : RunOf(r) /\ UNCHANGED <<loadingVars, commandVars>>
           \/ \E j \in Jobs : Worker(j) /\ UNCHANGED <<loadingVars, commandVars>>
           \/ \E j \in Jobs : CommandOf(j) /\ UNCHANGED <<setup, hooked, lock, cache, dirs, prep, mine,
                                                          path, tracked, built, updated, loadingVars>>
           \/ \E r \in Runs : EndOf(r) /\ UNCHANGED <<setup, hooked, lock, cache, dirs, prep, mine,
                                                      path, tracked, built, updated, loadingVars>>
           \/ UNCHANGED vars
<1>1. PrepNext => (\E r \in Runs : RunOf(r)) \/ \E j \in Jobs : Worker(j)
  BY DEF PrepNext, RunOf
<1>2. CommandStep => (\E j \in Jobs : CommandOf(j)) \/ \E r \in Runs : EndOf(r)
  BY DEF CommandStep, CommandOf, EndOf
<1> QED BY <1>1, <1>2, Kinds

----------------------------------------------------------------------------
(* Types, and the order of the runs.                                        *)

LEMMA FlowTypes ==
    ASSUME TypeOK, Flow
    PROVE  pc' \in [Runs -> Places] /\ reported' \subseteq Runs
BY DEF Flow, Step, TypeOK

LEMMA TypesKept ==
    ASSUME TypeOK, [Next]_vars
    PROVE  TypeOK'
<1>1. UNCHANGED <<setup, lock>> /\ pc' \in [Runs -> Places] /\ reported' \subseteq Runs
  BY SetupFixed, StepsFlow, FlowTypes
<1>2. Jobs' = Jobs /\ Keys' = Keys
  BY <1>1, Fixed
<1>3. CASE LoadNext /\ UNCHANGED <<unchangedByLoading, commandVars>>
  BY <1>1, <1>2, <1>3 DEF TypeOK, unchangedByLoading, commandVars
<1>4. ASSUME NEW r \in Runs, RunOf(r), UNCHANGED commandVars
      PROVE  TypeOK'
  BY <1>1, <1>2, <1>4, RunFacts DEF TypeOK, commandVars, JobsOf
<1>5. ASSUME NEW j \in Jobs, Worker(j), UNCHANGED commandVars
      PROVE  TypeOK'
  <2>1. /\ prep' \in [Jobs -> Preps] /\ DOMAIN path' = Jobs /\ DOMAIN mine' = Jobs
        /\ DOMAIN tracked' = Runs /\ DOMAIN cache' = Keys
    BY <1>5, WorkerFacts DEF TypeOK
  <2> QED BY <1>1, <1>2, <1>5, <2>1, WorkersAside DEF TypeOK, commandVars
<1>6. ASSUME NEW j \in Jobs, CommandOf(j), UNCHANGED <<hooked, cache, prep, mine, path, tracked, built, updated>>
      PROVE  TypeOK'
  <2>1. stage' \in [Jobs -> Stages] /\ DOMAIN owned' = Jobs /\ erring' \subseteq Runs /\ DOMAIN result' = Runs
    BY <1>6, CommandFacts, JobFacts DEF TypeOK
  <2> QED BY <1>1, <1>2, <1>6, <2>1 DEF TypeOK
<1>7. ASSUME NEW r \in Runs, EndOf(r), UNCHANGED <<hooked, cache, prep, mine, path, tracked, built, updated>>
      PROVE  TypeOK'
  BY <1>1, <1>2, <1>7, EndFacts DEF TypeOK
<1>8. CASE UNCHANGED vars
  BY <1>1, <1>2, <1>8 DEF TypeOK, vars, prepVars, cmdVars
<1> QED BY <1>3, <1>4, <1>5, <1>6, <1>7, <1>8, Cases

\* Files that are not handled at the same time are begun one after the other, each when the one
\* before has ended without an error; and a run with an error is on its way out.
InOrder ==
  \A q, r \in Runs : ~setup.parallel /\ q < r /\ pc[r] # "locate" => pc[q] = "done" /\ q \notin reported
Ended == \A r \in reported : pc[r] \in {"cleanup", "deferred", "done"}

LEMMA OrderKept ==
    ASSUME TypeOK, InOrder, Ended, [Next]_vars
    PROVE  InOrder' /\ Ended'
<1>1. Flow /\ UNCHANGED setup
  BY StepsFlow, SetupFixed
<1>2. CASE pc' = pc /\ reported' = reported
  BY <1>1, <1>2 DEF InOrder, Ended
<1>3. ASSUME NEW r \in Runs, Step(r)
      PROVE  InOrder' /\ Ended'
  <2>1. PICK to \in Places :
          /\ Moves(r, to) /\ pc' = [pc EXCEPT ![r] = to]
          /\ reported' = reported \/ (reported' = reported \cup {r} /\ to \in {"cleanup", "deferred", "done"})
    BY <1>3 DEF Step
  <2>2. pc[r] # "done" /\ to # "locate" /\ (pc[r] = "locate" => MayStart(r))
    BY <2>1 DEF Moves, Loading
  <2>3. InOrder'
    <3> SUFFICES ASSUME NEW p \in Runs, NEW q \in Runs, ~setup.parallel, p < q, pc'[q] # "locate"
                 PROVE  pc'[p] = "done" /\ p \notin reported'
      BY <1>1 DEF InOrder
    <3>1. pc[p] = "done" /\ p \notin reported
      <4>1. CASE pc[q] # "locate"
        BY <4>1 DEF InOrder
      <4>2. CASE pc[q] = "locate"
        <5>1. q = r /\ MayStart(r)
          BY <2>1, <2>2, <4>2 DEF TypeOK
        <5> QED BY <5>1 DEF MayStart
      <4> QED BY <4>1, <4>2
    <3>2. p # r
      BY <2>2, <3>1
    <3> QED BY <2>1, <3>1, <3>2 DEF TypeOK
  <2>4. Ended'
    <3>1. r \in reported => to \in {"cleanup", "deferred", "done"}
      BY <2>1 DEF Ended, Moves, Loading
    <3> QED BY <2>1, <3>1 DEF Ended, TypeOK
  <2> QED BY <2>3, <2>4
<1> QED BY <1>1, <1>2, <1>3 DEF Flow
----------------------------------------------------------------------------
(* Charts and their dependencies.                                           *)

Early == Loading \cup {"idle", "prepare"}
\* Only workers prepare charts, and a run goes on from them with charts that are ready.
PreparedFor(j) ==
  /\ prep[j] # "todo" => j \in Needed(j[1]) /\ ~NoCharts /\ pc[j[1]] \notin Early
  /\ pc[j[1]] \in {"build", "command", "diff", "cleanup"} => prep[j] \in {"todo", "ready"}
  /\ pc[j[1]] \in {"deferred", "done"} => /\ prep[j] \in {"todo", "ready", "failed"}
                                          /\ prep[j] = "failed" => j[1] \in reported
Preparing ==
  /\ \A j \in Jobs : PreparedFor(j)
  /\ \A r \in Runs : pc[r] \in {"workers", "build"} => ~NoCharts

LEMMA PreparingKept ==
    ASSUME TypeOK, Preparing, [Next]_vars
    PROVE  Preparing'
<1>1. Flow /\ UNCHANGED <<setup, lock>>
  BY StepsFlow, SetupFixed
<1>2. Jobs' = Jobs /\ (NoCharts' <=> NoCharts) /\ \A r : Needed(r)' = Needed(r)
  BY <1>1, Fixed
<1>3. ASSUME NEW j \in Jobs, Worker(j)
      PROVE  Preparing'
  <2>1. /\ pc[j[1]] = "workers" /\ j \in Needed(j[1])
        /\ \E to \in Preps \ {"todo"} : prep' = [prep EXCEPT ![j] = to]
        /\ UNCHANGED <<pc, reported>>
    BY <1>3, WorkerFacts, WorkersAside
  <2>2. ~NoCharts
    BY <2>1, JobFacts DEF Preparing, TypeOK
  <2> QED BY <1>2, <2>1, <2>2 DEF Preparing, PreparedFor, TypeOK, Early, Loading
<1>4. ASSUME prep' = prep
      PROVE  Preparing'
  <2>1. CASE pc' = pc /\ reported' = reported
    BY <1>2, <1>4, <2>1 DEF Preparing, PreparedFor
  <2>2. ASSUME NEW r \in Runs, Step(r)
        PROVE  Preparing'
    <3>1. PICK to \in Places :
            /\ Moves(r, to) /\ pc' = [pc EXCEPT ![r] = to]
            /\ reported' = reported \/ (reported' = reported \cup {r} /\ to \in {"cleanup", "deferred", "done"})
      BY <2>2 DEF Step
    <3>2. ASSUME NEW j \in Jobs
          PROVE  PreparedFor(j)'
      <4> SUFFICES /\ prep[j] # "todo" => j \in Needed(j[1]) /\ ~NoCharts /\ pc'[j[1]] \notin Early
                   /\ pc'[j[1]] \in {"build", "command", "diff", "cleanup"} => prep[j] \in {"todo", "ready"}
                   /\ pc'[j[1]] \in {"deferred", "done"} =>
                         /\ prep[j] \in {"todo", "ready", "failed"}
                         /\ prep[j] = "failed" => j[1] \in reported'
        BY <1>2, <1>4 DEF PreparedFor
      <4>1. CASE j[1] # r
        BY <3>1, <4>1 DEF Preparing, PreparedFor, TypeOK
      <4>2. CASE j[1] = r
        <5>1. pc'[j[1]] = to
          BY <3>1, <4>2 DEF TypeOK
        <5> QED BY <3>1, <4>2, <5>1 DEF Preparing, PreparedFor, Moves, Early, Loading
      <4> QED BY <4>1, <4>2
    <3>3. ASSUME NEW q \in Runs, pc'[q] \in {"workers", "build"}
          PROVE  ~NoCharts
      <4>1. CASE q # r
        BY <3>1, <3>3, <4>1 DEF Preparing, TypeOK
      <4>2. CASE q = r
        BY <3>1, <3>3, <4>2 DEF Preparing, Moves, TypeOK, Loading
      <4> QED BY <4>1, <4>2
    <3> QED BY <1>2, <3>2, <3>3 DEF Preparing
  <2> QED BY <1>1, <2>1, <2>2 DEF Flow
<1>5. (\E j \in Jobs : Worker(j)) \/ prep' = prep
  BY Cases, RunFacts DEF unchangedByLoading, vars, prepVars
<1> QED BY <1>3, <1>4, <1>5

\* What was built is what had to be, with repositories that were updated where it was needed.
BuiltFor(j) ==
  /\ j \in Builds(j[1]) /\ pc[j[1]] \notin Early \cup {"workers"}
  /\ UpdatesRepos(j[1]) => j[1] \in updated
Building ==
  /\ \A j \in built : BuiltFor(j)
  /\ \A r \in Runs : pc[r] \in {"command", "diff"} => Builds(r) \subseteq built

LEMMA BuildsFixed ==
    ASSUME UNCHANGED <<setup, lock>>, NEW r, \A j \in Needed(r) : prep'[j] = prep[j]
    PROVE  Builds(r)' = Builds(r) /\ (UpdatesRepos(r)' <=> UpdatesRepos(r))
<1>1. Needed(r)' = Needed(r) /\ \A j : (SkipDeps(j)' <=> SkipDeps(j)) /\ (SkipRefresh(j)' <=> SkipRefresh(j))
  BY Fixed
<1>2. Builds(r)' = Builds(r)
  BY <1>1 DEF Builds
<1> QED BY <1>1, <1>2 DEF UpdatesRepos

LEMMA BuildingKept ==
    ASSUME TypeOK, Preparing, Building, [Next]_vars
    PROVE  Building'
<1>1. Flow /\ UNCHANGED <<setup, lock>>
  BY StepsFlow, SetupFixed
<1>2. /\ Jobs' = Jobs /\ \A r : JobsOf(r)' = JobsOf(r)
      /\ \A j \in Jobs : j[1] \in Runs
      /\ \A r : Needed(r) \subseteq JobsOf(r)
  BY <1>1, Fixed, JobFacts DEF TypeOK, Needed
<1>3. ASSUME NEW k \in Jobs, Worker(k)
      PROVE  Building'
  <2>1. /\ pc[k[1]] = "workers" /\ UNCHANGED <<pc, built, updated>>
        /\ \A j \in Jobs \ {k} : prep'[j] = prep[j]
    BY <1>3, WorkerFacts, WorkersAside DEF TypeOK
  <2>2. ASSUME NEW r, r # k[1]
        PROVE  Builds(r)' = Builds(r) /\ (UpdatesRepos(r)' <=> UpdatesRepos(r))
    BY <1>1, <1>2, <2>1, <2>2, BuildsFixed DEF JobsOf
  <2>3. ASSUME NEW j \in built
        PROVE  BuiltFor(j)'
    BY <2>1, <2>2, <2>3 DEF Building, BuiltFor
  <2> QED BY <2>1, <2>2, <2>3 DEF Building
<1>4. ASSUME prep' = prep, \/ UNCHANGED <<built, updated>>
                           \/ \E r \in Runs : RunOf(r)
      PROVE  Building'
  <2>1. \A r : Builds(r)' = Builds(r) /\ (UpdatesRepos(r)' <=> UpdatesRepos(r))
    BY <1>1, <1>4, BuildsFixed
  <2>2. ASSUME NEW j \in built', j \notin built
        PROVE  BuiltFor(j)'
    <3>1. PICK r \in Runs : RunOf(r)
      BY <1>4, <2>2
    <3>2. PICK k \in JobsOf(r) : BuildDeps(r, k)
      BY <2>2, <3>1 DEF RunOf, Start, Prepare, Gather, UpdateRepo, Prepared, GlobalCleanup, Deferred, unchangedRun
    <3>3. /\ pc[r] = "build" /\ j = k /\ j \in Builds(r) /\ j[1] = r /\ pc' = pc /\ updated' = updated
          /\ UpdatesRepos(r) => r \in updated
      BY <2>2, <3>2 DEF BuildDeps, JobsOf
    <3> QED BY <2>1, <3>3 DEF BuiltFor, Early, Loading
  <2>3. built \subseteq built' /\ updated \subseteq updated'
    BY <1>4, RunFacts
  <2>4. ASSUME NEW j \in built
        PROVE  pc'[j[1]] \notin Early \cup {"workers"}
    <3>1. pc[j[1]] \notin Early \cup {"workers"} /\ j[1] \in Runs
      BY <1>2, <2>4 DEF Building, BuiltFor, TypeOK
    <3>2. CASE pc' = pc
      BY <3>1, <3>2
    <3>3. ASSUME NEW r \in Runs, Step(r)
          PROVE  pc'[j[1]] \notin Early \cup {"workers"}
      BY <3>1, <3>3 DEF Step, Moves, TypeOK, Early, Loading
    <3> QED BY <1>1, <3>2, <3>3 DEF Flow
  <2>5. ASSUME NEW r \in Runs, pc'[r] \in {"command", "diff"}
        PROVE  Builds(r) \subseteq built
    <3>1. CASE pc[r] \in {"command", "diff"}
      BY <3>1 DEF Building
    <3>2. CASE pc[r] \notin {"command", "diff"}
      <4>1. (pc[r] = "prepare" /\ NoCharts) \/ (pc[r] = "build" /\ Builds(r) \subseteq built)
        BY <1>1, <2>5, <3>2 DEF Flow, Step, Moves, TypeOK, Loading
      <4>2. pc[r] = "prepare" => Builds(r) = {}
        BY DEF Preparing, PreparedFor, Builds, Needed, JobsOf, Early
      <4> QED BY <4>1, <4>2
    <3> QED BY <3>1, <3>2
  <2> QED BY <2>1, <2>2, <2>3, <2>4, <2>5 DEF Building, BuiltFor
<1>5. \/ \E k \in Jobs : Worker(k)
      \/ prep' = prep /\ (UNCHANGED <<built, updated>> \/ \E r \in Runs : RunOf(r))
  BY Cases, RunFacts DEF unchangedByLoading, vars, prepVars
<1> QED BY <1>3, <1>4, <1>5
----------------------------------------------------------------------------
(* Commands and their errors.                                               *)

Disallowed(h) == ~setup.hooks[h].ok
\* An error of a hook ends the run with it.
HooksReported == \A r \in Runs : \A h \in hooked[r] : Disallowed(h) => r \in reported

\* A job gets somewhere in its run's command only, and an error it ends in is that of the run, or
\* is going to be: diff looks at all of them at its two ends, the others keep it in mind.
Commanded(j) ==
  /\ stage[j] # "todo" => j \in Handled(j[1]) /\ pc[j[1]] \notin Early \cup {"workers", "build"}
  /\ stage[j] = "running" => pc[j[1]] = "diff"
  /\ stage[j] = "bad" => \/ setup.cmd = "diff" /\ pc[j[1]] = "command"
                         \/ j[1] \in erring \/ j[1] \in reported
  /\ stage[j] = "error" => \/ setup.cmd = "diff" /\ pc[j[1]] = "diff"
                           \/ j[1] \in erring \/ j[1] \in reported
Commanding ==
  /\ \A j \in Jobs : Commanded(j)
  /\ \A r \in erring : setup.cmd \in Sequential /\ (pc[r] = "command" \/ r \in reported)
  /\ \A r \in Runs : pc[r] = "diff" => setup.cmd = "diff"

LEMMA HooksKept ==
    ASSUME TypeOK, HooksReported, [Next]_vars
    PROVE  HooksReported'
<1>1. reported \subseteq reported' /\ setup' = setup
  BY StepsFlow, SetupFixed DEF Flow, Step
<1>2. ASSUME NEW r \in Runs, Prepare(r) \/ GlobalCleanup(r)
      PROVE  HooksReported'
  <2>1. hooked' = [hooked EXCEPT ![r] = @ \cup Trigger(IF Prepare(r) THEN "prepare" ELSE "cleanup").executed]
    BY <1>2 DEF Prepare, GlobalCleanup, Triggers
  <2>2. Trigger(IF Prepare(r) THEN "prepare" ELSE "cleanup").ok \/ r \in reported'
    BY <1>2 DEF Prepare, GlobalCleanup, Fail
  <2>3. ASSUME NEW e, Trigger(e).ok
        PROVE  \A h \in Trigger(e).executed : ~Disallowed(h)
    BY <2>3 DEF Trigger, Disallowed
  <2> QED BY <1>1, <2>1, <2>2, <2>3 DEF HooksReported, TypeOK, Disallowed
<1>3. ASSUME hooked' = hooked
      PROVE  HooksReported'
  BY <1>1, <1>3 DEF HooksReported, Disallowed
<1>4. \/ \E r \in Runs : Prepare(r) \/ GlobalCleanup(r)
      \/ hooked' = hooked
  <2>1. ASSUME NEW r \in Runs, RunOf(r)
        PROVE  Prepare(r) \/ GlobalCleanup(r) \/ hooked' = hooked
    BY <2>1 DEF RunOf, Start, Gather, UpdateRepo, Prepared, Deferred, BuildDeps
  <2> QED BY <2>1, Cases, WorkersAside DEF unchangedByLoading, vars, prepVars
<1> QED BY <1>2, <1>3, <1>4
\* A run that goes on leaves no error of its command behind.
LEMMA CommandingFlows ==
    ASSUME TypeOK, Commanding, Flow, UNCHANGED <<setup, lock, stage, erring>>
    PROVE  Commanding'
<1>1. Jobs' = Jobs /\ (\A j \in Jobs : j[1] \in Runs) /\ \A r : Handled(r)' = Handled(r)
  BY Fixed, JobFacts DEF TypeOK
<1>2. CASE pc' = pc /\ reported' = reported
  BY <1>1, <1>2 DEF Commanding, Commanded
<1>3. ASSUME NEW r \in Runs, Step(r)
      PROVE  Commanding'
  <2>1. PICK to \in Places :
          /\ Moves(r, to) /\ pc' = [pc EXCEPT ![r] = to]
          /\ reported' = reported \/ (reported' = reported \cup {r} /\ to \in {"cleanup", "deferred", "done"})
    BY <1>3 DEF Step
  <2>2. pc'[r] = to /\ reported \subseteq reported' /\ \A q \in Runs \ {r} : pc'[q] = pc[q]
    BY <2>1 DEF TypeOK
  <2>3. ASSUME NEW j \in Jobs
        PROVE  Commanded(j)'
    <3> SUFFICES
          /\ stage[j] # "todo" => j \in Handled(j[1]) /\ pc'[j[1]] \notin Early \cup {"workers", "build"}
          /\ stage[j] = "running" => pc'[j[1]] = "diff"
          /\ stage[j] = "bad" => \/ setup.cmd = "diff" /\ pc'[j[1]] = "command"
                                 \/ j[1] \in erring \/ j[1] \in reported'
          /\ stage[j] = "error" => \/ setup.cmd = "diff" /\ pc'[j[1]] = "diff"
                                   \/ j[1] \in erring \/ j[1] \in reported'
      BY <1>1 DEF Commanded
    <3>1. CASE j[1] # r
      BY <1>1, <2>2, <3>1 DEF Commanding, Commanded
    <3>2. CASE j[1] = r
      <4>1. stage[j] # "todo" => j \in Handled(r) /\ to \notin Early \cup {"workers", "build"}
        BY <2>1, <3>2 DEF Commanding, Commanded, Moves, Early, Loading
      <4>2. stage[j] = "running" => to = "diff"
        BY <2>1, <3>2, <4>1 DEF Commanding, Commanded, Moves, Early, Loading, Everything
      <4>3. stage[j] = "bad" => r \in erring \/ r \in reported'
        BY <2>1, <2>2, <3>2, <4>1 DEF Commanding, Commanded, Moves, Early, Loading, Everything, Sequential
      <4>4. stage[j] = "error" => r \in erring \/ r \in reported'
        BY <2>1, <2>2, <3>2, <4>1 DEF Commanding, Commanded, Moves, Early, Loading, Everything, Sequential
      <4> QED BY <2>2, <3>2, <4>1, <4>2, <4>3, <4>4
    <3> QED BY <3>1, <3>2
  <2>4. ASSUME NEW q \in erring
        PROVE  setup.cmd \in Sequential /\ (pc'[q] = "command" \/ q \in reported')
    <3>1. CASE q # r
      BY <2>2, <2>4, <3>1 DEF Commanding, TypeOK
    <3>2. CASE q = r
      BY <2>1, <2>2, <2>4, <3>2 DEF Commanding, Moves, Sequential, Loading
    <3> QED BY <3>1, <3>2
  <2>5. ASSUME NEW q \in Runs, pc'[q] = "diff"
        PROVE  setup.cmd = "diff"
    <3>1. CASE q # r
      BY <2>2, <2>5, <3>1 DEF Commanding
    <3>2. CASE q = r
      BY <2>1, <2>2, <2>5, <3>2 DEF Moves, Loading
    <3> QED BY <3>1, <3>2
  <2> QED BY <1>1, <2>3, <2>4, <2>5 DEF Commanding
<1> QED BY <1>2, <1>3 DEF Flow

\* Nor does the step of a job.
LEMMA CommandingSteps ==
    ASSUME TypeOK, Commanding, UNCHANGED <<setup, lock>>, NEW k \in Jobs, CommandOf(k)
    PROVE  Commanding'
<1>1. /\ Jobs' = Jobs /\ (\A j \in Jobs : j[1] \in Runs) /\ \A r : Handled(r)' = Handled(r)
      /\ UNCHANGED <<pc, reported>>
  BY Fixed, JobFacts, CommandFacts DEF TypeOK
<1>2. \E to \in Stages \ {"todo"} : stage' = [stage EXCEPT ![k] = to]
  BY CommandFacts
<1>3. erring' = erring \/ (erring' = erring \cup {k[1]} /\ setup.cmd \in Sequential /\ pc[k[1]] = "command")
  BY DEF CommandOf, DiffPrepare, DiffStart, DiffEnd, WriteValues, HelmOne, Erring, Turn, InCommand
<1>4. k \in Handled(k[1]) /\ pc[k[1]] \in {"command", "diff"}
  BY DEF CommandOf, DiffPrepare, DiffStart, DiffEnd, WriteValues, HelmOne, Turn, InCommand,
         Commanding, Commanded
<1>5. /\ stage'[k] = "running" => pc[k[1]] = "diff"
      /\ stage'[k] = "bad" => \/ setup.cmd = "diff" /\ pc[k[1]] = "command"
                              \/ k[1] \in erring'
      /\ stage'[k] = "error" => \/ setup.cmd = "diff" /\ pc[k[1]] = "diff"
                                \/ k[1] \in erring'
  <2> USE DEF TypeOK, Stage
  <2>1. CASE DiffPrepare(k)
    BY <2>1 DEF DiffPrepare
  <2>2. CASE DiffStart(k)
    BY <2>2 DEF DiffStart
  <2>3. CASE DiffEnd(k)
    <3>1. pc[k[1]] = "diff" /\ setup.cmd = "diff"
      BY <1>1, <2>3 DEF DiffEnd, Commanding, Commanded
    <3> QED BY <2>3, <3>1 DEF DiffEnd
  <2>4. CASE WriteValues(k)
    BY <2>4 DEF WriteValues, Erring
  <2>5. CASE HelmOne(k)
    BY <2>5 DEF HelmOne, Erring
  <2> QED BY <2>1, <2>2, <2>3, <2>4, <2>5 DEF CommandOf
<1>6. ASSUME NEW j \in Jobs
      PROVE  Commanded(j)'
  <2>1. CASE j = k
    BY <1>1, <1>4, <1>5, <2>1 DEF Commanded, Early, Loading
  <2>2. CASE j # k
    <3>1. stage'[j] = stage[j] /\ erring \subseteq erring'
      BY <1>2, <1>3, <2>2 DEF TypeOK
    <3> QED BY <1>1, <3>1 DEF Commanded, Commanding
  <2> QED BY <2>1, <2>2
<1> QED BY <1>1, <1>3, <1>6 DEF Commanding

LEMMA CommandingKept ==
    ASSUME TypeOK, Commanding, [Next]_vars
    PROVE  Commanding'
<1>1. Flow /\ UNCHANGED <<setup, lock>>
  BY StepsFlow, SetupFixed
<1>2. (\E k \in Jobs : CommandOf(k)) \/ UNCHANGED <<stage, erring>>
  BY Cases, EndFacts DEF commandVars, vars, cmdVars
<1> QED BY <1>1, <1>2, CommandingFlows, CommandingSteps
----------------------------------------------------------------------------
(* The result of diff.                                                      *)

\* What DiffDone takes for its result stays what helm diff has found.
ResultOf(r) ==
  result[r].over =>
    /\ pc[r] \in {"cleanup", "deferred", "done"}
    /\ pc[r] = "cleanup" => (result[r].ok <=> r \notin reported)
    /\ result[r].ok => /\ \A j \in Handled(r) : ~Failed(j)
                       /\ result[r].changed = {j \in Handled(r) : stage[j] \in {"changed", "new"}}
    /\ ~result[r].ok => result[r].changed = {}
Results == \A r \in Runs : ResultOf(r)

\* It is over for the jobs of a run with a result.
LEMMA ResultStays ==
    ASSUME TypeOK, Commanding, Flow, UNCHANGED <<setup, lock>>, NEW r \in Runs, ResultOf(r), result'[r] = result[r],
           \A j \in Jobs : stage'[j] # stage[j] => pc[j[1]] \in {"command", "diff"},
           \A j \in Jobs : prep'[j] # prep[j] => pc[j[1]] = "workers"
    PROVE  ResultOf(r)'
<1> SUFFICES ASSUME result[r].over
             PROVE  ResultOf(r)'
  BY DEF ResultOf
<1>1. pc[r] \in {"cleanup", "deferred", "done"}
  BY DEF ResultOf
<1>2. Handled(r)' = Handled(r) /\ \A j \in Handled(r) : j \in Jobs /\ stage'[j] = stage[j] /\ prep'[j] = prep[j]
  BY <1>1, Fixed DEF Handled, JobsOf
<1>3. pc'[r] \in {"cleanup", "deferred", "done"}
  BY <1>1 DEF Flow, Step, Moves, Loading, TypeOK
<1>4. pc'[r] = "cleanup" => pc[r] = "cleanup" /\ (r \in reported' <=> r \in reported)
  BY <1>1 DEF Flow, Step, Moves, Loading, TypeOK
<1>5. \A j \in Handled(r) : Failed(j)' <=> Failed(j)
  BY <1>2 DEF Failed
<1>6. {j \in Handled(r) : stage[j] \in {"changed", "new"}}' = {j \in Handled(r) : stage[j] \in {"changed", "new"}}
  BY <1>2
<1> QED BY <1>2, <1>3, <1>4, <1>5, <1>6 DEF ResultOf

LEMMA ResultsKept ==
    ASSUME TypeOK, Ended, Preparing, Commanding, Results, [Next]_vars
    PROVE  Results'
<1>1. Flow /\ UNCHANGED <<setup, lock>>
  BY StepsFlow, SetupFixed
<1>2. \A r : Handled(r)' = Handled(r) /\ Handled(r) \subseteq JobsOf(r)
  BY <1>1, Fixed DEF Handled
<1>3. ASSUME result' = result,
             \A j \in Jobs : stage'[j] # stage[j] => pc[j[1]] \in {"command", "diff"},
             \A j \in Jobs : prep'[j] # prep[j] => pc[j[1]] = "workers"
      PROVE  Results'
  BY <1>1, <1>3, ResultStays DEF Results
<1>4. ASSUME NEW j \in Jobs, Worker(j), UNCHANGED <<result, stage>>
      PROVE  Results'
  <2>1. \A k \in Jobs : prep'[k] # prep[k] => pc[k[1]] = "workers"
    BY <1>4, WorkerFacts DEF TypeOK
  <2> QED BY <1>3, <1>4, <2>1
<1>5. ASSUME NEW j \in Jobs, CommandOf(j), prep' = prep
      PROVE  Results'
  <2>1. pc[j[1]] \in {"command", "diff"}
    BY <1>5, JobFacts DEF CommandOf, DiffPrepare, DiffStart, DiffEnd, WriteValues, HelmOne, Turn, InCommand,
           Commanding, Commanded
  <2>2. \A k \in Jobs : stage'[k] # stage[k] => pc[k[1]] \in {"command", "diff"}
    BY <1>5, <2>1, CommandFacts DEF TypeOK
  <2> QED BY <1>3, <1>5, <2>2, CommandFacts
<1>6. ASSUME NEW r \in Runs, EndOf(r), prep' = prep
      PROVE  Results'
  <2>1. /\ stage' = stage /\ pc[r] \in {"command", "diff"} /\ r \notin reported
        /\ \A q \in Runs \ {r} : result'[q] = result[q]
    BY <1>6, EndFacts DEF Ended
  <2>2. \A q \in Runs \ {r} : ResultOf(q)'
    BY <1>1, <1>6, <2>1, ResultStays DEF Results
  <2>3. ASSUME NEW ok, NEW changed, DiffResult(r, ok, changed)
        PROVE  result'[r].over /\ result'[r].ok = ok /\ result'[r].changed = changed
    BY <2>3 DEF DiffResult, TypeOK
  <2>4. ASSUME DiffGather(r)
        PROVE  ResultOf(r)'
    <3>1. CASE result' = result /\ pc'[r] = "diff"
      BY <2>1, <3>1 DEF ResultOf, Results
    <3>2. CASE pc'[r] = "cleanup" /\ r \in reported' /\ DiffResult(r, FALSE, {})
      BY <2>3, <3>2 DEF ResultOf
    <3> QED BY <2>4, <3>1, <3>2 DEF DiffGather, Go, TypeOK
  <2>5. ASSUME DiffDone(r)
        PROVE  ResultOf(r)'
    <3>1. CASE /\ \A j \in Handled(r) : stage[j] # "error"
               /\ pc'[r] = "cleanup" /\ reported' = reported
               /\ DiffResult(r, TRUE, {j \in Handled(r) : stage[j] \in {"new", "changed"}})
      <4>1. \A j \in Handled(r) : ~Failed(j)
        BY <1>2, <2>1, <2>5, <3>1 DEF DiffDone, Everything, Failed, Preparing, PreparedFor, JobsOf
      <4>2. \A j \in Handled(r) : ~Failed(j)'
        BY <1>6, <2>1, <4>1 DEF Failed
      <4> QED BY <1>2, <2>1, <2>3, <3>1, <4>2 DEF ResultOf
    <3>2. CASE pc'[r] = "cleanup" /\ r \in reported' /\ DiffResult(r, FALSE, {})
      BY <2>3, <3>2 DEF ResultOf
    <3> QED BY <2>5, <3>1, <3>2 DEF DiffDone, Go, TypeOK
  <2>6. CASE OneByOneDone(r) \/ NothingMore(r)
    <3>1. result' = result
      BY <2>6 DEF OneByOneDone, NothingMore, cmdVars
    <3> QED BY <1>3, <1>6, <2>1, <3>1
  <2> QED BY <1>6, <2>2, <2>4, <2>5, <2>6, Fixed DEF EndOf, Results
<1>7. \/ UNCHANGED <<result, stage, prep>>
      \/ \E j \in Jobs : Worker(j) /\ UNCHANGED <<result, stage>>
      \/ \E j \in Jobs : CommandOf(j) /\ prep' = prep
      \/ \E r \in Runs : EndOf(r) /\ prep' = prep
  BY Cases, RunFacts DEF commandVars, unchangedByLoading, vars, prepVars, cmdVars
<1> QED BY <1>3, <1>4, <1>5, <1>6, <1>7
----------------------------------------------------------------------------
(* The inductive invariant, and what follows for results and dependencies.  *)

IInv ==
  TypeOK /\ InOrder /\ Ended /\ Preparing /\ Building /\ HooksReported /\ Commanding /\ Results

LEMMA InitIInv == Init => IInv
<1> SUFFICES ASSUME Init
             PROVE  IInv
  OBVIOUS
<1>1. TypeOK
  BY DEF Init, PrepInit, TypeOK, Places, Loading, Stages, Preps
<1>2. InOrder /\ Ended
  BY <1>1 DEF Init, PrepInit, InOrder, Ended
<1>3. Preparing /\ Building /\ HooksReported
  BY JobFacts DEF Init, PrepInit, Preparing, PreparedFor, Building, HooksReported
<1>4. Commanding /\ Results
  BY JobFacts DEF Init, PrepInit, Commanding, Commanded, Results, ResultOf
<1> QED BY <1>1, <1>2, <1>3, <1>4 DEF IInv

LEMMA Inductive == IInv /\ [Next]_vars => IInv'
BY TypesKept, OrderKept, PreparingKept, BuildingKept, HooksKept, CommandingKept, ResultsKept DEF IInv

LEMMA Invariant == Spec => []IInv
BY InitIInv, Inductive, PTL DEF Spec

\* A run stays at a place of its code, and every release at a step of its preparation and its
\* command, whichever step of whichever run or worker comes next.
THEOREM TypeCorrect == Spec => []TypeOK
<1>1. IInv => TypeOK
  BY DEF IInv
<1> QED BY <1>1, Invariant, PTL

\* Whatever goes wrong with a release or a hook, in whichever order the releases are prepared and
\* handled and for any number of state files, the run ends with an error, and diff has a result
\* if and only if it has none, with the releases helm diff found to differ (DiffReleases, Run.diff).
THEOREM NoErrorLost == Spec => []ResultExact
<1>1. IInv => DiffExact
  BY DEF IInv, Results, ResultOf, DiffExact
<1>2. ASSUME IInv, AllDone, NEW j \in Jobs, Failed(j)
      PROVE  j[1] \in reported
  <2>1. j[1] \in Runs
    BY <1>2, JobFacts DEF IInv, TypeOK
  <2>2. CASE pc[j[1]] = "done"
    BY <1>2, <2>1, <2>2 DEF IInv, Failed, Preparing, PreparedFor, Commanding, Commanded
  <2>3. CASE NeverStarts(j[1])
    <3>1. pc[j[1]] = "locate"
      BY <1>2, <2>1, <2>3 DEF NeverStarts, IInv, InOrder, TypeOK
    <3> QED BY <1>2, <3>1 DEF IInv, Failed, Preparing, PreparedFor, Commanding, Commanded, Early, Loading
  <2> QED BY <1>2, <2>1, <2>2, <2>3 DEF AllDone
<1>3. IInv => \A r \in Runs : \A h \in hooked[r] : ~setup.hooks[h].ok => r \in reported
  BY DEF IInv, HooksReported, Disallowed
<1>4. IInv => ResultExact
  BY <1>1, <1>2, <1>3 DEF ResultExact
<1> QED BY <1>4, Invariant, PTL

\* helm meets no local chart whose dependencies are not there, nor old ones while the repositories
\* were to be updated: for any releases, options of the command line, of the state file and of the
\* release, and whichever release is the last to be prepared (prepareChartForRelease, runHelmDepBuilds).
THEOREM DependenciesBuilt == Spec => []DependenciesReady
<1>1. ASSUME IInv, NEW j \in Jobs, pc[j[1]] \in {"command", "diff"}, prep[j] = "ready", Rel(j).kind # "repo",
             ~setup.skipDeps, ~Either(Rel(j).skipDeps, setup.defSkipDeps)
      PROVE  /\ j \in built
             /\ ~setup.skipRefresh /\ ~setup.defSkipRefresh /\ setup.needsUpdate
                  => j[1] \in updated \/ ~SkipRefresh(j)
  <2>1. j \in Builds(j[1])
    BY <1>1 DEF IInv, Preparing, PreparedFor, Builds, SkipDeps
  <2>2. j \in built
    BY <1>1, <2>1, JobFacts DEF IInv, Building, TypeOK
  <2>3. UpdatesRepos(j[1]) => j[1] \in updated
    BY <1>1, <2>2 DEF IInv, Building, BuiltFor
  <2> QED BY <2>1, <2>2, <2>3 DEF UpdatesRepos
<1>2. IInv => DependenciesReady
  BY <1>1 DEF DependenciesReady
<1> QED BY <1>2, Invariant, PTL
----------------------------------------------------------------------------
(* Directories.                                                             *)

\* Every temporary directory has one to remove it: its run, which does so at its end, or the worker
\* that chartify is run by.  What is downloaded to an output directory is to stay.
Owner(d) ==
  \/ d[1] = "run" /\ d[2] \in Runs /\ pc[d[2]] \in Open
  \/ d[1] = "chart" /\ IF setup.outputDir THEN d[2] = 0 ELSE d[2] \in Runs /\ pc[d[2]] \in Open
  \/ d[1] = "chartified" /\ d[2] \in Runs /\ d \in tracked[d[2]]
  \/ \E j \in Jobs : d = Copy(j) /\ prep[j] = "rewritten"
Directories ==
  /\ \A d \in dirs : Owner(d)
  /\ \A r \in Runs : \A d \in tracked[r] : d[1] = "chartified" /\ d[2] = r /\ pc[r] \in Open
\* The cache names what was downloaded for its key.
Caching ==
  \A key \in Keys : \A d \in cache[key] :
    \E k \in Jobs : d = Downloaded(k) /\ Key(k) = key /\ Rel(k).kind = "repo" /\ Forced(k)
\* State files that are handled at the same time download no chart for each other.
Apart ==
  setup.parallel /\ ~setup.outputDir =>
    \A j, k \in Jobs : /\ Rel(j).kind = "repo" /\ Forced(j) /\ Rel(k).kind = "repo" /\ Forced(k)
                       /\ Key(j) = Key(k)
                       => j[1] = k[1]
\* A chart is in a directory of its own run, which is there as long as the run needs it.
Placed(j) ==
  /\ \A d \in path[j] : \/ d[1] = "chartified" /\ d[2] = j[1]
                        \/ d[1] = "chart" /\ d[2] = IF setup.outputDir THEN 0 ELSE j[1]
  /\ IF prep[j] = "ready" THEN pc[j[1]] \in Open => path[j] \subseteq dirs ELSE path[j] = {}
AllPlaced == \A j \in Jobs : Placed(j)

\* Only the end of a run closes it.
LEMMA StaysOpen ==
    ASSUME TypeOK, Flow, NEW r \in Runs, pc[r] \in Open
    PROVE  pc'[r] \in Open \/ Deferred(r)
BY DEF Flow, Step, Moves, Open, Loading, TypeOK

LEMMA DirectoriesKept ==
    ASSUME TypeOK, Directories, [Next]_vars
    PROVE  Directories'
<1>1. Flow /\ UNCHANGED <<setup, lock>> /\ Jobs' = Jobs /\ \A j \in Jobs : j = <<j[1], j[2]>> /\ j[1] \in Runs
  BY StepsFlow, SetupFixed, Fixed, JobFacts DEF TypeOK
<1>2. ASSUME NEW r \in Runs, Deferred(r)
      PROVE  Directories'
  <2>1. /\ dirs' = {d \in dirs \ tracked[r] : ~(d[1] \in {"run", "chart"} /\ d[2] = r)}
        /\ tracked' = [tracked EXCEPT ![r] = {}] /\ pc' = [pc EXCEPT ![r] = "done"] /\ prep' = prep
    BY <1>2 DEF Deferred, Go
  <2>2. ASSUME NEW d \in dirs'
        PROVE  Owner(d)'
    <3>1. Owner(d) /\ d \notin tracked[r] /\ ~(d[1] \in {"run", "chart"} /\ d[2] = r)
      BY <2>1, <2>2 DEF Directories
    <3> QED BY <1>1, <2>1, <3>1 DEF Owner, Copy, TypeOK
  <2>3. \A q \in Runs : \A d \in tracked'[q] : d[1] = "chartified" /\ d[2] = q /\ pc'[q] \in Open
    BY <2>1 DEF Directories, TypeOK
  <2> QED BY <2>2, <2>3 DEF Directories
<1>3. ASSUME \A r \in Runs : ~Deferred(r), tracked' = tracked, prep' = prep,
             \A d \in dirs' : d \in dirs \/ \E r \in Runs : d = <<"run", r, "">> /\ pc'[r] \in Open
      PROVE  Directories'
  <2>1. \A r \in Runs : pc[r] \in Open => pc'[r] \in Open
    BY <1>1, <1>3, StaysOpen
  <2>2. ASSUME NEW d \in dirs'
        PROVE  Owner(d)'
    <3>1. CASE d \in dirs
      <4>1. Owner(d)
        BY <3>1 DEF Directories
      <4> QED BY <1>1, <1>3, <2>1, <4>1 DEF Owner, Copy
    <3>2. CASE \E r \in Runs : d = <<"run", r, "">> /\ pc'[r] \in Open
      <4>1. PICK r \in Runs : d = <<"run", r, "">> /\ pc'[r] \in Open
        BY <3>2
      <4>2. d[1] = "run" /\ d[2] = r
        BY <4>1
      <4> QED BY <4>1, <4>2 DEF Owner
    <3> QED BY <1>3, <3>1, <3>2
  <2> QED BY <1>3, <2>1, <2>2 DEF Directories
<1>4. ASSUME NEW k \in Jobs, Worker(k)
      PROVE  Directories'
  <2>1. /\ pc[k[1]] = "workers" /\ pc' = pc
        /\ \E to \in Preps \ {"todo"} : prep' = [prep EXCEPT ![k] = to]
    BY <1>4, WorkerFacts, WorkersAside
  <2>2. /\ tracked' = tracked \/ tracked' = [tracked EXCEPT ![k[1]] = @ \cup {Chartified(k)}]
        /\ \A d \in dirs' : \/ d \in dirs \/ d = Downloaded(k)
                            \/ d = Copy(k) /\ prep'[k] = "rewritten"
                            \/ d = Chartified(k) /\ d \in tracked'[k[1]]
        /\ Copy(k) \in dirs' => Copy(k) \notin dirs \/ prep'[k] = prep[k] \/ prep[k] # "rewritten"
    <3> USE DEF TypeOK, Set, Leave, At, unchangedPrep
    <3>1. CASE Fetch(k)
      BY <3>1 DEF Fetch, GoGetterChart
    <3>2. CASE PrepareChartify(k)
      BY <3>2 DEF PrepareChartify
    <3>3. CASE RewriteDependencies(k)
      BY <1>1, <3>3 DEF RewriteDependencies
    <3>4. CASE Chartify(k)
      BY <1>1, <3>4 DEF Chartify, ReadyForChartify, Chartified, Copy
    <3>5. CASE UseDirectory(k)
      BY <3>5 DEF UseDirectory
    <3>6. CASE LeaveToHelm(k)
      BY <3>6 DEF LeaveToHelm
    <3>7. CASE UseCached(k)
      BY <3>7 DEF UseCached
    <3>8. CASE Download(k)
      BY <3>8 DEF Download
    <3> QED BY <1>4, <3>1, <3>2, <3>3, <3>4, <3>5, <3>6, <3>7, <3>8 DEF Worker
  <2>3. \A r \in Runs : tracked[r] \subseteq tracked'[r]
    BY <1>1, <2>2 DEF TypeOK
  <2>4. ASSUME NEW d \in dirs'
        PROVE  Owner(d)'
    <3>1. CASE d \in dirs /\ d # Copy(k)
      <4>1. Owner(d)
        BY <3>1 DEF Directories
      <4>2. \A j \in Jobs : d = Copy(j) /\ prep[j] = "rewritten" => d = Copy(j) /\ prep'[j] = "rewritten"
        BY <2>1, <3>1 DEF TypeOK
      <4>3. Copy(k)' = Copy(k) /\ \A j : Copy(j)' = Copy(j)
        BY DEF Copy
      <4> QED BY <1>1, <2>1, <2>3, <4>1, <4>2, <4>3 DEF Owner
    <3>2. CASE d = Copy(k)
      <4>1. CASE d \notin dirs
        <5>1. prep'[k] = "rewritten"
          BY <2>2, <3>2, <4>1 DEF Copy, Downloaded, Chartified
        <5> QED BY <1>1, <3>2, <5>1 DEF Owner, Copy
      <4>2. CASE d \in dirs
        <5>1. prep[k] = "rewritten"
          <6>1. PICK j \in Jobs : d = Copy(j) /\ prep[j] = "rewritten"
            BY <3>2, <4>2 DEF Directories, Owner, Copy
          <6>2. j = k
            BY <1>1, <3>2, <6>1 DEF Copy
          <6> QED BY <6>1, <6>2
        <5>2. prep'[k] = "rewritten"
          BY <2>2, <2>4, <3>2, <4>2, <5>1
        <5> QED BY <1>1, <3>2, <5>2 DEF Owner, Copy
      <4> QED BY <4>1, <4>2
    <3>3. CASE d = Downloaded(k)
      BY <1>1, <2>1, <3>3 DEF Owner, Downloaded, Open
    <3>4. CASE d = Chartified(k) /\ d \in tracked'[k[1]]
      BY <1>1, <3>4 DEF Owner, Chartified
    <3> QED BY <2>2, <2>4, <3>1, <3>2, <3>3, <3>4
  <2>5. ASSUME NEW r \in Runs, NEW d \in tracked'[r]
        PROVE  d[1] = "chartified" /\ d[2] = r /\ pc'[r] \in Open
    <3>1. CASE d \in tracked[r]
      BY <2>1, <3>1 DEF Directories
    <3>2. CASE d \notin tracked[r]
      <4>1. r = k[1] /\ d = Chartified(k)
        BY <2>2, <2>5, <3>2 DEF TypeOK
      <4> QED BY <2>1, <4>1 DEF Chartified, Open
    <3> QED BY <3>1, <3>2
  <2> QED BY <2>4, <2>5 DEF Directories
<1>5. \/ \E r \in Runs : Deferred(r)
      \/ \E k \in Jobs : Worker(k)
      \/ /\ tracked' = tracked /\ prep' = prep
         /\ \A d \in dirs' : d \in dirs \/ \E r \in Runs : d = <<"run", r, "">> /\ pc'[r] \in Open
  <2>1. ASSUME NEW r \in Runs, RunOf(r), ~Deferred(r)
        PROVE  /\ tracked' = tracked /\ prep' = prep
               /\ \A d \in dirs' : d \in dirs \/ (d = <<"run", r, "">> /\ pc'[r] \in Open)
    BY <2>1 DEF RunOf, Start, Prepare, Gather, UpdateRepo, Prepared, GlobalCleanup, BuildDeps, unchangedRun,
                Go, Open, TypeOK
  <2> QED BY <2>1, Cases DEF unchangedByLoading, vars, prepVars
<1> QED BY <1>2, <1>3, <1>4, <1>5
LEMMA CachingKept ==
    ASSUME TypeOK, Caching, [Next]_vars
    PROVE  Caching'
<1>1. /\ UNCHANGED <<setup, lock>> /\ Jobs' = Jobs /\ Keys' = Keys
      /\ \A j : Rel(j)' = Rel(j) /\ Key(j)' = Key(j) /\ Downloaded(j)' = Downloaded(j) /\ (Forced(j)' <=> Forced(j))
  BY SetupFixed, Fixed
<1>2. \/ cache' = cache
      \/ \E k \in Jobs : /\ Rel(k).kind = "repo" /\ Forced(k)
                         /\ cache' = [cache EXCEPT ![Key(k)] = {Downloaded(k)}]
  <2>1. ASSUME NEW k \in Jobs, Worker(k), cache' # cache
        PROVE  /\ Rel(k).kind = "repo" /\ Forced(k)
               /\ cache' = [cache EXCEPT ![Key(k)] = {Downloaded(k)}]
    BY <2>1 DEF Worker, Fetch, PrepareChartify, RewriteDependencies, Chartify, UseDirectory, LeaveToHelm,
                UseCached, Download
  <2> QED BY <2>1, Cases, RunFacts DEF unchangedByLoading, vars, prepVars
<1>3. CASE cache' = cache
  BY <1>1, <1>3 DEF Caching
<1>4. ASSUME NEW k \in Jobs, Rel(k).kind = "repo", Forced(k),
             cache' = [cache EXCEPT ![Key(k)] = {Downloaded(k)}]
      PROVE  Caching'
  <2> SUFFICES ASSUME NEW key \in Keys, NEW d \in cache'[key]
               PROVE  \E j \in Jobs : d = Downloaded(j) /\ Key(j) = key /\ Rel(j).kind = "repo" /\ Forced(j)
    BY <1>1 DEF Caching
  <2>1. CASE key = Key(k)
    BY <1>4, <2>1 DEF TypeOK
  <2>2. CASE key # Key(k)
    BY <1>4, <2>2 DEF TypeOK, Caching
  <2> QED BY <2>1, <2>2
<1> QED BY <1>2, <1>3, <1>4

LEMMA ApartKept ==
    ASSUME Apart, [Next]_vars
    PROVE  Apart'
<1>1. /\ UNCHANGED <<setup, lock>> /\ Jobs' = Jobs
      /\ \A j : Rel(j)' = Rel(j) /\ Key(j)' = Key(j) /\ (Forced(j)' <=> Forced(j))
  BY SetupFixed, Fixed
<1> QED BY <1>1 DEF Apart

\* A cached directory that is there was downloaded by the same run.
LEMMA CachedIsOwn ==
    ASSUME TypeOK, InOrder, Directories, Caching, Apart, NEW j \in Jobs, UseCached(j), NEW d \in cache[Key(j)]
    PROVE  d[1] = "chart" /\ d[2] = IF setup.outputDir THEN 0 ELSE j[1]
<1>1. /\ Rel(j).kind = "repo" /\ Forced(j) /\ d \in dirs /\ Key(j) \in Keys /\ pc[j[1]] = "workers"
  BY DEF UseCached, InCache, Keys, At
<1>2. PICK k \in Jobs : d = Downloaded(k) /\ Key(k) = Key(j) /\ Rel(k).kind = "repo" /\ Forced(k)
  BY <1>1 DEF Caching
<1>3. d[1] = "chart" /\ d[2] = IF setup.outputDir THEN 0 ELSE k[1]
  BY <1>2 DEF Downloaded
<1>4. ASSUME ~setup.outputDir
      PROVE  k[1] = j[1]
  <2>1. CASE setup.parallel
    BY <1>1, <1>2, <1>4, <2>1 DEF Apart
  <2>2. CASE ~setup.parallel
    <3>1. Owner(d) /\ k[1] \in Runs /\ j[1] \in Runs /\ k[1] \in Nat /\ j[1] \in Nat
      BY <1>1, JobFacts, ChartPreparationAssumption DEF Directories, TypeOK
    <3>2. pc[k[1]] \in Open
      BY <1>3, <1>4, <3>1 DEF Owner, Copy
    <3>3. ~(k[1] < j[1]) /\ ~(j[1] < k[1])
      BY <1>1, <2>2, <3>1, <3>2 DEF InOrder, Open
    <3> QED BY <3>1, <3>3
  <2> QED BY <2>1, <2>2
<1> QED BY <1>3, <1>4
\* What a worker does for the chart of its job is done for no other.
LEMMA PlacedByWorkers ==
    ASSUME TypeOK, InOrder, Directories, Caching, Apart, AllPlaced, NEW k \in Jobs, Worker(k)
    PROVE  AllPlaced'
<1>1. /\ UNCHANGED <<setup, pc>> /\ Jobs' = Jobs /\ k[1] \in Runs
  BY WorkersAside, JobFacts DEF Jobs, TypeOK
<1>2. /\ \A j \in Jobs \ {k} : path'[j] = path[j] /\ prep'[j] = prep[j]
      /\ prep[k] # "ready" /\ path[k] = {}
  BY WorkerFacts DEF TypeOK, AllPlaced, Placed
<1>3. /\ \A d \in dirs : d \in dirs' \/ d = Copy(k)
      /\ IF prep'[k] = "ready" THEN path'[k] \subseteq dirs' ELSE path'[k] = {}
      /\ \A d \in path'[k] : d = Chartified(k) \/ d = Downloaded(k) \/ (UseCached(k) /\ d \in cache[Key(k)])
  <2> USE <1>2 DEF TypeOK, Set, Leave, unchangedPrep
  <2>1. CASE Fetch(k)
    BY <2>1 DEF Fetch, GoGetterChart
  <2>2. CASE PrepareChartify(k)
    BY <2>2 DEF PrepareChartify
  <2>3. CASE RewriteDependencies(k)
    BY <2>3 DEF RewriteDependencies
  <2>4. CASE Chartify(k)
    BY <2>4 DEF Chartify, ReadyForChartify
  <2>5. CASE UseDirectory(k)
    BY <2>5 DEF UseDirectory
  <2>6. CASE LeaveToHelm(k)
    BY <2>6 DEF LeaveToHelm
  <2>7. CASE UseCached(k)
    BY <2>7 DEF UseCached, InCache
  <2>8. CASE Download(k)
    BY <2>8 DEF Download
  <2> QED BY <2>1, <2>2, <2>3, <2>4, <2>5, <2>6, <2>7, <2>8 DEF Worker
<1>4. ASSUME NEW d \in path'[k]
      PROVE  \/ d[1] = "chartified" /\ d[2] = k[1]
             \/ d[1] = "chart" /\ d[2] = IF setup.outputDir THEN 0 ELSE k[1]
  <2>1. CASE d = Chartified(k)
    BY <2>1 DEF Chartified
  <2>2. CASE d = Downloaded(k)
    BY <2>2 DEF Downloaded
  <2>3. CASE UseCached(k) /\ d \in cache[Key(k)]
    BY <2>3, CachedIsOwn
  <2> QED BY <1>3, <1>4, <2>1, <2>2, <2>3
<1>5. Placed(k)'
  BY <1>1, <1>3, <1>4 DEF Placed
<1>6. ASSUME NEW j \in Jobs \ {k}
      PROVE  Placed(j)'
  <2>1. Placed(j) /\ path'[j] = path[j] /\ prep'[j] = prep[j]
    BY <1>2 DEF AllPlaced
  <2>2. \A d \in path[j] : d # Copy(k)
    BY <2>1 DEF Placed, Copy
  <2> QED BY <1>1, <1>3, <2>1, <2>2 DEF Placed
<1> QED BY <1>1, <1>5, <1>6 DEF AllPlaced

LEMMA PlacedKept ==
    ASSUME TypeOK, InOrder, Preparing, Directories, Caching, Apart, AllPlaced, [Next]_vars
    PROVE  AllPlaced'
<1>1. Flow /\ UNCHANGED setup /\ Jobs' = Jobs /\ \A j \in Jobs : j[1] \in Runs
  BY StepsFlow, SetupFixed, Fixed, JobFacts DEF TypeOK
<1>2. ASSUME prep' = prep, path' = path, dirs \subseteq dirs' \/ \E r \in Runs : Deferred(r)
      PROVE  AllPlaced'
  <2>1. ASSUME NEW j \in Jobs, prep[j] = "ready", pc'[j[1]] \in Open, NEW d \in path[j]
        PROVE  d \in dirs'
    <3>1. pc[j[1]] \in Open
      <4>1. pc[j[1]] \in Open \cup {"done"}
        BY <1>1, <2>1 DEF Preparing, PreparedFor, TypeOK, Places, Early
      <4>2. pc[j[1]] # "done"
        BY <1>1, <2>1 DEF Flow, Step, Moves, TypeOK, Loading, Open
      <4> QED BY <4>1, <4>2
    <3>2. /\ d \in dirs
          /\ \/ d[1] = "chartified" /\ d[2] = j[1]
             \/ d[1] = "chart" /\ d[2] = IF setup.outputDir THEN 0 ELSE j[1]
      BY <2>1, <3>1 DEF AllPlaced, Placed
    <3>3. ASSUME NEW r \in Runs, Deferred(r)
          PROVE  d \in dirs'
      <4>1. r # j[1]
        BY <1>1, <2>1, <3>3 DEF Deferred, Go, TypeOK, Open
      <4>2. r # 0
        BY ChartPreparationAssumption
      <4>3. d \notin tracked[r]
        BY <3>2, <4>1 DEF Directories
      <4>4. ~(d[1] \in {"run", "chart"} /\ d[2] = r)
        BY <3>2, <4>1, <4>2
      <4> QED BY <3>2, <3>3, <4>3, <4>4 DEF Deferred
    <3> QED BY <1>2, <3>2, <3>3
  <2> QED BY <1>1, <1>2, <2>1 DEF AllPlaced, Placed
<1>3. \/ \E k \in Jobs : Worker(k)
      \/ prep' = prep /\ path' = path /\ (dirs \subseteq dirs' \/ \E r \in Runs : Deferred(r))
  <2>1. ASSUME NEW r \in Runs, RunOf(r), ~Deferred(r)
        PROVE  dirs \subseteq dirs'
    BY <2>1 DEF RunOf, Start, Prepare, Gather, UpdateRepo, Prepared, GlobalCleanup, BuildDeps, unchangedRun
  <2> QED BY <2>1, Cases, RunFacts DEF unchangedByLoading, vars, prepVars
<1> QED BY <1>2, <1>3, PlacedByWorkers

----------------------------------------------------------------------------
(* Charts stay where they are.                                              *)

DirsInv == IInv /\ Directories /\ Caching

LEMMA DirsInvariant == Spec => []DirsInv
<1>1. Init => Directories /\ Caching
  BY DEF Init, PrepInit, Directories, Caching
<1>2. IInv /\ Directories /\ Caching /\ [Next]_vars => Directories' /\ Caching'
  BY DirectoriesKept, CachingKept DEF IInv
<1> QED BY <1>1, <1>2, Invariant, PTL DEF Spec, DirsInv

\* forcedDownloadChart's "the tempDir won't be deleted until after helm operations complete" is true
\* of every chart, if the state files that are handled at the same time download none that they
\* share (Apart): they share the cache of downloaded charts, but not the directories it names.
THEOREM ChartsStay == Spec /\ Apart => []ChartPresent
<1>1. Init => AllPlaced
  BY DEF Init, PrepInit, AllPlaced, Placed
<1>2. DirsInv /\ Apart /\ AllPlaced /\ [Next]_vars => Apart' /\ AllPlaced'
  BY ApartKept, PlacedKept DEF DirsInv, IInv
<1>3. AllPlaced => ChartPresent
  BY DEF AllPlaced, Placed, ChartPresent, Open
<1> QED BY <1>1, <1>2, <1>3, DirsInvariant, PTL DEF Spec

-----------------------------------------------------------------------------
(* The lock file.                                                          *)

\* A bounded set of numbers has a largest: the one with the least above it.
LEMMA MaxOfVersions ==
    ASSUME NEW n \in Nat, NEW S, S \subseteq 0..n, S # {}
    PROVE  Max(S) \in S /\ \A y \in S : Max(S) >= y
<1> DEFINE above(v) == (v + 1)..n
           tails == {above(v) : v \in S}
<1>1. tails \subseteq SUBSET (0..n) /\ tails # {}
  <2>1. \A v \in S : v \in Nat /\ above(v) \subseteq 0..n
    OBVIOUS
  <2> HIDE DEF above
  <2> QED BY <2>1
<1>2. IsWellFoundedOn(StrictSubsetOrdering(0..n), SUBSET (0..n))
  <2>1. IsFiniteSet(0..n)
    BY FS_Interval
  <2> QED BY <2>1, FS_FiniteSubsetsOfFinite, FS_StrictSubsetOrderingWellFounded
<1>3. PICK t \in tails : \A u \in tails : <<u, t>> \notin StrictSubsetOrdering(0..n)
  <2> HIDE DEF tails
  <2> QED BY <1>1, <1>2, WFMin
<1>4. PICK v \in S : t = above(v)
  OBVIOUS
<1>5. \A w \in S : v >= w
  <2> SUFFICES ASSUME NEW w \in S, w > v PROVE FALSE
    OBVIOUS
  <2>1. above(w) \subseteq t /\ w \in t /\ w \notin above(w)
    BY <1>4
  <2>2. above(w) \in SUBSET (0..n) /\ t \in SUBSET (0..n) /\ above(w) \in tails
    BY <1>1
  <2> HIDE DEF above, tails
  <2> QED BY <1>3, <2>1, <2>2 DEF StrictSubsetOrdering
<1> QED BY <1>5 DEF Max

\* What helm writes to the lock file was published at the time.
Published == UNION {setup.published[p] : p \in DOMAIN setup.published}
Locking == lock \in {NoLock, UpdateLock(NoLock, WhenLocked(Listed(RelsOf(1))), setup.published)}

LEMMA LockedVersions ==
    ASSUME setup \in Setups, Locking, lock.exists
    PROVE  \A i \in DOMAIN lock.deps : lock.deps[i].version \in Published
<1> DEFINE rels == WhenLocked(Listed(RelsOf(1)))
           deps == Unresolved(rels)
           resolved == HelmResolve(deps, setup.published)
<1>1. lock = UpdateLock(NoLock, rels, setup.published) /\ lock # NoLock
  BY DEF Locking, NoLock
<1>2. HelmResolves(deps, setup.published) /\ lock.deps = Dedup(resolved)
  BY <1>1 DEF UpdateLock
<1>3. \A i \in DOMAIN deps : deps[i].repo \in DOMAIN setup.published
  <2> SUFFICES ASSUME NEW i \in DOMAIN deps PROVE deps[i].repo \in DOMAIN setup.published
    OBVIOUS
  <2>1. i \in DOMAIN rels /\ deps[i].repo = rels[i].repo /\ rels[i].kind = "repo"
    BY DEF Unresolved, Pinnable
  <2>2. i \in DOMAIN Listed(RelsOf(1)) /\ rels[i].repo = Listed(RelsOf(1))[i].repo /\ Listed(RelsOf(1))[i].kind = "repo"
    BY <2>1 DEF WhenLocked
  <2>3. PICK j \in JobsOf(1) : Listed(RelsOf(1))[i] = Rel(j)
    BY <2>2 DEF Listed, RelsOf
  <2> QED BY <2>1, <2>2, <2>3, ChartPreparationAssumption DEF JobsOf, Jobs, Rel
<1>4. \A i \in DOMAIN resolved : resolved[i].version \in Published
  <2> SUFFICES ASSUME NEW i \in DOMAIN resolved PROVE resolved[i].version \in Published
    OBVIOUS
  <2> DEFINE S == deps[i].allowed \cap setup.published[deps[i].repo]
  <2>1. i \in DOMAIN deps /\ resolved[i].version = Max(S) /\ S # {}
    BY <1>2 DEF HelmResolve, HelmResolves
  <2>2. deps[i].repo \in DOMAIN setup.published
    BY <1>3, <2>1
  <2>3. PICK n \in Nat : S \subseteq 0..n
    <3>1. setup.published[deps[i].repo] # {}
      BY <2>1
    <3>2. PICK n \in setup.published[deps[i].repo] \cap Nat : setup.published[deps[i].repo] \subseteq 0..n
      BY <2>2, <3>1, ChartPreparationAssumption
    <3> QED BY <3>2
  <2>4. Max(S) \in S
    BY <2>1, <2>3, MaxOfVersions
  <2> QED BY <2>1, <2>2, <2>4 DEF Published
<1> HIDE DEF resolved
<1> QED BY <1>2, <1>4 DEF Dedup

\* A run that uses versions has found one for every release that is pinned.
Pinning == \A r \in Runs : pc[r] \in {"workers", "build", "command", "diff"} => PinnedAll(r)

LEMMA PinningKept ==
    ASSUME IInv, Locking, Pinning, [Next]_vars
    PROVE  Locking' /\ Pinning'
<1>1. Flow /\ UNCHANGED <<setup, lock>>
  BY StepsFlow, SetupFixed DEF IInv
<1>2. Locking'
  <2>1. RelsOf(1)' = RelsOf(1)
    BY <1>1, Fixed DEF RelsOf
  <2> QED BY <1>1, <2>1 DEF Locking
<1>3. \A r : PinnedAll(r)' <=> PinnedAll(r)
  BY <1>1, Fixed DEF PinnedAll, RelsOf
<1>4. ASSUME NEW r \in Runs, pc'[r] \in {"workers", "build", "command", "diff"}
      PROVE  PinnedAll(r)
  <2>1. CASE pc'[r] = pc[r]
    BY <1>4, <2>1 DEF Pinning
  <2>2. CASE pc'[r] # pc[r]
    <3>1. Moves(r, pc'[r])
      BY <1>1, <2>2 DEF Flow, Step, IInv, TypeOK
    <3> QED BY <1>4, <3>1 DEF Moves, Loading, Pinning
  <2> QED BY <2>1, <2>2
<1> QED BY <1>2, <1>3, <1>4 DEF Pinning

\* However releases share the lock file, and whatever was published since: a run that handles
\* charts has a version for every release that the file pins, one that the release's constraint
\* allows and that was published when the file was written (resolveDependencies, doUpdate).
THEOREM VersionsHold == Spec => []LockHolds
<1>1. Init => Locking /\ Pinning
  BY DEF Init, PrepInit, Locking, Pinning
<1>2. IInv /\ Locking /\ Pinning => LockHolds
  <2> SUFFICES ASSUME IInv, Locking, Pinning, lock.exists,
                      NEW r \in Runs, pc[r] \in {"workers", "build", "command", "diff"},
                      NEW j \in JobsOf(r), Pinnable(Rel(j))
               PROVE  /\ Pinned(lock, Rel(j)) \subseteq Rel(j).allowed
                      /\ Pinned(lock, Rel(j)) \subseteq Published
                      /\ NoCharts \/ Pinned(lock, Rel(j)) # {}
    BY DEF LockHolds, Published
  <2>1. Pinned(lock, Rel(j)) = Get(lock, Rel(j))
    BY DEF Pinned
  <2>2. \A v \in Get(lock, Rel(j)) : \E i \in DOMAIN lock.deps : lock.deps[i].version = v /\ v \in Rel(j).allowed
    BY DEF Get, FirstVersion
  <2>3. NoCharts \/ Get(lock, Rel(j)) # {}
    BY DEF Pinning, PinnedAll, Resolvable, RelsOf
  <2>4. \A i \in DOMAIN lock.deps : lock.deps[i].version \in Published
    BY LockedVersions DEF IInv, TypeOK
  <2> QED BY <2>1, <2>2, <2>3, <2>4
<1>3. IInv /\ Locking /\ Pinning /\ [Next]_vars => Locking' /\ Pinning'
  BY PinningKept
<1> QED BY <1>1, <1>2, <1>3, Invariant, PTL DEF Spec
----------------------------------------------------------------------------
(* Who moves a run.                                                         *)

RemoteOf(r) == \/ Locate(r) \/ FetchCached(r) \/ StartGet(r) \/ NoSuchObject(r) \/ GetFails(r)
               \/ HttpGet(r) \/ S3Get(r) \/ GoGet(r) \/ Fetched(r)
LEMMA Mover ==
    ASSUME TypeOK, [Next]_vars, NEW r \in Runs, pc'[r] # pc[r] \/ r \in reported' \ reported
    PROVE  RemoteOf(r) \/ BeginPart(r) \/ EndPart(r) \/ Loaded(r) \/ RunOf(r) \/ EndOf(r)
<1>1. ASSUME NEW q \in Runs, RemoteOf(q) \/ BeginPart(q) \/ EndPart(q) \/ Loaded(q)
      PROVE  r = q
  <2>1. \A p \in Runs \ {q} : pc'[p] = pc[p] /\ (p \in reported' <=> p \in reported)
    BY <1>1 DEF TypeOK, RemoteOf, Locate, FetchCached, StartGet, NoSuchObject, GetFails, HttpGet, S3Get, GoGet,
                Fetched, BeginPart, EndPart, Loaded, Go, LoadFails, LoadSkips
  <2> QED BY <2>1
<1>2. ASSUME NEW q \in Runs, RunOf(q)
      PROVE  r = q
  <2>1. \A p \in Runs \ {q} : p \in reported' <=> p \in reported
    BY <1>2 DEF RunOf, Start, Prepare, Gather, UpdateRepo, Prepared, GlobalCleanup, Deferred, BuildDeps,
                Go, Fail, PrepareCharts
  <2> QED BY <1>2, <2>1, RunFacts
<1>3. ASSUME NEW q \in Runs, EndOf(q)
      PROVE  r = q
  <2>1. \A p \in Runs \ {q} : p \in reported' <=> p \in reported
    BY <1>3 DEF EndOf, DiffGather, DiffDone, OneByOneDone, NothingMore, Go
  <2> QED BY <1>3, <2>1, EndFacts
<1>4. LoadNext => (RemoteOf(r) \/ BeginPart(r) \/ EndPart(r) \/ Loaded(r))
  BY <1>1, DecryptsAside DEF LoadNext, RemoteNext, RemoteOf
<1> QED BY <1>2, <1>3, <1>4, Cases, WorkersAside, CommandFacts DEF vars, prepVars

\* Of a remote file there is half if a getter is at it, or the http getter has given up.
Remotes ==
  \A u \in DOMAIN remotes : remotes[u] = "part" =>
    \E r \in Runs : From(r).url = u /\ (pc[r] = "receiving" \/ (r \in reported /\ From(r).getter = "http"))

LEMMA RemotesKept ==
    ASSUME TypeOK, Remotes, [Next]_vars
    PROVE  Remotes'
<1>1. Flow /\ setup' = setup /\ \A r : From(r)' = From(r)
  BY StepsFlow, SetupFixed DEF From, Load
<1>2. reported \subseteq reported'
  BY <1>1 DEF Flow, Step
<1>3. ASSUME NEW r \in Runs, RemoteOf(r)
      PROVE  Remotes'
  <2>1. /\ \A q \in Runs \ {r} : pc'[q] = pc[q]
        /\ \/ remotes' = remotes /\ pc[r] # "receiving"
           \/ remotes' = remotes /\ From(r).getter = "http" /\ r \in reported'
           \/ \E what \in {"none", "whole"} : Keep(r, what)
           \/ Keep(r, "part") /\ pc'[r] = "receiving"
    BY <1>3 DEF TypeOK, RemoteOf, Locate, FetchCached, StartGet, NoSuchObject, GetFails, HttpGet, S3Get, GoGet,
                Fetched, Go, LoadFails
  <2> SUFFICES ASSUME NEW u \in DOMAIN remotes', remotes'[u] = "part"
               PROVE  \E q \in Runs : From(q).url = u /\ (pc'[q] = "receiving" \/ (q \in reported' /\ From(q).getter = "http"))
    BY <1>1 DEF Remotes
  <2>2. CASE From(r).url = u /\ (pc'[r] = "receiving" \/ (r \in reported' /\ From(r).getter = "http"))
    BY <2>2
  <2>3. CASE ~(From(r).url = u /\ (pc'[r] = "receiving" \/ (r \in reported' /\ From(r).getter = "http")))
    <3>1. u \in DOMAIN remotes /\ remotes[u] = "part" /\ (From(r).url # u \/ pc[r] # "receiving")
      BY <2>1, <2>3 DEF Keep
    <3>2. PICK q \in Runs : From(q).url = u /\ (pc[q] = "receiving" \/ (q \in reported /\ From(q).getter = "http"))
      BY <3>1 DEF Remotes
    <3>3. q = r => q \in reported /\ From(q).getter = "http"
      BY <3>1, <3>2
    <3> QED BY <1>2, <2>1, <3>2, <3>3
  <2> QED BY <2>2, <2>3
<1>4. ASSUME remotes' = remotes, \A r \in Runs : ~RemoteOf(r)
      PROVE  Remotes'
  <2>1. ASSUME NEW r \in Runs, pc[r] = "receiving"
        PROVE  pc'[r] = "receiving"
    <3>1. ~BeginPart(r) /\ ~EndPart(r) /\ ~Loaded(r) /\ ~RunOf(r) /\ ~EndOf(r)
      BY <2>1, EndFacts DEF BeginPart, EndPart, Loaded, RunOf, Start, Prepare, Gather, UpdateRepo, Prepared,
                            GlobalCleanup, Deferred, BuildDeps
    <3> QED BY <1>4, <2>1, <3>1, Mover
  <2> QED BY <1>1, <1>2, <1>4, <2>1 DEF Remotes
<1>5. (\E r \in Runs : RemoteOf(r)) \/ remotes' = remotes
  <2>1. LoadNext => (\E r \in Runs : RemoteOf(r)) \/ remotes' = remotes
    BY DecryptsAside DEF LoadNext, RemoteNext, RemoteOf, BeginPart, EndPart, Loaded, unchangedRest
  <2> QED BY <2>1, Kinds DEF loadingVars, vars
<1> QED BY <1>3, <1>4, <1>5
----------------------------------------------------------------------------
(* Values files.                                                            *)

\* A generator that succeeds leaves nothing that is nobody's.
FilesOf(g, owner) ==
  /\ g.ok => g.left = {}
  /\ \A f \in g.files \cup g.left : f[1][1] = owner /\ f[1][2] # "env"

LEMMA GeneratedFiles ==
    ASSUME NEW owner, NEW what, what # "env", NEW entries, NEW handler
    PROVE  FilesOf(Generated(Generate(<<owner, what>>, entries, handler)), owner)
<1> DEFINE g == Generate(<<owner, what>>, entries, handler)
<1>1. ASSUME NEW f \in g.files
      PROVE  f[1] = <<owner, what>>
  <2>1. PICK i : f = <<<<owner, what>>, i>>
    BY DEF Generate
  <2> QED BY <2>1
<1>2. \A f \in g.files : f[1][1] = owner /\ f[1][2] # "env"
  BY <1>1
<1> HIDE DEF g
<1>3. FilesOf(Generated(g), owner)
  BY <1>2 DEF Generated, FilesOf
<1> QED BY <1>3 DEF g

LEMMA ValuesFilesOf ==
    ASSUME NEW owner, NEW rel, NEW state
    PROVE  FilesOf(ValuesFiles(owner, rel, state), owner)
<1>1. FilesOf(VanillaValues(owner, rel, state), owner)
  BY GeneratedFiles DEF VanillaValues, Nothing, FilesOf
<1>2. FilesOf(SecretValues(owner, rel, state), owner)
  <2>1. \/ SecretValues(owner, rel, state) = Nothing
        \/ \E entries, handler :
             SecretValues(owner, rel, state) = Generated(Generate(<<owner, "secrets">>, entries, handler))
    BY Zenon DEF SecretValues
  <2>2. FilesOf(Nothing, owner)
    BY DEF Nothing, FilesOf
  <2> QED BY <2>1, <2>2, GeneratedFiles
<1> DEFINE v == VanillaValues(owner, rel, state)
           s == SecretValues(owner, rel, state)
<1> HIDE DEF v, s
<1>3. FilesOf(v, owner) /\ FilesOf(s, owner)
  BY <1>1, <1>2 DEF v, s
<1>4. /\ FilesOf([s EXCEPT !.left = @ \cup v.files], owner) \/ s.ok
      /\ FilesOf([s EXCEPT !.files = @ \cup v.files], owner)
  BY <1>3 DEF FilesOf
<1> QED BY <1>3, <1>4 DEF ValuesFiles, v, s
LEMMA ValuesAndFlagsOf ==
    ASSUME NEW owner, NEW rel, NEW state
    PROVE  FilesOf(ValuesAndFlags(owner, rel, state), owner)
<1> DEFINE v == ValuesFiles(owner, rel, state)
<1> HIDE DEF v
<1>1. FilesOf(v, owner)
  BY ValuesFilesOf DEF v
<1>2. FilesOf([v EXCEPT !.ok = FALSE], owner)
  BY <1>1 DEF FilesOf
<1> QED BY <1>1, <1>2 DEF ValuesAndFlags, v

LEMMA ChartifyFilesOf ==
    ASSUME NEW owner, NEW rel, NEW state
    PROVE  FilesOf(ChartifyFiles(owner, rel, state), owner)
<1> DEFINE v == ValuesFiles(owner, rel, state)
<1> HIDE DEF v
<1>1. FilesOf(v, owner)
  BY ValuesFilesOf DEF v
<1>2. \E p : /\ FilesOf(p, owner)
             /\ ChartifyFiles(owner, rel, state) =
                  IF ~p.ok THEN p
                  ELSE IF ~v.ok THEN [v EXCEPT !.files = p.files]
                  ELSE IF ~rel.setsOK THEN [v EXCEPT !.ok = FALSE, !.files = @ \cup p.files]
                  ELSE [v EXCEPT !.files = @ \cup p.files]
  <2> DEFINE readable == TemplateValues(rel, state).ok
             patches == [i \in DOMAIN rel.patches |-> [rel.patches[i] EXCEPT !.renders = @ /\ readable]]
             p == Generated(Generate(<<owner, "patches">>, patches, MissingFileHandler(rel, state)))
  <2>1. FilesOf(p, owner)
    BY GeneratedFiles
  <2> QED BY <2>1, Zenon DEF ChartifyFiles, v
<1>3. PICK p : /\ FilesOf(p, owner)
               /\ ChartifyFiles(owner, rel, state) =
                    IF ~p.ok THEN p
                    ELSE IF ~v.ok THEN [v EXCEPT !.files = p.files]
                    ELSE IF ~rel.setsOK THEN [v EXCEPT !.ok = FALSE, !.files = @ \cup p.files]
                    ELSE [v EXCEPT !.files = @ \cup p.files]
  BY <1>2
<1>4. FilesOf([v EXCEPT !.files = p.files], owner) \/ v.ok
  BY <1>1, <1>3 DEF FilesOf
<1>5. FilesOf([v EXCEPT !.ok = FALSE, !.files = @ \cup p.files], owner)
  BY <1>1, <1>3 DEF FilesOf
<1>6. FilesOf([v EXCEPT !.files = @ \cup p.files], owner)
  BY <1>1, <1>3 DEF FilesOf
<1> QED BY <1>3, <1>4, <1>5, <1>6
----------------------------------------------------------------------------
(* Secrets of an environment.                                               *)

\* The files of the part that run r loads which are kept until its values are there.
HclOf(r) == {s \in DOMAIN SecretFiles(Part(r)) : SecretOf(r, s).kind = "hcl"}
\* No part has two of them: the workers that append to the list of these would lose one.
OneHcl ==
  \A r \in Runs : \A i \in 1..Len(Load(r).parts) :
    LET secrets == SecretFiles(Load(r).parts[i])
    IN  \A s, t \in DOMAIN secrets : secrets[s].kind = "hcl" /\ secrets[t].kind = "hcl" => s = t

Decrypting(r) ==
  /\ part[r] \in 1..Len(Load(r).parts)
  /\ DOMAIN dec[r] = DOMAIN SecretFiles(Part(r)) /\ DOMAIN copied[r] = DOMAIN SecretFiles(Part(r))
  /\ keeper[r] \in Seq(HclOf(r))
  /\ \A s \in DOMAIN dec[r] : /\ copied[r][s] \in Seq(HclOf(r))
                              /\ dec[r][s] = "appending" => s \in HclOf(r)
Decryptions ==
  /\ part \in [Runs -> Nat \ {0}] /\ DOMAIN dec = Runs /\ DOMAIN keeper = Runs /\ DOMAIN copied = Runs
  /\ \A r \in Runs : pc[r] = "decrypt" => Decrypting(r)

\* Decryption is begun and ended by the run alone.
LEMMA DecryptMoves ==
    ASSUME TypeOK, [Next]_vars, NEW r \in Runs
    PROVE  /\ pc[r] = "decrypt" => pc'[r] = "decrypt" \/ EndPart(r)
           /\ pc'[r] = "decrypt" => pc[r] = "decrypt" \/ BeginPart(r)
           /\ pc[r] = "decrypt" /\ r \in reported' => r \in reported \/ EndPart(r)
<1>1. pc[r] = "decrypt" => ~RemoteOf(r) /\ ~BeginPart(r) /\ ~Loaded(r) /\ ~RunOf(r) /\ ~EndOf(r)
  BY EndFacts DEF RemoteOf, Locate, FetchCached, StartGet, NoSuchObject, GetFails, HttpGet, S3Get, GoGet, Fetched,
                  BeginPart, Loaded, RunOf, Start, Prepare, Gather, UpdateRepo, Prepared, GlobalCleanup,
                  Deferred, BuildDeps
<1>2. ASSUME pc'[r] = "decrypt"
      PROVE  ~RemoteOf(r) /\ ~EndPart(r) /\ ~Loaded(r) /\ ~RunOf(r) /\ ~EndOf(r)
  <2>1. ~RemoteOf(r) /\ ~EndPart(r) /\ ~Loaded(r)
    BY <1>2 DEF TypeOK, RemoteOf, Locate, FetchCached, StartGet, NoSuchObject, GetFails, HttpGet, S3Get, GoGet,
                Fetched, EndPart, Loaded, Go, LoadFails, LoadSkips
  <2>2. ~RunOf(r) /\ ~EndOf(r)
    BY <1>2, EndFacts DEF TypeOK, RunOf, Start, Prepare, PrepareCharts, Gather, UpdateRepo, Prepared, GlobalCleanup,
                Deferred, BuildDeps, Go, Fail
  <2> QED BY <2>1, <2>2
<1> QED BY <1>1, <1>2, Mover

\* A step of the worker of secrets file s.
LEMMA Worker1Facts ==
    ASSUME TypeOK, Decryptions, NEW r \in Runs, NEW s \in DOMAIN dec[r], Worker1(r, s)
    PROVE  /\ pc[r] = "decrypt" /\ Decrypting(r) /\ DOMAIN dec' = Runs /\ DOMAIN copied' = Runs /\ DOMAIN keeper' = Runs
           /\ \A q \in Runs \ {r} : dec'[q] = dec[q] /\ copied'[q] = copied[q] /\ keeper'[q] = keeper[q]
           /\ DOMAIN dec'[r] = DOMAIN dec[r] /\ DOMAIN copied'[r] = DOMAIN copied[r]
           /\ \A t \in DOMAIN dec[r] : t # s => dec'[r][t] = dec[r][t] /\ copied'[r][t] = copied[r][t]
           /\ keeper'[r] = keeper[r] \/ (dec[r][s] = "appending" /\ keeper'[r] = Append(copied[r][s], s))
           /\ copied'[r][s] = copied[r][s] \/ copied'[r][s] = keeper[r]
           /\ dec'[r][s] = "appending" => s \in HclOf(r)
<1>1. pc[r] = "decrypt" /\ Decrypting(r)
  BY DEF Worker1, Decrypt, DecryptDone, DecryptCached, Append1, Append2, Look, Parse, ParseEmpty, Discard,
         At1, Decryptions
<1> USE <1>1 DEF Decryptions, Decrypting, To, At1
<1>2. CASE Decrypt(r, s)
  BY <1>2 DEF Decrypt
<1>3. CASE DecryptDone(r, s)
  BY <1>3 DEF DecryptDone
<1>4. CASE DecryptCached(r, s)
  BY <1>4 DEF DecryptCached
<1>5. CASE Append1(r, s)
  BY <1>5 DEF Append1, HclOf
<1>6. CASE Append2(r, s)
  BY <1>6 DEF Append2
<1>7. CASE Look(r, s)
  BY <1>7 DEF Look
<1>8. CASE Parse(r, s)
  BY <1>8 DEF Parse
<1>9. CASE ParseEmpty(r, s)
  BY <1>9 DEF ParseEmpty
<1>10. CASE Discard(r, s)
  BY <1>10 DEF Discard
<1> QED BY <1>2, <1>3, <1>4, <1>5, <1>6, <1>7, <1>8, <1>9, <1>10 DEF Worker1
\* What a run decrypts is what its part says.
LEMMA PartsFixed ==
    ASSUME UNCHANGED setup, NEW r, part'[r] = part[r]
    PROVE  /\ Load(r)' = Load(r) /\ Part(r)' = Part(r) /\ HclOf(r)' = HclOf(r)
           /\ SecretFiles(Part(r))' = SecretFiles(Part(r))
<1>1. Load(r)' = Load(r)
  BY DEF Load
<1>2. Part(r)' = Part(r)
  BY <1>1 DEF Part
<1>3. SecretFiles(Part(r))' = SecretFiles(Part(r))
  BY <1>2
<1> QED BY <1>1, <1>2, <1>3 DEF HclOf, SecretOf

LEMMA DecryptionsKept ==
    ASSUME TypeOK, Decryptions, [Next]_vars
    PROVE  Decryptions'
<1>1. UNCHANGED setup
  BY SetupFixed
<1>2. ASSUME NEW r \in Runs, BeginPart(r)
      PROVE  Decryptions'
  <2>1. part' = part /\ \A q \in Runs \ {r} : /\ pc'[q] = pc[q] /\ dec'[q] = dec[q] /\ keeper'[q] = keeper[q]
                                              /\ copied'[q] = copied[q]
    BY <1>2 DEF BeginPart, TypeOK, Decryptions, LoadFails, Go
  <2>2. \A q \in Runs : pc'[q] = "decrypt" /\ q # r => Decrypting(q)'
    BY <1>1, <2>1, PartsFixed DEF Decryptions, Decrypting
  <2>3. ASSUME pc'[r] = "decrypt"
        PROVE  Decrypting(r)'
    <3>1. /\ part[r] \in 1..Len(Load(r).parts)
          /\ dec' = [dec EXCEPT ![r] = [i \in DOMAIN SecretFiles(Part(r)) |-> "todo"]]
          /\ keeper' = [keeper EXCEPT ![r] = <<>>]
          /\ copied' = [copied EXCEPT ![r] = [i \in DOMAIN SecretFiles(Part(r)) |-> <<>>]]
      BY <1>2, <2>3 DEF BeginPart, LoadFails, TypeOK, Decryptions
    <3>2. <<>> \in Seq(HclOf(r))
      OBVIOUS
    <3> QED BY <1>1, <2>1, <3>1, <3>2, PartsFixed DEF Decrypting, Decryptions
  <2>4. DOMAIN dec' = Runs /\ DOMAIN keeper' = Runs /\ DOMAIN copied' = Runs
    BY <1>2 DEF BeginPart, Decryptions
  <2> QED BY <2>1, <2>2, <2>3, <2>4 DEF Decryptions
<1>3. ASSUME NEW r \in Runs, NEW s \in DOMAIN dec[r], Worker1(r, s)
      PROVE  Decryptions'
  <2>1. part' = part /\ pc' = pc
    BY <1>3, DecryptsAside
  <2>2. \A q \in Runs : pc'[q] = "decrypt" /\ q # r => Decrypting(q)'
    BY <1>1, <1>3, <2>1, PartsFixed, Worker1Facts DEF Decryptions, Decrypting
  <2>3. /\ Decrypting(r) /\ DOMAIN dec'[r] = DOMAIN dec[r] /\ DOMAIN copied'[r] = DOMAIN copied[r]
        /\ \A t \in DOMAIN dec[r] : t # s => dec'[r][t] = dec[r][t] /\ copied'[r][t] = copied[r][t]
        /\ keeper'[r] = keeper[r] \/ (dec[r][s] = "appending" /\ keeper'[r] = Append(copied[r][s], s))
        /\ copied'[r][s] = copied[r][s] \/ copied'[r][s] = keeper[r]
        /\ dec'[r][s] = "appending" => s \in HclOf(r)
    BY <1>3, Worker1Facts
  <2>4. keeper'[r] \in Seq(HclOf(r))
    <3>1. /\ keeper[r] \in Seq(HclOf(r)) /\ copied[r][s] \in Seq(HclOf(r))
          /\ dec[r][s] = "appending" => s \in HclOf(r)
      BY <1>3, <2>3 DEF Decrypting
    <3>2. s \in HclOf(r) => Append(copied[r][s], s) \in Seq(HclOf(r))
      BY <3>1
    <3> QED BY <2>3, <3>1, <3>2
  <2>5. ASSUME NEW t \in DOMAIN dec[r]
        PROVE  copied'[r][t] \in Seq(HclOf(r)) /\ (dec'[r][t] = "appending" => t \in HclOf(r))
    <3>1. CASE t = s
      BY <1>3, <2>3, <3>1 DEF Decrypting
    <3>2. CASE t # s
      BY <2>3, <2>5, <3>2 DEF Decrypting
    <3> QED BY <3>1, <3>2
  <2>6. Decrypting(r)'
    BY <1>1, <2>1, <2>3, <2>4, <2>5, PartsFixed DEF Decrypting
  <2> QED BY <1>3, <2>1, <2>2, <2>6, Worker1Facts DEF Decryptions
<1>4. ASSUME NEW r \in Runs, EndPart(r)
      PROVE  Decryptions'
  <2>0. /\ UNCHANGED <<dec, keeper, copied>>
        /\ part' = part \/ part' = [part EXCEPT ![r] = @ + 1]
        /\ \E to \in {"done", "load"} : pc' = [pc EXCEPT ![r] = to]
    BY <1>4 DEF EndPart, Go, LoadFails, LoadSkips
  <2>1. /\ UNCHANGED <<dec, keeper, copied>> /\ pc'[r] # "decrypt"
        /\ \A q \in Runs \ {r} : part'[q] = part[q] /\ pc'[q] = pc[q]
        /\ part' \in [Runs -> Nat \ {0}]
    BY <2>0 DEF TypeOK, Decryptions
  <2> QED BY <1>1, <2>1, PartsFixed DEF Decryptions, Decrypting
<1>5. ASSUME UNCHANGED <<part, dec, keeper, copied>>, \A r \in Runs : ~BeginPart(r)
      PROVE  Decryptions'
  BY <1>1, <1>5, DecryptMoves, PartsFixed DEF Decryptions, Decrypting
<1>6. \/ \E r \in Runs : BeginPart(r) \/ EndPart(r) \/ \E s \in DOMAIN dec[r] : Worker1(r, s)
      \/ UNCHANGED <<part, dec, keeper, copied>>
  BY Kinds DEF LoadNext, Loaded, loadVars, loadingVars, vars
<1> QED BY <1>2, <1>3, <1>4, <1>5, <1>6
\* A decrypted file is that of a worker that has not come to its removal, or one of those kept until
\* the values of the part are there, or of a run with an error.
Holding == {"written", "empty", "appending", "appended", "result", "empty result", "no result"}
Kept(r, s) ==
  \/ r \in reported
  \/ pc[r] = "decrypt" /\ s \in DOMAIN dec[r] /\ (dec[r][s] \in Holding \/ Contains(keeper[r], s))

LEMMA AppendKeeps ==
    ASSUME NEW S, NEW list \in Seq(S), NEW x \in S
    PROVE  Contains(Append(list, x), x)
BY DEF Contains

\* The only one to append is the one file that is kept.
LEMMA KeptByWorker ==
    ASSUME TypeOK, Decryptions, OneHcl, NEW r \in Runs, NEW s \in DOMAIN dec[r], NEW t \in DOMAIN dec[r], Worker1(r, t),
           Kept(r, s), PlainFile(r, s) \in files'
    PROVE  Kept(r, s)'
<1>1. /\ pc[r] = "decrypt" /\ Decrypting(r) /\ UNCHANGED <<pc, reported>>
      /\ DOMAIN dec' = Runs /\ DOMAIN dec'[r] = DOMAIN dec[r]
      /\ \A u \in DOMAIN dec[r] : u # t => dec'[r][u] = dec[r][u]
      /\ keeper'[r] = keeper[r] \/ (dec[r][t] = "appending" /\ keeper'[r] = Append(copied[r][t], t))
  BY Worker1Facts, DecryptsAside
<1>2. Contains(keeper[r], s) => Contains(keeper'[r], s)
  <2>1. ASSUME Contains(keeper[r], s), dec[r][t] = "appending", keeper'[r] = Append(copied[r][t], t)
        PROVE  Contains(keeper'[r], s)
    <3>1. s \in HclOf(r) /\ t \in HclOf(r)
      <4>1. keeper[r] \in Seq(HclOf(r))
        BY <1>1 DEF Decrypting
      <4>2. s \in HclOf(r)
        BY <2>1, <4>1 DEF Contains
      <4> QED BY <1>1, <2>1, <4>2 DEF Decrypting
    <3>2. s = t
      BY <1>1, <3>1 DEF OneHcl, HclOf, SecretOf, Part, Decrypting
    <3> QED BY <1>1, <2>1, <3>1, <3>2, AppendKeeps DEF Decrypting
  <2> QED BY <1>1, <2>1
<1>3. CASE t # s
  BY <1>1, <1>2, <1>3 DEF Kept
<1>4. CASE t = s
  <2>1. dec'[r][s] \in Holding \/ Contains(keeper'[r], s) \/ r \in reported
    <3> USE <1>1, <1>2, <1>4 DEF Kept, Holding, At1, To, Decryptions
    <3>1. CASE Decrypt(r, s)
      BY <3>1 DEF Decrypt
    <3>2. CASE DecryptDone(r, s)
      BY <3>2 DEF DecryptDone
    <3>3. CASE DecryptCached(r, s)
      BY <3>3 DEF DecryptCached
    <3>4. CASE Append1(r, s)
      BY <3>4 DEF Append1
    <3>5. CASE Append2(r, s)
      BY <3>5 DEF Append2
    <3>6. CASE Look(r, s)
      BY <3>6 DEF Look
    <3>7. CASE Parse(r, s)
      BY <3>7 DEF Parse
    <3>8. CASE ParseEmpty(r, s)
      BY <3>8 DEF ParseEmpty
    <3>9. CASE Discard(r, s)
      BY <3>9 DEF Discard
    <3> QED BY <3>1, <3>2, <3>3, <3>4, <3>5, <3>6, <3>7, <3>8, <3>9 DEF Worker1
  <2> QED BY <1>1, <2>1 DEF Kept
<1> QED BY <1>3, <1>4

LEMMA KeptOn ==
    ASSUME TypeOK, Decryptions, OneHcl, [Next]_vars, NEW r \in Runs, NEW s, Kept(r, s), PlainFile(r, s) \in files'
    PROVE  Kept(r, s)'
<1>1. CASE r \in reported
  BY <1>1, StepsFlow DEF Flow, Step, Kept
<1>2. CASE EndPart(r) /\ r \notin reported
  <2>1. ~(dec[r][s] \in Holding) /\ pc[r] = "decrypt" /\ s \in DOMAIN dec[r]
    BY <1>2 DEF EndPart, Kept, Holding
  <2>2. PICK i \in 1..Len(keeper[r]) : keeper[r][i] = s
    BY <1>2, <2>1 DEF Kept, Contains
  <2>3. i \in DOMAIN keeper[r]
    BY <2>1, <2>2 DEF Decryptions, Decrypting
  <2>4. PlainFile(r, s) \in {PlainFile(r, keeper[r][j]) : j \in DOMAIN keeper[r]}
    BY <2>2, <2>3
  <2>5. r \in reported'
    BY <1>2, <2>4 DEF EndPart, LoadFails
  <2> QED BY <2>5 DEF Kept
<1>3. ASSUME r \notin reported, NEW t \in DOMAIN dec[r], Worker1(r, t)
      PROVE  Kept(r, s)'
  BY <1>3, KeptByWorker DEF Kept
<1>4. ASSUME r \notin reported, ~EndPart(r), \A t \in DOMAIN dec[r] : ~Worker1(r, t)
      PROVE  Kept(r, s)'
  <2>1. pc[r] = "decrypt" /\ pc'[r] = "decrypt" /\ s \in DOMAIN dec[r]
    BY <1>4, DecryptMoves DEF Kept
  <2>2. dec'[r] = dec[r] /\ keeper'[r] = keeper[r]
    <3>1. ASSUME NEW q \in Runs, BeginPart(q)
          PROVE  dec'[r] = dec[r] /\ keeper'[r] = keeper[r]
      BY <2>1, <3>1 DEF BeginPart, Decryptions
    <3>2. ASSUME NEW q \in Runs, NEW t \in DOMAIN dec[q], Worker1(q, t)
          PROVE  dec'[r] = dec[r] /\ keeper'[r] = keeper[r]
      BY <1>4, <3>2, Worker1Facts
    <3>3. ASSUME NEW q \in Runs, EndPart(q) \/ Loaded(q)
          PROVE  dec'[r] = dec[r] /\ keeper'[r] = keeper[r]
      BY <3>3 DEF EndPart, Loaded
    <3> QED BY <3>1, <3>2, <3>3, Kinds DEF LoadNext, loadVars, loadingVars, vars
  <2> QED BY <1>4, <2>1, <2>2 DEF Kept
<1> QED BY <1>1, <1>2, <1>3, <1>4
----------------------------------------------------------------------------
(* Files that are left.                                                     *)

\* The files that chartify needs are removed with the worker, those that helm needs with the
\* command, but for those of a release whose values could not be generated.
EnvFile(f) == \E r \in Runs : f = PlainFile(r, f[2]) /\ Kept(r, f[2])
ChartFile(f) ==
  \E j \in Jobs : /\ f[1][1] = <<j, "chartify">> /\ f[1][2] # "env"
                  /\ setup.skipCleanup \/ prep[j] = "failed" \/ f \in mine[j]
HelmFile(f) ==
  \E j \in Jobs : /\ f[1][1] = <<j, "helm">> /\ f[1][2] # "env"
                  /\ \/ setup.skipCleanup \/ stage[j] = "bad"
                     \/ f \in owned[j] /\ pc[j[1]] \in {"command", "diff"}
Files == \A f \in files : EnvFile(f) \/ ChartFile(f) \/ HelmFile(f)
Ownership ==
  /\ \A j \in Jobs : mine[j] # {} => prep[j] \in {"place", "chartify", "rewritten"}
  /\ \A j \in Jobs : owned[j] # {} => stage[j] # "todo"
  /\ \A j \in Jobs : stage[j] # "todo" => setup.cmd \in Sequential \cup {"diff"}

\* What becomes of the files of a worker.
LEMMA WorkerFiles ==
    ASSUME TypeOK, Ownership, NEW k \in Jobs, Worker(k)
    PROVE  /\ mine'[k] # {} => prep'[k] \in {"place", "chartify", "rewritten"}
           /\ \A f \in files' : \/ f \in files
                                \/ /\ f[1][1] = <<k, "chartify">> /\ f[1][2] # "env"
                                   /\ f \in mine'[k] \/ prep'[k] = "failed"
           /\ \A f \in files' : f \in mine[k] => f \in mine'[k] \/ setup.skipCleanup
<1> USE DEF TypeOK, Ownership, Set, Leave, Removed, At, unchangedPrep
<1>1. CASE Fetch(k)
  BY <1>1 DEF Fetch, GoGetterChart
<1>2. CASE PrepareChartify(k)
  <2> DEFINE g == ChartifyFiles(<<k, "chartify">>, Rel(k), setup.handler)
  <2>1. /\ prep[k] = "fetched" /\ mine[k] = {}
        /\ IF ~NeedsChartify(k) THEN prep' = [prep EXCEPT ![k] = "place"] /\ UNCHANGED <<files, mine>>
           ELSE IF g.ok THEN /\ prep' = [prep EXCEPT ![k] = IF ~Chartifies(k) THEN "place" ELSE "chartify"]
                             /\ files' = files \cup g.files
                             /\ mine' = [mine EXCEPT ![k] = g.files]
           ELSE /\ prep' = [prep EXCEPT ![k] = "failed"]
                /\ files' = files \cup g.left \cup (IF setup.skipCleanup THEN g.files ELSE {})
                /\ UNCHANGED mine
    BY <1>2 DEF PrepareChartify
  <2>2. \A f \in g.files \cup g.left : f[1][1] = <<k, "chartify">> /\ f[1][2] # "env"
    BY ChartifyFilesOf DEF FilesOf
  <2> HIDE DEF g
  <2>3. CASE ~NeedsChartify(k)
    BY <2>1, <2>3
  <2>4. CASE NeedsChartify(k) /\ g.ok
    BY <2>1, <2>2, <2>4
  <2>5. CASE NeedsChartify(k) /\ ~g.ok
    BY <2>1, <2>2, <2>5
  <2> QED BY <2>3, <2>4, <2>5
<1>3. CASE RewriteDependencies(k)
  BY <1>3 DEF RewriteDependencies
<1>4. CASE Chartify(k)
  BY <1>4 DEF Chartify
<1>5. CASE UseDirectory(k)
  BY <1>5 DEF UseDirectory
<1>6. CASE LeaveToHelm(k)
  BY <1>6 DEF LeaveToHelm
<1>7. CASE UseCached(k)
  BY <1>7 DEF UseCached
<1>8. CASE Download(k)
  BY <1>8 DEF Download
<1> QED BY <1>1, <1>2, <1>3, <1>4, <1>5, <1>6, <1>7, <1>8 DEF Worker

\* And of those of a job.
LEMMA CommandFiles ==
    ASSUME TypeOK, Ownership, NEW k \in Jobs, CommandOf(k)
    PROVE  /\ setup.cmd \in Sequential \cup {"diff"} /\ stage[k] # "bad"
           /\ \A f \in files' : \/ f \in files
                                \/ /\ f[1][1] = <<k, "helm">> /\ f[1][2] # "env"
                                   /\ stage'[k] = "bad" \/ (f \in owned'[k] /\ pc[k[1]] = "command")
           /\ owned[k] \subseteq owned'[k]
<1> USE DEF TypeOK, Ownership, Stage
<1> DEFINE g == Values(k)
<1>1. FilesOf(g, <<k, "helm">>)
  BY ValuesAndFlagsOf DEF Values
<1> HIDE DEF g
<1>2. CASE DiffPrepare(k)
  <2>1. /\ stage[k] = "todo" /\ owned[k] = {} /\ pc[k[1]] = "command" /\ setup.cmd = "diff"
        /\ \/ UNCHANGED <<files, owned>>
           \/ /\ files' = files \cup g.files \cup g.left
              /\ \/ g.ok /\ owned' = [owned EXCEPT ![k] = g.files]
                 \/ stage'[k] = "bad" /\ UNCHANGED owned
    BY <1>2 DEF DiffPrepare, g
  <2> QED BY <1>1, <2>1 DEF FilesOf
<1>3. CASE DiffStart(k)
  BY <1>3 DEF DiffStart
<1>4. CASE DiffEnd(k)
  BY <1>4 DEF DiffEnd
<1>5. CASE WriteValues(k)
  <2>1. /\ stage[k] = "todo" /\ owned[k] = {} /\ pc[k[1]] = "command" /\ setup.cmd \in Sequential
        /\ files' = files \cup g.files \cup g.left
        /\ owned' = [owned EXCEPT ![k] = g.files]
        /\ g.ok \/ stage'[k] = "bad"
    BY <1>5 DEF WriteValues, Turn, InCommand, g
  <2> QED BY <1>1, <2>1 DEF FilesOf
<1>6. CASE HelmOne(k)
  BY <1>6 DEF HelmOne
<1> QED BY <1>2, <1>3, <1>4, <1>5, <1>6 DEF CommandOf
LEMMA OwnershipKept ==
    ASSUME TypeOK, Ownership, [Next]_vars
    PROVE  Ownership'
<1>1. UNCHANGED setup /\ Jobs' = Jobs
  BY SetupFixed, Fixed
<1>2. ASSUME NEW k \in Jobs, Worker(k), UNCHANGED <<stage, owned>>
      PROVE  Ownership'
  <2>1. \A j \in Jobs : mine'[j] # {} => prep'[j] \in {"place", "chartify", "rewritten"}
    BY <1>2, WorkerFacts, WorkerFiles DEF Ownership, TypeOK
  <2> QED BY <1>1, <1>2, <2>1 DEF Ownership
<1>3. ASSUME NEW k \in Jobs, CommandOf(k), UNCHANGED <<prep, mine>>
      PROVE  Ownership'
  <2>1. setup.cmd \in Sequential \cup {"diff"} /\ \A j \in Jobs : owned'[j] # {} => stage'[j] # "todo"
    BY <1>3, CommandFacts, CommandFiles DEF Ownership, TypeOK
  <2> QED BY <1>1, <1>3, <2>1 DEF Ownership
<1>4. CASE UNCHANGED <<prep, mine, stage, owned>>
  BY <1>1, <1>4 DEF Ownership
<1>5. \/ \E k \in Jobs : Worker(k) /\ UNCHANGED <<stage, owned>>
      \/ \E k \in Jobs : CommandOf(k) /\ UNCHANGED <<prep, mine>>
      \/ UNCHANGED <<prep, mine, stage, owned>>
  BY Cases, RunFacts, EndFacts DEF commandVars, unchangedByLoading, vars, prepVars, cmdVars
<1> QED BY <1>2, <1>3, <1>4, <1>5

LEMMA FilesKept ==
    ASSUME TypeOK, Decryptions, OneHcl, Ownership, Files, [Next]_vars
    PROVE  Files'
<1>1. /\ UNCHANGED setup /\ Jobs' = Jobs /\ (\A j \in Jobs : j[1] \in Runs)
      /\ \A r, s : PlainFile(r, s)' = PlainFile(r, s)
  BY SetupFixed, Fixed, JobFacts DEF TypeOK, PlainFile
<1>2. ASSUME NEW f \in files', EnvFile(f)
      PROVE  EnvFile(f)'
  BY <1>1, <1>2, KeptOn DEF EnvFile
<1>3. ASSUME NEW f, UNCHANGED <<prep, mine>>, ChartFile(f)
      PROVE  ChartFile(f)'
  BY <1>1, <1>3 DEF ChartFile
<1>4. ASSUME NEW f, UNCHANGED <<stage, owned>>, HelmFile(f),
             \A r \in Runs : pc[r] \in {"command", "diff"} => pc'[r] = pc[r]
      PROVE  HelmFile(f)'
  BY <1>1, <1>4 DEF HelmFile
<1>5. ASSUME LoadNext, UNCHANGED <<unchangedByLoading, commandVars>>
      PROVE  Files'
  <2>1. UNCHANGED <<prep, mine, stage, owned>>
    BY <1>5 DEF unchangedByLoading, commandVars
  <2>2. ASSUME NEW r \in Runs, pc[r] \in {"command", "diff"}
        PROVE  pc'[r] = pc[r]
    <3>1. ASSUME NEW q \in Runs, RemoteOf(q) \/ BeginPart(q) \/ EndPart(q) \/ Loaded(q)
          PROVE  pc'[r] = pc[r]
      BY <2>2, <3>1 DEF TypeOK, RemoteOf, Locate, FetchCached, StartGet, NoSuchObject, GetFails, HttpGet, S3Get,
                        GoGet, Fetched, BeginPart, EndPart, Loaded, Go, LoadFails, LoadSkips
    <3> QED BY <1>5, <3>1, DecryptsAside DEF LoadNext, RemoteNext, RemoteOf
  <2>3. ASSUME NEW f \in files', f \notin files
        PROVE  EnvFile(f)'
    <3>1. PICK r \in Runs : \E s \in DOMAIN dec[r] : Worker1(r, s)
      BY <1>5, <2>3 DEF LoadNext, RemoteNext, Locate, FetchCached, StartGet, NoSuchObject, GetFails, HttpGet, S3Get,
                        GoGet, Fetched, BeginPart, EndPart, Loaded
    <3>2. PICK s \in DOMAIN dec[r] : Worker1(r, s)
      BY <3>1
    <3>3. (DecryptDone(r, s) \/ DecryptCached(r, s)) /\ f = PlainFile(r, s)
      BY <2>3, <3>2 DEF Worker1, Decrypt, DecryptDone, DecryptCached, Append1, Append2, Look, Parse, ParseEmpty, Discard
    <3>4. dec'[r][s] \in {"written", "empty"}
      BY <2>3, <3>3 DEF DecryptDone, DecryptCached, To, Decryptions
    <3>5. Kept(r, s)'
      BY <3>2, <3>4, Worker1Facts, DecryptsAside DEF Kept, Holding
    <3>6. f[2] = s
      BY <3>3 DEF PlainFile
    <3> QED BY <1>1, <3>3, <3>5, <3>6 DEF EnvFile
  <2> QED BY <1>2, <1>3, <1>4, <2>1, <2>2, <2>3 DEF Files
<1>6. ASSUME NEW r \in Runs, RunOf(r), UNCHANGED commandVars
      PROVE  Files'
  <2>1. /\ UNCHANGED <<files, prep, mine, stage, owned>>
        /\ \A q \in Runs : pc[q] \in {"command", "diff"} => pc'[q] = pc[q]
    <3>1. pc[r] \notin {"command", "diff"}
      BY <1>6 DEF RunOf, Start, Prepare, Gather, UpdateRepo, Prepared, GlobalCleanup, Deferred, BuildDeps
    <3> QED BY <1>6, <3>1, RunFacts DEF commandVars
  <2> QED BY <1>2, <1>3, <1>4, <2>1 DEF Files
<1>7. ASSUME NEW k \in Jobs, Worker(k), UNCHANGED commandVars
      PROVE  Files'
  <2>1. UNCHANGED <<pc, stage, owned>>
    BY <1>7, WorkersAside DEF commandVars
  <2>2. ASSUME NEW f \in files', ChartFile(f)
        PROVE  ChartFile(f)'
    <3>1. PICK j \in Jobs : /\ f[1][1] = <<j, "chartify">> /\ f[1][2] # "env"
                            /\ setup.skipCleanup \/ prep[j] = "failed" \/ f \in mine[j]
      BY <2>2 DEF ChartFile
    <3>2. setup.skipCleanup \/ prep'[j] = "failed" \/ f \in mine'[j]
      BY <1>7, <2>2, <3>1, WorkerFacts, WorkerFiles DEF TypeOK
    <3> QED BY <1>1, <3>1, <3>2 DEF ChartFile
  <2>3. ASSUME NEW f \in files', f \notin files
        PROVE  ChartFile(f)'
    BY <1>1, <1>7, <2>3, WorkerFiles DEF ChartFile
  <2> QED BY <1>2, <1>4, <2>1, <2>2, <2>3 DEF Files
<1>8. ASSUME NEW k \in Jobs, CommandOf(k), UNCHANGED <<prep, mine>>
      PROVE  Files'
  <2>1. pc' = pc
    BY <1>8, CommandFacts
  <2>2. ASSUME NEW f \in files', HelmFile(f)
        PROVE  HelmFile(f)'
    <3>1. PICK j \in Jobs : /\ f[1][1] = <<j, "helm">> /\ f[1][2] # "env"
                            /\ \/ setup.skipCleanup \/ stage[j] = "bad"
                               \/ f \in owned[j] /\ pc[j[1]] \in {"command", "diff"}
      BY <2>2 DEF HelmFile
    <3>2. setup.skipCleanup \/ stage'[j] = "bad" \/ (f \in owned'[j] /\ pc[j[1]] \in {"command", "diff"})
      BY <1>8, <3>1, CommandFacts, CommandFiles DEF TypeOK
    <3> QED BY <1>1, <2>1, <3>1, <3>2 DEF HelmFile
  <2>3. ASSUME NEW f \in files', f \notin files
        PROVE  HelmFile(f)'
    BY <1>1, <1>8, <2>1, <2>3, CommandFiles DEF HelmFile
  <2> QED BY <1>2, <1>3, <1>8, <2>2, <2>3 DEF Files
<1>9. ASSUME NEW r \in Runs, EndOf(r), UNCHANGED <<prep, mine>>
      PROVE  Files'
  <2>1. /\ UNCHANGED <<stage, owned>> /\ files' \subseteq files
        /\ \A q \in Runs \ {r} : pc'[q] = pc[q]
        /\ \/ pc'[r] \in {"command", "diff"}
           \/ setup.skipCleanup
           \/ \A j \in JobsOf(r) : \A f \in files' : f \notin owned[j]
    <3>1. UNCHANGED <<stage, owned>> /\ \A q \in Runs \ {r} : pc'[q] = pc[q]
      BY <1>9, EndFacts
    <3>2. ASSUME Removed(OwnedBy(r))
          PROVE  /\ files' \subseteq files
                 /\ \/ setup.skipCleanup
                    \/ \A j \in JobsOf(r) : \A f \in files' : f \notin owned[j]
      BY <3>2 DEF Removed, OwnedBy
    <3>3. CASE DiffGather(r)
      <4>1. CASE Removed(OwnedBy(r))
        BY <3>1, <3>2, <4>1
      <4>2. CASE Go(r, "diff") /\ files' = files
        BY <3>1, <4>2 DEF Go, TypeOK
      <4> QED BY <3>3, <4>1, <4>2 DEF DiffGather
    <3>4. CASE DiffDone(r) \/ OneByOneDone(r)
      <4>1. Removed(OwnedBy(r))
        BY <3>4 DEF DiffDone, OneByOneDone
      <4> QED BY <3>1, <3>2, <4>1
    <3>5. CASE NothingMore(r)
      <4>1. \A j \in JobsOf(r) : owned[j] = {}
        BY <3>5 DEF NothingMore, Ownership, Sequential, JobsOf
      <4>2. files' = files
        BY <3>5 DEF NothingMore
      <4> QED BY <3>1, <4>1, <4>2
    <3> QED BY <1>9, <3>1, <3>3, <3>4, <3>5 DEF EndOf
  <2>2. ASSUME NEW f \in files', HelmFile(f)
        PROVE  HelmFile(f)'
    <3>1. PICK j \in Jobs : /\ f[1][1] = <<j, "helm">> /\ f[1][2] # "env"
                            /\ \/ setup.skipCleanup \/ stage[j] = "bad"
                               \/ f \in owned[j] /\ pc[j[1]] \in {"command", "diff"}
      BY <2>2 DEF HelmFile
    <3>2. setup.skipCleanup \/ stage[j] = "bad" \/ (f \in owned[j] /\ pc'[j[1]] \in {"command", "diff"})
      BY <1>1, <2>1, <2>2, <3>1 DEF JobsOf
    <3> QED BY <1>1, <2>1, <3>1, <3>2 DEF HelmFile
  <2> QED BY <1>2, <1>3, <1>9, <2>1, <2>2 DEF Files
<1>10. ASSUME UNCHANGED vars
       PROVE  Files'
  BY <1>2, <1>3, <1>4, <1>10 DEF vars, prepVars, cmdVars, Files
<1> QED BY <1>5, <1>6, <1>7, <1>8, <1>9, <1>10, Cases
LEMMA OneHclKept ==
    ASSUME OneHcl, setup' = setup
    PROVE  OneHcl'
<1>1. \A r : Load(r)' = Load(r)
  BY DEF Load
<1> QED BY <1>1 DEF OneHcl
----------------------------------------------------------------------------
(* What is left when all is done.                                           *)

LeftInv ==
  /\ DirsInv /\ Remotes /\ Decryptions /\ Ownership /\ Files /\ OneHcl

LEMMA InitLeft == Init /\ OneHcl => LeftInv
<1> SUFFICES ASSUME Init, OneHcl
             PROVE  LeftInv
  OBVIOUS
<1>1. DirsInv
  BY InitIInv DEF Init, PrepInit, DirsInv, Directories, Caching
<1>2. Remotes
  BY DEF Init, LoadInit, RemoteInit, Remotes
<1>3. Decryptions
  BY DEF Init, PrepInit, LoadInit, Decryptions
<1>4. Ownership /\ Files
  BY JobFacts DEF Init, PrepInit, Ownership, Files
<1> QED BY <1>1, <1>2, <1>3, <1>4 DEF LeftInv

LEMMA LeftKept == LeftInv /\ [Next]_vars => LeftInv'
<1> SUFFICES ASSUME LeftInv, [Next]_vars
             PROVE  LeftInv'
  OBVIOUS
<1> USE DEF LeftInv, DirsInv
<1>1. TypeOK
  BY DEF IInv
<1>2. IInv' /\ Directories' /\ Caching'
  BY <1>1, Inductive, DirectoriesKept, CachingKept DEF IInv
<1>3. OneHcl'
  BY SetupFixed, OneHclKept
<1>4. Remotes' /\ Ownership'
  BY <1>1, RemotesKept, OwnershipKept
<1>5. Decryptions'
  BY <1>1, DecryptionsKept
<1>6. Files'
  BY <1>1, FilesKept
<1> QED BY <1>2, <1>3, <1>4, <1>5, <1>6

\* Nothing is left but what the code drops with an error: no temporary directory, no half of a
\* remote file but HttpGetter's, no values file and no secret, for any command, releases, state
\* files and failures; provided that no environment lists two HCL secret files, whose workers
\* append to one slice without a lock and may lose one (create.go).
THEOREM NothingStays == Spec /\ OneHcl => []NothingLeftBehind
<1>1. ASSUME LeftInv, AllDone
      PROVE  \A r \in Runs : pc[r] \in {"done", "locate"}
  <2>1. ASSUME NEW r \in Runs, NeverStarts(r)
        PROVE  pc[r] = "locate"
    BY <1>1, <2>1 DEF NeverStarts, LeftInv, DirsInv, IInv, InOrder, TypeOK
  <2> QED BY <1>1, <2>1 DEF AllDone
<1>2. ASSUME LeftInv, AllDone, NEW j \in Jobs
      PROVE  /\ prep[j] \in {"todo", "ready", "failed"}
             /\ mine[j] = {} /\ pc[j[1]] \notin {"command", "diff"}
  <2>1. pc[j[1]] \in {"done", "locate"}
    BY <1>1, <1>2, JobFacts DEF LeftInv, DirsInv, IInv, TypeOK
  <2>2. prep[j] \in {"todo", "ready", "failed"}
    BY <1>2, <2>1 DEF LeftInv, DirsInv, IInv, Preparing, PreparedFor, Early, Loading
  <2> QED BY <1>2, <2>1, <2>2 DEF LeftInv, Ownership
<1>3. ASSUME LeftInv, AllDone, NEW u \in DOMAIN remotes, remotes[u] = "part"
      PROVE  \E r \in reported : From(r).url = u /\ From(r).getter = "http"
  BY <1>1, <1>3 DEF LeftInv, Remotes
<1>4. ASSUME LeftInv, AllDone, NEW d \in dirs
      PROVE  d[1] = "chart" /\ d[2] = 0
  <2>1. Owner(d) /\ \A r \in Runs : pc[r] \notin Open /\ tracked[r] = {}
    BY <1>1, <1>4 DEF LeftInv, DirsInv, Directories, Open
  <2> QED BY <1>2, <1>4, <2>1 DEF Owner
<1>5. ASSUME LeftInv, AllDone, NEW f \in files \ Excused
      PROVE  setup.skipCleanup /\ ~FromEnv(f)
  <2>1. ~EnvFile(f)
    <3> SUFFICES ASSUME EnvFile(f)
                 PROVE  f \in Excused
      BY <1>5
    <3>1. PICK r \in Runs : f = PlainFile(r, f[2]) /\ Kept(r, f[2])
      BY DEF EnvFile
    <3>2. r \in reported
      BY <1>1, <1>5, <3>1 DEF Kept
    <3>3. f[1][2] = "env" /\ f[1][1][1][1] = r
      BY <3>1 DEF PlainFile
    <3> QED BY <1>5, <3>2, <3>3 DEF Excused, FromEnv
  <2>2. CASE ChartFile(f)
    <3>1. PICK j \in Jobs : /\ f[1][1] = <<j, "chartify">> /\ f[1][2] # "env"
                            /\ setup.skipCleanup \/ prep[j] = "failed" \/ f \in mine[j]
      BY <2>2 DEF ChartFile
    <3>2. prep[j] # "failed"
      BY <1>5, <3>1 DEF Excused, FromEnv
    <3> QED BY <1>2, <1>5, <3>1, <3>2 DEF FromEnv
  <2>3. CASE HelmFile(f)
    <3>1. PICK j \in Jobs : /\ f[1][1] = <<j, "helm">> /\ f[1][2] # "env"
                            /\ \/ setup.skipCleanup \/ stage[j] = "bad"
                               \/ f \in owned[j] /\ pc[j[1]] \in {"command", "diff"}
      BY <2>3 DEF HelmFile
    <3>2. stage[j] # "bad"
      BY <1>5, <3>1 DEF Excused, FromEnv
    <3> QED BY <1>2, <1>5, <3>1, <3>2 DEF FromEnv
  <2> QED BY <1>5, <2>1, <2>2, <2>3 DEF LeftInv, Files
<1>6. LeftInv => NothingLeftBehind
  BY <1>3, <1>4, <1>5 DEF NothingLeftBehind
<1> QED BY <1>6, InitLeft, LeftKept, PTL DEF Spec

-----------------------------------------------------------------------------
(***************************************************************************)
(* The templates of a release.  A round takes every field one reference    *)
(* further, so that after k rounds a field has the text of the field k     *)
(* references on.  When a round changes nothing, that is where the         *)
(* references end; and they lead there in fewer steps than there are       *)
(* fields, or else a field would come twice and they would never end.      *)
(***************************************************************************)

\* Every reference of a field is to a field the release has.
Known(fs) == IsFiniteSet(DOMAIN fs) /\ \A f \in DOMAIN fs : fs[f].ref \in DOMAIN fs \cup {"none"}
\* Where the reference of a field leads in one step.
Follow(fs, f) == IF fs[f].ref = "none" THEN f ELSE fs[f].ref

LEMMA AfterIs ==
    ASSUME NEW fs
    PROVE  /\ After(fs)[0] = Raw(fs)
           /\ \A k \in 0..5 : After(fs)[k + 1] = ExecuteTemplateExpressions(fs, After(fs)[k])
<1> DEFINE ete(d) == ExecuteTemplateExpressions(fs, d)
           d0 == Raw(fs)
           d1 == ete(d0)
           d2 == ete(d1)
           d3 == ete(d2)
           d4 == ete(d3)
           d5 == ete(d4)
           w == [k \in 0..6 |-> IF k = 0 THEN d0 ELSE IF k = 1 THEN d1 ELSE IF k = 2 THEN d2 ELSE IF k = 3 THEN d3
                                ELSE IF k = 4 THEN d4 ELSE IF k = 5 THEN d5 ELSE ete(d5)]
           is(g) == g = [k \in 0..6 |-> IF k = 0 THEN Raw(fs) ELSE ExecuteTemplateExpressions(fs, g[k - 1])]
<1>1. is(w)
  OBVIOUS
<1>2. After(fs) = CHOOSE g : is(g)
  BY DEF After, Rounds
<1>3. is(After(fs))
  <2> HIDE DEF w, is
  <2> QED BY <1>1, <1>2
<1> QED BY <1>3

\* What a round makes of the fields: text of some field, raw if that refers to another.
Form(fs, d) ==
  /\ DOMAIN d = DOMAIN fs
  /\ \A f \in DOMAIN fs : /\ DOMAIN d[f] = {"more", "raw", "of"} /\ d[f].of \in DOMAIN fs
                          /\ d[f].raw = (fs[d[f].of].ref # "none")

LEMMA RoundForms ==
    ASSUME NEW fs, Known(fs), NEW d, Form(fs, d)
    PROVE  LET e == ExecuteTemplateExpressions(fs, d)
           IN  /\ Form(fs, e)
               /\ \A f \in DOMAIN fs : e[f].of = IF fs[f].ref = "none" THEN f ELSE d[fs[f].ref].of
<1> DEFINE e == ExecuteTemplateExpressions(fs, d)
<1>1. DOMAIN e = DOMAIN fs
  BY DEF ExecuteTemplateExpressions
<1>2. ASSUME NEW f \in DOMAIN fs, fs[f].ref = "none"
      PROVE  DOMAIN e[f] = {"more", "raw", "of"} /\ e[f].of = f /\ e[f].raw = FALSE
  <2>1. e[f] = [more |-> 0, raw |-> FALSE, of |-> f]
    BY <1>2 DEF ExecuteTemplateExpressions
  <2> HIDE DEF e
  <2>2. \A a, b, c : LET t == [more |-> a, raw |-> b, of |-> c] IN t.raw = b /\ t.of = c
    OBVIOUS
  <2>3. e[f].of = f /\ e[f].raw = FALSE
    BY <2>1, <2>2
  <2>4. DOMAIN e[f] = {"more", "raw", "of"}
    BY <2>1
  <2> QED BY <2>3, <2>4
<1>3. ASSUME NEW f \in DOMAIN fs, fs[f].ref # "none"
      PROVE  /\ fs[f].ref \in DOMAIN fs /\ DOMAIN e[f] = {"more", "raw", "of"}
             /\ e[f].of = d[fs[f].ref].of /\ e[f].raw = d[fs[f].ref].raw
  <2>1. fs[f].ref \in DOMAIN fs
    BY <1>3 DEF Known
  <2>2. e[f] = [d[fs[f].ref] EXCEPT !.more = @ + fs[f].text]
    BY <1>3 DEF ExecuteTemplateExpressions
  <2>3. DOMAIN d[fs[f].ref] = {"more", "raw", "of"}
    BY <2>1 DEF Form
  <2> QED BY <2>1, <2>2, <2>3
<1> HIDE DEF e
<1>4. ASSUME NEW f \in DOMAIN fs
      PROVE  /\ DOMAIN e[f] = {"more", "raw", "of"} /\ e[f].of \in DOMAIN fs
             /\ e[f].raw = (fs[e[f].of].ref # "none")
             /\ e[f].of = IF fs[f].ref = "none" THEN f ELSE d[fs[f].ref].of
  <2>1. CASE fs[f].ref = "none"
    <3>1. DOMAIN e[f] = {"more", "raw", "of"} /\ e[f].of = f /\ e[f].raw = FALSE
      BY <1>2, <2>1
    <3>2. (fs[f].ref # "none") = FALSE
      BY <2>1
    <3> QED BY <2>1, <3>1, <3>2
  <2>2. CASE fs[f].ref # "none"
    BY <1>3, <2>2 DEF Form
  <2> QED BY <2>1, <2>2
<1> QED BY <1>1, <1>4 DEF Form, e

LEMMA RoundsFollow ==
    ASSUME NEW fs, Known(fs)
    PROVE  /\ \A k \in 0..6 : Form(fs, After(fs)[k])
           /\ \A f \in DOMAIN fs : After(fs)[0][f].of = f
           /\ \A k \in 0..5 : \A f \in DOMAIN fs : After(fs)[k + 1][f].of = Follow(fs, After(fs)[k][f].of)
<1> DEFINE D == After(fs)
           ete(d) == ExecuteTemplateExpressions(fs, d)
           leads(k) == \A f \in DOMAIN fs : D[k + 1][f].of = Follow(fs, D[k][f].of)
<1>1. D[0] = Raw(fs) /\ \A k \in 0..5 : D[k + 1] = ete(D[k])
  BY AfterIs
<1>2. Form(fs, Raw(fs)) /\ \A f \in DOMAIN fs : Raw(fs)[f].of = f
  BY DEF Raw, Form
<1>3. \A f \in DOMAIN fs : Follow(fs, f) \in DOMAIN fs
  BY DEF Follow, Known
<1>4. ASSUME NEW k \in 0..5, Form(fs, D[k])
      PROVE  Form(fs, D[k + 1])
  BY <1>1, <1>4, RoundForms
<1>5. ASSUME NEW k \in 0..4, Form(fs, D[k]), leads(k)
      PROVE  leads(k + 1)
  <2> SUFFICES ASSUME NEW f \in DOMAIN fs
               PROVE  D[(k + 1) + 1][f].of = Follow(fs, D[k + 1][f].of)
    OBVIOUS
  <2>1. k \in 0..5 /\ k + 1 \in 0..5 /\ D[k + 1] = ete(D[k]) /\ D[(k + 1) + 1] = ete(D[k + 1])
    BY <1>1
  <2>2. Form(fs, D[k + 1])
    BY <1>4, <1>5, <2>1
  <2> HIDE DEF D
  <2>3. ASSUME NEW d, Form(fs, d)
        PROVE  ete(d)[f].of = IF fs[f].ref = "none" THEN f ELSE d[fs[f].ref].of
    BY <2>3, RoundForms
  <2>4. /\ ete(D[k])[f].of = IF fs[f].ref = "none" THEN f ELSE D[k][fs[f].ref].of
        /\ ete(D[k + 1])[f].of = IF fs[f].ref = "none" THEN f ELSE D[k + 1][fs[f].ref].of
    BY <1>5, <2>2, <2>3
  <2> HIDE DEF ete
  <2>5. CASE fs[f].ref = "none"
    BY <2>1, <2>4, <2>5 DEF Follow
  <2>6. CASE fs[f].ref # "none"
    <3>1. fs[f].ref \in DOMAIN fs
      BY <2>6 DEF Known
    <3> QED BY <1>5, <2>1, <2>4, <2>6, <3>1
  <2> QED BY <2>5, <2>6
<1>6. leads(0)
  <2>1. D[1] = ete(Raw(fs))
    BY <1>1, 0 \in 0..5, 0 + 1 = 1
  <2>2. ASSUME NEW f \in DOMAIN fs
        PROVE  ete(Raw(fs))[f].of = Follow(fs, f)
    <3>1. Raw(fs)[Follow(fs, f)].of = Follow(fs, f)
      BY <1>2, <1>3
    <3> QED BY <1>2, <3>1, RoundForms DEF Follow
  <2> QED BY <1>1, <1>2, <2>1, <2>2
<1>7. Form(fs, D[0]) /\ \A f \in DOMAIN fs : D[0][f].of = f
  BY <1>1, <1>2
<1> HIDE DEF D, leads
<1>8. Form(fs, D[1]) /\ Form(fs, D[2]) /\ Form(fs, D[3]) /\ Form(fs, D[4]) /\ Form(fs, D[5]) /\ Form(fs, D[6])
  <2> HIDE DEF D
  <2>1. \A k \in 0..5 : Form(fs, D[k]) => Form(fs, D[k + 1])
    BY <1>4
  <2> QED BY <1>7, <2>1
<1>9. leads(1) /\ leads(2) /\ leads(3) /\ leads(4) /\ leads(5)
  <2>1. \A k \in 0..4 : Form(fs, D[k]) /\ leads(k) => leads(k + 1)
    BY <1>5
  <2> QED BY <1>6, <1>7, <1>8, <2>1
<1>10. \A k \in 0..6 : Form(fs, D[k])
  BY <1>7, <1>8
<1>11. \A k \in 0..5 : leads(k)
  BY <1>6, <1>9
<1> QED BY <1>7, <1>10, <1>11 DEF D, leads

LEMMA LastRounds ==
    ASSUME NEW fs, Resolved(fs)
    PROVE  After(fs)[6] = After(fs)[5]
<1> DEFINE D == After(fs)
<1>1. \A k \in 0..5 : D[k + 1] = ExecuteTemplateExpressions(fs, D[k])
  BY AfterIs
<1>2. PICK k \in 1..6 : D[k] = D[k - 1]
  BY DEF Resolved, Rounds
<1> HIDE DEF D
<1>3. \A j \in 1..5 : D[j] = D[j - 1] => D[j + 1] = D[j]
  <2> SUFFICES ASSUME NEW j \in 1..5, D[j] = D[j - 1]
               PROVE  D[j + 1] = D[j]
    OBVIOUS
  <2>1. j - 1 \in 0..5 /\ j \in 0..5 /\ (j - 1) + 1 = j
    OBVIOUS
  <2> QED BY <1>1, <2>1
<1>4. /\ D[1] = D[0] => D[2] = D[1]
      /\ D[2] = D[1] => D[3] = D[2]
      /\ D[3] = D[2] => D[4] = D[3]
      /\ D[4] = D[3] => D[5] = D[4]
      /\ D[5] = D[4] => D[6] = D[5]
  BY <1>3
<1>5. k \in {1, 2, 3, 4, 5, 6}
  OBVIOUS
<1> QED BY <1>2, <1>4, <1>5 DEF D

LEMMA LeadsToEnd ==
    ASSUME NEW fs, Known(fs), NEW f \in DOMAIN fs, NEW s \in [0..6 -> DOMAIN fs], s[0] = f,
           \A k \in 0..5 : s[k + 1] = Follow(fs, s[k]), s[6] = s[5]
    PROVE  Leads(fs, f) = s[6]
<1> DEFINE N == Cardinality(DOMAIN fs)
           at(n) == s[IF n <= 6 THEN n ELSE 6]
           is(g) == g = [n \in 0..N |-> IF n = 0 THEN f ELSE IF fs[g[n - 1]].ref = "none" THEN g[n - 1] ELSE fs[g[n - 1]].ref]
<1>1. N \in Nat
  BY FS_CardinalityType DEF Known
<1>2. \A n \in Nat : at(n + 1) = Follow(fs, at(n)) /\ at(n) \in DOMAIN fs
  <2>1. Follow(fs, s[6]) = s[6]
    <3>1. s[5 + 1] = Follow(fs, s[5])
      OBVIOUS
    <3> QED BY <3>1
  <2> SUFFICES ASSUME NEW n \in Nat PROVE at(n + 1) = Follow(fs, at(n)) /\ at(n) \in DOMAIN fs
    OBVIOUS
  <2>2. CASE n <= 5
    BY <2>2
  <2>3. CASE n > 5
    BY <2>1, <2>3
  <2> QED BY <2>2, <2>3
<1>3. at(0) = f /\ \A n \in Nat : n >= 6 => at(n) = s[6]
  OBVIOUS
<1> HIDE DEF at, N
<1>4. is([n \in 0..N |-> at(n)])
  <2> DEFINE w == [n \in 0..N |-> at(n)]
  <2>1. ASSUME NEW n \in 0..N, n # 0
        PROVE  /\ w[n - 1] = at(n - 1)
               /\ at(n) = IF fs[at(n - 1)].ref = "none" THEN at(n - 1) ELSE fs[at(n - 1)].ref
    <3>1. n - 1 \in 0..N /\ n - 1 \in Nat /\ (n - 1) + 1 = n
      BY <1>1, <2>1
    <3> QED BY <1>2, <3>1 DEF Follow
  <2> QED BY <1>3, <2>1
<1>5. PICK g : is(g) /\ Leads(fs, f) = g[N]
  <2>1. Leads(fs, f) = (CHOOSE g : is(g))[N]
    BY DEF Leads, N
  <2> HIDE DEF is
  <2> QED BY <1>4, <2>1
<1>6. g[0] = f /\ \A n \in 0..N : n # 0 => g[n] = Follow(fs, g[n - 1])
  <2>1. \A n \in 0..N : g[n] = IF n = 0 THEN f ELSE Follow(fs, g[n - 1])
    BY <1>5 DEF Follow
  <2>2. 0 \in 0..N
    BY <1>1
  <2> HIDE DEF is
  <2> QED BY <2>1, <2>2
<1>7. \A n \in 0..N : g[n] = at(n)
  <2> DEFINE T == {m \in 0..N : \A k \in 0..m : g[k] = at(k)}
  <2>1. 0 \in T
    BY <1>1, <1>3, <1>6
  <2>2. PICK m \in T : \A y \in T : m >= y
    <3>1. T \subseteq 0..N /\ T # {}
      BY <2>1
    <3> HIDE DEF T
    <3>2. Max(T) \in T /\ \A y \in T : Max(T) >= y
      BY <1>1, <3>1, MaxOfVersions
    <3> QED BY <3>2
  <2>3. m = N
    <3> SUFFICES ASSUME m < N PROVE FALSE
      BY <1>1
    <3>1. m \in Nat /\ m + 1 \in 0..N /\ g[m] = at(m) /\ (m + 1) - 1 = m
      BY <1>1
    <3>2. g[m + 1] = at(m + 1)
      BY <1>2, <1>6, <3>1
    <3>3. m + 1 \in T
      BY <3>1, <3>2
    <3> QED BY <2>2, <3>1, <3>3
  <2> QED BY <2>3
<1>8. at(N) = s[6]
  <2>1. CASE N >= 6
    BY <1>1, <1>3, <2>1
  <2>2. CASE N < 6
    <3>1. PICK x, y \in 0..N : x < y /\ at(x) = at(y)
      <4> DEFINE p == [n \in 0..N |-> at(n)]
      <4>1. p \in [0..N -> DOMAIN fs]
        BY <1>1, <1>2
      <4>2. IsFiniteSet(0..N) /\ Cardinality(0..N) = N + 1
        BY <1>1, FS_Interval
      <4> HIDE DEF p
      <4>3. PICK x, y \in 0..N : x # y /\ p[x] = p[y]
        <5>1. IsFiniteSet(DOMAIN fs) /\ Cardinality(DOMAIN fs) < Cardinality(0..N)
          BY <1>1, <4>2 DEF N, Known
        <5> DEFINE S == 0..N
                   T == DOMAIN fs
        <5>2. IsFiniteSet(S) /\ IsFiniteSet(T) /\ Cardinality(T) < Cardinality(S) /\ p \in [S -> T]
          BY <4>1, <4>2, <5>1
        <5> HIDE DEF S, T
        <5>3. \E x, y \in S : x # y /\ p[x] = p[y]
          BY <5>2, FS_PigeonHole
        <5> QED BY <5>3 DEF S
      <4>4. at(x) = at(y)
        BY <4>3 DEF p
      <4> QED BY <1>1, <4>3, <4>4
    <3> DEFINE d == y - x
    <3>2. x \in Nat /\ y \in Nat /\ d \in Nat /\ d >= 1 /\ x + d = y /\ x <= 4 /\ N \in x..5
      BY <1>1, <2>2, <3>1
    <3> HIDE DEF d
    <3>3. \A n \in Nat : at(n) = at(n + d) => at(n + 1) = at((n + 1) + d)
      <4> SUFFICES ASSUME NEW n \in Nat, at(n) = at(n + d)
                   PROVE  at(n + 1) = at((n + 1) + d)
        OBVIOUS
      <4>1. n + d \in Nat /\ (n + 1) + d = (n + d) + 1
        BY <3>2
      <4> QED BY <1>2, <4>1
    <3>4. \A n \in x..5 : at(n) = at(n + d)
      <4>1. at(x) = at(x + d)
        BY <3>1, <3>2
      <4>2. /\ at(x + 1) = at((x + 1) + d) /\ at(x + 2) = at((x + 2) + d) /\ at(x + 3) = at((x + 3) + d)
            /\ at(x + 4) = at((x + 4) + d) /\ at(x + 5) = at((x + 5) + d)
        <5>1. x + 1 \in Nat /\ x + 2 \in Nat /\ x + 3 \in Nat /\ x + 4 \in Nat /\ x + 5 \in Nat
          BY <3>2
        <5>2. (x + 1) + 1 = x + 2 /\ (x + 2) + 1 = x + 3 /\ (x + 3) + 1 = x + 4 /\ (x + 4) + 1 = x + 5
          BY <3>2
        <5> QED BY <3>2, <3>3, <4>1, <5>1, <5>2
      <4>3. \A n \in x..5 : n \in {x, x + 1, x + 2, x + 3, x + 4, x + 5}
        BY <3>2
      <4> QED BY <4>1, <4>2, <4>3
    <3>5. \A n \in x..5 : at(n) = s[6]
      <4> DEFINE ends(k) == x <= k => at(k) = s[6]
      <4>1. ASSUME NEW k \in 0..5, \A l \in (k + 1)..5 : ends(l)
            PROVE  ends(k)
        <5> SUFFICES ASSUME x <= k PROVE at(k) = s[6]
          OBVIOUS
        <5>1. at(k) = at(k + d) /\ k + d \in Nat /\ k + d >= k + 1
          BY <3>2, <3>4
        <5>2. CASE k + d >= 6
          BY <1>3, <5>1, <5>2
        <5>3. CASE k + d <= 5
          BY <3>2, <4>1, <5>1, <5>3
        <5> QED BY <5>1, <5>2, <5>3
      <4> HIDE DEF ends
      <4>2. ends(5)
        BY <4>1
      <4>3. ends(4)
        BY <4>1, <4>2
      <4>4. ends(3)
        BY <4>1, <4>2, <4>3
      <4>5. ends(2)
        BY <4>1, <4>2, <4>3, <4>4
      <4>6. ends(1)
        BY <4>1, <4>2, <4>3, <4>4, <4>5
      <4>7. ends(0)
        BY <4>1, <4>2, <4>3, <4>4, <4>5, <4>6
      <4>8. \A k \in 0..5 : ends(k)
        BY <4>2, <4>3, <4>4, <4>5, <4>6, <4>7
      <4> QED BY <3>2, <4>8 DEF ends
    <3> QED BY <3>2, <3>5
  <2> QED BY <1>1, <2>1, <2>2
<1> QED BY <1>1, <1>5, <1>7, <1>8

\* Every template of a release that can be put together refers to fields the release has.
RefsKnown ==
  \A r \in Runs : Assembles(Load(r).release, Config(r)) => Known(Assembled(Load(r).release, Config(r)).single)
\* What is handled has been executed, and is what was loaded.
Settled(r) ==
  /\ Assembles(Load(r).release, Config(r)) /\ assembled[r] = Assembled(Load(r).release, Config(r))
  /\ Resolved(assembled[r].single) /\ fields[r] = After(assembled[r].single)[Rounds]
Settling ==
  /\ DOMAIN fields = Runs /\ DOMAIN assembled = Runs
  /\ \A r \in Runs : Handling(r) => Settled(r)

LEMMA SettlingKept ==
    ASSUME TypeOK, Settling, [Next]_vars
    PROVE  Settling'
<1>1. \A r : Load(r)' = Load(r) /\ Config(r)' = Config(r)
  BY SetupFixed DEF Load, Config
<1>2. UNCHANGED <<assembled, fields>> \/ \E q \in Runs : Loaded(q)
  <2>1. LoadNext => UNCHANGED <<assembled, fields>> \/ \E q \in Runs : Loaded(q)
    <3>1. ASSUME NEW q, NEW s, Worker1(q, s)
          PROVE  UNCHANGED <<assembled, fields>>
      BY <3>1 DEF Worker1, Decrypt, DecryptDone, DecryptCached, Append1, Append2, Look, Parse, ParseEmpty,
                  Discard, unchangedLoad, unchangedRest
    <3>2. ASSUME NEW q, BeginPart(q) \/ EndPart(q)
          PROVE  UNCHANGED <<assembled, fields>>
      BY <3>2 DEF BeginPart, EndPart, unchangedRest
    <3> QED BY <3>1, <3>2 DEF LoadNext, loadVars
  <2> QED BY <2>1, Kinds DEF loadingVars, loadVars, vars
<1>3. ASSUME NEW r \in Runs, Loaded(r)
      PROVE  /\ \A q \in Runs \ {r} : assembled'[q] = assembled[q] /\ fields'[q] = fields[q]
             /\ DOMAIN fields' = Runs /\ DOMAIN assembled' = Runs /\ pc[r] = "load"
             /\ Handling(r)' => Settled(r)'
  <2>1. \/ pc'[r] = "done" /\ UNCHANGED <<assembled, fields>>
        \/ /\ Assembles(Load(r).release, Config(r))
           /\ Resolved(Assembled(Load(r).release, Config(r)).single)
           /\ assembled' = [assembled EXCEPT ![r] = Assembled(Load(r).release, Config(r))]
           /\ fields' = [fields EXCEPT ![r] = After(assembled'[r].single)[Rounds]]
    BY <1>3 DEF Loaded, LoadFails, LoadSkips, Go, TypeOK
  <2>2. CASE pc'[r] = "done" /\ UNCHANGED <<assembled, fields>>
    BY <1>3, <2>2 DEF Handling, Settling, Loaded
  <2>3. CASE /\ Assembles(Load(r).release, Config(r))
             /\ Resolved(Assembled(Load(r).release, Config(r)).single)
             /\ assembled' = [assembled EXCEPT ![r] = Assembled(Load(r).release, Config(r))]
             /\ fields' = [fields EXCEPT ![r] = After(assembled'[r].single)[Rounds]]
    <3>1. assembled'[r] = Assembled(Load(r).release, Config(r))
      BY <2>3 DEF Settling
    <3>2. fields'[r] = After(assembled'[r].single)[Rounds] /\ Resolved(assembled'[r].single)
      BY <2>3, <3>1 DEF Settling
    <3>3. Settled(r)'
      BY <1>1, <2>3, <3>1, <3>2 DEF Settled
    <3> QED BY <1>3, <2>3, <3>3 DEF Settling, Loaded
  <2> QED BY <2>1, <2>2, <2>3
<1>4. ASSUME NEW r \in Runs, Handling(r)
      PROVE  assembled'[r] = assembled[r] /\ fields'[r] = fields[r]
  BY <1>2, <1>3, <1>4 DEF Handling
<1>5. ASSUME NEW r \in Runs, ~Handling(r), Handling(r)'
      PROVE  Loaded(r)
  <2>1. ~RemoteOf(r) /\ ~BeginPart(r) /\ ~EndPart(r)
    BY <1>5 DEF TypeOK, Handling, RemoteOf, Locate, FetchCached, StartGet, NoSuchObject, GetFails, HttpGet, S3Get,
                GoGet, Fetched, BeginPart, EndPart, Go, LoadFails, LoadSkips
  <2>2. ~RunOf(r) /\ ~EndOf(r)
    BY <1>5, EndFacts DEF Handling, RunOf, Start, Prepare, Gather, UpdateRepo, Prepared, GlobalCleanup,
                Deferred, BuildDeps
  <2> QED BY <1>5, <2>1, <2>2, Mover DEF Handling
<1>6. DOMAIN fields' = Runs /\ DOMAIN assembled' = Runs
  BY <1>2, <1>3 DEF Settling
<1>7. ASSUME NEW r \in Runs, Handling(r)'
      PROVE  Settled(r)'
  <2>1. CASE Handling(r)
    BY <1>1, <1>4, <2>1 DEF Settling, Settled
  <2>2. CASE ~Handling(r)
    BY <1>3, <1>5, <1>7, <2>2
  <2> QED BY <2>1, <2>2
<1> QED BY <1>6, <1>7 DEF Settling

LEMMA RefsKnownKept ==
    ASSUME RefsKnown, setup' = setup
    PROVE  RefsKnown'
<1>1. \A r : Load(r)' = Load(r) /\ Config(r)' = Config(r)
  BY DEF Load, Config
<1> QED BY <1>1 DEF RefsKnown

\* Whatever its fields refer to, and however many there are, a release is only handled when six
\* rounds of templates have led every reference to its end: of the code (ExecuteTemplates), the
\* number of rounds and the comparison of the last two; provided that templates refer to fields
\* the release has.
THEOREM ReferencesEnd == Spec /\ RefsKnown => []TemplatesResolved
<1>1. Init => Settling
  BY DEF Init, LoadInit, PrepInit, Settling, Handling
<1>2. IInv /\ Settling /\ RefsKnown /\ [Next]_vars => Settling' /\ RefsKnown'
  BY SettlingKept, SetupFixed, RefsKnownKept DEF IInv
<1>3. Settling /\ RefsKnown => TemplatesResolved
  <2> SUFFICES ASSUME Settling, RefsKnown, NEW r \in Runs, Handling(r)
               PROVE  LET fs == assembled[r].single
                      IN  \A f \in DOMAIN fs :
                            LET end == Leads(fs, f)
                            IN  /\ fields[r][f].of = end /\ (fields[r][f].raw <=> fs[end].ref # "none")
                                /\ fs[end].ref \in {"none", end}
    BY DEF TemplatesResolved
  <2> DEFINE fs == assembled[r].single
             D == After(fs)
  <2>1. Known(fs) /\ Resolved(fs) /\ fields[r] = D[6]
    BY DEF Settling, Settled, RefsKnown, Rounds
  <2> HIDE DEF fs, D
  <2>2. /\ \A k \in 0..6 : Form(fs, D[k])
        /\ \A f \in DOMAIN fs : D[0][f].of = f
        /\ \A k \in 0..5 : \A f \in DOMAIN fs : D[k + 1][f].of = Follow(fs, D[k][f].of)
    BY <2>1, RoundsFollow DEF D
  <2>3. D[6] = D[5]
    BY <2>1, LastRounds DEF D
  <2> SUFFICES ASSUME NEW f \in DOMAIN fs
               PROVE  /\ fields[r][f].of = Leads(fs, f)
                      /\ fields[r][f].raw <=> fs[Leads(fs, f)].ref # "none"
                      /\ fs[Leads(fs, f)].ref \in {"none", Leads(fs, f)}
    BY DEF fs
  <2> DEFINE s == [k \in 0..6 |-> D[k][f].of]
             end == D[6][f].of
  <2>4. Leads(fs, f) = end
    <3>1. s \in [0..6 -> DOMAIN fs]
      BY <2>2 DEF Form
    <3>2. s[0] = f /\ s[6] = s[5] /\ \A k \in 0..5 : s[k + 1] = Follow(fs, s[k])
      BY <2>2, <2>3
    <3>3. s[6] = end
      OBVIOUS
    <3> HIDE DEF s, end
    <3> QED BY <2>1, <3>1, <3>2, <3>3, LeadsToEnd
  <2>5. D[6][f].raw = (fs[end].ref # "none") /\ end \in DOMAIN fs
    <3>1. Form(fs, D[6])
      BY <2>2
    <3> QED BY <3>1 DEF Form
  <2>6. end = Follow(fs, end)
    BY <2>2, <2>3
  <2>7. fs[end].ref \in {"none", end}
    BY <2>6 DEF Follow
  <2> QED BY <2>1, <2>4, <2>5, <2>7
<1> QED BY <1>1, <1>2, <1>3, Invariant, PTL DEF Spec
----------------------------------------------------------------------------
(* The command line.                                                        *)

\* What goes before everything else still does when it is merged once more.
LEMMA MergedWins ==
    ASSUME NEW set, NEW a, NEW b, Wins(set, b)
    PROVE  Wins(set, MergeMaps(a, b, "merge"))
<1> DEFINE over == {q \in DOMAIN b : b[q] = Null => ~\E p \in DOMAIN a : IsPrefix(q, p)}
           kept == {p \in DOMAIN a : \A q \in over : p = q \/ ~Related(p, q)}
           m == MergeMaps(a, b, "merge")
<1>1. /\ DOMAIN m = kept \cup over
      /\ \A p \in over : m[p] = IF p \in kept /\ a[p].list /\ b[p].list
                                THEN Several(MergeSlices(a[p].v, b[p].v, "merge")) ELSE b[p]
  BY DEF MergeMaps
<1> HIDE DEF m
<1> SUFFICES ASSUME NEW p \in DOMAIN set, set[p] # Null
             PROVE  /\ p \in DOMAIN m /\ \A q \in DOMAIN m : Related(p, q) => q \in DOMAIN set
                    /\ set[p].list => /\ m[p].list
                                      /\ \A i \in DOMAIN set[p].v : set[p].v[i] # Hole =>
                                           i \in DOMAIN m[p].v /\ m[p].v[i] = set[p].v[i]
                    /\ ~set[p].list => m[p] = set[p]
  BY DEF Wins, m
<1>2. p \in over
  <2>1. p \in DOMAIN b /\ (set[p].list => b[p].list) /\ (~set[p].list => b[p] = set[p])
    BY DEF Wins
  <2>2. b[p] # Null
    BY <2>1 DEF Null
  <2> QED BY <2>1, <2>2
<1>3. ASSUME NEW q \in DOMAIN m, Related(p, q)
      PROVE  q \in DOMAIN set
  <2>1. CASE q \in over
    BY <1>3, <2>1 DEF Wins
  <2>2. CASE q \in kept
    BY <1>2, <1>3, <2>2 DEF Related
  <2> QED BY <1>1, <2>1, <2>2
<1>4. ASSUME set[p].list
      PROVE  /\ m[p].list
             /\ \A i \in DOMAIN set[p].v : set[p].v[i] # Hole => i \in DOMAIN m[p].v /\ m[p].v[i] = set[p].v[i]
  <2>1. /\ b[p].list
        /\ \A i \in DOMAIN set[p].v : set[p].v[i] # Hole => i \in DOMAIN b[p].v /\ b[p].v[i] = set[p].v[i]
    BY <1>4 DEF Wins
  <2>2. CASE p \in kept /\ a[p].list
    <3> DEFINE slices == MergeSlices(a[p].v, b[p].v, "merge")
    <3>1. m[p] = Several(slices)
      BY <1>1, <1>2, <2>1, <2>2
    <3>2. \A i \in DOMAIN b[p].v : b[p].v[i] # Hole => i \in DOMAIN slices /\ slices[i] = b[p].v[i]
      BY DEF MergeSlices
    <3> HIDE DEF slices
    <3>3. m[p].list /\ m[p].v = slices
      BY <3>1 DEF Several
    <3> QED BY <2>1, <3>2, <3>3
  <2>3. CASE ~(p \in kept /\ a[p].list)
    BY <1>1, <1>2, <2>1, <2>3
  <2> QED BY <2>2, <2>3
<1>5. ASSUME ~set[p].list
      PROVE  m[p] = set[p]
  BY <1>1, <1>2, <1>5 DEF Wins
<1> QED BY <1>1, <1>2, <1>3, <1>4, <1>5

LEMMA EnvironmentWins ==
    ASSUME NEW r
    PROVE  /\ Wins(SetValues(Load(r).set), GetMergedValues(Context(r)))
           /\ Wins(SetValues(Load(r).set), GetMergedValues(NewEnv(r)))
<1> DEFINE set == SetValues(Load(r).set)
<1>1. Wins(set, set)
  BY DEF Wins
<1>2. Context(r).cli = MergeMaps(env[r].cli, set, "merge") /\ NewEnv(r).cli = Context(r).cli
  <2>1. Overrides(r).cli = set
    BY DEF Overrides, NewEnvironment
  <2> QED BY <2>1 DEF NewEnv, Context, MergeEnvironment
<1> HIDE DEF set
<1>3. Wins(set, Context(r).cli) /\ Wins(set, NewEnv(r).cli)
  BY <1>1, <1>2, MergedWins
<1> QED BY <1>3, MergedWins DEF set, GetMergedValues

SetIsSeen ==
  /\ DOMAIN part = Runs /\ DOMAIN rendered = Runs
  /\ \A r \in Runs : part[r] > 1 => Wins(SetValues(Load(r).set), rendered[r])

LEMMA SetIsSeenKept ==
    ASSUME SetIsSeen, [Next]_vars
    PROVE  SetIsSeen'
<1>1. \A r : Load(r)' = Load(r)
  BY SetupFixed DEF Load
<1>2. UNCHANGED <<part, rendered>> \/ \E r \in Runs : EndPart(r)
  <2>1. LoadNext => UNCHANGED <<part, rendered>> \/ \E r \in Runs : EndPart(r)
    BY DecryptsAside DEF LoadNext, loadVars, BeginPart, Loaded
  <2> QED BY <2>1, Kinds DEF loadingVars, loadVars, vars
<1>3. CASE UNCHANGED <<part, rendered>>
  BY <1>1, <1>3 DEF SetIsSeen
<1>4. ASSUME NEW r \in Runs, EndPart(r)
      PROVE  SetIsSeen'
  <2>1. \/ UNCHANGED <<part, rendered>>
        \/ /\ part' = [part EXCEPT ![r] = @ + 1]
           /\ rendered' = [rendered EXCEPT ![r] = GetMergedValues(NewEnv(r))]
    BY <1>4 DEF EndPart
  <2>2. CASE /\ part' = [part EXCEPT ![r] = @ + 1]
             /\ rendered' = [rendered EXCEPT ![r] = GetMergedValues(NewEnv(r))]
    <3>1. DOMAIN part' = Runs /\ DOMAIN rendered' = Runs /\ Wins(SetValues(Load(r).set), rendered'[r])
      BY <2>2, EnvironmentWins DEF SetIsSeen
    <3>2. \A q \in Runs \ {r} : part'[q] = part[q] /\ rendered'[q] = rendered[q]
      BY <2>2 DEF SetIsSeen
    <3> QED BY <1>1, <3>1, <3>2 DEF SetIsSeen
  <2> QED BY <1>3, <2>1, <2>2
<1> QED BY <1>2, <1>3, <1>4

\* The command line goes before everything else a state file has its values from, for all
\* layers, lists and nulls, and already while the parts are rendered (Environment.Merge,
\* Environment.GetMergedValues, maputil.MergeMaps).
THEOREM SettingsHold == Spec => []SettingsWin
<1>1. Init => SetIsSeen
  BY DEF Init, LoadInit, SetIsSeen
<1>2. SetIsSeen /\ [Next]_vars => SetIsSeen'
  BY SetIsSeenKept
<1>3. SetIsSeen => SettingsWin
  BY EnvironmentWins DEF SetIsSeen, SettingsWin
<1> QED BY <1>1, <1>2, <1>3, PTL DEF Spec

-----------------------------------------------------------------------------
(***************************************************************************)
(* The flags helm is given (HelmFlags).  They do not change while a run    *)
(* lasts, since what they are built from does not: what remains to show    *)
(* is that the commands' lists of groups, each written out in the code of  *)
(* its command, agree on the flags that decide what is rendered or         *)
(* downloaded, whatever layer each option is set on.                       *)
(***************************************************************************)

Decisive == Rendering \cup {"--disable-openapi-validation", "--reuse-values", "--reset-values",
                            "--server-side", "--take-ownership"}
\* No flag of a group decides what is rendered.
Aside(fs) == \A f \in fs : f[1] \notin Decisive
\* The groups that do, of a diff and of an upgrade, and of a rendering alone.
Rendered ==
  ChartVersionFlags \cup EnableDNSFlags \cup ConnectionFlags \cup ChartDownloadFlags \cup HelmXFlags
  \cup PostRenderFlags \cup PostRenderArgsFlags \cup SkipSchemaValidationFlags \cup ValuesFlags
  \cup CommandLineValues
Applied == OpenAPIFlags \cup ServerSideFlags \cup ValuesControlFlags
AsideUpgradeFlags ==
  WaitFlags \cup VerificationFlags \cup TimeoutFlags \cup ForceFlags
  \cup Flag(Switched("recreatePods"), "--recreate-pods") \cup RollbackFlags
  \cup Flag(Switched("cleanupOnFail"), "--cleanup-on-fail") \cup CreateNamespaceFlags \cup LabelsFlags
  \cup DescriptionFlags \cup HideNotesFlags \cup ExtraSyncFlags
  \cup Flag(On("skipCRDs", "def") \/ On("skipCRDs", "cli"), "--skip-crds")
AsideDiffFlags ==
  DisableValidationFlags \cup ApiVersionsFlags \cup KubeVersionFlags(KubeVersionForDiff)
  \cup SuppressOutputFlags \cup ExtraDiffFlags
AsideTemplateFlags ==
  ApiVersionsFlags \cup KubeVersionFlags(FirstOf("kubeVersion", <<"cli">>)) \cup TemplateArgs
  \cup ValueFlag("--show-only", FirstOf("showOnly", <<"cli">>))

LEMMA DecisiveNames ==
  {"--verify", "--keyring", "--timeout", "--force", "--force-replace", "--force-conflicts", "--atomic",
   "--rollback-on-failure", "--create-namespace", "--labels", "--description", "--hide-notes", "syncArgs",
   "--recreate-pods", "--cleanup-on-fail", "--skip-crds", "--wait", "--wait-for-jobs", "--plain-http",
   "--disable-validation", "--api-versions", "--kube-version", "--suppress-output-line-regex", "--dry-run",
   "diffArgs", "--show-only"} \cap Decisive = {}
BY DEF Decisive, Rendering

LEMMA FlagNamed == \A c, n : \A f \in Flag(c, n) : f[1] = n
BY DEF Flag
LEMMA ValueFlagNamed == \A n, l : \A f \in ValueFlag(n, l) : f[1] = n
BY DEF ValueFlag
LEMMA AsideEither == \A a, b : Aside(a) /\ Aside(b) => Aside(a \cup b)
BY DEF Aside

LEMMA WaitNamed == \A f \in WaitFlags : f[1] \in {"--wait", "--wait-for-jobs"}
<1> SUFFICES ASSUME NEW f \in WaitFlags PROVE f[1] \in {"--wait", "--wait-for-jobs"}
  OBVIOUS
<1>1. CASE f \in Flag(TrackMode # "kubedog" /\ Waits("waitForJobs"), "--wait-for-jobs")
  BY <1>1, FlagNamed
<1>2. CASE f \notin Flag(TrackMode # "kubedog" /\ Waits("waitForJobs"), "--wait-for-jobs")
  <2>1. CASE ~Waits("wait")
    BY <1>2, <2>1 DEF WaitFlags
  <2>2. CASE Waits("wait")
    <3>1. f \in {<<"--wait", IF TrackMode = "helm-legacy" /\ Helm4 THEN "legacy" ELSE "on">>}
      BY <1>2, <2>2 DEF WaitFlags
    <3> QED BY <3>1
  <2> QED BY <2>1, <2>2
<1> QED BY <1>1, <1>2

LEMMA AsideUpgrade == Aside(AsideUpgradeFlags)
<1> USE DecisiveNames, FlagNamed, ValueFlagNamed
<1>1. Aside(VerificationFlags)
  BY DEF Aside, VerificationFlags, VerifyFlags, KeyringFlags
<1>2. Aside(TimeoutFlags) /\ Aside(CreateNamespaceFlags) /\ Aside(LabelsFlags) /\ Aside(DescriptionFlags)
  BY DEF Aside, TimeoutFlags, CreateNamespaceFlags, LabelsFlags, DescriptionFlags
<1>3. Aside(ForceFlags)
  BY DEF Aside, ForceFlags
<1>4. Aside(RollbackFlags)
  <2>1. CASE Switched("atomic") /\ ~Helm4
    BY <2>1 DEF Aside, RollbackFlags
  <2>2. CASE ~(Switched("atomic") /\ ~Helm4)
    BY <2>2 DEF Aside, RollbackFlags
  <2> QED BY <2>1, <2>2
<1>5. Aside(HideNotesFlags) /\ Aside(ExtraSyncFlags)
  BY DEF Aside, HideNotesFlags, ExtraSyncFlags
<1>7. Aside(WaitFlags)
  BY WaitNamed DEF Aside
<1>6. \A c : /\ Aside(Flag(c, "--recreate-pods")) /\ Aside(Flag(c, "--cleanup-on-fail"))
             /\ Aside(Flag(c, "--skip-crds"))
  BY DEF Aside
<1> HIDE DecisiveNames, FlagNamed, ValueFlagNamed
<1> QED BY <1>1, <1>2, <1>3, <1>4, <1>5, <1>6, <1>7, AsideEither DEF AsideUpgradeFlags

LEMMA AsideDiff == Aside(AsideDiffFlags) /\ Aside(AsideTemplateFlags)
<1> USE DecisiveNames, FlagNamed, ValueFlagNamed
<1>1. Aside(DisableValidationFlags) /\ Aside(ApiVersionsFlags) /\ Aside(SuppressOutputFlags) /\ Aside(TemplateArgs)
  BY DEF Aside, DisableValidationFlags, ApiVersionsFlags, SuppressOutputFlags, TemplateArgs
<1>2. \A a : Aside(KubeVersionFlags(a))
  BY DEF Aside, KubeVersionFlags
<1>3. Aside(ExtraDiffFlags)
  BY <1>1 DEF Aside, ExtraDiffFlags
<1>4. \A l : Aside(ValueFlag("--show-only", l))
  BY DEF Aside
<1> HIDE DecisiveNames, FlagNamed, ValueFlagNamed
<1>5. Aside(AsideDiffFlags)
  BY <1>1, <1>2, <1>3, AsideEither DEF AsideDiffFlags
<1>6. Aside(AsideTemplateFlags)
  BY <1>1, <1>2, <1>4, AsideEither DEF AsideTemplateFlags
<1> QED BY <1>5, <1>6

\* --plain-http decides nothing either.
LEMMA PlainHttp == \A f : f[1] \in Decisive => f # <<"--plain-http", "on">>
BY DecisiveNames

\* What helm upgrade, helm diff and helm template are given, sorted.
LEMMA UpgradeSorted ==
    ASSUME ~UpgradeRefused
    PROVE  UpgradeArgs.flags = Rendered \cup Applied \cup TakeOwnershipForUpgrade \cup AsideUpgradeFlags
<1>1. FlagsForUpgrade.ok
  BY DEF FlagsForUpgrade, Flags
<1>2. UpgradeArgs.flags =
        FlagsForUpgrade.flags \cup CommandLineValues \cup ValuesControlFlags
        \cup Flag(On("skipCRDs", "def") \/ On("skipCRDs", "cli"), "--skip-crds")
  BY <1>1 DEF UpgradeArgs, Flags
<1>3. FlagsForUpgrade.flags =
    ChartVersionFlags \cup EnableDNSFlags \cup WaitFlags \cup VerificationFlags
    \cup TimeoutFlags \cup ForceFlags \cup Flag(Switched("recreatePods"), "--recreate-pods")
    \cup RollbackFlags \cup Flag(Switched("cleanupOnFail"), "--cleanup-on-fail")
    \cup CreateNamespaceFlags \cup OpenAPIFlags \cup ConnectionFlags
    \cup ChartDownloadFlags \cup HelmXFlags \cup LabelsFlags \cup PostRenderFlags
    \cup DescriptionFlags \cup PostRenderArgsFlags \cup SkipSchemaValidationFlags
    \cup HideNotesFlags \cup TakeOwnershipForUpgrade \cup ServerSideFlags
    \cup ExtraSyncFlags \cup ValuesFlags
  BY DEF FlagsForUpgrade, Flags
<1> QED BY <1>2, <1>3 DEF Rendered, Applied, AsideUpgradeFlags

LEMMA DiffSorted ==
    ASSUME DiffArgs.ok, NEW f, f[1] \in Decisive
    PROVE  f \in DiffArgs.flags <=> f \in Rendered \cup Applied \cup TakeOwnershipForDiff \cup AsideDiffFlags
<1>1. ~DiffRefused
  BY DEF DiffArgs, FlagsForDiff, Rejected
<1>2. FlagsForDiff.ok
  BY <1>1 DEF FlagsForDiff, Flags
<1>3. DiffArgs.flags =
        FlagsForDiff.flags \cup ValuesControlFlags \cup CommandLineValues \cup ExtraDiffFlags
  BY <1>2 DEF DiffArgs, Flags
<1>4. FlagsForDiff.flags =
    ChartVersionFlags \cup EnableDNSFlags \cup OpenAPIFlags \cup DisableValidationFlags
    \cup ApiVersionsFlags \cup KubeVersionFlags(KubeVersionForDiff) \cup ConnectionFlags
    \cup (ChartDownloadFlags \ {<<"--plain-http", "on">>}) \cup HelmXFlags
    \cup PostRenderFlags \cup PostRenderArgsFlags \cup SkipSchemaValidationFlags
    \cup SuppressOutputFlags \cup TakeOwnershipForDiff \cup ServerSideFlags
    \cup ValuesFlags
  BY <1>1 DEF FlagsForDiff, Flags
<1> QED BY <1>3, <1>4, PlainHttp DEF Rendered, Applied, AsideDiffFlags

LEMMA TemplateSorted ==
    ASSUME FlagsForTemplate.ok
    PROVE  FlagsForTemplate.flags = Rendered \cup AsideTemplateFlags
<1>1. valuesOK
  BY DEF FlagsForTemplate, Rejected
<1>2. FlagsForTemplate.flags =
    ChartVersionFlags \cup HelmXFlags \cup EnableDNSFlags \cup PostRenderFlags
    \cup PostRenderArgsFlags \cup ApiVersionsFlags
    \cup KubeVersionFlags(FirstOf("kubeVersion", <<"cli">>)) \cup ChartDownloadFlags
    \cup ValueFlag("--show-only", FirstOf("showOnly", <<"cli">>))
    \cup SkipSchemaValidationFlags \cup ConnectionFlags \cup TemplateArgs
    \cup ValuesFlags \cup CommandLineValues
  BY <1>1 DEF FlagsForTemplate, Flags
<1> QED BY <1>2 DEF Rendered, AsideTemplateFlags

\* Only helm upgrade of a helm that knows --take-ownership is given it.
LEMMA OwnershipShared ==
  \A f : f[1] \in Rendering \cup Applying => (f \in TakeOwnershipForUpgrade <=> f \in TakeOwnershipForDiff)
<1>1. CASE helm >= 3017
  BY <1>1 DEF TakeOwnershipForUpgrade, TakeOwnershipForDiff, Flag
<1>2. CASE ~(helm >= 3017)
  <2>1. "--take-ownership" \notin Rendering \cup Applying
    BY <1>2 DEF Rendering, Applying
  <2> QED BY <2>1, FlagNamed DEF TakeOwnershipForUpgrade, TakeOwnershipForDiff
<1> QED BY <1>1, <1>2

LEMMA DecidedNames == Rendering \cup Applying \subseteq Decisive
BY DEF Decisive, Applying

LEMMA DiffAgrees ==
    ASSUME ~UpgradeRefused, DiffArgs.ok
    PROVE  Only(Rendering \cup Applying, DiffArgs) = Only(Rendering \cup Applying, UpgradeArgs)
<1>1. ASSUME NEW f, f[1] \in Rendering \cup Applying
      PROVE  f \in DiffArgs.flags <=> f \in UpgradeArgs.flags
  <2>1. f[1] \in Decisive
    BY <1>1, DecidedNames
  <2>2. f \notin AsideUpgradeFlags /\ f \notin AsideDiffFlags
    BY <2>1, AsideUpgrade, AsideDiff DEF Aside
  <2> QED BY <1>1, <2>1, <2>2, UpgradeSorted, DiffSorted, OwnershipShared
<1> QED BY <1>1 DEF Only

LEMMA ValuesOrRefused == ~UpgradeRefused => valuesOK
BY DEF UpgradeRefused

LEMMA TemplateAgrees ==
    ASSUME ~UpgradeRefused
    PROVE  Only(Rendering, FlagsForTemplate) = Only(Rendering, UpgradeArgs)
<1>1. FlagsForTemplate.ok
  BY ValuesOrRefused DEF FlagsForTemplate, Flags
<1>2. \A f \in Applied \cup TakeOwnershipForUpgrade : f[1] \notin Rendering
  <2>1. {"--disable-openapi-validation", "--reuse-values", "--reset-values", "--server-side", "--take-ownership"}
          \cap Rendering = {}
    BY DEF Rendering
  <2>2. \A f \in ValuesControlFlags : f[1] \notin Rendering
    BY <2>1 DEF ValuesControlFlags
  <2> QED BY <2>1, <2>2, FlagNamed, ValueFlagNamed DEF Applied, OpenAPIFlags, ServerSideFlags, TakeOwnershipForUpgrade
<1>3. ASSUME NEW f, f[1] \in Rendering
      PROVE  f \in FlagsForTemplate.flags <=> f \in UpgradeArgs.flags
  <2>1. f[1] \in Decisive
    BY <1>3 DEF Decisive
  <2>2. f \notin AsideUpgradeFlags /\ f \notin AsideTemplateFlags
    BY <2>1, AsideUpgrade, AsideDiff DEF Aside
  <2> QED BY <1>1, <1>2, <1>3, <2>1, <2>2, UpgradeSorted, TemplateSorted
<1> QED BY <1>3 DEF Only

----------------------------------------------------------------------------
\* A step leaves what is configured alone, and every group of flags with it.
LEMMA OptionsKept ==
    ASSUME UNCHANGED inputs
    PROVE  /\ \A o, layers : FirstOf(o, layers)' = FirstOf(o, layers)
           /\ \A o, l : On(o, l)' = On(o, l) /\ Unset(o, l)' = Unset(o, l)
           /\ \A o : Switched(o)' = Switched(o) /\ Waits(o)' = Waits(o) /\ AnyOf(o)' = AnyOf(o)
           /\ TrackMode' = TrackMode
           /\ Helm4' = Helm4
<1> USE DEF inputs
<1>1. \A o, l : Setting(o, l)' = Setting(o, l)
  BY DEF Setting
<1>2. \A o, l : On(o, l)' = On(o, l) /\ Unset(o, l)' = Unset(o, l)
  BY <1>1 DEF On, Unset
<1>3. \A o : Switched(o)' = Switched(o) /\ Waits(o)' = Waits(o) /\ AnyOf(o)' = AnyOf(o)
  BY <1>2 DEF Switched, Waits, AnyOf
<1>4. \A o, layers : FirstOf(o, layers)' = FirstOf(o, layers)
  BY <1>2 DEF FirstOf
<1>5. TrackMode' = TrackMode
  BY <1>1, <1>2 DEF TrackMode
<1> QED BY <1>2, <1>3, <1>4, <1>5 DEF Helm4

LEMMA GroupsKept ==
    ASSUME UNCHANGED inputs
    PROVE  /\ UNCHANGED <<ChartVersionFlags, EnableDNSFlags, ConnectionFlags, HelmXFlags, PostRenderFlags,
                          PostRenderArgsFlags, SkipSchemaValidationFlags, ValuesFlags, CommandLineValues,
                          ChartDownloadFlags, OpenAPIFlags, ServerSideFlags, ValuesControlFlags, VerificationFlags,
                          VerifyFlags, KeyringFlags, DevelFlags, OCIFlags>>
           /\ UNCHANGED <<TakeOwnershipForUpgrade, WaitFlags, TimeoutFlags, ForceFlags, RollbackFlags,
                          CreateNamespaceFlags, LabelsFlags, DescriptionFlags, HideNotesFlags, ExtraSyncFlags>>
           /\ UNCHANGED <<TakeOwnershipForDiff, DisableValidationFlags, ApiVersionsFlags, SuppressOutputFlags,
                          TemplateArgs, ExtraDiffFlags>>
           /\ KubeVersionFlags(KubeVersionForDiff)' = KubeVersionFlags(KubeVersionForDiff)
           /\ KubeVersionFlags(FirstOf("kubeVersion", <<"cli">>))' = KubeVersionFlags(FirstOf("kubeVersion", <<"cli">>))
           /\ UNCHANGED <<CreatesNamespace, ServerSideRefused>>
<1> USE OptionsKept
<1>1. UNCHANGED <<ChartVersionFlags, EnableDNSFlags, ConnectionFlags, HelmXFlags, PostRenderFlags,
                  PostRenderArgsFlags, SkipSchemaValidationFlags, ValuesFlags, CommandLineValues>>
  BY DEF ChartVersionFlags, DevelFlags, EnableDNSFlags, ConnectionFlags, HelmXFlags, PostRenderFlags,
     PostRenderArgsFlags, SkipSchemaValidationFlags, ValuesFlags, CommandLineValues
<1>2. UNCHANGED <<ChartDownloadFlags, OpenAPIFlags, ServerSideFlags, ServerSideRefused, ValuesControlFlags>>
  BY DEF ChartDownloadFlags, OpenAPIFlags, ServerSideFlags, ServerSideRefused, ValuesControlFlags
<1>12. UNCHANGED <<VerifyFlags, KeyringFlags, DevelFlags, OCIFlags>>
  BY DEF VerifyFlags, KeyringFlags, DevelFlags, OCIFlags
<1>3. UNCHANGED <<TakeOwnershipForUpgrade, TakeOwnershipForDiff, VerificationFlags>>
  BY DEF TakeOwnershipForUpgrade, TakeOwnershipForDiff, VerificationFlags, VerifyFlags, KeyringFlags, inputs
<1>4. CreatesNamespace' = CreatesNamespace
  BY DEF CreatesNamespace, On, Unset, Setting, inputs
<1>5. UNCHANGED WaitFlags
  BY DEF WaitFlags
<1>6. UNCHANGED <<TimeoutFlags, ForceFlags, RollbackFlags>>
  BY DEF TimeoutFlags, ForceFlags, RollbackFlags
<1>7. UNCHANGED <<CreateNamespaceFlags, LabelsFlags, DescriptionFlags, HideNotesFlags, ExtraSyncFlags>>
  BY <1>4 DEF CreateNamespaceFlags, LabelsFlags, DescriptionFlags, HideNotesFlags, ExtraSyncFlags, inputs
<1>8. UNCHANGED <<DisableValidationFlags, ApiVersionsFlags, SuppressOutputFlags, TemplateArgs>>
  BY DEF DisableValidationFlags, ApiVersionsFlags, SuppressOutputFlags, TemplateArgs
<1>9. UNCHANGED ExtraDiffFlags
  BY <1>8 DEF ExtraDiffFlags
<1>10. KubeVersionFlags(KubeVersionForDiff)' = KubeVersionFlags(KubeVersionForDiff)
  BY DEF KubeVersionFlags, KubeVersionForDiff, DetectedKubeVersion
<1>11. KubeVersionFlags(FirstOf("kubeVersion", <<"cli">>))' = KubeVersionFlags(FirstOf("kubeVersion", <<"cli">>))
  BY DEF KubeVersionFlags
<1> HIDE OptionsKept
<1> QED BY <1>1, <1>2, <1>3, <1>4, <1>5, <1>6, <1>7, <1>8, <1>9, <1>10, <1>11, <1>12

\* What a command would be given, and whether it would be refused, are settled by the inputs.
LEMMA DecisionsKept ==
    ASSUME UNCHANGED inputs
    PROVE  UNCHANGED <<UpgradeRefused, UpgradeArgs, DiffArgs, FlagsForTemplate, FetchFlags, PullFlags, Applying>>
<1> USE GroupsKept
<1>1. FetchFlags' = FetchFlags
  BY DEF FetchFlags, Flags
<1>10. PullFlags' = PullFlags
  BY OptionsKept DEF PullFlags, Flags
<1>2. UpgradeRefused' = UpgradeRefused
  BY OptionsKept DEF UpgradeRefused, inputs
<1>3. DiffRefused' = DiffRefused
  BY OptionsKept DEF DiffRefused, inputs
<1>4. FlagsForTemplate' = FlagsForTemplate
  <2>1. UNCHANGED ValueFlag("--show-only", FirstOf("showOnly", <<"cli">>))
    BY OptionsKept
  <2> QED BY <2>1 DEF FlagsForTemplate, Flags, Rejected, inputs
<1>5. FlagsForDiff' = FlagsForDiff
  BY <1>3 DEF FlagsForDiff, Flags, Rejected
<1>6. DiffArgs' = DiffArgs
  BY <1>5 DEF DiffArgs, Flags
<1>7. FlagsForUpgrade' = FlagsForUpgrade
  <2>1. UNCHANGED <<Flag(Switched("recreatePods"), "--recreate-pods"),
                    Flag(Switched("cleanupOnFail"), "--cleanup-on-fail")>>
    BY OptionsKept
  <2> QED BY <1>2, <2>1 DEF FlagsForUpgrade, Flags, Rejected
<1>8. UpgradeArgs' = UpgradeArgs
  <2>1. UNCHANGED Flag(On("skipCRDs", "def") \/ On("skipCRDs", "cli"), "--skip-crds")
    BY OptionsKept
  <2> QED BY <1>7, <2>1 DEF UpgradeArgs, Flags
<1>9. Applying' = Applying
  BY DEF Applying, inputs
<1> QED BY <1>1, <1>2, <1>4, <1>6, <1>8, <1>9, <1>10

----------------------------------------------------------------------------
\* What helm upgrade is told of how to get a chart is what chartFetchFlags says.
LEMMA UpgradeAcquires ==
    ASSUME ~UpgradeRefused
    PROVE  Only(Acquisition, UpgradeArgs) = FetchFlags.flags
<1> DEFINE others == {"--enable-dns", "--kube-context", "--adopt", "--post-renderer", "--post-renderer-args",
                      "--skip-schema-validation", "--namespace", "--values", "--set", "--disable-openapi-validation",
                      "--server-side", "--reuse-values", "--reset-values", "--take-ownership", "--wait",
                      "--wait-for-jobs", "--timeout", "--force", "--force-replace", "--force-conflicts", "--atomic",
                      "--rollback-on-failure", "--create-namespace", "--labels", "--description", "--hide-notes",
                      "syncArgs", "--recreate-pods", "--cleanup-on-fail", "--skip-crds"}
<1> USE FlagNamed, ValueFlagNamed
<1>1. others \cap Acquisition = {}
  BY DEF Acquisition
<1>2. \A f \in FetchFlags.flags : f[1] \in Acquisition
  <2>1. \A f \in ChartVersionFlags : f[1] \in Acquisition
    BY DEF ChartVersionFlags, DevelFlags, Acquisition
  <2>2. \A f \in VerificationFlags : f[1] \in Acquisition
    BY DEF VerificationFlags, VerifyFlags, KeyringFlags, Acquisition
  <2>3. \A f \in ChartDownloadFlags : f[1] \in Acquisition
    BY DEF ChartDownloadFlags, Acquisition
  <2> QED BY <2>1, <2>2, <2>3 DEF FetchFlags, Flags
<1>3. \A f \in EnableDNSFlags \cup ConnectionFlags \cup HelmXFlags \cup PostRenderFlags \cup PostRenderArgsFlags
              \cup SkipSchemaValidationFlags \cup ValuesFlags \cup CommandLineValues : f[1] \in others
  BY DEF EnableDNSFlags, ConnectionFlags, HelmXFlags, PostRenderFlags, PostRenderArgsFlags,
     SkipSchemaValidationFlags, ValuesFlags, CommandLineValues
<1>4. \A f \in Applied \cup TakeOwnershipForUpgrade : f[1] \in others
  <2>1. \A f \in ValuesControlFlags : f[1] \in others
    BY DEF ValuesControlFlags
  <2> QED BY <2>1 DEF Applied, OpenAPIFlags, ServerSideFlags, TakeOwnershipForUpgrade
<1>5. \A f \in TimeoutFlags \cup ForceFlags \cup CreateNamespaceFlags \cup LabelsFlags \cup DescriptionFlags
              \cup HideNotesFlags \cup ExtraSyncFlags : f[1] \in others
  BY DEF TimeoutFlags, ForceFlags, CreateNamespaceFlags, LabelsFlags, DescriptionFlags, HideNotesFlags,
     ExtraSyncFlags
<1>6. \A f \in RollbackFlags : f[1] \in others
  BY DEF RollbackFlags
<1>7. \A f \in WaitFlags : f[1] \in others
  BY WaitNamed
<1>8. \A f \in Flag(Switched("recreatePods"), "--recreate-pods")
              \cup Flag(Switched("cleanupOnFail"), "--cleanup-on-fail")
              \cup Flag(On("skipCRDs", "def") \/ On("skipCRDs", "cli"), "--skip-crds") : f[1] \in others
  OBVIOUS
<1> HIDE DEF others
<1> HIDE FlagNamed, ValueFlagNamed
<1>9. ASSUME NEW f, f[1] \in Acquisition
      PROVE  f \in UpgradeArgs.flags <=> f \in ChartVersionFlags \cup VerificationFlags \cup ChartDownloadFlags
  <2>1. f \notin EnableDNSFlags \cup ConnectionFlags \cup HelmXFlags \cup PostRenderFlags \cup PostRenderArgsFlags
              \cup SkipSchemaValidationFlags \cup ValuesFlags \cup CommandLineValues
    BY <1>1, <1>3, <1>9
  <2>2. f \notin Applied \cup TakeOwnershipForUpgrade
    BY <1>1, <1>4, <1>9
  <2>3. f \in AsideUpgradeFlags <=> f \in VerificationFlags
    BY <1>1, <1>5, <1>6, <1>7, <1>8, <1>9 DEF AsideUpgradeFlags
  <2> QED BY <2>1, <2>2, <2>3, UpgradeSorted DEF Rendered
<1> QED BY <1>2, <1>9 DEF Only, FetchFlags, Flags

----------------------------------------------------------------------------
\* Every command's flags are those its own code builds from the inputs, whenever
\* it is run, and a chart is only fetched ahead if helm need not verify it, and only
\* pulled from a registry.
FlagsInv ==
  /\ DOMAIN out = Commands
  /\ out["diff"] \in {None, DiffArgs}
  /\ out["upgrade"] \in {None, UpgradeArgs}
  /\ out["template"] \in {None, FlagsForTemplate}
  /\ prefetched => out["fetch"] = FetchFlags /\ "--verify" \notin FlagNames(FetchFlags)
  /\ out["pull"] \in {None, PullFlags}
  /\ out["pull"].built => chart = "oci"

LEMMA Refusal == UpgradeRefused => ~UpgradeArgs.ok
BY DEF UpgradeArgs, FlagsForUpgrade, Rejected

LEMMA BuildStep ==
    ASSUME FlagsInv, NEW c \in Commands, NEW r, Build(c, r)
    PROVE  /\ DOMAIN out' = Commands
           /\ out'[c] = r
           /\ \A d \in Commands \ {c} : out'[d] = out[d]
BY DEF FlagsInv, Build

LEMMA FlagsInvariant == FlagsSpec => []FlagsInv
<1>1. FlagsInit => FlagsInv
  BY DEF FlagsInit, FlagsInv, Commands, None
<1>2. FlagsInv /\ [FlagsNext]_flagsVars => FlagsInv'
  <2> SUFFICES ASSUME FlagsInv, [FlagsNext]_flagsVars PROVE FlagsInv'
    OBVIOUS
  <2>1. UNCHANGED inputs
    BY DEF FlagsNext, flagsVars, inputs, Prefetch, Pull, Diff, Upgrade, Template, Lint, Delete
  <2>2. /\ DiffArgs' = DiffArgs /\ UpgradeArgs' = UpgradeArgs /\ FlagsForTemplate' = FlagsForTemplate
        /\ FetchFlags' = FetchFlags /\ PullFlags' = PullFlags /\ chart' = chart
        /\ FlagNames(FetchFlags)' = FlagNames(FetchFlags)
    BY <2>1, DecisionsKept DEF FlagNames, inputs
  <2>3. CASE Prefetch
    <3>1. "fetch" \in Commands /\ Build("fetch", FetchFlags)
      BY <2>3 DEF Prefetch, Commands
    <3> QED BY <2>2, <2>3, <3>1, BuildStep DEF FlagsInv, Prefetch, Commands
  <2>4. CASE Diff
    <3>1. "diff" \in Commands /\ Build("diff", DiffArgs)
      BY <2>4 DEF Diff, Commands
    <3> QED BY <2>2, <2>4, <3>1, BuildStep DEF FlagsInv, Diff, Commands
  <2>5. CASE Upgrade
    <3>1. "upgrade" \in Commands /\ Build("upgrade", UpgradeArgs)
      BY <2>5 DEF Upgrade, Commands
    <3> QED BY <2>2, <2>5, <3>1, BuildStep DEF FlagsInv, Upgrade, Commands
  <2>6. CASE Template
    <3>1. "template" \in Commands /\ Build("template", FlagsForTemplate)
      BY <2>6 DEF Template, Commands
    <3> QED BY <2>2, <2>6, <3>1, BuildStep DEF FlagsInv, Template, Commands
  <2>7. CASE Lint
    <3>1. "lint" \in Commands /\ Build("lint", FlagsForLint)
      BY <2>7 DEF Lint, Commands
    <3> QED BY <2>2, <2>7, <3>1, BuildStep DEF FlagsInv, Lint, Commands
  <2>8. CASE Delete
    <3>1. "delete" \in Commands /\ Build("delete", DeleteArgs)
      BY <2>8 DEF Delete, Commands
    <3> QED BY <2>2, <2>8, <3>1, BuildStep DEF FlagsInv, Delete, Commands
  <2>10. CASE Pull
    <3>1. "pull" \in Commands /\ Build("pull", PullFlags)
      BY <2>10 DEF Pull, Commands
    <3> QED BY <2>2, <2>10, <3>1, BuildStep DEF FlagsInv, Pull, Commands
  <2>9. CASE UNCHANGED flagsVars
    BY <2>2, <2>9 DEF FlagsInv, flagsVars
  <2> QED BY <2>3, <2>4, <2>5, <2>6, <2>7, <2>8, <2>9, <2>10 DEF FlagsNext
<1> QED BY <1>1, <1>2, PTL DEF FlagsSpec

(* What helm diff and helm template render is what helm upgrade will, whatever
   is configured on which layer (flagsForDiff, flagsForTemplate and flagsForUpgrade). *)
THEOREM RenderedAlike == FlagsSpec => []SameRendering
<1>1. FlagsInv => SameRendering
  <2> SUFFICES ASSUME FlagsInv, ~UpgradeRefused PROVE SameRendering
    BY DEF SameRendering
  <2>1. out["diff"].ok => Only(Rendering \cup Applying, out["diff"]) = Only(Rendering \cup Applying, UpgradeArgs)
    BY DiffAgrees DEF FlagsInv, None
  <2>2. out["template"].ok => Only(Rendering, out["template"]) = Only(Rendering, UpgradeArgs)
    BY TemplateAgrees DEF FlagsInv, None
  <2> QED BY <2>1, <2>2 DEF SameRendering
<1> QED BY <1>1, FlagsInvariant, PTL

\* The flags of a pull by name: the groups only have flags of their own names.
LEMMA PulledFlags ==
    /\ Only({"--devel"}, PullFlags) = DevelFlags
    /\ Only({"--plain-http"}, PullFlags) = Only({"--plain-http"}, Flags(ChartDownloadFlags))
    /\ <<"--plain-http", "on">> \notin ChartDownloadFlags =>
         Only({"--insecure-skip-tls-verify"}, PullFlags)
           = Only({"--insecure-skip-tls-verify"}, Flags(ChartDownloadFlags))
    /\ ~On("digest", "rel") =>
         Only({"--version"}, PullFlags) = ValueFlag("--version", FirstOf("version", <<"rel", "url">>))
<1> DEFINE version == IF On("digest", "rel") THEN {}
                      ELSE ValueFlag("--version", FirstOf("version", <<"rel", "url">>))
<1>1. \A f \in VerifyFlags \cup KeyringFlags : f[1] \in {"--verify", "--keyring"}
  BY FlagNamed, ValueFlagNamed DEF VerifyFlags, KeyringFlags
<1>2. \A f \in DevelFlags : f[1] = "--devel"
  BY FlagNamed DEF DevelFlags
<1>3. \A f \in version : f[1] = "--version"
  BY ValueFlagNamed
<1>4. \A f \in ChartDownloadFlags : f[1] \in {"--plain-http", "--insecure-skip-tls-verify"}
  BY FlagNamed DEF ChartDownloadFlags
<1>5. \A f \in OCIFlags : \/ f[1] \in {"--verify", "--keyring"}
                          \/ f = <<"--plain-http", "on">> /\ On("plainHttp", "repo")
                          \/ f = <<"--insecure-skip-tls-verify", "on">> /\ On("insecure", "repo")
  <2>1. \A f \in Flag(On("insecure", "repo"), "--insecure-skip-tls-verify") :
          f = <<"--insecure-skip-tls-verify", "on">> /\ On("insecure", "repo")
    BY DEF Flag
  <2> QED BY <2>1, FlagNamed, ValueFlagNamed DEF OCIFlags
<1>6. On("plainHttp", "repo") => <<"--plain-http", "on">> \in ChartDownloadFlags
  BY DEF ChartDownloadFlags, AnyOf
<1>7. On("insecure", "repo") /\ <<"--plain-http", "on">> \notin ChartDownloadFlags
        => <<"--insecure-skip-tls-verify", "on">> \in ChartDownloadFlags
  BY DEF ChartDownloadFlags, AnyOf, Flag
<1>8. PullFlags.flags = OCIFlags \cup VerifyFlags \cup KeyringFlags \cup ChartDownloadFlags \cup DevelFlags
                        \cup version
  BY DEF PullFlags, Flags
<1>9. Flags(ChartDownloadFlags).flags = ChartDownloadFlags
  BY DEF Flags
<1> HIDE DEF version
<1>10. Only({"--devel"}, PullFlags) = DevelFlags
  BY <1>1, <1>2, <1>3, <1>4, <1>5, <1>8 DEF Only
<1>11. Only({"--plain-http"}, PullFlags) = Only({"--plain-http"}, Flags(ChartDownloadFlags))
  BY <1>1, <1>2, <1>3, <1>4, <1>5, <1>6, <1>8, <1>9 DEF Only
<1>12. <<"--plain-http", "on">> \notin ChartDownloadFlags =>
         Only({"--insecure-skip-tls-verify"}, PullFlags)
           = Only({"--insecure-skip-tls-verify"}, Flags(ChartDownloadFlags))
  BY <1>1, <1>2, <1>3, <1>4, <1>5, <1>7, <1>8, <1>9 DEF Only
<1>13. Only({"--version"}, PullFlags) = version
  BY <1>1, <1>2, <1>3, <1>4, <1>5, <1>8 DEF Only
<1> QED BY <1>10, <1>11, <1>12, <1>13 DEF version

\* The same of what chartFetchFlags and, of a chart in a registry, helm upgrade say.
LEMMA FetchedFlags ==
    ASSUME chart = "oci"
    PROVE  /\ Only({"--devel"}, FetchFlags) = DevelFlags
           /\ Only({"--plain-http"}, FetchFlags) = Only({"--plain-http"}, Flags(ChartDownloadFlags))
           /\ Only({"--insecure-skip-tls-verify"}, FetchFlags)
                = Only({"--insecure-skip-tls-verify"}, Flags(ChartDownloadFlags))
           /\ Only({"--version"}, FetchFlags) = ValueFlag("--version", FirstOf("version", <<"rel">>))
           /\ {"--verify", "--keyring"} \cap FlagNames(FetchFlags) = {}
<1> DEFINE version == ValueFlag("--version", FirstOf("version", <<"rel">>))
<1>1. FetchFlags.flags = version \cup DevelFlags \cup ChartDownloadFlags
  BY DEF FetchFlags, Flags, ChartVersionFlags, VerificationFlags
<1>2. \A f \in version : f[1] = "--version"
  BY ValueFlagNamed
<1>3. \A f \in DevelFlags : f[1] = "--devel"
  BY FlagNamed DEF DevelFlags
<1>4. \A f \in ChartDownloadFlags : f[1] \in {"--plain-http", "--insecure-skip-tls-verify"}
  BY FlagNamed DEF ChartDownloadFlags
<1>5. Flags(ChartDownloadFlags).flags = ChartDownloadFlags
  BY DEF Flags
<1> HIDE DEF version
<1>6. Only({"--version"}, FetchFlags) = version
  BY <1>1, <1>2, <1>3, <1>4 DEF Only
<1>7. {"--verify", "--keyring"} \cap FlagNames(FetchFlags) = {}
  BY <1>1, <1>2, <1>3, <1>4 DEF FlagNames
<1>8. Only({"--devel"}, FetchFlags) = DevelFlags
  BY <1>1, <1>2, <1>3, <1>4 DEF Only
<1>9. /\ Only({"--plain-http"}, FetchFlags) = Only({"--plain-http"}, Flags(ChartDownloadFlags))
      /\ Only({"--insecure-skip-tls-verify"}, FetchFlags)
           = Only({"--insecure-skip-tls-verify"}, Flags(ChartDownloadFlags))
  BY <1>1, <1>2, <1>3, <1>4, <1>5 DEF Only
<1> QED BY <1>6, <1>7, <1>8, <1>9 DEF version

\* A version that is not in the URL is the release's.
LEMMA VersionOfRelease ==
    ~On("version", "url") => FirstOf("version", <<"rel", "url">>) = FirstOf("version", <<"rel">>)
<1> SUFFICES ASSUME ~On("version", "url")
             PROVE  FirstOf("version", <<"rel", "url">>) = FirstOf("version", <<"rel">>)
  OBVIOUS
<1> DEFINE given == {l \in OptionLayers : On("version", l)}
           one == <<"rel">>
           two == <<"rel", "url">>
<1>1. {i \in DOMAIN two : two[i] \in given} = {i \in DOMAIN one : one[i] \in given}
  BY DEF OptionLayers
<1>2. {i \in DOMAIN one : one[i] \in given} \subseteq {1}
  OBVIOUS
<1>3. \A i \in {1} : two[i] = one[i]
  OBVIOUS
<1>4. CASE "rel" \in given
  <2>1. {i \in DOMAIN one : one[i] \in given} = {1}
    BY <1>4
  <2>2. Min({1}) = 1
    BY DEF Min
  <2> QED BY <1>1, <2>1, <2>2 DEF FirstOf, Foremost
<1>5. CASE "rel" \notin given
  <2>1. {i \in DOMAIN one : one[i] \in given} = {}
    BY <1>5
  <2> QED BY <1>1, <2>1 DEF FirstOf, Foremost
<1> QED BY <1>4, <1>5

LEMMA PulledAlike ==
    ASSUME chart = "oci", ~UpgradeRefused
    PROVE  LET same(names) == Only(names, PullFlags) = Only(names, UpgradeArgs)
           IN  /\ VerifyFlags \cup KeyringFlags \subseteq PullFlags.flags
               /\ {"--verify", "--keyring"} \cap FlagNames(UpgradeArgs) = {}
               /\ same({"--devel", "--plain-http"})
               /\ "--plain-http" \notin FlagNames(UpgradeArgs) => same({"--insecure-skip-tls-verify"})
               /\ ~On("digest", "rel") /\ ~On("version", "url") => same({"--version"})
<1>1. \A f : f[1] \in Acquisition => (f \in UpgradeArgs.flags <=> f \in FetchFlags.flags)
  BY UpgradeAcquires DEF Only
<1>2. \A names : names \subseteq Acquisition => Only(names, UpgradeArgs) = Only(names, FetchFlags)
  BY <1>1 DEF Only
<1>3. {"--devel", "--plain-http", "--insecure-skip-tls-verify", "--version", "--verify", "--keyring"}
        \subseteq Acquisition
  BY DEF Acquisition
<1>4. VerifyFlags \cup KeyringFlags \subseteq PullFlags.flags
  BY DEF PullFlags, Flags
<1>5. {"--verify", "--keyring"} \cap FlagNames(UpgradeArgs) = {}
  BY <1>1, <1>3, FetchedFlags DEF FlagNames
<1>6. Only({"--devel", "--plain-http"}, PullFlags) = Only({"--devel", "--plain-http"}, UpgradeArgs)
  <2>1. \A r : Only({"--devel", "--plain-http"}, r) = Only({"--devel"}, r) \cup Only({"--plain-http"}, r)
    BY DEF Only
  <2>2. /\ Only({"--devel"}, PullFlags) = Only({"--devel"}, UpgradeArgs)
        /\ Only({"--plain-http"}, PullFlags) = Only({"--plain-http"}, UpgradeArgs)
    BY <1>2, <1>3, PulledFlags, FetchedFlags
  <2> QED BY <2>1, <2>2
<1>7. "--plain-http" \notin FlagNames(UpgradeArgs) =>
        Only({"--insecure-skip-tls-verify"}, PullFlags) = Only({"--insecure-skip-tls-verify"}, UpgradeArgs)
  <2> SUFFICES ASSUME "--plain-http" \notin FlagNames(UpgradeArgs)
               PROVE  Only({"--insecure-skip-tls-verify"}, PullFlags)
                        = Only({"--insecure-skip-tls-verify"}, UpgradeArgs)
    OBVIOUS
  <2>1. <<"--plain-http", "on">> \notin UpgradeArgs.flags
    BY DEF FlagNames
  <2>2. <<"--plain-http", "on">> \notin FetchFlags.flags
    BY <1>1, <1>3, <2>1
  <2>3. <<"--plain-http", "on">> \notin ChartDownloadFlags
    BY <2>2 DEF FetchFlags, Flags
  <2> QED BY <1>2, <1>3, <2>3, PulledFlags, FetchedFlags
<1>8. ~On("digest", "rel") /\ ~On("version", "url") =>
        Only({"--version"}, PullFlags) = Only({"--version"}, UpgradeArgs)
  BY <1>2, <1>3, PulledFlags, FetchedFlags, VersionOfRelease
<1> QED BY <1>4, <1>5, <1>6, <1>7, <1>8

(* A chart fetched ahead of helm upgrade is fetched with the flags helm upgrade
   is given for it, and never one that helm upgrade is to verify; one pulled from a
   registry is verified then, never again, and else pulled as helm upgrade would
   (chartFetchFlags, getOCIChart and flagsForUpgrade). *)
THEOREM FetchedAlike == FlagsSpec => []SameAcquisition
<1>1. FlagsInv => SameAcquisition
  <2> SUFFICES ASSUME FlagsInv, out["upgrade"].ok
               PROVE  SameAcquisition
    BY DEF SameAcquisition
  <2>1. out["upgrade"] = UpgradeArgs /\ ~UpgradeRefused
    BY Refusal DEF FlagsInv, None
  <2>2. ASSUME prefetched
        PROVE  /\ out["fetch"].flags = Only(Acquisition, out["upgrade"])
               /\ "--verify" \notin FlagNames(out["upgrade"])
    <3>1. out["fetch"].flags = Only(Acquisition, out["upgrade"])
      BY <2>1, <2>2, UpgradeAcquires DEF FlagsInv
    <3>2. "--verify" \notin FlagNames(out["upgrade"])
      BY <2>2, <3>1 DEF FlagsInv, FlagNames, Only, Acquisition
    <3> QED BY <3>1, <3>2
  <2>3. ASSUME out["pull"].built
        PROVE  out["pull"] = PullFlags /\ chart = "oci"
    BY <2>3 DEF FlagsInv, None
  <2> QED BY <2>1, <2>2, <2>3, PulledAlike DEF SameAcquisition
<1> QED BY <1>1, FlagsInvariant, PTL
=============================================================================
