---------------------------- MODULE PreparedRun ----------------------------
(***************************************************************************)
(* Commands that show something with prepared charts and change no cluster:*)
(* diff, template, lint, unittest, write-values.  They write the values of *)
(* their releases to temporary files, run helm, and remove the files.      *)
(***************************************************************************)
EXTENDS StateLoading

VARIABLES
  stage,      \* how far the command is with each job
  owned,      \* files a job's deferred removal knows of
  erring,     \* runs whose command has met an error
  result      \* of diff: releases to update, and whether there is a result

cmdVars == <<stage, owned, erring, result>>
vars == <<prepVars, remotes, loadVars, cmdVars>>

Sequential == {"template", "lint", "unittest", "write-values"}
\* Desired releases of the command; unittest leaves out those without tests
Handled(r) == {j \in JobsOf(r) : Rel(j).desired /\ (setup.cmd = "unittest" => Rel(j).hasTests)}
Values(j) == ValuesAndFlags(<<j, "helm">>, Rel(j), setup.handler)
InCommand(r) == pc[r] = "command" /\ setup.cmd \in Sequential
unchangedCmd ==
  <<setup, hooked, lock, cache, dirs, prep, mine, path, tracked, built, updated, remotes,
    loadVars>>

Stage(j, to) == stage' = [stage EXCEPT ![j] = to]

-----------------------------------------------------------------------------
\* helm diff, one worker per release

\* prepareDiffReleases: helm is asked whether the release is installed if the
\* diff, or its validation, depends on it
AsksInstalled(j) == setup.skipDiffOnInstall \/ Rel(j).validateOnlyInstalled
\* A bug: what was made for a release is forgotten although it will be diffed.
DiffPrepareUnowned(j) ==
  LET r == Values(j)
  IN  /\ pc[j[1]] = "command" /\ setup.cmd = "diff" /\ j \in Handled(j[1])
      /\ stage[j] = "todo"
      /\ \/ /\ setup.skipDiffOnInstall /\ ~Rel(j).installed
            /\ Stage(j, "new") /\ UNCHANGED <<files, owned>>
         \/ /\ ~(setup.skipDiffOnInstall /\ ~Rel(j).installed)
            /\ files' = files \cup r.files \cup r.left
            /\ IF r.ok THEN Stage(j, "prepared") ELSE Stage(j, "bad")
            /\ UNCHANGED owned
      /\ UNCHANGED <<unchangedCmd, pc, reported, erring, result>>
\* the files of a release that cannot be prepared are dropped with it
DiffPrepare(j) ==
  LET r == Values(j)
  IN  /\ pc[j[1]] = "command" /\ setup.cmd = "diff" /\ j \in Handled(j[1])
      /\ stage[j] = "todo"
      /\ \/ /\ setup.skipDiffOnInstall /\ ~Rel(j).installed
            /\ Stage(j, "new") /\ UNCHANGED <<files, owned>>
         \/ /\ ~(setup.skipDiffOnInstall /\ ~Rel(j).installed)
            /\ files' = files \cup r.files \cup r.left
            /\ \/ /\ r.ok /\ Stage(j, "prepared") /\ owned' = [owned EXCEPT ![j] = r.files]
               \/ (r.ok => AsksInstalled(j)) /\ Stage(j, "bad") /\ UNCHANGED owned
      /\ UNCHANGED <<unchangedCmd, pc, reported, erring, result>>

OwnedBy(r) == UNION {owned[j] : j \in JobsOf(r)}
Everything(r, stages) == \A j \in Handled(r) : stage[j] \in stages
DiffResult(r, ok, changed) ==
  result' = [result EXCEPT ![r] = [ok |-> ok, changed |-> changed, over |-> TRUE]]

\* errors of the preparation end it, and so does DiffReleases' deferred removal
DiffGather(r) ==
  /\ pc[r] = "command" /\ setup.cmd = "diff" /\ Everything(r, {"new", "prepared", "bad"})
  /\ IF \E j \in Handled(r) : stage[j] = "bad"
     THEN /\ pc' = [pc EXCEPT ![r] = "cleanup"] /\ reported' = reported \cup {r}
          /\ Removed(OwnedBy(r)) /\ DiffResult(r, FALSE, {})
     ELSE Go(r, "diff") /\ UNCHANGED <<files, result>>
  /\ UNCHANGED <<unchangedCmd, stage, owned, erring>>

\* withChartOperationLock: one helm at a time for a chart that helm downloads
LeftToHelm(j) == path[j] = {} /\ Rel(j).kind = "repo"
DiffStart(j) ==
  /\ pc[j[1]] = "diff" /\ stage[j] = "prepared"
  /\ LeftToHelm(j) =>
       ~\E k \in Jobs : stage[k] = "running" /\ LeftToHelm(k) /\ Key(k) = Key(j)
  /\ Stage(j, "running")
  /\ UNCHANGED <<unchangedCmd, files, pc, reported, owned, erring, result>>
\* helm diff exits with 2 for changes if asked to, with 1 on errors
DiffEnd(j) ==
  /\ stage[j] = "running"
  /\ Stage(j, "same") \/ Stage(j, "error") \/ (setup.detailedExitcode /\ Stage(j, "changed"))
  /\ UNCHANGED <<unchangedCmd, files, pc, reported, owned, erring, result>>

\* A bug: every result that is not empty counts as a change.
DiffDoneAnyError(r) ==
  LET changed == {j \in Handled(r) : stage[j] \in {"new", "changed", "error"}}
  IN  /\ pc[r] = "diff" /\ Everything(r, {"new", "same", "changed", "error"})
      /\ Go(r, "cleanup") /\ DiffResult(r, TRUE, changed)
      /\ Removed(OwnedBy(r)) /\ UNCHANGED <<unchangedCmd, stage, owned, erring>>
\* Run.diff: any other exit code than 2, or an error while looking for releases
\* to delete, and there is no result
DiffDone(r) ==
  /\ pc[r] = "diff" /\ Everything(r, {"new", "same", "changed", "error"})
  /\ \/ /\ \A j \in Handled(r) : stage[j] # "error"
        /\ Go(r, "cleanup")
        /\ DiffResult(r, TRUE, {j \in Handled(r) : stage[j] \in {"new", "changed"}})
     \/ /\ pc' = [pc EXCEPT ![r] = "cleanup"] /\ reported' = reported \cup {r}
        /\ DiffResult(r, FALSE, {})
  /\ Removed(OwnedBy(r))
  /\ UNCHANGED <<unchangedCmd, stage, owned, erring>>

-----------------------------------------------------------------------------
\* helm template, lint, unittest and the writing of values, release by release

Turn(j) ==
  /\ InCommand(j[1]) /\ j \in Handled(j[1])
  /\ \A k \in Handled(j[1]) : Rel(k).at < Rel(j).at => stage[k] \notin {"todo", "valued"}
Erring(j) == erring' = erring \cup {j[1]}
\* write-values and unittest --fail-fast stop at the first error
StopsAtErrors == setup.cmd = "write-values" \/ (setup.cmd = "unittest" /\ setup.failFast)
Stopped(r) == StopsAtErrors /\ r \in erring

\* the values; the deferred removal of template, lint and unittest knows the
\* files that come with an error, that of write-values does not
WriteValues(j) ==
  LET r == Values(j)
  IN  /\ Turn(j) /\ stage[j] = "todo" /\ ~Stopped(j[1])
      /\ files' = files \cup r.files \cup r.left
      /\ owned' = [owned EXCEPT ![j] = r.files]
      /\ \/ r.ok /\ Stage(j, "valued") /\ UNCHANGED erring
         \/ ~r.ok /\ Stage(j, "bad") /\ Erring(j)
      /\ UNCHANGED <<unchangedCmd, pc, reported, result>>

\* additional values, output directories and test paths are looked at now;
\* once something failed, template and lint run helm for no other release,
\* unittest does unless it is told to stop
RunsHelm(j) == setup.cmd \in {"unittest", "write-values"} \/ j[1] \notin erring
HelmOne(j) ==
  /\ Turn(j) /\ stage[j] = "valued" /\ ~Stopped(j[1])
  /\ \/ RunsHelm(j) /\ Stage(j, "ran") /\ UNCHANGED erring
     \/ RunsHelm(j) /\ Stage(j, "error") /\ Erring(j)
     \/ ~RunsHelm(j) /\ Stage(j, "left out") /\ UNCHANGED erring
  /\ UNCHANGED <<unchangedCmd, files, pc, reported, owned, result>>

OneByOneDone(r) ==
  /\ InCommand(r)
  /\ Stopped(r) \/ \A j \in Handled(r) : stage[j] \notin {"todo", "valued"}
  /\ IF r \in erring
     THEN pc' = [pc EXCEPT ![r] = "cleanup"] /\ reported' = reported \cup {r}
     ELSE Go(r, "cleanup")
  /\ Removed(OwnedBy(r)) /\ UNCHANGED <<unchangedCmd, stage, owned, erring, result>>

\* pull and build are done when the charts are prepared
NothingMore(r) ==
  /\ pc[r] = "command" /\ setup.cmd \in {"pull", "build", "list"}
  /\ Go(r, "cleanup") /\ UNCHANGED <<unchangedCmd, files, cmdVars>>

-----------------------------------------------------------------------------
Init ==
  /\ PrepInit /\ LoadInit
  /\ stage = [j \in Jobs |-> "todo"] /\ owned = [j \in Jobs |-> {}]
  /\ erring = {} /\ result = [r \in Runs |-> [ok |-> FALSE, changed |-> {}, over |-> FALSE]]

AllDone == \A r \in Runs : pc[r] = "done" \/ NeverStarts(r)
Done == AllDone /\ UNCHANGED vars

Next ==
  \/ LoadNext /\ UNCHANGED cmdVars
  \/ PrepNext /\ UNCHANGED <<remotes, loadVars, cmdVars>>
  \/ \E j \in Jobs : DiffPrepare(j) \/ DiffStart(j) \/ DiffEnd(j) \/ WriteValues(j) \/ HelmOne(j)
  \/ \E r \in Runs : DiffGather(r) \/ DiffDone(r) \/ OneByOneDone(r) \/ NothingMore(r)
  \/ Done

Spec == Init /\ [][Next]_vars

-----------------------------------------------------------------------------
\* Properties

Failed(j) == prep[j] = "failed" \/ stage[j] \in {"bad", "error"}

FromEnv(f) == f[1][2] = "env"
\* values files of releases whose own values could not be generated, and HCL
\* secrets of a state file that could not be loaded
Excused ==
  {f \in files : IF FromEnv(f) THEN f[1][1][1][1] \in reported
                 ELSE prep[f[1][1][1]] = "failed" \/ stage[f[1][1][1]] = "bad"}
(* --skip-cleanup is to "Stop cleaning up temporary values generated by helmfile
   and helm-secrets": without it, and whatever fails in which order, nothing stays
   on disk but what the code drops with an error (Excused); decrypted environment
   secrets go either way.  Nor does half of what was fetched stay in the cache, where the
   next run takes it for all of it, but for what HttpGetter had begun. *)
NothingLeftBehind ==
  AllDone =>
    /\ \A u \in DOMAIN remotes : remotes[u] = "part" =>
         \E r \in reported : From(r).url = u /\ From(r).getter = "http"
    /\ \A d \in dirs : d[1] = "chart" /\ d[2] = 0
    /\ \A f \in files \ Excused : setup.skipCleanup /\ ~FromEnv(f)

(* A chart is where the run believes it is from the moment it is prepared until
   helm is done with it: forcedDownloadChart relies on "the tempDir won't be deleted
   until after helm operations complete", CleanupChartifyTempDirs is deferred. *)
ChartPresent ==
  \A j \in Jobs :
    prep[j] = "ready" /\ pc[j[1]] \in {"workers", "build", "command", "diff", "cleanup"} =>
      path[j] \subseteq dirs

(* helm is not run before the dependencies of every local chart are there, built from
   repositories that were updated since, by the build or once for all of them, unless
   that was not wanted (prepareChartForRelease decides, runHelmDepBuilds acts). *)
DependenciesReady ==
  \A j \in Jobs :
    /\ pc[j[1]] \in {"command", "diff"} /\ prep[j] = "ready" /\ Rel(j).kind # "repo"
    /\ ~setup.skipDeps /\ ~Either(Rel(j).skipDeps, setup.defSkipDeps)
    => /\ j \in built
       /\ ~setup.skipRefresh /\ ~setup.defSkipRefresh /\ setup.needsUpdate
            => j[1] \in updated \/ ~SkipRefresh(j)

\* the result of diff
DiffExact ==
  \A r \in Runs : result[r].over =>
    /\ pc[r] = "cleanup" => (result[r].ok <=> r \notin reported)
    /\ result[r].ok => /\ \A j \in Handled(r) : ~Failed(j)
                       /\ result[r].changed = {j \in Handled(r) : stage[j] \in {"changed", "new"}}
    /\ ~result[r].ok => result[r].changed = {}
(* Whatever goes wrong with one release in the preparation or in the command, the run
   ends with an error, though the other releases go on and most commands do too; and
   diff has a result only if helm diff worked for every release: those with changes and
   those not diffed because they are not installed, whatever order the results arrive in
   (DiffReleases, Run.diff). *)
ResultExact ==
  /\ DiffExact
  /\ AllDone => \A j \in Jobs : Failed(j) => j[1] \in reported
  /\ AllDone => \A r \in Runs : \A h \in hooked[r] : ~setup.hooks[h].ok => r \in reported

(* A lock file pins a release to a version that its constraint allows and that was
   there when the lock was written, or the run ends with an error; what is published
   since changes nothing (resolveDependencies). *)
LockHolds ==
  \A r \in Runs : lock.exists /\ pc[r] \in {"workers", "build", "command", "diff"} =>
    \A j \in JobsOf(r) : Pinnable(Rel(j)) =>
      /\ Pinned(lock, Rel(j)) \subseteq Rel(j).allowed
      /\ Pinned(lock, Rel(j)) \subseteq UNION {setup.published[p] : p \in DOMAIN setup.published}
      /\ NoCharts \/ Pinned(lock, Rel(j)) # {}
=============================================================================
