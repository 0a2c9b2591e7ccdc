---------------------------- MODULE ReleaseSync ----------------------------
(***************************************************************************)
(* HelmState.SyncReleases (pkg/state/state.go): the releases of one DAG    *)
(* batch are upgraded, reinstalled or uninstalled by a pool of workers.    *)
(* The workers share                                                       *)
(*   - m, the mutex of affectedReleases, also held around an uninstall and *)
(*     its hooks;                                                          *)
(*   - one lock per remote chart and version (withChartOperationLock);     *)
(*   - the cluster, through helm.                                          *)
(* The pool itself (who gets which job, when the call returns) is          *)
(* ScatterGather; here a worker takes any release that is left.            *)
(***************************************************************************)
EXTENDS ReleaseWorkers, FiniteSets, Naturals

CONSTANTS
    Desired,       \* the releases that are to be installed (ReleaseSpec.Desired)
    Reinstall,     \* those with updateStrategy: reinstallIfForbidden
    Tracked,       \* those whose resources kubedog tracks
    RemoteChart,   \* [Releases -> charts \cup {NoLock}]: the chart operation lock key
    NoLock

\* "reuninstall" is a failing uninstall of the reinstall strategy.
AllFaults == {"flags", "presync", "list", "uninstall", "reuninstall", "sync", "forbidden",
              "killed", "track", "hook"}

ASSUME ReleaseSyncAssumption ==
    /\ Desired \subseteq Releases /\ Tracked \subseteq Desired
    /\ Reinstall \subseteq Desired
    /\ DOMAIN RemoteChart = Releases
    /\ Faults \subseteq AllFaults

Charts == {RemoteChart[r] : r \in Releases} \ {NoLock}

VARIABLES
    main,       \* "prepare", "run", "returned" or "aborted" (nothing was run)
    opLock,     \* per chart: the owner of its operation lock
    helm,       \* per worker: the result of its last helm upgrade
    start,      \* history: the cluster when the call began
    cluster,    \* per release: "absent", "old", "failed" (a failed upgrade) or "new"
    removed,    \* history: releases the reinstall strategy has uninstalled
    killed,     \* history: releases whose helm failed after kubedog had interrupted it
    affected,   \* AffectedReleases, its lists as sets
    valuesFiles \* releases whose generated values files are on the disk

vars == <<main, todo, pc, job, failing, m, opLock, helm, start, cluster, removed,
          killed, affected, errs, valuesFiles>>
workerVars == <<main, todo, start, valuesFiles>>

Lists == {"Upgraded", "Reinstalled", "Deleted", "Failed"}

TypeOK ==
    /\ main \in {"prepare", "run", "returned", "aborted"}
    /\ todo \subseteq Releases
    /\ pc \in [Workers -> {"idle", "presync", "list", "sync", "helm", "record", "relist",
                           "lock", "uninstall", "track", "finish"}]
    /\ job \in [Workers -> Releases \cup {None}]
    /\ failing \subseteq Workers
    /\ m \in Workers \cup {Free}
    /\ opLock \in [Charts -> Workers \cup {Free}]
    /\ helm \in [Workers -> {"none", "ok", "err", "forbidden", "killed", "reok", "reerr"}]
    /\ start \in [Releases -> {"absent", "old"}]
    /\ cluster \in [Releases -> {"absent", "old", "failed", "new"}]
    /\ removed \subseteq Reinstall /\ killed \subseteq Tracked \ Reinstall
    /\ affected \in [Lists -> SUBSET Releases]
    /\ errs \subseteq Releases /\ valuesFiles \subseteq Releases
    /\ \A w \in Workers : pc[w] = "idle" => job[w] = None /\ w \notin failing

\* Any part of the releases is installed already.
Init == /\ main = "prepare" /\ todo = {}
        /\ pc = [w \in Workers |-> "idle"]
        /\ job = [w \in Workers |-> None]
        /\ failing = {} /\ m = Free
        /\ opLock = [c \in Charts |-> Free]
        /\ helm = [w \in Workers |-> "none"]
        /\ start \in [Releases -> {"absent", "old"}] /\ cluster = start
        /\ removed = {} /\ killed = {} /\ errs = {} /\ valuesFiles = {}
        /\ affected = [l \in Lists |-> {}]

Add(list, r) == affected' = [affected EXCEPT ![list] = @ \cup {r}]
Fail(w) == failing' = failing \cup {w}

----------------------------------------------------------------------------
(* prepareSyncReleases: values files for the desired releases.  An error    *)
(* ends the call before anything is run.                                    *)

Prepare ==
    /\ main = "prepare"
    /\ \E bad \in SUBSET Desired :
         /\ bad # {} => May("flags")
         /\ errs' = bad
         /\ IF bad = {} THEN main' = "run" /\ todo' = Releases /\ valuesFiles' = Desired
                        ELSE main' = "aborted" /\ UNCHANGED <<todo, valuesFiles>>
    /\ UNCHANGED <<pc, job, failing, m, opLock, helm, start, cluster, removed, killed, affected>>

----------------------------------------------------------------------------
(* One release.                                                             *)

Take(w) ==
    /\ main = "run" /\ pc[w] = "idle"
    /\ \E r \in todo : todo' = todo \ {r} /\ job' = [job EXCEPT ![w] = r]
    /\ Goto(w, "presync")
    /\ UNCHANGED <<main, failing, m, opLock, helm, start, cluster, removed, killed, affected, errs,
                   valuesFiles>>

Presync(w) ==
    /\ pc[w] = "presync"
    /\ \/ May("presync") /\ Fail(w) /\ Goto(w, "finish")
       \/ Goto(w, IF job[w] \in Desired THEN "sync" ELSE "list") /\ UNCHANGED failing
    /\ UNCHANGED <<workerVars, job, m, opLock, helm, cluster, removed, killed, affected, errs>>

\* isReleaseInstalled: for a release that is not desired, and before a reinstall.
List(w) ==
    /\ pc[w] \in {"list", "relist"}
    /\ \/ /\ May("list") /\ Fail(w) /\ Goto(w, "finish")
       \/ /\ cluster[job[w]] = "absent"
          /\ Goto(w, IF pc[w] = "list" THEN "finish" ELSE "sync")
          /\ UNCHANGED failing
       \/ /\ cluster[job[w]] # "absent" /\ Goto(w, "lock")
          /\ UNCHANGED failing
    /\ UNCHANGED <<workerVars, job, m, opLock, helm, cluster, removed, killed, affected, errs>>

LockMutex(w) ==
    /\ pc[w] = "lock" /\ m = Free
    /\ m' = w
    /\ Goto(w, "uninstall")
    /\ UNCHANGED <<workerVars, job, failing, opLock, helm, cluster, removed, killed, affected,
                   errs>>

\* preuninstall hooks, helm uninstall, postuninstall hooks, all under m.  A failure of the
\* first leaves the release, of the second either way, of the third without it.
Removal(r) ==
    \/ cluster' = [cluster EXCEPT ![r] = "absent"]
    \/ UNCHANGED cluster

\* A bug: the reinstall path never unlocks m.
UninstallKeepsLock(w) ==
    LET r == job[w] IN
    /\ pc[w] = "uninstall"
    /\ cluster' = [cluster EXCEPT ![r] = "absent"]
    /\ IF r \in Reinstall THEN UNCHANGED affected ELSE Add("Deleted", r)
    /\ Goto(w, IF r \in Reinstall THEN "sync" ELSE "finish")
    /\ removed' = IF r \in Reinstall THEN removed \cup {r} ELSE removed
    /\ UNCHANGED <<workerVars, killed, job, m, failing, opLock, helm, errs>>

\* performSyncOrReinstallOfRelease returns from the middle of its critical section when a
\* step of the uninstall fails: m stays locked.
Uninstall(w) ==
    LET r == job[w]
        reinstalling == r \in Reinstall IN
    /\ pc[w] = "uninstall"
    /\ \/ /\ May(IF reinstalling THEN "reuninstall" ELSE "uninstall")
          /\ Removal(r)
          /\ Add("Failed", r) /\ Fail(w) /\ Goto(w, "finish")
          /\ m' = IF reinstalling THEN m ELSE Free
       \/ /\ cluster' = [cluster EXCEPT ![r] = "absent"]
          /\ IF reinstalling THEN UNCHANGED affected ELSE Add("Deleted", r)
          /\ Goto(w, IF reinstalling THEN "sync" ELSE "finish")
          /\ m' = Free /\ UNCHANGED failing
    /\ removed' = IF r \in Reinstall /\ cluster'[r] = "absent" THEN removed \cup {r}
                                                              ELSE removed
    /\ UNCHANGED <<workerVars, killed, job, opLock, helm, errs>>

\* helm upgrade starts, under the chart's operation lock when helm has to download it.
StartHelmUnlocked(w) ==
    /\ pc[w] = "sync"
    /\ Goto(w, "helm")
    /\ UNCHANGED <<workerVars, job, failing, m, opLock, helm, cluster, removed, killed, affected,
                   errs>>

StartHelm(w) ==
    /\ pc[w] = "sync"
    /\ LET c == RemoteChart[job[w]] IN
         IF c = NoLock THEN UNCHANGED opLock
         ELSE opLock[c] = Free /\ opLock' = [opLock EXCEPT ![c] = w]
    /\ Goto(w, "helm")
    /\ UNCHANGED <<workerVars, job, failing, m, helm, cluster, removed, killed, affected, errs>>

\* What helm upgrade may report.  "forbidden" is an error that the reinstall strategy
\* tolerates once; "killed" is an error of a helm that kubedog has interrupted because the
\* resources of the release looked converged (WasHelmKilled), taken as a success.
HelmOutcomes(w) ==
    LET again == helm[w] = "forbidden" IN
    {IF again THEN "reok" ELSE "ok"}
      \cup (IF May("sync") THEN {IF again THEN "reerr" ELSE "err"} ELSE {})
      \cup (IF May("forbidden") /\ job[w] \in Reinstall /\ ~again THEN {"forbidden"} ELSE {})
      \cup (IF May("killed") /\ job[w] \in Tracked \ Reinstall THEN {"killed"} ELSE {})

\* What helm may leave.  A failed upgrade leaves the release as it was or with status failed.
\* kubedog may interrupt helm before it has changed anything, while it works, or when it only
\* waits: the release is as it was, pending (here failed), or upgraded.
Leaves(o, r) ==
    CASE o \in {"ok", "reok"} -> {"new"}
      [] o = "killed" -> {cluster[r], "failed", "new"}
      [] OTHER -> {cluster[r], "failed"}

EndHelm(w) ==
    /\ pc[w] = "helm"
    /\ \E o \in HelmOutcomes(w) :
         /\ helm' = [helm EXCEPT ![w] = o]
         /\ \E c \in Leaves(o, job[w]) : cluster' = [cluster EXCEPT ![job[w]] = c]
         /\ killed' = IF o = "killed" THEN killed \cup {job[w]} ELSE killed
         /\ Goto(w, IF o = "forbidden" THEN "relist" ELSE "record")
    /\ opLock' = [c \in Charts |-> IF opLock[c] = w THEN Free ELSE opLock[c]]
    /\ UNCHANGED <<workerVars, job, failing, m, removed, affected, errs>>

\* A bug: every error of a helm whose release is tracked is taken for that of an interrupt.
RecordKillUnasked(w) ==
    /\ pc[w] = "record" /\ m = Free
    /\ \/ /\ helm[w] = "err" /\ job[w] \notin Tracked \ Reinstall
          /\ Add("Failed", job[w]) /\ Fail(w) /\ Goto(w, "finish")
       \/ /\ helm[w] \in {"ok", "killed"} \/ (helm[w] = "err" /\ job[w] \in Tracked \ Reinstall)
          /\ Add("Upgraded", job[w])
          /\ Goto(w, IF helm[w] = "ok" THEN "track" ELSE "finish")
          /\ UNCHANGED failing
    /\ UNCHANGED <<workerVars, job, m, opLock, helm, cluster, removed, killed, errs>>

\* Lock m, put the release on a list, unlock m.  After a kill the tracking result is nil.
Record(w) ==
    /\ pc[w] = "record" /\ m = Free
    /\ \/ /\ helm[w] = "err"
          /\ Add("Failed", job[w]) /\ Fail(w) /\ Goto(w, "finish")
       \/ /\ helm[w] \in {"ok", "killed"}
          /\ Add("Upgraded", job[w])
          /\ Goto(w, IF helm[w] = "killed" THEN "finish" ELSE "track")
          /\ UNCHANGED failing
    /\ UNCHANGED <<workerVars, job, m, opLock, helm, cluster, removed, killed, errs>>

\* A bug: the second upgrade of a reinstall is not checked for an error.
RecordReinstallUnchecked(w) ==
    /\ pc[w] = "record" /\ m = Free
    /\ helm[w] \in {"reok", "reerr"}
    /\ Add("Reinstalled", job[w]) /\ Goto(w, "track")
    /\ UNCHANGED <<workerVars, job, failing, m, opLock, helm, cluster, removed, killed,
                   errs>>

RecordReinstall(w) ==
    /\ pc[w] = "record" /\ m = Free
    /\ \/ /\ helm[w] = "reerr"
          /\ Add("Failed", job[w]) /\ Fail(w) /\ Goto(w, "finish")
       \/ /\ helm[w] = "reok"
          /\ Add("Reinstalled", job[w]) /\ Goto(w, "track")
          /\ UNCHANGED failing
    /\ UNCHANGED <<workerVars, job, m, opLock, helm, cluster, removed, killed, errs>>

\* Wait for kubedog, if it tracks the release.  A tracking failure puts an upgraded release
\* on the failed list too; after the reinstall strategy it is only returned.
Track(w) ==
    /\ pc[w] = "track"
    /\ \/ UNCHANGED <<failing, affected>>
       \/ /\ job[w] \in Tracked /\ May("track")
          /\ Fail(w)
          /\ IF job[w] \in Reinstall THEN UNCHANGED affected
                                     ELSE m = Free /\ Add("Failed", job[w])
    /\ Goto(w, "finish")
    /\ UNCHANGED <<workerVars, job, m, opLock, helm, cluster, removed, killed, errs>>

\* A bug: the result sent is that of the last hook.
FinishHookResult(w) ==
    /\ pc[w] = "finish"
    /\ errs' \in {errs} \cup (IF May("hook") THEN {errs \cup {job[w]}} ELSE {})
    /\ failing' = failing \ {w}
    /\ job' = [job EXCEPT ![w] = None]
    /\ helm' = [helm EXCEPT ![w] = "none"]
    /\ Goto(w, "idle")
    /\ UNCHANGED <<workerVars, m, opLock, cluster, removed, killed, affected>>

\* postsync hooks, cleanup hooks, the result.  The first error of the release is kept.
Finish(w) ==
    /\ pc[w] = "finish"
    /\ \E hookFails \in {FALSE} \cup {b \in {TRUE} : May("hook")} :
         errs' = IF w \in failing \/ hookFails THEN errs \cup {job[w]} ELSE errs
    /\ failing' = failing \ {w}
    /\ job' = [job EXCEPT ![w] = None]
    /\ helm' = [helm EXCEPT ![w] = "none"]
    /\ Goto(w, "idle")
    /\ UNCHANGED <<workerVars, m, opLock, cluster, removed, killed, affected>>
Step(w) == \/ Take(w) \/ Presync(w) \/ List(w) \/ LockMutex(w) \/ Uninstall(w)
           \/ StartHelm(w) \/ EndHelm(w) \/ Record(w) \/ RecordReinstall(w)
           \/ Track(w) \/ Finish(w)

----------------------------------------------------------------------------
\* Every worker is done; the deferred removeFiles deletes the values files.
Return == /\ main = "run" /\ todo = {} /\ \A w \in Workers : pc[w] = "idle"
          /\ main' = "returned" /\ valuesFiles' = {}
          /\ UNCHANGED <<todo, pc, job, failing, m, opLock, helm, start, cluster, removed, killed,
                         affected, errs>>

Done == main \in {"returned", "aborted"} /\ UNCHANGED vars

Next == Prepare \/ (\E w \in Workers : Step(w)) \/ Return \/ Done

Spec == Init /\ [][Next]_vars

\* Helm commands and hooks end and the Go scheduler runs every runnable goroutine.  A worker
\* that waits for a lock competes with finitely many steps of the others, so weak fairness
\* is enough.
FairSpec == Spec /\ WF_vars(Prepare \/ Return) /\ \A w \in Workers : WF_vars(Step(w))

----------------------------------------------------------------------------
(* One step per release: what the caller sees of the call.                  *)

\* Releases whose result has not been sent.
Pending == {r \in Releases : main = "prepare" \/ r \in todo \/ \E w \in Workers : job[w] = r}

\* What the cluster has for a release, once its result is known.
SeenStatus == [r \in Releases |-> CASE r \in Pending -> start[r]
                                   [] r \notin Pending /\ cluster[r] = "failed" -> "old"
                                   [] OTHER -> cluster[r]]

SyncBatch == INSTANCE ReleaseBatch
                 WITH Watched <- Tracked \ Reinstall, given <- Releases, wanted <- Desired,
                      left <- Pending, status <- SeenStatus,
                      applied <- IF main = "aborted" THEN {} ELSE Releases \ (Pending \cup errs \cup killed),
                      presumed <- killed \ (Pending \cup errs), failed <- errs

----------------------------------------------------------------------------
(* Properties.                                                              *)

\* Workers, locks, retries and hooks do not show: for its caller every release of the batch
\* ends once, with a result that is true of the cluster unless its helm was interrupted, or
\* nothing is run at all.
SyncImplementsBatch == SyncBatch!BatchSpec

\* The only failure that is silent is that of an interrupted helm: when SyncReleases returns, any
\* other release without an error is in the state it was asked for, and the list that shows it
\* in the summary is the right one.
EveryFailureReported ==
    main = "returned" =>
        \A r \in Releases \ errs :
            IF r \in Desired
            THEN /\ cluster[r] = "new" \/ r \in killed
                 /\ r \in affected["Upgraded"] \cup affected["Reinstalled"]
            ELSE cluster[r] = "absent" /\ r \notin affected["Failed"]

\* The reinstall strategy uninstalls a release that works: if it cannot be brought back,
\* the release is on the failed list of the summary.
NothingLostByReinstall ==
    main = "returned" =>
        \A r \in Reinstall :
            r \in removed /\ cluster[r] # "new" => r \in affected["Failed"] \cap errs

\* The summary does not contradict itself, nor the cluster except for an interrupted helm, nor
\* hides what a reinstallation has lost: a release is on one list only, except that a tracked
\* release can be upgraded and then fail its tracking.
SummaryMatchesCluster ==
    /\ \A r \in Releases :
         LET on == {l \in Lists : r \in affected[l]} IN
         /\ Cardinality(on) <= 1 \/ (on = {"Upgraded", "Failed"} /\ r \in Tracked)
         /\ on \cap {"Upgraded", "Reinstalled"} # {} => cluster[r] = "new" \/ r \in killed
         /\ "Deleted" \in on => cluster[r] = "absent" /\ r \notin Desired
    /\ NothingLostByReinstall

\* Two helm operations on the same remote chart never run at the same time, since they
\* would race on helm's repository cache (withChartOperationLock).
ChartOpsExclusive ==
    \A v, w \in Workers :
        /\ pc[v] = "helm" /\ pc[w] = "helm" /\ v # w
        /\ RemoteChart[job[v]] # NoLock
        => RemoteChart[job[v]] # RemoteChart[job[w]]

\* SyncReleases returns and leaves no generated values file behind.
Terminates == <>[](main \in {"returned", "aborted"} /\ valuesFiles = {})
=============================================================================
