------------------------------ MODULE Tracking ------------------------------
(***************************************************************************)
(* One upgrade tracked by kubedog in the background                        *)
(* (pkg/state/helmx.go startBackgroundKubedogTracking, called by           *)
(* HelmState.SyncReleases; pkg/kubedog/tracker.go TrackResources).  Next   *)
(* to the worker that runs helm and then waits there are                   *)
(*   - the tracker, with one goroutine per resource that waits for helm to *)
(*     change the resource and then for kubedog to see it ready;           *)
(*   - the safety valve: after helm has ended it asks the cluster itself,  *)
(*     and cancels the tracker when everything has converged;              *)
(*   - the helm killer: it asks the cluster while helm is running, and     *)
(*     interrupts helm when everything has converged for some time.        *)
(* They meet in two contexts, three channels and two flags.  Timers and    *)
(* grace periods may run out at any time; nothing is assumed of kubedog,   *)
(* which may miss what happens and ignore being cancelled.                 *)
(***************************************************************************)
EXTENDS Naturals, FiniteSets

CONSTANTS Resources, \* the resources of the release that can be tracked
          Rolling,   \* Deployments and DaemonSets: their old pods stay while they are updated
          Setups     \* records [tracked, touched, failOnError, grace], see TypeOK

ASSUME TrackingAssumption ==
    /\ Rolling \subseteq Resources
    /\ Setups \subseteq [tracked : SUBSET Resources, touched : SUBSET Resources,
                         failOnError : BOOLEAN, grace : BOOLEAN]

VARIABLES setup,     \* tracked: what the filter keeps; touched: what helm will change;
                     \* failOnError: trackFailOnError; grace: a helmStuckGrace is set
          pc,        \* the worker
          mode,      \* how the release is tracked
          result,
          helm,
          cluster,   \* rolling: the controller has seen the new version, whose pods are not
                     \* ready, and the old ones still fill the count
          task,      \* the goroutine of each resource
          tracker, firstErr,
          resultCh,  \* a channel of capacity 1
          helmDone,  \* helmDoneCh and upstreamDoneCh are closed
          safetyFired, trackCtx, releaseCtx, \* closed, cancelled
          triggered, killed, canceled,       \* flags
          valve, killer, backstops,
          relied,    \* history: resources that were rolling when the valve found all converged
          gaveUp,    \* history: changed resources whose tracking ended without an answer
          expired    \* history: the release timeout ran out

contexts == <<trackCtx, releaseCtx>>
flags == <<triggered, killed, canceled>>
valveVars == <<valve, relied>>
trackerVars == <<task, tracker, firstErr, gaveUp>>
workerVars == <<pc, mode, result, expired>>
vars == <<setup, workerVars, helm, cluster, trackerVars, resultCh, helmDone, safetyFired,
          contexts, flags, valveVars, killer, backstops>>

Answers == {"nil", "error", "canceled"}
Final == {"ended", "skipped", "error"}

TypeOK ==
    /\ setup \in Setups
    /\ pc \in {"template", "queue", "helm", "track", "wait", "windup", "done", "panicked"}
    /\ mode \in {"undecided", "background", "none", "after"}
    /\ result \in {"none", "ok", "failed"} /\ (result # "none" <=> pc = "done")
    /\ helm \in {"idle", "running", "applied", "wedged", "ok", "error", "interrupted"}
    /\ cluster \in [Resources -> {"absent", "old", "creating", "updating", "rolling",
                                  "ready", "failed"}]
    /\ task \in [Resources -> {"off", "gate", "attached"} \cup Final]
    /\ tracker \in {"off", "select", "drain", "sent"} /\ firstErr \in Answers
    /\ resultCh \in Answers \cup {"empty"}
    /\ valve \in {"off", "grace", "poll", "store", "cancel", "signal", "ended"}
    /\ killer \in {"off", "watch", "seen", "store", "cancel", "signal", "ended"}
    /\ backstops \in 0..2 /\ gaveUp \subseteq setup.touched /\ relied \subseteq Resources
    /\ {helmDone, safetyFired, trackCtx, releaseCtx, triggered, killed, canceled, expired}
           \subseteq BOOLEAN

Init ==
    /\ setup \in Setups /\ cluster \in [Resources -> {"absent", "old"}]
    /\ pc = "template" /\ mode = "undecided" /\ result = "none" /\ helm = "idle"
    /\ task = [r \in Resources |-> "off"] /\ tracker = "off" /\ firstErr = "nil"
    /\ resultCh = "empty" /\ helmDone = FALSE /\ safetyFired = FALSE
    /\ trackCtx = FALSE /\ releaseCtx = FALSE
    /\ triggered = FALSE /\ killed = FALSE /\ canceled = FALSE
    /\ valve = "off" /\ killer = "off" /\ backstops = 0
    /\ gaveUp = {} /\ relied = {} /\ expired = FALSE

Changed(r) == cluster[r] \in {"creating", "updating", "rolling", "ready", "failed"}

----------------------------------------------------------------------------
(* The worker and helm.                                                     *)

\* TrackResources starts a goroutine for each resource that passes the filter; those with a
\* baseline wait at the freshness gate, the others hand the resource to kubedog at once.
Started(based) == [r \in Resources |-> CASE r \in based -> "gate"
                                         [] r \in setup.tracked \ based -> "attached"
                                         [] OTHER -> "off"]

\* The release is templated.  When that fails it is tracked after helm, when there is
\* nothing to track it is not; otherwise the baselines are taken, where the cluster answers,
\* and everything is started.
Template ==
    /\ pc = "template" /\ pc' = "queue"
    /\ \/ mode' \in {"none", "after"} /\ UNCHANGED <<task, tracker, valve, killer>>
       \/ /\ mode' = "background" /\ tracker' = "select" /\ valve' = "grace"
          /\ killer' = IF setup.grace THEN "watch" ELSE "off"
          /\ \E based \in SUBSET setup.tracked : task' = Started(based)
    /\ UNCHANGED <<setup, result, expired, helm, cluster, firstErr, gaveUp, resultCh, helmDone,
                   safetyFired, contexts, flags, relied, backstops>>

\* The worker has the lock of the chart and starts helm.  With a cancelled context
\* helmexec.Output interrupts a process that may not be there yet.
StartHelm ==
    /\ pc = "queue"
    /\ \/ pc' = "helm" /\ helm' = "running"
       \/ releaseCtx /\ pc' = "panicked" /\ UNCHANGED helm
    /\ UNCHANGED <<setup, mode, result, expired, cluster, trackerVars, resultCh, helmDone,
                   safetyFired, contexts, flags, valveVars, killer, backstops>>

\* What helm does to the cluster, what the cluster does after it, and how helm ends: when
\* the hook waiter is wedged, only by an interrupt.
HelmApply ==
    /\ helm = "running" /\ helm' = "applied"
    /\ cluster' = [r \in Resources |-> CASE r \notin setup.touched -> cluster[r]
                                         [] cluster[r] = "absent" -> "creating"
                                         [] OTHER -> "updating"]
    /\ UNCHANGED <<setup, workerVars, trackerVars, resultCh, helmDone, safetyFired, contexts,
                   flags, valveVars, killer, backstops>>

\* The pods of a rolling update come and go: the old ones fill the count or do not.
Settle(r) ==
    /\ \E c \in {"updating", "rolling", "ready", "failed"} :
          /\ cluster' = [cluster EXCEPT ![r] = c]
          /\ IF c \in {"ready", "failed"}
             THEN cluster[r] \in {"creating", "updating", "rolling"}
             ELSE r \in Rolling /\ cluster[r] \in {"updating", "rolling"}
    /\ UNCHANGED <<setup, workerVars, helm, trackerVars, resultCh, helmDone, safetyFired,
                   contexts, flags, valveVars, killer, backstops>>

HelmWedge ==
    /\ helm = "applied" /\ helm' = "wedged"
    /\ UNCHANGED <<setup, workerVars, cluster, trackerVars, resultCh, helmDone, safetyFired,
                   contexts, flags, valveVars, killer, backstops>>

HelmEnd ==
    /\ \/ helm \in {"running", "applied"} /\ helm' = "error"
       \/ helm = "applied" /\ helm' = "ok"
       \/ helm \in {"running", "applied", "wedged"} /\ releaseCtx /\ helm' = "interrupted"
    /\ UNCHANGED <<setup, workerVars, cluster, trackerVars, resultCh, helmDone, safetyFired,
                   contexts, flags, valveVars, killer, backstops>>

\* SyncRelease has returned: an error is dropped when the killer says that it fired, and
\* otherwise cancels the tracker; helm's success is announced to the tracker and the valves.
HelmReturned ==
    /\ pc = "helm" /\ helm \in {"ok", "error", "interrupted"}
    /\ IF helm # "ok" /\ ~killed
       THEN /\ IF mode = "background"
               THEN /\ pc' = "wait" /\ canceled' = TRUE /\ trackCtx' = TRUE /\ releaseCtx' = TRUE
                    /\ UNCHANGED result
               ELSE pc' = "done" /\ result' = "failed" /\ UNCHANGED <<canceled, contexts>>
            /\ UNCHANGED helmDone
       ELSE /\ CASE mode = "background" -> pc' = "wait" /\ helmDone' = TRUE /\ UNCHANGED result
                 [] mode = "after" -> pc' = "track" /\ UNCHANGED <<helmDone, result>>
                 [] OTHER -> pc' = "done" /\ result' = "ok" /\ UNCHANGED helmDone
            /\ UNCHANGED <<canceled, contexts>>
    /\ UNCHANGED <<setup, mode, expired, helm, cluster, trackerVars, resultCh, safetyFired,
                   triggered, killed, valveVars, killer, backstops>>

\* trackReleaseIfEnabled: tracking when helm is through, whatever comes of it.
TrackAfter ==
    /\ pc = "track" /\ pc' = "done"
    /\ result' \in IF setup.failOnError THEN {"ok", "failed"} ELSE {"ok"}
    /\ UNCHANGED <<setup, mode, expired, helm, cluster, trackerVars, resultCh, helmDone,
                   safetyFired, contexts, flags, valveVars, killer, backstops>>

----------------------------------------------------------------------------
(* wait.                                                                    *)

\* The end of wait, with the answer of the tracker: an error counts only when neither helm
\* failed before nor a valve was the reason for it.
Conclude(answer) ==
    /\ pc' = "done" /\ trackCtx' = TRUE /\ releaseCtx' = TRUE
    /\ LET counts == answer # "nil" /\ setup.failOnError /\ ~triggered /\ ~killed
       IN result' = IF canceled \/ counts THEN "failed" ELSE "ok"
    /\ UNCHANGED <<setup, mode, expired, helm, cluster, trackerVars, helmDone, safetyFired,
                   flags, valveVars, killer, backstops>>

WaitResult ==
    /\ pc \in {"wait", "windup"} /\ resultCh # "empty"
    /\ Conclude(resultCh) /\ resultCh' = "empty"

WaitSafety ==
    /\ pc = "wait" /\ safetyFired /\ pc' = "windup"
    /\ UNCHANGED <<setup, mode, result, expired, helm, cluster, trackerVars, resultCh, helmDone,
                   safetyFired, contexts, flags, valveVars, killer, backstops>>

Windup == pc = "windup" /\ Conclude("nil") /\ UNCHANGED resultCh

\* A bug: the release timeout only counts once a valve has fired.
HardTimeoutLate ==
    /\ pc = "wait" /\ safetyFired /\ pc' = "done" /\ result' = "failed" /\ expired' = TRUE
    /\ trackCtx' = TRUE /\ releaseCtx' = TRUE
    /\ UNCHANGED <<setup, mode, helm, cluster, trackerVars, resultCh, helmDone, safetyFired,
                   flags, valveVars, killer, backstops>>

\* The absolute ceiling: the release timeout.
HardTimeout ==
    /\ pc = "wait" /\ pc' = "done" /\ result' = "failed" /\ expired' = TRUE
    /\ trackCtx' = TRUE /\ releaseCtx' = TRUE
    /\ UNCHANGED <<setup, mode, helm, cluster, trackerVars, resultCh, helmDone, safetyFired,
                   flags, valveVars, killer, backstops>>

----------------------------------------------------------------------------
(* The tracker: TrackResources and its goroutines.                          *)

TaskTo(r, from, to) == task[r] = from /\ task' = [task EXCEPT ![r] = to]
taskUnchanged == <<setup, workerVars, helm, cluster, tracker, firstErr, resultCh, helmDone,
                   safetyFired, contexts, flags, valveVars, killer, backstops>>
Without(r, answer) == gaveUp' = IF answer \/ r \notin setup.touched THEN gaveUp ELSE gaveUp \cup {r}

\* waitForFreshness: until the resource has changed, or helm is through and no change was
\* observed for 3 seconds, because there is none or because the cluster does not answer.
Fresh(r) == Changed(r) /\ TaskTo(r, "gate", "attached") /\ UNCHANGED <<gaveUp, taskUnchanged>>
GiveUp(r) ==
    helmDone /\ TaskTo(r, "gate", "skipped") /\ Without(r, ~Changed(r)) /\ UNCHANGED taskUnchanged

\* kubedog sees the resource ready, maybe before helm changed it; reports an error; or runs
\* out of time, of which a deadline is no error.
SeeReady(r) ==
    /\ cluster[r] \in {"old", "ready"} /\ TaskTo(r, "attached", "ended")
    /\ Without(r, cluster[r] = "ready") /\ UNCHANGED taskUnchanged
SeeError(r) == TaskTo(r, "attached", "error") /\ UNCHANGED <<gaveUp, taskUnchanged>>
OutOfTime(r) == TaskTo(r, "attached", "ended") /\ Without(r, FALSE) /\ UNCHANGED taskUnchanged

\* A cancelled goroutine ends without an error.
Stopping == trackCtx \/ tracker # "select"
LeaveGate(r) == Stopping /\ TaskTo(r, "gate", "ended") /\ UNCHANGED <<gaveUp, taskUnchanged>>
LeaveKubedog(r) == Stopping /\ TaskTo(r, "attached", "ended") /\ UNCHANGED <<gaveUp, taskUnchanged>>

AllEnded == \A r \in setup.tracked : task[r] \in Final
SomeError == \E r \in setup.tracked : task[r] = "error"

\* The first error, the end of all goroutines, or a cancelled context ends the tracking.
TrackerStops ==
    /\ tracker = "select" /\ tracker' = "drain"
    /\ \/ SomeError /\ firstErr' = "error"
       \/ AllEnded /\ firstErr' = "nil"
       \/ trackCtx /\ firstErr' = "canceled"
    /\ UNCHANGED <<setup, workerVars, helm, cluster, task, gaveUp, resultCh, helmDone,
                   safetyFired, contexts, flags, valveVars, killer, backstops>>

\* TrackResources returns after its last goroutine, and the answer goes to the channel.
TrackerSends ==
    /\ tracker = "drain" /\ AllEnded /\ resultCh = "empty" /\ tracker' = "sent"
    /\ resultCh' = IF firstErr = "nil" /\ SomeError THEN "error" ELSE firstErr
    /\ UNCHANGED <<setup, workerVars, helm, cluster, task, firstErr, gaveUp, helmDone,
                   safetyFired, contexts, flags, valveVars, killer, backstops>>

----------------------------------------------------------------------------
(* The valves.                                                              *)

\* A bug: a resource counts as converged before its controller has seen the new version.
ConvergedUnobserved ==
    \A r \in Resources : task[r] = "skipped" \/ cluster[r] \in {"old", "updating", "rolling", "ready"}

\* VerifyAllConverged asks the cluster for all resources of the release, filtered or not;
\* only those whose gate gave up are left out.  What helm has not changed yet is converged,
\* and so is a Deployment or a DaemonSet while old pods fill its count: only the generation
\* and the pods that are available are compared.
Converged == \A r \in Resources : task[r] = "skipped" \/ cluster[r] \in {"old", "rolling", "ready"}

valveUnchanged == <<setup, workerVars, helm, cluster, trackerVars, resultCh, helmDone,
                    releaseCtx, killed, canceled, killer>>

ValveTo(from, to) == valve = from /\ valve' = to

ValvePolls ==
    /\ \/ helmDone /\ ValveTo("grace", "poll") /\ UNCHANGED relied
       \/ ~trackCtx /\ Converged /\ ValveTo("poll", "store")
          /\ relied' = {r \in Resources : cluster[r] = "rolling"}
       \/ trackCtx /\ valve \in {"grace", "poll"} /\ valve' = "ended" /\ UNCHANGED relied
    /\ UNCHANGED <<valveUnchanged, triggered, trackCtx, safetyFired, backstops>>

\* A bug: the tracker is cancelled before the flag says why.
ValveFiresBackwards ==
    /\ \/ ValveTo("store", "cancel") /\ trackCtx' = TRUE /\ UNCHANGED <<triggered, safetyFired, backstops>>
       \/ ValveTo("cancel", "signal") /\ triggered' = TRUE /\ UNCHANGED <<trackCtx, safetyFired, backstops>>
       \/ /\ ValveTo("signal", "ended") /\ safetyFired' = TRUE /\ backstops' = backstops + 1
          /\ UNCHANGED <<triggered, trackCtx>>
    /\ UNCHANGED <<valveUnchanged, relied>>

ValveFires ==
    /\ \/ ValveTo("store", "cancel") /\ triggered' = TRUE /\ UNCHANGED <<trackCtx, safetyFired, backstops>>
       \/ ValveTo("cancel", "signal") /\ trackCtx' = TRUE /\ UNCHANGED <<triggered, safetyFired, backstops>>
       \/ /\ ValveTo("signal", "ended") /\ safetyFired' = TRUE /\ backstops' = backstops + 1
          /\ UNCHANGED <<triggered, trackCtx>>
    /\ UNCHANGED <<valveUnchanged, relied>>

killerUnchanged == <<setup, workerVars, helm, cluster, trackerVars, resultCh, helmDone,
                     trackCtx, triggered, canceled, valveVars>>

KillerTo(from, to) == killer = from /\ killer' = to

\* Converged at one tick and at another, the grace later, and at no tick in between not.
KillerPolls ==
    /\ \/ ~trackCtx /\ Converged /\ KillerTo("watch", "seen")
       \/ ~trackCtx /\ ~Converged /\ KillerTo("seen", "watch")
       \/ ~trackCtx /\ Converged /\ KillerTo("seen", "store")
       \/ (trackCtx \/ helmDone) /\ killer \in {"watch", "seen"} /\ killer' = "ended"
    /\ UNCHANGED <<killerUnchanged, killed, releaseCtx, safetyFired, backstops>>

\* A bug: the killer does not interrupt helm.
KillerSpares ==
    /\ \/ KillerTo("store", "cancel") /\ killed' = TRUE /\ UNCHANGED <<releaseCtx, safetyFired, backstops>>
       \/ KillerTo("cancel", "signal") /\ UNCHANGED <<killed, releaseCtx, safetyFired, backstops>>
       \/ /\ KillerTo("signal", "ended") /\ safetyFired' = TRUE /\ backstops' = backstops + 1
          /\ UNCHANGED <<killed, releaseCtx>>
    /\ UNCHANGED killerUnchanged

KillerFires ==
    /\ \/ KillerTo("store", "cancel") /\ killed' = TRUE /\ UNCHANGED <<releaseCtx, safetyFired, backstops>>
       \/ KillerTo("cancel", "signal") /\ releaseCtx' = TRUE /\ UNCHANGED <<killed, safetyFired, backstops>>
       \/ /\ KillerTo("signal", "ended") /\ safetyFired' = TRUE /\ backstops' = backstops + 1
          /\ UNCHANGED <<killed, releaseCtx>>
    /\ UNCHANGED killerUnchanged

\* scheduleResultChBackstop: some time after a valve fired, nil for whoever is waiting, if
\* there is room for it.
Backstop ==
    /\ backstops > 0 /\ backstops' = backstops - 1
    /\ resultCh' = IF resultCh = "empty" THEN "nil" ELSE resultCh
    /\ UNCHANGED <<setup, workerVars, helm, cluster, trackerVars, helmDone, safetyFired,
                   contexts, flags, valveVars, killer>>

----------------------------------------------------------------------------

Worker == \/ Template \/ StartHelm \/ HelmReturned \/ TrackAfter
          \/ WaitResult \/ WaitSafety \/ Windup \/ HardTimeout
Kubedog(r) == Fresh(r) \/ GiveUp(r) \/ SeeReady(r) \/ SeeError(r) \/ OutOfTime(r) \/ LeaveKubedog(r)
Valve == ValvePolls \/ ValveFires
Killer == KillerPolls \/ KillerFires

\* The worker may wait for a helm that never ends.
Over == (pc \in {"done", "panicked"} \/ helm = "wedged") /\ UNCHANGED vars

Next == \/ Worker \/ HelmApply \/ HelmWedge \/ HelmEnd \/ TrackerStops \/ TrackerSends
        \/ Valve \/ Killer \/ Backstop \/ Over
        \/ \E r \in Resources : Settle(r) \/ Kubedog(r) \/ LeaveGate(r)

\* Goroutines are scheduled, timers run out, the cluster answers in the end, and helm ends
\* unless its hook waiter is wedged; kubedog may do nothing at all.
Fairness == /\ WF_vars(Worker) /\ WF_vars(HelmEnd)
            /\ WF_vars(Valve) /\ WF_vars(Killer) /\ WF_vars(Backstop)

Spec == Init /\ [][Next]_vars /\ Fairness

----------------------------------------------------------------------------
(* Properties.                                                              *)

\* With trackFailOnError, a release that helm upgraded and that is reported as a success has
\* every tracked resource ready in its new version: whoever ended the tracking, the tracker,
\* the valve or the backstop.  Only the valve lets one pass that is not: a Deployment or a
\* DaemonSet in a rolling update, whose old pods filled its count when the valve looked.  Left
\* out are the resources the tracker gives up on without an error, and a helm that was
\* interrupted: it may have been before it changed anything.
OldPodsCounted(r) == triggered /\ r \in relied \cap Rolling
SuccessConfirmed ==
    result = "ok" /\ mode = "background" /\ setup.failOnError /\ ~killed =>
        \A r \in setup.tracked \cap setup.touched :
            cluster[r] = "ready" \/ r \in gaveUp \/ OldPodsCounted(r)

\* A release is only reported as a failure when helm failed by itself, tracking met an error
\* and errors count, or the release timeout ran out: never because of what the valves
\* cancelled or interrupted themselves.
NoPhantomFailure ==
    result = "failed" /\ ~expired =>
        helm = "error" \/ (setup.failOnError /\ (SomeError \/ mode = "after"))

\* wait always returns, also when kubedog ignores the cancelled context ("so a wedged
\* dyntracker goroutine that won't return on ctx.Done() cannot pin helmfile forever").
WaitReturns == pc = "wait" ~> pc = "done"

\* With a grace period, a helm that is wedged while the cluster has converged, and stays so,
\* is recovered from.
WedgeRecovered ==
    (helm = "wedged" /\ mode = "background" /\ setup.grace /\ []Converged) ~> pc = "done"
=============================================================================
