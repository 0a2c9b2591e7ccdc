------------------------------ MODULE Converge ------------------------------
(***************************************************************************)
(* One helmfile apply, sync or destroy of the releases of one state file   *)
(* (pkg/app/app.go apply, SyncState, delete; pkg/app/run.go): prepare the  *)
(* charts, find out what to uninstall and what to upgrade, ask, run the    *)
(* preapply hooks, uninstall the groups of the dependency graph in reverse *)
(* order, upgrade the groups in order, run the cleanup hooks, and turn the *)
(* result into an exit code.  The releases of one group are worked on      *)
(* concurrently: here they end in any order, each with one of the outcomes  *)
(* of ReleaseBatch, which ReleaseSync and ReleaseDelete implement.         *)
(***************************************************************************)
EXTENDS ReleaseGraph

CONSTANTS Releases,
          NeedsOf,    \* the graphs to consider: functions Releases -> SUBSET Releases
          Watched,    \* releases whose helm kubedog may interrupt
          Commands    \* subset of {"apply", "sync", "destroy"}

ASSUME ConvergeAssumption ==
    /\ IsFiniteSet(Releases) /\ NeedsOf \subseteq [Releases -> SUBSET Releases]
    /\ \A f \in NeedsOf : Acyclic(Releases, f)
    /\ Watched \subseteq Releases
    /\ Commands \subseteq {"apply", "sync", "destroy"}

VARIABLES command, interactive,
          transitive,         \* --include-transitive-needs
          needs, planned,     \* the graph, and the releases the command works on (NeedsPlan)
          desired,            \* releases without installed: false
          start,              \* the cluster before the command
          cluster,            \* "absent", "old" (differs from the state file) or "new"
          phase,
          toDelete, toUpdate,
          groups, g,          \* the groups of the phase, and how many were started
          left,               \* releases of the group not done yet
          stuck,              \* an error ends the phase after this group
          confirmed,
          hooked,             \* releases whose preapply hook succeeded
          applied, failed,    \* releases worked on, with and without success
          presumed,           \* and those whose helm was interrupted, taken for a success
          broken,             \* an error that is not of a release
          cleaned,            \* releases whose cleanup hook was triggered
          updated,            \* the result "any" of the command
          code                \* the exit code, with --detailed-exitcode

inputs == <<command, interactive, transitive, needs, planned, desired, start>>
found == <<toDelete, toUpdate, confirmed>>
batch == <<groups, g, left, stuck>>
ended == <<applied, presumed, failed>>
outcome == <<ended, broken, updated, code>>
vars == <<inputs, cluster, phase, found, batch, hooked, outcome, cleaned>>

Statuses == {"absent", "old", "new"}
Rounds == {"preapply", "delete", "update"}
Phases == Rounds \cup {"prepare", "detect", "confirm", "cleanup", "global cleanup", "done"}

TypeOK ==
    /\ command \in Commands /\ interactive \in BOOLEAN /\ transitive \in BOOLEAN
    /\ needs \in NeedsOf
    /\ {planned, desired, applied, presumed, failed, hooked, cleaned} \subseteq SUBSET Releases
    /\ start \in [Releases -> Statuses] /\ cluster \in [Releases -> Statuses]
    /\ phase \in Phases
    /\ toDelete \in SUBSET planned /\ toUpdate \in SUBSET (planned \cap desired)
    /\ toDelete \cap toUpdate = {}
    /\ applied \cap failed = {} /\ presumed \cap (applied \cup failed) = {}
    /\ g \in Nat /\ left \in SUBSET planned
    /\ phase \in Rounds /\ g > 0 => left \subseteq groups[g]
    /\ {stuck, confirmed, broken, updated} \subseteq BOOLEAN
    /\ code \in {0, 1, 2}

Init == /\ command \in Commands /\ interactive \in BOOLEAN /\ transitive \in BOOLEAN
        /\ needs \in NeedsOf
        /\ planned \in (SUBSET Releases) \ {{}}
        /\ transitive => command # "destroy" /\ \A r \in planned : needs[r] \subseteq planned
        /\ desired \in SUBSET Releases /\ Releases \ planned \subseteq desired
        /\ start \in [Releases -> Statuses]
        /\ \A r \in Releases : r \notin planned => start[r] = "old"
        /\ \A r \in Releases : r \notin desired => start[r] # "new"
        /\ cluster = start /\ phase = "prepare"
        /\ toDelete = {} /\ toUpdate = {} /\ confirmed = FALSE
        /\ groups = <<>> /\ g = 0 /\ left = {} /\ stuck = FALSE
        /\ hooked = {} /\ cleaned = {}
        /\ applied = {} /\ presumed = {} /\ failed = {}
        /\ broken = FALSE /\ updated = FALSE /\ code = 0

Errors == failed # {} \/ broken
Installed == {r \in Releases : cluster[r] # "absent"}

----------------------------------------------------------------------------
(* Before anything changes.                                                 *)

\* WithPreparedCharts: repositories, the global prepare hook, the charts and prepare hooks
\* of the releases; its first error ends the command, without a global cleanup hook.
Prepare ==
    /\ phase = "prepare"
    /\ \/ phase' = "detect" /\ UNCHANGED <<broken, code>>
       \/ phase' = "done" /\ broken' = TRUE /\ code' = 1
    /\ UNCHANGED <<inputs, cluster, found, batch, hooked, ended, updated, cleaned>>

\* What helm diff reports as changed (Run.diff), or everything desired (SyncState).
ToUpdate ==
    CASE command = "apply" -> {r \in planned \cap desired : cluster[r] # "new"}
      [] command = "sync" -> planned \cap desired
      [] command = "destroy" -> {}

\* DetectReleasesToBeDeletedForSync, and DetectReleasesToBeDeleted for destroy.
ToDelete == IF command = "destroy" THEN planned \cap Installed
            ELSE (planned \ desired) \cap Installed

\* helm list or helm diff may fail, which ends the command.  apply is done when there is
\* nothing to do; destroy runs the cleanup hooks of what is not installed.
Detect ==
    /\ phase = "detect"
    /\ \/ /\ broken' = TRUE /\ phase' = "global cleanup"
          /\ UNCHANGED <<toDelete, toUpdate, cleaned>>
       \/ /\ toDelete' = ToDelete /\ toUpdate' = ToUpdate
          /\ phase' = IF command = "apply" /\ toDelete' \cup toUpdate' = {}
                      THEN "global cleanup" ELSE "confirm"
          /\ cleaned' = IF command = "destroy" THEN planned \ toDelete' ELSE {}
          /\ UNCHANGED broken
    /\ UNCHANGED <<inputs, cluster, confirmed, batch, hooked, ended, updated, code>>

----------------------------------------------------------------------------
(* Groups of releases (withDAG, withBatches).                               *)

\* Plan one traversal of the graph and enter its phase.
Traverse(round, targets, include, reverse) ==
    /\ phase' = round
    /\ groups' = Groups(Releases, needs, PlannedIds(needs, targets, include), reverse)
    /\ g' = 0 /\ left' = {} /\ stuck' = FALSE

BeginDelete == Traverse("delete", toDelete, FALSE, TRUE)

Confirm ==
    /\ phase = "confirm"
    /\ \/ /\ confirmed' = TRUE
          /\ IF command = "apply" THEN Traverse("preapply", planned, FALSE, TRUE) ELSE BeginDelete
       \/ /\ interactive
          /\ phase' = "cleanup" /\ UNCHANGED <<confirmed, batch>>
    /\ UNCHANGED <<inputs, cluster, toDelete, toUpdate, hooked, outcome, cleaned>>

\* What a group works on: apply looks its releases up in what the diff found, sync leaves
\* out what was uninstalled.
Work == CASE phase = "preapply" -> planned
          [] phase = "delete" -> toDelete
          [] phase = "update" /\ command = "apply" -> toUpdate
          [] phase = "update" /\ command = "sync" -> Releases \ toDelete

\* A bug: an error does not end the traversal.
NextGroupAlways ==
    /\ phase \in Rounds /\ left = {} /\ g < Len(groups)
    /\ g' = g + 1 /\ left' = groups[g + 1] \cap Work
    /\ UNCHANGED <<inputs, cluster, phase, found, groups, stuck, hooked, outcome, cleaned>>

\* Converge on the next group, once every release of the last one ended without an error.
NextGroup ==
    /\ phase \in Rounds /\ left = {} /\ ~stuck /\ g < Len(groups)
    /\ g' = g + 1 /\ left' = groups[g + 1] \cap Work
    /\ UNCHANGED <<inputs, cluster, phase, found, groups, stuck, hooked, outcome, cleaned>>

\* A bug: a hook that fails is only logged.
PreapplyWarns(r) ==
    /\ phase = "preapply" /\ r \in left
    /\ \/ hooked' = hooked \cup {r}
       \/ UNCHANGED hooked
    /\ left' = left \ {r}
    /\ UNCHANGED <<inputs, cluster, phase, found, groups, g, stuck, outcome, cleaned>>

\* The preapply hook of a release; the first that fails ends the command.
Preapply(r) ==
    /\ phase = "preapply" /\ r \in left
    /\ \/ /\ hooked' = hooked \cup {r} /\ left' = left \ {r}
          /\ UNCHANGED <<phase, broken>>
       \/ /\ broken' = TRUE /\ phase' = "global cleanup" /\ left' = {}
          /\ UNCHANGED hooked
    /\ UNCHANGED <<inputs, cluster, found, groups, g, stuck, ended, updated, code, cleaned>>

\* What a call of DeleteReleasesForSync, DeleteReleases or SyncReleases does with the releases
\* of its group: a step of ReleaseBatch, in which the cluster changes once for each release.
Deletion == INSTANCE ReleaseBatch
                WITH Watched <- {}, given <- groups[g] \cap Work, wanted <- {}, status <- cluster
Upgrading == INSTANCE ReleaseBatch
                 WITH given <- groups[g] \cap Work, wanted <- desired, status <- cluster

\* The cleanup hook of a release is triggered by DeleteReleasesForSync and SyncReleases.
Delete(r) ==
    /\ phase = "delete"
    /\ \/ Deletion!Succeed(r) /\ UNCHANGED stuck
       \/ Deletion!Fail(r) /\ stuck' = TRUE
    /\ cleaned' = IF command = "destroy" THEN cleaned ELSE cleaned \cup {r}
    /\ UNCHANGED <<inputs, phase, found, groups, g, hooked, broken, updated, code>>

Upgrade(r) ==
    /\ phase = "update"
    /\ \/ (Upgrading!Succeed(r) \/ Upgrading!Presume(r)) /\ UNCHANGED stuck
       \/ Upgrading!Fail(r) /\ stuck' = TRUE
    /\ cleaned' = cleaned \cup {r}
    /\ UNCHANGED <<inputs, phase, found, groups, g, hooked, broken, updated, code>>

\* The releases of a group are upgraded only when the values of all are prepared: the others
\* get neither a result nor a cleanup hook.
AbortGroup ==
    /\ phase = "update" /\ left # {} /\ Upgrading!Abort
    /\ stuck' = TRUE
    /\ UNCHANGED <<inputs, phase, found, groups, g, hooked, broken, updated, code, cleaned>>

\* The traversal is over: preapply is followed by delete, delete by update, even after a
\* deletion failed.
EndRound ==
    /\ phase \in Rounds /\ left = {} /\ (stuck \/ g = Len(groups))
    /\ CASE phase = "preapply" -> BeginDelete
         [] phase = "delete" /\ command # "destroy" -> Traverse("update", toUpdate, transitive, FALSE)
         [] OTHER -> phase' = "cleanup" /\ UNCHANGED batch
    /\ UNCHANGED <<inputs, cluster, found, hooked, outcome, cleaned>>

----------------------------------------------------------------------------
(* The result.                                                              *)

\* A bug: the errors of the upgrades replace those of the deletions.
CleanupForgets ==
    /\ phase = "cleanup"
    /\ cleaned' = IF command = "destroy" THEN cleaned ELSE cleaned \cup (planned \ (toDelete \cup toUpdate))
    /\ failed' = failed \ (IF toUpdate = {} THEN {} ELSE toDelete)
    /\ updated' = CASE command = "apply" -> TRUE
                    [] command = "sync" -> confirmed /\ toDelete \cup toUpdate # {} /\ ~Errors
                    [] command = "destroy" -> FALSE
    /\ phase' = "global cleanup"
    /\ UNCHANGED <<inputs, cluster, found, batch, hooked, applied, presumed, broken, code>>

\* A bug: only upgrades count as changes.
CleanupCountsUpgrades ==
    /\ phase = "cleanup"
    /\ cleaned' = IF command = "destroy" THEN cleaned ELSE cleaned \cup (planned \ (toDelete \cup toUpdate))
    /\ updated' = (command # "destroy" /\ confirmed /\ toUpdate # {} /\ ~Errors)
    /\ phase' = "global cleanup"
    /\ UNCHANGED <<inputs, cluster, found, batch, hooked, ended, broken, code>>

\* A bug: the loop over the releases without changes is missing.
CleanupUpdatedOnly ==
    /\ phase = "cleanup"
    /\ updated' = CASE command = "apply" -> TRUE
                    [] command = "sync" -> confirmed /\ toDelete \cup toUpdate # {} /\ ~Errors
                    [] command = "destroy" -> FALSE
    /\ phase' = "global cleanup"
    /\ UNCHANGED <<inputs, cluster, found, batch, hooked, ended, broken, code, cleaned>>

\* The cleanup hooks of the releases without changes, and what the command returns: apply
\* reports changes whatever the answer was.
Cleanup ==
    /\ phase = "cleanup"
    /\ cleaned' = IF command = "destroy" THEN cleaned ELSE cleaned \cup (planned \ (toDelete \cup toUpdate))
    /\ updated' = CASE command = "apply" -> TRUE
                    [] command = "sync" -> confirmed /\ toDelete \cup toUpdate # {} /\ ~Errors
                    [] command = "destroy" -> FALSE
    /\ phase' = "global cleanup"
    /\ UNCHANGED <<inputs, cluster, found, batch, hooked, ended, broken, code>>

\* The global cleanup hook, which may fail, and the exit code: an error is 1, changes are 2.
Finish ==
    /\ phase = "global cleanup"
    /\ broken' \in {broken, TRUE}
    /\ code' = IF failed # {} \/ broken' THEN 1 ELSE IF updated THEN 2 ELSE 0
    /\ phase' = "done"
    /\ UNCHANGED <<inputs, cluster, found, batch, hooked, ended, updated, cleaned>>

Done == phase = "done" /\ UNCHANGED vars

Next == \/ Prepare \/ Detect \/ Confirm \/ NextGroup \/ AbortGroup \/ EndRound \/ Cleanup \/ Finish \/ Done
        \/ \E r \in Releases : Preapply(r) \/ Delete(r) \/ Upgrade(r)

Spec == Init /\ [][Next]_vars

----------------------------------------------------------------------------
(* Properties.                                                              *)

Passed == applied \cup presumed
Touched == Passed \cup failed

\* A release is upgraded only when everything it needs, directly or not, that is to be
\* upgraded as well has been upgraded, or its helm interrupted, and uninstalled only when
\* everything that needs it and is to be uninstalled is gone ("Everything in GROUP 2 starts
\* being deployed only after everything in GROUP 1 got successfully deployed"), whatever
\* fails in between.
GroupOrder ==
    \A r \in Releases : \A n \in Reaches(Releases, needs, r) :
        /\ {r, n} \subseteq toUpdate /\ r \in Touched => n \in Passed
        /\ {r, n} \subseteq toDelete /\ n \in Touched => r \in applied

\* Nothing outside the plan is ever touched, nothing at all before it is confirmed, and in
\* an apply not before the preapply hook of every planned release has succeeded.
NothingUnconfirmed ==
    /\ \A r \in Releases : cluster[r] # start[r] => r \in Touched \cap planned
    /\ Touched # {} => confirmed /\ (command = "apply" => hooked = planned)

Target(r) == IF command = "destroy" \/ r \notin desired THEN "absent" ELSE "new"

\* A command that was confirmed and ends without an error has brought every planned release
\* to what the state file says, from whatever the cluster was, except those whose helm was
\* interrupted: of them an exit code of 0 or 2 tells nothing.
SuccessMeansConverged ==
    phase = "done" /\ code # 1 /\ (confirmed \/ toDelete \cup toUpdate = {}) =>
        \A r \in planned \ presumed : cluster[r] = Target(r)

\* The exit code tells an apply or sync that changed the cluster (2) or met an error (1) from
\* one that did nothing (0): "when there were changes detected AND the changes are synced
\* successfully".
ChangesReported ==
    phase = "done" =>
        /\ code = 1 <=> Errors
        /\ command # "destroy" /\ (Passed # {} \/ cluster # start) => code # 0

\* "any release on which prepare has been triggered gets cleanup triggered as well": so it is
\* when apply or sync goes through with something to change, whichever of the three places
\* that trigger the hooks a release belongs to.
CleanupPaired ==
    phase = "done" /\ ~Errors /\ confirmed /\ toDelete \cup toUpdate # {} /\ command # "destroy" =>
        planned \subseteq cleaned
=============================================================================
