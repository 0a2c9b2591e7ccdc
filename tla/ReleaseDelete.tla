--------------------------- MODULE ReleaseDelete ---------------------------
(***************************************************************************)
(* The two functions that uninstall the releases of one DAG batch          *)
(* (pkg/state/state.go):                                                   *)
(*   DeleteReleasesForSync, for apply and sync: presync hooks, then the    *)
(*     uninstall and the list updates under a mutex, then postsync and     *)
(*     cleanup hooks whose errors are only logged;                         *)
(*   DeleteReleases, for destroy: the uninstall and the list updates, with *)
(*     no mutex.                                                           *)
(* Without a mutex an append is a load of the list followed by a store of  *)
(* the longer one, and two workers' appends may overlap.                   *)
(***************************************************************************)
EXTENDS ReleaseWorkers

CONSTANT Calls  \* the calls to consider: <<locking, workers>>, where locking is TRUE for
                \* DeleteReleasesForSync and FALSE for DeleteReleases

ASSUME ReleaseDeleteAssumption == Calls \subseteq (BOOLEAN \X SUBSET Workers)

VARIABLES locking,       \* DeleteReleasesForSync was called, which has a mutex
          pool,          \* the workers of this call
          returned,
          loaded,        \* per worker: the list read by an append that has not stored yet
          installed,     \* releases that are in the cluster
          deleted,       \* affectedReleases.Deleted
          deleteFailed,  \* affectedReleases.DeleteFailed
          failed         \* affectedReleases.Failed: nothing is added to it here

call == <<locking, pool>>
deleteVars == <<locking, pool, returned, todo, pc, job, loaded, m, installed, deleted,
                deleteFailed, failed, failing, errs>>

DeleteTypeOK ==
    /\ locking \in BOOLEAN /\ pool \subseteq Workers
    /\ returned \in BOOLEAN /\ todo \subseteq Releases
    /\ pc \in [Workers -> {"idle", "presync", "lock", "uninstall", "append", "finish"}]
    /\ job \in [Workers -> Releases \cup {None}]
    /\ loaded \in [Workers -> SUBSET Releases]
    /\ m \in Workers \cup {Free} /\ failing \subseteq Workers
    /\ \A w \in Workers : m = w => locking /\ pc[w] = "uninstall"
    /\ {installed, deleted, deleteFailed, failed, errs} \subseteq SUBSET Releases

DeleteInit == /\ \E c \in Calls : locking = c[1] /\ pool = c[2]
              /\ returned = FALSE /\ todo = Releases
              /\ pc = [w \in Workers |-> "idle"]
              /\ job = [w \in Workers |-> None]
              /\ loaded = [w \in Workers |-> {}]
              /\ m = Free /\ failing = {} /\ errs = {}
              /\ installed = Releases
              /\ deleted = {} /\ deleteFailed = {} /\ failed = {}

DeleteTake(w) ==
    /\ pc[w] = "idle"
    /\ \E r \in todo : todo' = todo \ {r} /\ job' = [job EXCEPT ![w] = r]
    /\ Goto(w, IF locking THEN "presync" ELSE "uninstall")
    /\ UNCHANGED <<returned, loaded, m, installed, deleted, deleteFailed, failed, failing,
                   errs, call>>

DeletePresync(w) ==
    /\ pc[w] = "presync"
    /\ \/ May("presync") /\ failing' = failing \cup {w} /\ Goto(w, "finish")
       \/ Goto(w, "lock") /\ UNCHANGED failing
    /\ UNCHANGED <<returned, todo, job, loaded, m, installed, deleted, deleteFailed, failed,
                   errs, call>>

DeleteLockMutex(w) ==
    /\ pc[w] = "lock" /\ m = Free
    /\ m' = w /\ Goto(w, "uninstall")
    /\ UNCHANGED <<returned, todo, job, loaded, installed, deleted, deleteFailed, failed,
                   failing, errs, call>>

\* A bug: the release is listed as deleted whatever the uninstall returned.
UninstallListsAnyway(w) ==
    LET r == job[w] IN
    /\ pc[w] = "uninstall"
    /\ \/ /\ May("uninstall")
          /\ installed' \in {installed, installed \ {r}}
          /\ deleteFailed' = failed \cup {r} /\ failing' = failing \cup {w}
       \/ installed' = installed \ {r} /\ UNCHANGED <<deleteFailed, failing>>
    /\ deleted' = deleted \cup {r}
    /\ m' = Free /\ Goto(w, "finish")
    /\ UNCHANGED <<returned, todo, job, loaded, failed, errs, call>>

\* preuninstall hooks, helm uninstall, postuninstall hooks, then one of the lists.  The
\* failed list is OVERWRITTEN: DeleteFailed = append(Failed, release).
DeleteUninstall(w) ==
    LET r == job[w] IN
    /\ pc[w] = "uninstall"
    /\ \/ /\ May("uninstall")
          /\ installed' \in {installed, installed \ {r}}
          /\ deleteFailed' = failed \cup {r}
          /\ failing' = failing \cup {w}
          /\ Goto(w, "finish")
          /\ UNCHANGED <<deleted, loaded>>
       \/ /\ installed' = installed \ {r}
          /\ IF locking
             THEN deleted' = deleted \cup {r} /\ Goto(w, "finish") /\ UNCHANGED loaded
             ELSE loaded' = [loaded EXCEPT ![w] = deleted] /\ Goto(w, "append")
                  /\ UNCHANGED deleted
          /\ UNCHANGED <<deleteFailed, failing>>
    /\ m' = Free
    /\ UNCHANGED <<returned, todo, job, failed, errs, call>>

\* The store of an append: what others have stored since the load is lost.
StoreAppend(w) ==
    /\ pc[w] = "append"
    /\ deleted' = loaded[w] \cup {job[w]}
    /\ Goto(w, "finish")
    /\ UNCHANGED <<returned, todo, job, loaded, m, installed, deleteFailed, failed, failing,
                   errs, call>>

\* A bug: an error is returned only for releases on the failed list.
FinishReadsList(w) ==
    /\ pc[w] = "finish"
    /\ errs' = errs \cup deleteFailed
    /\ failing' = failing \ {w}
    /\ job' = [job EXCEPT ![w] = None] /\ loaded' = [loaded EXCEPT ![w] = {}]
    /\ Goto(w, "idle")
    /\ UNCHANGED <<returned, todo, m, installed, deleted, deleteFailed, failed, call>>

\* postsync and cleanup hooks can only be logged; then the result.
DeleteFinish(w) ==
    /\ pc[w] = "finish"
    /\ errs' = IF w \in failing THEN errs \cup {job[w]} ELSE errs
    /\ failing' = failing \ {w}
    /\ job' = [job EXCEPT ![w] = None] /\ loaded' = [loaded EXCEPT ![w] = {}]
    /\ Goto(w, "idle")
    /\ UNCHANGED <<returned, todo, m, installed, deleted, deleteFailed, failed, call>>

DeleteStep(w) == \/ DeleteTake(w) \/ DeletePresync(w) \/ DeleteLockMutex(w) \/ DeleteUninstall(w)
                 \/ StoreAppend(w) \/ DeleteFinish(w)

DeleteReturn == /\ ~returned /\ todo = {} /\ \A w \in Workers : pc[w] = "idle"
                /\ returned' = TRUE
                /\ UNCHANGED <<todo, pc, job, loaded, m, installed, deleted, deleteFailed, failed,
                               failing, errs, call>>

DeleteDone == returned /\ UNCHANGED deleteVars

DeleteNext == (\E w \in pool : DeleteStep(w)) \/ DeleteReturn \/ DeleteDone

DeleteSpec == DeleteInit /\ [][DeleteNext]_deleteVars

----------------------------------------------------------------------------
(* One step per release: what the caller sees of the call.                  *)

\* Releases whose result has not been sent.
DeletePending == {r \in Releases : r \in todo \/ \E w \in Workers : job[w] = r}

\* What the cluster has for a release, once its result is known; all were there.
SeenInstalled ==
    [r \in Releases |-> IF r \in DeletePending \cup installed THEN "old" ELSE "absent"]

DeleteBatch == INSTANCE ReleaseBatch
                   WITH Watched <- {}, given <- Releases, wanted <- {},
                        left <- DeletePending, status <- SeenInstalled,
                        applied <- Releases \ (DeletePending \cup errs),
                        presumed <- {}, failed <- errs

----------------------------------------------------------------------------
(* Properties.                                                              *)

\* With the mutex or without, and whatever becomes of the lists, every release of the batch
\* ends once, with a result that is true of the cluster.
DeleteImplementsBatch == DeleteBatch!BatchSpec

\* The summary of a finished call lists exactly the releases that were uninstalled without
\* an error, none of them is left in the cluster, and what it lists as failed has an error.
DeletedListExact ==
    returned => /\ deleted = Releases \ errs
                /\ deleted \cap installed = {}
                /\ deleteFailed \subseteq errs

\* A release that is still installed has an error: an uninstall is never skipped silently,
\* whatever the list of failed releases says.
NothingLeftSilently == returned => installed \subseteq errs

=============================================================================
