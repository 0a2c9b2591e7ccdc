--------------------------- MODULE ReleaseWorkers ---------------------------
(***************************************************************************)
(* What the functions that change the releases of one DAG batch have in    *)
(* common (pkg/state/state.go): SyncReleases, DeleteReleasesForSync and    *)
(* DeleteReleases hand their releases to workers through a channel, and a  *)
(* worker keeps the error of the release it is at until it sends it as the *)
(* release's result.  Which worker gets which job, and when the call       *)
(* returns, is ScatterGather; here a worker takes any release that is left.*)
(***************************************************************************)

CONSTANTS
    Releases,   \* the releases of the batch
    Workers,    \* worker goroutines
    Faults,     \* which steps may fail
    Free, None

ASSUME ReleaseWorkersAssumption == Free \notin Workers /\ None \notin Releases

VARIABLES
    todo,       \* releases in the jobs channel
    pc, job,    \* per worker: where it is, and its release
    failing,    \* workers whose release has an error so far (relErr # nil)
    m,          \* the owner of the mutex around the affected releases, Free if none
    errs        \* releases for which an error was returned

May(fault) == fault \in Faults
Goto(w, label) == pc' = [pc EXCEPT ![w] = label]
=============================================================================
