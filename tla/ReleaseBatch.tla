---------------------------- MODULE ReleaseBatch ----------------------------
(***************************************************************************)
(* What a command relies on when it hands the releases of one DAG group to *)
(* SyncReleases, DeleteReleasesForSync or DeleteReleases                   *)
(* (pkg/state/state.go): every release ends once, on its own, either as it *)
(* was asked for or with an error, unless its helm was interrupted because *)
(* its resources looked converged; or, before any was touched, the values  *)
(* of some could not be prepared, which ends the call.                     *)
(* ReleaseSync and ReleaseDelete implement it with workers, locks, hooks   *)
(* and several calls of helm per release; Converge takes its steps.        *)
(***************************************************************************)

CONSTANTS Releases,
          Watched    \* releases whose helm may be interrupted (helmStuckGrace)

VARIABLES given,    \* the releases of the batch
          wanted,   \* releases that are to be installed, the others are to go
          left,     \* releases that have not ended
          status,   \* what the cluster has: "absent", "old" (not as asked for) or "new"
          applied,  \* releases that ended without an error
          presumed, \* the same, after their helm was interrupted
          failed    \* releases that ended with an error

batchVars == <<given, wanted, left, status, applied, presumed, failed>>

Statuses == {"absent", "old", "new"}

BatchInit == /\ given \subseteq Releases /\ wanted \subseteq Releases
             /\ status \in [Releases -> Statuses]
             /\ left = given /\ applied = {} /\ presumed = {} /\ failed = {}

Target(r) == IF r \in wanted THEN "new" ELSE "absent"

Succeed(r) ==
    /\ r \in left /\ left' = left \ {r}
    /\ status' = [status EXCEPT ![r] = Target(r)]
    /\ applied' = applied \cup {r} /\ UNCHANGED <<presumed, failed>>

\* An interrupted helm counts as a success, though it may have done nothing or left the release
\* pending.
Presume(r) ==
    /\ r \in left \cap wanted \cap Watched /\ left' = left \ {r}
    /\ \E s \in {status[r], "old", "new"} : status' = [status EXCEPT ![r] = s]
    /\ presumed' = presumed \cup {r} /\ UNCHANGED <<applied, failed>>

\* An upgrade that fails may have changed nothing, left a failed release, uninstalled the
\* release before it was to be reinstalled, or succeeded before its tracking or a hook
\* failed.  An uninstall that fails has been done or not.
Fail(r) ==
    /\ r \in left /\ left' = left \ {r}
    /\ \E s \in (IF r \in wanted THEN Statuses ELSE {status[r], "absent"}) :
         status' = [status EXCEPT ![r] = s]
    /\ failed' = failed \cup {r} /\ UNCHANGED <<applied, presumed>>

\* The flags or values files of some releases could not be made: nothing is run.
Abort ==
    /\ left = given /\ left' = {}
    /\ \E bad \in (SUBSET (left \cap wanted)) \ {{}} : failed' = failed \cup bad
    /\ UNCHANGED <<status, applied, presumed>>

BatchNext == /\ Abort \/ \E r \in Releases : Succeed(r) \/ Presume(r) \/ Fail(r)
             /\ UNCHANGED <<given, wanted>>

BatchSpec == BatchInit /\ [][BatchNext]_batchVars
=============================================================================
