----------------------- MODULE ReleaseWorkers_proofs -----------------------
(***************************************************************************)
(* Proofs about the workers that change the releases of a batch, for any   *)
(* number of releases and workers and any steps that may fail.             *)
(*                                                                         *)
(* First SyncReleases, with any charts, the uninstallation of a            *)
(* reinstallation included.  Then DeleteReleasesForSync and DeleteReleases *)
(* (names that begin with Delete are theirs): no uninstallation is skipped *)
(* silently by either, and what the summary says is exact if the call has  *)
(* a mutex or one worker (Alone): without either, appends to the list of   *)
(* deleted releases are lost.                                              *)
(*                                                                         *)
(* All of them implement ReleaseBatch, which is how Converge has them: a   *)
(* release ends in the step that sends its result, other steps are hidden. *)
(***************************************************************************)
EXTENDS ReleaseSync, ReleaseDelete, FiniteSetTheorems, TLAPS

----------------------------------------------------------------------------
(* The inductive invariant.                                                 *)

Nowhere(r) == \A l \in Lists : r \notin affected[l]
OnlyOn(list, r) == \A l \in Lists : r \in affected[l] <=> l = list
UpgradedAndFailed(r) == \A l \in Lists : r \in affected[l] <=> l \in {"Upgraded", "Failed"}

\* What the lists of the summary say of a release, and that it is so.
Listed(r) ==
    \/ Nowhere(r)
    \/ OnlyOn("Failed", r)
    \/ OnlyOn("Upgraded", r) /\ (cluster[r] = "new" \/ r \in killed)
    \/ OnlyOn("Reinstalled", r) /\ cluster[r] = "new"
    \/ OnlyOn("Deleted", r) /\ cluster[r] = "absent" /\ r \notin Desired
    \/ UpgradedAndFailed(r) /\ cluster[r] = "new" /\ r \in Tracked

AsAsked(r) ==
    IF r \in Desired
    THEN /\ cluster[r] = "new" \/ r \in killed
         /\ r \in affected["Upgraded"] \cup affected["Reinstalled"]
    ELSE cluster[r] = "absent" /\ r \notin affected["Failed"]

Lost(r) == r \in removed /\ cluster[r] # "new"

\* A release whose turn has not come, and one that a worker is done with.
Untouched(r) == Nowhere(r) /\ r \notin removed
Settled(r) == /\ Listed(r)
              /\ r \in errs \/ AsAsked(r)
              /\ Lost(r) => r \in affected["Failed"] /\ r \in errs

Standing ==
    \A r \in Releases :
        /\ r \in todo \/ main \in {"prepare", "aborted"} => Untouched(r)
        /\ main \in {"run", "returned"} /\ r \notin todo /\ (\A w \in Workers : job[w] # r)
              => Settled(r)

Phases ==
    /\ main # "run" => todo = {} /\ \A w \in Workers : pc[w] = "idle"
    /\ \A w \in Workers : pc[w] = "idle" => helm[w] = "none"

\* A release has one worker.
Jobs == \A w \in Workers :
    pc[w] # "idle" => /\ job[w] \in Releases /\ job[w] \notin todo
                      /\ \A v \in Workers : job[v] = job[w] => v = w

\* What a worker's place says of its release r.
AtWork(w, r) ==
    /\ pc[w] # "finish" => w \notin failing
    /\ pc[w] \in {"presync", "list"} => Untouched(r) /\ helm[w] = "none"
    /\ pc[w] = "list" => r \notin Desired
    /\ pc[w] = "relist" => Untouched(r) /\ r \in Reinstall /\ helm[w] = "forbidden"
    /\ pc[w] \in {"lock", "uninstall"} =>
          Untouched(r) /\ (r \in Desired => r \in Reinstall /\ helm[w] = "forbidden")
    /\ pc[w] \in {"sync", "helm"} =>
          /\ Nowhere(r) /\ r \in Desired /\ helm[w] \in {"none", "forbidden"}
          /\ helm[w] = "forbidden" => r \in Reinstall
          /\ r \in removed => helm[w] = "forbidden"
    /\ pc[w] = "record" =>
          /\ Nowhere(r) /\ r \in Desired
          /\ helm[w] \in {"ok", "reok"} => cluster[r] = "new"
          /\ helm[w] = "killed" => r \in killed
          /\ helm[w] = "reok" => r \in Reinstall
          /\ Lost(r) => helm[w] = "reerr"
    /\ pc[w] = "track" =>
          /\ r \in Desired /\ cluster[r] = "new"
          /\ OnlyOn("Upgraded", r) \/ (OnlyOn("Reinstalled", r) /\ r \in Reinstall)
    /\ pc[w] = "finish" =>
          /\ Listed(r)
          /\ w \in failing \/ AsAsked(r)
          /\ Lost(r) => r \in affected["Failed"] /\ w \in failing

Working == \A w \in Workers, r \in Releases : pc[w] # "idle" /\ job[w] = r => AtWork(w, r)

\* A helm that downloads its chart holds the lock of the chart.
Holding == \A w \in Workers :
    pc[w] = "helm" /\ RemoteChart[job[w]] # NoLock => opLock[RemoteChart[job[w]]] = w

IInv == TypeOK /\ Phases /\ Jobs /\ Standing /\ Working /\ Holding

----------------------------------------------------------------------------
(* A worker disturbs its own release only.                                  *)

\* A step of worker w for release r leaves the other workers and releases alone, and the
\* locks they hold.
OnlyFor(w, r) ==
    /\ main' = main
    /\ \A v \in Workers : v # w => /\ pc'[v] = pc[v] /\ job'[v] = job[v] /\ helm'[v] = helm[v]
                                   /\ v \in failing' <=> v \in failing
    /\ \A q \in Releases : q # r => /\ cluster'[q] = cluster[q]
                                    /\ q \in removed' <=> q \in removed
                                    /\ q \in killed' <=> q \in killed
                                    /\ q \in errs' <=> q \in errs
                                    /\ q \in todo' <=> q \in todo
                                    /\ \A l \in Lists : q \in affected'[l] <=> q \in affected[l]
    /\ \A c \in Charts, v \in Workers : v # w /\ opLock[c] = v => opLock'[c] = v

\* What is left to show of such a step: where worker w is, and what that says of r.
Turn(w, r) ==
    /\ r \notin todo
    /\ IF pc[w] = "idle" THEN helm[w] = "none" /\ Settled(r)
                         ELSE job[w] = r /\ AtWork(w, r)
    /\ pc[w] = "helm" /\ RemoteChart[r] # NoLock => opLock[RemoteChart[r]] = w

\* What is said of a release that a step leaves alone is as true after the step.
LEMMA Elsewhere ==
    ASSUME TypeOK, TypeOK', NEW w \in Workers, NEW r \in Releases, OnlyFor(w, r),
           NEW q \in Releases, q # r
    PROVE  /\ Untouched(q) => Untouched(q)'
           /\ Settled(q) => Settled(q)'
           /\ \A v \in Workers : v # w /\ AtWork(v, q) => AtWork(v, q)'
<1>1. /\ cluster'[q] = cluster[q]
      /\ q \in removed' <=> q \in removed
      /\ q \in killed' <=> q \in killed
      /\ q \in errs' <=> q \in errs
      /\ \A l \in Lists : q \in affected'[l] <=> q \in affected[l]
  BY DEF OnlyFor
<1>2. q \in affected'["Failed"] <=> q \in affected["Failed"]
  BY <1>1 DEF Lists
<1>3. /\ Nowhere(q) <=> Nowhere(q)'
      /\ UpgradedAndFailed(q) <=> UpgradedAndFailed(q)'
      /\ \A l \in Lists : OnlyOn(l, q) <=> OnlyOn(l, q)'
  BY <1>1 DEF Nowhere, UpgradedAndFailed, OnlyOn
<1>4. Untouched(q) <=> Untouched(q)'
  BY <1>1, <1>3 DEF Untouched
<1>5. Listed(q) <=> Listed(q)'
  BY <1>1, <1>3 DEF Listed, Lists
<1>6. AsAsked(q) <=> AsAsked(q)'
  BY <1>1 DEF AsAsked, Lists
<1>7. Lost(q) <=> Lost(q)'
  BY <1>1 DEF Lost
<1>8. Settled(q) <=> Settled(q)'
  BY <1>1, <1>2, <1>5, <1>6, <1>7 DEF Settled
<1>9. ASSUME NEW v \in Workers, v # w, AtWork(v, q)
      PROVE  AtWork(v, q)'
  <2>1. pc'[v] = pc[v] /\ helm'[v] = helm[v] /\ (v \in failing' <=> v \in failing)
    BY <1>9 DEF OnlyFor
  <2>2. OnlyOn("Upgraded", q) <=> OnlyOn("Upgraded", q)'
    BY <1>3 DEF Lists
  <2>3. OnlyOn("Reinstalled", q) <=> OnlyOn("Reinstalled", q)'
    BY <1>3 DEF Lists
  <2> QED
    BY <1>1, <1>2, <1>3, <1>4, <1>5, <1>6, <1>7, <1>9, <2>1, <2>2, <2>3 DEF AtWork
<1> QED BY <1>4, <1>8, <1>9

\* So that a step of a worker keeps the invariant if it keeps what concerns the worker.
LEMMA OneTurn ==
    ASSUME IInv, TypeOK', main = "run",
           NEW w \in Workers, NEW r \in Releases, OnlyFor(w, r), Turn(w, r)',
           \A v \in Workers : v # w => job[v] # r,
           pc[w] # "idle" => job[w] = r
    PROVE  IInv'
<1> USE DEF IInv
<1>0. main' = "run" /\ \A v \in Workers : v # w => pc'[v] = pc[v] /\ job'[v] = job[v]
  BY DEF OnlyFor
<1>1. Phases'
  BY <1>0 DEF Phases, OnlyFor, Turn
<1>2. \A v \in Workers : v # w => job'[v] # r
  BY <1>0
<1>3. pc'[w] = "idle" => job'[w] = None
  BY DEF TypeOK
<1>4. pc'[w] # "idle" => job'[w] = r
  BY DEF Turn
<1>5. r \notin todo'
  BY DEF Turn
<1>6. None \notin Releases
  BY ReleaseSyncAssumption, ReleaseWorkersAssumption
<1>7. Jobs'
  <2> SUFFICES ASSUME NEW v \in Workers, pc'[v] # "idle"
               PROVE  /\ job'[v] \in Releases /\ job'[v] \notin todo'
                      /\ \A u \in Workers : job'[u] = job'[v] => u = v
    BY DEF Jobs
  <2>1. CASE v = w
    BY <1>2, <1>4, <1>5, <2>1
  <2>2. CASE v # w
    <3>1. pc[v] # "idle" /\ job'[v] = job[v] /\ job[v] # r
      BY <1>0, <1>2, <2>2
    <3>2. job[v] \in Releases /\ job[v] \notin todo
      BY <3>1 DEF Jobs
    <3>3. job[v] \notin todo'
      BY <3>1, <3>2 DEF OnlyFor
    <3>4. \A u \in Workers : job[u] = job[v] => u = v
      BY <3>1 DEF Jobs
    <3>5. \A u \in Workers : job'[u] = job'[v] => u = v
      BY <1>0, <1>3, <1>4, <1>6, <3>1, <3>2, <3>4
    <3> QED BY <3>1, <3>2, <3>3, <3>5
  <2> QED BY <2>1, <2>2
<1>8. Standing'
  <2> SUFFICES ASSUME NEW q \in Releases
               PROVE  /\ q \in todo' => Untouched(q)'
                      /\ q \notin todo' /\ (\A v \in Workers : job'[v] # q) => Settled(q)'
    BY <1>0 DEF Standing
  <2>1. CASE q = r
    <3>1. (\A v \in Workers : job'[v] # q) => pc'[w] = "idle"
      BY <1>4, <2>1
    <3> QED BY <1>5, <2>1, <3>1 DEF Turn
  <2>2. CASE q # r
    <3>1. q \in todo' <=> q \in todo
      BY <2>2 DEF OnlyFor
    <3>2. (\A v \in Workers : job'[v] # q) => \A v \in Workers : job[v] # q
      <4>1. job[w] # q
        BY <1>6, <2>2 DEF TypeOK
      <4> QED BY <1>0, <4>1
    <3>3. q \in todo => Untouched(q)
      BY DEF Standing
    <3>4. q \notin todo /\ (\A v \in Workers : job[v] # q) => Settled(q)
      BY DEF Standing
    <3> QED BY <2>2, <3>1, <3>2, <3>3, <3>4, Elsewhere
  <2> QED BY <2>1, <2>2
<1>9. Working'
  <2> SUFFICES ASSUME NEW v \in Workers, NEW q \in Releases, pc'[v] # "idle", job'[v] = q
               PROVE  AtWork(v, q)'
    BY DEF Working
  <2>1. CASE v = w
    BY <1>4, <2>1 DEF Turn
  <2>2. CASE v # w
    <3>1. pc[v] # "idle" /\ job[v] = q /\ q # r
      BY <1>0, <1>2, <2>2
    <3>2. AtWork(v, q)
      BY <3>1 DEF Working
    <3> QED BY <2>2, <3>1, <3>2, Elsewhere
  <2> QED BY <2>1, <2>2
<1>10. Holding'
  <2> SUFFICES ASSUME NEW v \in Workers, pc'[v] = "helm", RemoteChart[job'[v]] # NoLock
               PROVE  opLock'[RemoteChart[job'[v]]] = v
    BY DEF Holding
  <2>1. CASE v = w
    BY <1>4, <2>1 DEF Turn
  <2>2. CASE v # w
    <3>1. pc[v] = "helm" /\ job'[v] = job[v]
      BY <1>0, <2>2
    <3>2. job[v] \in Releases
      BY <3>1 DEF Jobs
    <3>3. RemoteChart[job[v]] \in Charts /\ opLock[RemoteChart[job[v]]] = v
      BY <3>1, <3>2 DEF Holding, Charts
    <3> QED BY <2>2, <3>1, <3>3 DEF OnlyFor
  <2> QED BY <2>1, <2>2
<1> QED BY <1>1, <1>7, <1>8, <1>9, <1>10

----------------------------------------------------------------------------
(* The steps of a worker.                                                   *)

\* A worker that is not idle has a release of its own, and the call is running.
LEMMA HasRelease ==
    ASSUME IInv, NEW w \in Workers, pc[w] # "idle"
    PROVE  /\ main = "run"
           /\ \E r \in Releases : /\ job[w] = r /\ r \notin todo /\ AtWork(w, r)
                                 /\ \A v \in Workers : v # w => job[v] # r
<1>1. main = "run"
  BY DEF IInv, Phases
<1>2. /\ job[w] \in Releases /\ job[w] \notin todo
      /\ \A v \in Workers : v # w => job[v] # job[w]
  BY DEF IInv, Jobs
<1>3. \A r \in Releases : job[w] = r => AtWork(w, r)
  BY DEF IInv, Working
<1> QED BY <1>1, <1>2, <1>3

\* Steps of a worker keep the state well formed.
LEMMA StepTypes ==
    ASSUME IInv, NEW w \in Workers, Step(w)
    PROVE  TypeOK'
<1>1. TypeOK /\ (pc[w] # "idle" => job[w] \in Releases)
  BY DEF IInv, Jobs
<1>2. Tracked \subseteq Desired /\ Desired \subseteq Releases /\ Reinstall \subseteq Desired
  BY ReleaseSyncAssumption, ReleaseWorkersAssumption
<1> USE <1>1, <1>2 DEF TypeOK
<1>3. CASE Take(w)
  BY <1>3 DEF Take, Goto
<1>4. CASE Presync(w)
  BY <1>4 DEF Presync, Goto, Fail, workerVars
<1>5. CASE List(w)
  BY <1>5 DEF List, Goto, Fail, workerVars
<1>6. CASE LockMutex(w)
  BY <1>6 DEF LockMutex, Goto, workerVars
<1>7. CASE Uninstall(w)
  BY <1>7 DEF Uninstall, Goto, Fail, Add, Removal, Lists, workerVars
<1>8. CASE StartHelm(w)
  BY <1>8 DEF StartHelm, Goto, workerVars
<1>9. CASE EndHelm(w)
  <2>1. helm' \in [Workers -> {"none", "ok", "err", "forbidden", "killed", "reok", "reerr"}]
    BY <1>9 DEF EndHelm, HelmOutcomes
  <2>2. cluster' \in [Releases -> {"absent", "old", "failed", "new"}]
    BY <1>9 DEF EndHelm, Leaves
  <2>3. killed' \subseteq Tracked \ Reinstall
    BY <1>9 DEF EndHelm, HelmOutcomes
  <2> QED BY <1>9, <2>1, <2>2, <2>3 DEF EndHelm, Goto, workerVars
<1>10. CASE Record(w)
  BY <1>10 DEF Record, Goto, Fail, Add, Lists, workerVars
<1>11. CASE RecordReinstall(w)
  BY <1>11 DEF RecordReinstall, Goto, Fail, Add, Lists, workerVars
<1>12. CASE Track(w)
  BY <1>12 DEF Track, Goto, Fail, Add, Lists, workerVars
<1>13. CASE Finish(w)
  BY <1>13 DEF Finish, Goto, workerVars
<1> QED
  BY <1>3, <1>4, <1>5, <1>6, <1>7, <1>8, <1>9, <1>10, <1>11, <1>12, <1>13 DEF Step

\* presync hooks: on to the upgrade or to the list, or to the end with an error.
LEMMA PresyncKeeps ==
    ASSUME IInv, NEW w \in Workers, Presync(w)
    PROVE  IInv'
<1>1. pc[w] # "idle"
  BY DEF Presync
<1>2. PICK r \in Releases : /\ job[w] = r /\ r \notin todo /\ AtWork(w, r)
                            /\ \A v \in Workers : v # w => job[v] # r
  BY <1>1, HasRelease
<1>3. TypeOK /\ TypeOK' /\ main = "run"
  BY <1>1, HasRelease, StepTypes DEF Step, IInv
<1>4. OnlyFor(w, r)
  BY <1>2, <1>3 DEF OnlyFor, Presync, Goto, Fail, TypeOK, workerVars
<1>5. Turn(w, r)'
  BY <1>2, <1>3 DEF Turn, Presync, Goto, Fail, TypeOK, workerVars, AtWork, Untouched, Nowhere,
     Listed, OnlyOn, UpgradedAndFailed, AsAsked, Lost, Lists
<1> QED BY <1>2, <1>3, <1>4, <1>5, OneTurn

\* A release that is not there needs no uninstallation.
LEMMA ListKeeps ==
    ASSUME IInv, NEW w \in Workers, List(w)
    PROVE  IInv'
<1>1. pc[w] # "idle"
  BY DEF List
<1>2. PICK r \in Releases : /\ job[w] = r /\ r \notin todo /\ AtWork(w, r)
                            /\ \A v \in Workers : v # w => job[v] # r
  BY <1>1, HasRelease
<1>3. TypeOK /\ TypeOK' /\ main = "run"
  BY <1>1, HasRelease, StepTypes DEF Step, IInv
<1>4. OnlyFor(w, r)
  BY <1>2, <1>3 DEF OnlyFor, List, Goto, Fail, TypeOK, workerVars
<1>5. Turn(w, r)'
  <2>1. /\ Untouched(r) /\ helm' = helm /\ job'[w] = r /\ r \notin todo'
        /\ cluster' = cluster /\ removed' = removed /\ affected' = affected
    BY <1>1, <1>2 DEF List, AtWork, workerVars
  <2>2. Untouched(r)' /\ Listed(r)' /\ ~Lost(r)'
    BY <2>1 DEF Untouched, Nowhere, Listed, Lost, Lists
  <2>3. CASE failing' = failing \cup {w} /\ pc' = [pc EXCEPT ![w] = "finish"]
    BY <1>2, <1>3, <2>1, <2>2, <2>3 DEF Turn, AtWork, TypeOK
  <2>4. CASE cluster[r] = "absent" /\ failing' = failing
             /\ pc' = [pc EXCEPT ![w] = IF pc[w] = "list" THEN "finish" ELSE "sync"]
    <3>1. pc[w] = "list" => AsAsked(r)'
      BY <1>2, <2>1, <2>2, <2>4 DEF AtWork, AsAsked, Untouched, Nowhere, Lists
    <3> QED BY <1>2, <1>3, <2>1, <2>2, <2>4, <3>1, ReleaseSyncAssumption,
               ReleaseWorkersAssumption DEF Turn, AtWork, Untouched, TypeOK, List
  <2>5. CASE failing' = failing /\ pc' = [pc EXCEPT ![w] = "lock"]
    BY <1>2, <1>3, <2>1, <2>2, <2>5 DEF Turn, AtWork, TypeOK, List
  <2> QED BY <1>2, <2>3, <2>4, <2>5 DEF List, Goto, Fail
<1> QED BY <1>2, <1>3, <1>4, <1>5, OneTurn

\* The mutex is taken before the uninstallation.
LEMMA LockMutexKeeps ==
    ASSUME IInv, NEW w \in Workers, LockMutex(w)
    PROVE  IInv'
<1>1. pc[w] # "idle"
  BY DEF LockMutex
<1>2. PICK r \in Releases : /\ job[w] = r /\ r \notin todo /\ AtWork(w, r)
                            /\ \A v \in Workers : v # w => job[v] # r
  BY <1>1, HasRelease
<1>3. TypeOK /\ TypeOK' /\ main = "run"
  BY <1>1, HasRelease, StepTypes DEF Step, IInv
<1>4. OnlyFor(w, r)
  BY <1>2, <1>3 DEF OnlyFor, LockMutex, Goto, TypeOK, workerVars
<1>5. Turn(w, r)'
  BY <1>2, <1>3 DEF Turn, LockMutex, Goto, TypeOK, workerVars, AtWork, Untouched, Nowhere,
     Listed, OnlyOn, UpgradedAndFailed, AsAsked, Lost, Lists
<1> QED BY <1>2, <1>3, <1>4, <1>5, OneTurn

\* An uninstallation, that of a reinstallation included, whether it fails or not.
LEMMA UninstallKeeps ==
    ASSUME IInv, NEW w \in Workers, Uninstall(w)
    PROVE  IInv'
<1>1. pc[w] # "idle"
  BY DEF Uninstall
<1>2. PICK r \in Releases : /\ job[w] = r /\ r \notin todo /\ AtWork(w, r)
                            /\ \A v \in Workers : v # w => job[v] # r
  BY <1>1, HasRelease
<1>3. TypeOK /\ TypeOK' /\ main = "run"
  BY <1>1, HasRelease, StepTypes DEF Step, IInv
<1>4. OnlyFor(w, r)
  BY <1>2, <1>3 DEF OnlyFor, Uninstall, Goto, Fail, Add, Removal, Lists, TypeOK, workerVars
<1>5. Turn(w, r)'
  <2>1. /\ pc[w] = "uninstall" /\ Untouched(r) /\ helm' = helm /\ job'[w] = r /\ r \notin todo'
        /\ r \in Desired <=> r \in Reinstall
        /\ r \in Reinstall => helm[w] = "forbidden"
    BY <1>2, ReleaseSyncAssumption, ReleaseWorkersAssumption DEF Uninstall, AtWork, workerVars
  <2>2. r \in removed' => cluster'[r] = "absent" /\ r \in Reinstall
    BY <1>2, <2>1 DEF Uninstall, Untouched
  <2>3. CASE /\ Add("Failed", r) /\ failing' = failing \cup {w}
             /\ pc' = [pc EXCEPT ![w] = "finish"]
    <3>1. OnlyOn("Failed", r)' /\ r \in affected'["Failed"]
      BY <1>3, <2>1, <2>3 DEF Add, OnlyOn, Untouched, Nowhere, Lists, TypeOK
    <3> QED BY <1>3, <2>1, <2>3, <3>1 DEF Turn, AtWork, Listed, TypeOK
  <2>4. CASE /\ r \in Reinstall /\ affected' = affected /\ failing' = failing
             /\ pc' = [pc EXCEPT ![w] = "sync"]
    BY <1>2, <1>3, <2>1, <2>2, <2>4 DEF Turn, AtWork, Untouched, Nowhere, TypeOK
  <2>5. CASE /\ r \notin Reinstall /\ Add("Deleted", r) /\ cluster'[r] = "absent"
             /\ failing' = failing /\ pc' = [pc EXCEPT ![w] = "finish"]
    <3>1. OnlyOn("Deleted", r)' /\ r \notin affected'["Failed"]
      BY <1>3, <2>1, <2>5 DEF Add, OnlyOn, Untouched, Nowhere, Lists, TypeOK
    <3>2. Listed(r)' /\ AsAsked(r)' /\ ~Lost(r)'
      BY <2>1, <2>2, <2>5, <3>1 DEF Listed, AsAsked, Lost
    <3> QED BY <1>3, <2>1, <2>5, <3>2 DEF Turn, AtWork, TypeOK
  <2> QED BY <1>2, <1>3, <2>3, <2>4, <2>5 DEF Uninstall, Goto, Fail, TypeOK
<1> QED BY <1>2, <1>3, <1>4, <1>5, OneTurn

\* helm starts when the lock of its chart is free, or it needs none.
LEMMA StartHelmKeeps ==
    ASSUME IInv, NEW w \in Workers, StartHelm(w)
    PROVE  IInv'
<1>1. pc[w] # "idle"
  BY DEF StartHelm
<1>2. PICK r \in Releases : /\ job[w] = r /\ r \notin todo /\ AtWork(w, r)
                            /\ \A v \in Workers : v # w => job[v] # r
  BY <1>1, HasRelease
<1>3. TypeOK /\ TypeOK' /\ main = "run"
  BY <1>1, HasRelease, StepTypes DEF Step, IInv
<1>4. OnlyFor(w, r)
  BY <1>2, <1>3, ReleaseSyncAssumption, ReleaseWorkersAssumption
  DEF OnlyFor, StartHelm, Goto, TypeOK, workerVars
<1>5. Turn(w, r)'
  <2>1. AtWork(w, r)' /\ pc'[w] = "helm" /\ job'[w] = r /\ r \notin todo'
    BY <1>2, <1>3 DEF StartHelm, Goto, TypeOK, workerVars, AtWork, Nowhere
  <2>2. RemoteChart[r] # NoLock => opLock'[RemoteChart[r]] = w
    BY <1>2, <1>3 DEF StartHelm, Charts, TypeOK
  <2> QED BY <2>1, <2>2 DEF Turn
<1> QED BY <1>2, <1>3, <1>4, <1>5, OneTurn

\* Whatever helm reports.
LEMMA EndHelmKeeps ==
    ASSUME IInv, NEW w \in Workers, EndHelm(w)
    PROVE  IInv'
<1>1. pc[w] # "idle"
  BY DEF EndHelm
<1>2. PICK r \in Releases : /\ job[w] = r /\ r \notin todo /\ AtWork(w, r)
                            /\ \A v \in Workers : v # w => job[v] # r
  BY <1>1, HasRelease
<1>3. TypeOK /\ TypeOK' /\ main = "run"
  BY <1>1, HasRelease, StepTypes DEF Step, IInv
<1>4. OnlyFor(w, r)
  BY <1>2, <1>3 DEF OnlyFor, EndHelm, Goto, TypeOK, workerVars
<1>5. Turn(w, r)'
  <2>1. PICK o \in HelmOutcomes(w) :
          /\ helm'[w] = o /\ cluster'[r] \in Leaves(o, r)
          /\ o = "killed" => r \in killed'
          /\ pc'[w] = IF o = "forbidden" THEN "relist" ELSE "record"
    BY <1>2, <1>3 DEF EndHelm, Goto, TypeOK
  <2>2. /\ pc[w] = "helm" /\ w \notin failing /\ Nowhere(r) /\ r \in Desired
        /\ helm[w] \in {"none", "forbidden"} /\ (r \in removed => helm[w] = "forbidden")
        /\ helm[w] = "forbidden" => r \in Reinstall
    BY <1>2 DEF EndHelm, AtWork
  <2>3. /\ job'[w] = r /\ w \notin failing' /\ Nowhere(r)' /\ r \notin todo'
        /\ removed' = removed /\ removed \subseteq Reinstall
    BY <1>2, <1>3, <2>2 DEF EndHelm, Nowhere, workerVars, TypeOK
  <2>4. CASE o = "forbidden"
    <3>1. r \in Reinstall /\ helm[w] = "none"
      BY <1>2, <2>1, <2>2, <2>4 DEF HelmOutcomes
    <3> QED BY <2>1, <2>2, <2>3, <2>4, <3>1 DEF Turn, AtWork, Untouched
  <2>5. CASE o # "forbidden"
    <3>1. /\ o \in {"ok", "reok"} => cluster'[r] = "new"
          /\ o = "killed" => r \in killed'
      BY <2>1 DEF Leaves
    <3>2. o = "reok" => r \in Reinstall
      BY <2>1, <2>2 DEF HelmOutcomes
    <3>3. Lost(r)' => o = "reerr"
      BY <1>2, <2>1, <2>2, <2>3, <2>5, <3>1 DEF Lost, HelmOutcomes
    <3> QED BY <2>1, <2>2, <2>3, <2>5, <3>1, <3>2, <3>3 DEF Turn, AtWork
  <2> QED BY <2>4, <2>5
<1> QED BY <1>2, <1>3, <1>4, <1>5, OneTurn

\* The first upgrade is put on a list.
LEMMA RecordKeeps ==
    ASSUME IInv, NEW w \in Workers, Record(w)
    PROVE  IInv'
<1>1. pc[w] # "idle"
  BY DEF Record
<1>2. PICK r \in Releases : /\ job[w] = r /\ r \notin todo /\ AtWork(w, r)
                            /\ \A v \in Workers : v # w => job[v] # r
  BY <1>1, HasRelease
<1>3. TypeOK /\ TypeOK' /\ main = "run"
  BY <1>1, HasRelease, StepTypes DEF Step, IInv
<1>4. OnlyFor(w, r)
  BY <1>2, <1>3 DEF OnlyFor, Record, Goto, Fail, Add, Lists, TypeOK, workerVars
<1>5. Turn(w, r)'
  BY <1>2, <1>3 DEF Turn, Record, Goto, Fail, Add, Lists, TypeOK, workerVars, AtWork, Untouched,
     Nowhere, Listed, OnlyOn, UpgradedAndFailed, AsAsked, Lost, Lists
<1> QED BY <1>2, <1>3, <1>4, <1>5, OneTurn

\* The upgrade after an uninstallation is put on a list.
LEMMA RecordReinstallKeeps ==
    ASSUME IInv, NEW w \in Workers, RecordReinstall(w)
    PROVE  IInv'
<1>1. pc[w] # "idle"
  BY DEF RecordReinstall
<1>2. PICK r \in Releases : /\ job[w] = r /\ r \notin todo /\ AtWork(w, r)
                            /\ \A v \in Workers : v # w => job[v] # r
  BY <1>1, HasRelease
<1>3. TypeOK /\ TypeOK' /\ main = "run"
  BY <1>1, HasRelease, StepTypes DEF Step, IInv
<1>4. OnlyFor(w, r)
  BY <1>2, <1>3 DEF OnlyFor, RecordReinstall, Goto, Fail, Add, Lists, TypeOK, workerVars
<1>5. Turn(w, r)'
  BY <1>2, <1>3 DEF Turn, RecordReinstall, Goto, Fail, Add, Lists, TypeOK, workerVars, AtWork,
     Untouched, Nowhere, Listed, OnlyOn, UpgradedAndFailed, AsAsked, Lost, Lists
<1> QED BY <1>2, <1>3, <1>4, <1>5, OneTurn

\* Tracking ends, with an error or without.
LEMMA TrackKeeps ==
    ASSUME IInv, NEW w \in Workers, Track(w)
    PROVE  IInv'
<1>1. pc[w] # "idle"
  BY DEF Track
<1>2. PICK r \in Releases : /\ job[w] = r /\ r \notin todo /\ AtWork(w, r)
                            /\ \A v \in Workers : v # w => job[v] # r
  BY <1>1, HasRelease
<1>3. TypeOK /\ TypeOK' /\ main = "run"
  BY <1>1, HasRelease, StepTypes DEF Step, IInv
<1>4. OnlyFor(w, r)
  BY <1>2, <1>3 DEF OnlyFor, Track, Goto, Fail, Add, Lists, TypeOK, workerVars
<1>5. Turn(w, r)'
  BY <1>2, <1>3 DEF Turn, Track, Goto, Fail, Add, Lists, TypeOK, workerVars, AtWork, Untouched,
     Nowhere, Listed, OnlyOn, UpgradedAndFailed, AsAsked, Lost, Lists
<1> QED BY <1>2, <1>3, <1>4, <1>5, OneTurn

\* The hooks at the end, and the result.
LEMMA FinishKeeps ==
    ASSUME IInv, NEW w \in Workers, Finish(w)
    PROVE  IInv'
<1>1. pc[w] # "idle"
  BY DEF Finish
<1>2. PICK r \in Releases : /\ job[w] = r /\ r \notin todo /\ AtWork(w, r)
                            /\ \A v \in Workers : v # w => job[v] # r
  BY <1>1, HasRelease
<1>3. TypeOK /\ TypeOK' /\ main = "run"
  BY <1>1, HasRelease, StepTypes DEF Step, IInv
<1>4. OnlyFor(w, r)
  BY <1>2, <1>3 DEF OnlyFor, Finish, Goto, TypeOK, workerVars
<1>5. Turn(w, r)'
  BY <1>2, <1>3 DEF Turn, Finish, Goto, TypeOK, workerVars, AtWork, Settled, Untouched, Nowhere,
     Listed, OnlyOn, UpgradedAndFailed, AsAsked, Lost, Lists
<1> QED BY <1>2, <1>3, <1>4, <1>5, OneTurn

\* A worker takes a release.
LEMMA TakeKeeps ==
    ASSUME IInv, NEW w \in Workers, Take(w)
    PROVE  IInv'
<1>1. PICK r \in todo : todo' = todo \ {r} /\ job' = [job EXCEPT ![w] = r]
  BY DEF Take
<1>2. TypeOK /\ TypeOK' /\ main = "run" /\ pc[w] = "idle"
  BY StepTypes DEF Step, IInv, Take
<1>3. r \in Releases /\ Untouched(r) /\ helm[w] = "none"
  BY <1>2 DEF IInv, TypeOK, Standing, Phases
<1>4. \A v \in Workers : job[v] # r
  BY <1>2, <1>3, ReleaseSyncAssumption, ReleaseWorkersAssumption DEF IInv, Jobs, TypeOK
<1>5. OnlyFor(w, r)
  BY <1>1, <1>2 DEF OnlyFor, Take, Goto, TypeOK
<1>6. Turn(w, r)'
  <2>1. Untouched(r)' /\ helm' = helm /\ failing' = failing /\ w \notin failing
        /\ pc'[w] = "presync" /\ job'[w] = r
    BY <1>1, <1>2, <1>3 DEF Take, Goto, Untouched, Nowhere, TypeOK
  <2> QED BY <1>1, <1>3, <2>1 DEF Turn, AtWork
<1> QED BY <1>2, <1>3, <1>4, <1>5, <1>6, OneTurn

----------------------------------------------------------------------------
(* The call.                                                                *)

\* Before anything runs, and after everything has, no worker is concerned.
LEMMA InitIInv == Init => IInv
<1> SUFFICES ASSUME Init
             PROVE  IInv
  OBVIOUS
<1>1. TypeOK
  BY DEF Init, TypeOK, Lists
<1>2. Phases /\ Jobs /\ Working /\ Holding
  BY DEF Init, Phases, Jobs, Working, Holding
<1>3. Standing
  BY DEF Init, Standing, Untouched, Nowhere, Lists
<1> QED BY <1>1, <1>2, <1>3 DEF IInv

\* The preparation hands all releases to the workers, untouched.
LEMMA PrepareKeeps ==
    ASSUME IInv, Prepare
    PROVE  IInv'
<1>1. TypeOK /\ main = "prepare" /\ \A w \in Workers : pc[w] = "idle" /\ job[w] = None
  BY DEF IInv, TypeOK, Phases, Prepare
<1>2. /\ \/ main' = "run" /\ todo' = Releases
         \/ main' = "aborted" /\ todo' = todo
      /\ UNCHANGED <<pc, job, failing, m, opLock, helm, start, cluster, removed, killed,
                  affected>>
  BY DEF Prepare
<1>3. TypeOK'
  <2>1. errs' \subseteq Releases /\ valuesFiles' \subseteq Releases
    BY <1>1, ReleaseSyncAssumption, ReleaseWorkersAssumption DEF Prepare, TypeOK
  <2> QED BY <1>1, <1>2, <2>1 DEF TypeOK
<1>4. Phases' /\ Jobs' /\ Working' /\ Holding'
  BY <1>1, <1>2 DEF IInv, Phases, Jobs, Working, Holding
<1>5. Standing'
  <2>1. \A r \in Releases : Untouched(r) <=> Untouched(r)'
    BY <1>2 DEF Untouched, Nowhere
  <2>2. \A r \in Releases : Untouched(r)
    BY <1>1 DEF IInv, Standing
  <2> QED BY <1>2, <2>1, <2>2 DEF Standing
<1> QED BY <1>3, <1>4, <1>5 DEF IInv

\* The call returns when every release is settled.
LEMMA ReturnKeeps ==
    ASSUME IInv, Return
    PROVE  IInv'
<1>1. /\ main = "run" /\ todo = {} /\ main' = "returned" /\ valuesFiles' = {}
      /\ \A w \in Workers : pc[w] = "idle"
      /\ UNCHANGED <<todo, pc, job, failing, m, opLock, helm, start, cluster, removed, killed,
                     affected, errs>>
  BY DEF Return
<1>2. TypeOK'
  BY <1>1 DEF IInv, TypeOK
<1>3. Phases' /\ Jobs' /\ Working' /\ Holding'
  BY <1>1 DEF IInv, Phases, Jobs, Working, Holding
<1>4. Standing'
  <2>1. \A r \in Releases : Settled(r) <=> Settled(r)'
    BY <1>1 DEF Settled, Listed, Nowhere, OnlyOn, UpgradedAndFailed, AsAsked, Lost
  <2> QED BY <1>1, <2>1 DEF IInv, Standing
<1> QED BY <1>2, <1>3, <1>4 DEF IInv

\* Every step keeps the invariant.
LEMMA Inductive == IInv /\ [Next]_vars => IInv'
<1> SUFFICES ASSUME IInv, [Next]_vars
             PROVE  IInv'
  OBVIOUS
<1>1. CASE Prepare
  BY <1>1, PrepareKeeps
<1>2. ASSUME NEW w \in Workers, Step(w)
      PROVE  IInv'
  BY <1>2, TakeKeeps, PresyncKeeps, ListKeeps, LockMutexKeeps, UninstallKeeps, StartHelmKeeps,
     EndHelmKeeps, RecordKeeps, RecordReinstallKeeps, TrackKeeps, FinishKeeps DEF Step
<1>3. CASE Return
  BY <1>3, ReturnKeeps
<1>4. CASE UNCHANGED vars
  <2>1. \A r \in Releases : /\ Untouched(r) <=> Untouched(r)'
                            /\ Settled(r) <=> Settled(r)'
                            /\ \A w \in Workers : AtWork(w, r) <=> AtWork(w, r)'
    BY <1>4 DEF vars, Untouched, Settled, AtWork, Listed, Nowhere, OnlyOn, UpgradedAndFailed,
                AsAsked, Lost
  <2>2. TypeOK' /\ Phases' /\ Jobs' /\ Holding'
    BY <1>4 DEF IInv, vars, TypeOK, Phases, Jobs, Holding
  <2>3. Standing' /\ Working'
    BY <1>4, <2>1 DEF IInv, vars, Standing, Working
  <2> QED BY <2>2, <2>3 DEF IInv
<1> QED BY <1>1, <1>2, <1>3, <1>4 DEF Next, Done

\* The inductive invariant holds in every state of the specification.
LEMMA Invariant == Spec => []IInv
<1> QED BY InitIInv, Inductive, PTL DEF Spec

----------------------------------------------------------------------------
(* The theorems.                                                            *)

\* The state of a call is well formed, whatever the releases, the workers and the failures.
THEOREM TypeCorrect == Spec => []TypeOK
<1>1. IInv => TypeOK
  BY DEF IInv
<1> QED BY <1>1, Invariant, PTL

\* The only silent failure is that of an interrupted helm: any other release without an error is
\* as it was asked for, and the summary lists it so (SyncReleases).
THEOREM FailuresReported == Spec => []EveryFailureReported
<1>1. IInv => EveryFailureReported
  <2> SUFFICES ASSUME IInv, main = "returned", NEW r \in Releases, r \notin errs
               PROVE  AsAsked(r)
    BY DEF EveryFailureReported, AsAsked
  <2>1. todo = {} /\ \A w \in Workers : job[w] # r
    BY ReleaseSyncAssumption, ReleaseWorkersAssumption DEF IInv, Phases, TypeOK
  <2> QED BY <2>1 DEF IInv, Standing, Settled
<1> QED BY <1>1, Invariant, PTL

\* What the lists say of a release holds at every moment, while workers add to them
\* concurrently (AffectedReleases).
LEMMA EveryoneListed ==
    ASSUME IInv, NEW r \in Releases
    PROVE  Listed(r)
<1>1. CASE r \in todo \/ main \in {"prepare", "aborted"}
  BY <1>1 DEF IInv, Standing, Untouched, Listed
<1>2. CASE \E w \in Workers : job[w] = r
  <2>1. PICK w \in Workers : job[w] = r
    BY <1>2
  <2>2. pc[w] # "idle" /\ AtWork(w, r)
    BY <2>1, ReleaseSyncAssumption, ReleaseWorkersAssumption DEF IInv, TypeOK, Working
  <2>3. CASE pc[w] = "track"
    <3>1. OnlyOn("Upgraded", r) \/ OnlyOn("Reinstalled", r)
      BY <2>2, <2>3 DEF AtWork
    <3> QED BY <2>2, <2>3, <3>1 DEF AtWork, Listed
  <2>4. CASE pc[w] = "finish"
    BY <2>2, <2>4 DEF AtWork
  <2>5. CASE pc[w] \notin {"track", "finish"}
    <3>1. pc[w] \in {"presync", "list", "sync", "helm", "record", "relist", "lock", "uninstall"}
      BY <2>2, <2>5 DEF IInv, TypeOK
    <3>2. Nowhere(r)
      BY <2>2, <3>1 DEF AtWork, Untouched
    <3> QED BY <3>2 DEF Listed
  <2> QED BY <2>3, <2>4, <2>5
<1>3. CASE r \notin todo /\ main \in {"run", "returned"} /\ \A w \in Workers : job[w] # r
  BY <1>3 DEF IInv, Standing, Settled
<1>4. main \in {"prepare", "run", "returned", "aborted"}
  BY DEF IInv, TypeOK
<1> QED BY <1>1, <1>2, <1>3, <1>4

\* A release that was uninstalled to be installed again, and is not, is reported, at whichever
\* step it was lost (performSyncOrReinstallOfRelease).
LEMMA LossListed == IInv => NothingLostByReinstall
<1> SUFFICES ASSUME IInv, main = "returned", NEW r \in Reinstall, Lost(r)
             PROVE  r \in affected["Failed"] \cap errs
  BY DEF NothingLostByReinstall, Lost
<1>1. r \in Releases
  BY ReleaseSyncAssumption, ReleaseWorkersAssumption
<1>2. todo = {} /\ \A w \in Workers : job[w] # r
  BY <1>1, ReleaseSyncAssumption, ReleaseWorkersAssumption DEF IInv, Phases, TypeOK
<1> QED BY <1>1, <1>2 DEF IInv, Standing, Settled

THEOREM LossesReported == Spec => []NothingLostByReinstall
<1> QED BY LossListed, Invariant, PTL

\* The summary never contradicts itself, nor the cluster unless kubedog has interrupted the helm
\* of the release, nor hides a loss.
THEOREM SummaryTrue == Spec => []SummaryMatchesCluster
<1>1. IInv => SummaryMatchesCluster
  <2> SUFFICES ASSUME IInv, NEW r \in Releases
               PROVE  LET on == {l \in Lists : r \in affected[l]} IN
                      /\ Cardinality(on) <= 1 \/ (on = {"Upgraded", "Failed"} /\ r \in Tracked)
                      /\ on \cap {"Upgraded", "Reinstalled"} # {} =>
                            cluster[r] = "new" \/ r \in killed
                      /\ "Deleted" \in on => cluster[r] = "absent" /\ r \notin Desired
    BY LossListed DEF SummaryMatchesCluster
  <2> DEFINE on == {l \in Lists : r \in affected[l]}
  <2>1. Listed(r)
    BY EveryoneListed
  <2>2. Nowhere(r) => on = {}
    BY DEF Nowhere
  <2>3. \A l \in Lists : OnlyOn(l, r) => on = {l}
    BY DEF OnlyOn
  <2>4. UpgradedAndFailed(r) => on = {"Upgraded", "Failed"}
    BY DEF UpgradedAndFailed, Lists
  <2>5. Cardinality({}) = 0 /\ \A l : Cardinality({l}) = 1
    BY FS_EmptySet, FS_Singleton
  <2> HIDE DEF on
  <2>6. Cardinality(on) <= 1 \/ (on = {"Upgraded", "Failed"} /\ r \in Tracked)
    <3>1. on = {} \/ (\E l : on = {l}) \/ (on = {"Upgraded", "Failed"} /\ r \in Tracked)
      BY <2>1, <2>2, <2>3, <2>4 DEF Listed, Lists
    <3>2. on = {} => Cardinality(on) <= 1
      BY <2>5
    <3>3. (\E l : on = {l}) => Cardinality(on) <= 1
      BY <2>5
    <3> QED BY <3>1, <3>2, <3>3
  <2>7. /\ on \cap {"Upgraded", "Reinstalled"} # {} => cluster[r] = "new" \/ r \in killed
        /\ "Deleted" \in on => cluster[r] = "absent" /\ r \notin Desired
    BY <2>1, <2>2, <2>3, <2>4 DEF Listed, Lists
  <2> QED BY <2>6, <2>7 DEF on
<1> QED BY <1>1, Invariant, PTL

\* No two helms download one chart at the same time (withChartOperationLock).
THEOREM ChartsExclusive == Spec => []ChartOpsExclusive
<1>1. IInv => ChartOpsExclusive
  <2> SUFFICES ASSUME IInv, NEW v \in Workers, NEW w \in Workers, v # w,
                      pc[v] = "helm", pc[w] = "helm", RemoteChart[job[v]] # NoLock,
                      RemoteChart[job[v]] = RemoteChart[job[w]]
               PROVE  FALSE
    BY DEF ChartOpsExclusive
  <2> QED BY DEF IInv, Holding
<1> QED BY <1>1, Invariant, PTL

----------------------------------------------------------------------------
(* One step per release: SyncReleases implements ReleaseBatch.              *)

\* What the mapping needs besides: a release without a result has no error, only an
\* uninstallation disturbs one that is not desired or removes one, and nothing is done before
\* the releases are prepared.
MapInv ==
    /\ \A r \in Pending : r \notin errs
    /\ \A r \in Releases \ Desired : cluster[r] \in {start[r], "absent"}
    /\ \A r \in Desired \ Reinstall : cluster[r] = "absent" => start[r] = "absent"
    /\ main \in {"prepare", "aborted"} => cluster = start /\ killed = {}

\* A step between taking a release and sending its result concerns that release only, and
\* does not show.
LEMMA BetweenSteps ==
    ASSUME IInv, NEW w \in Workers, Step(w), ~Take(w), ~Finish(w)
    PROVE  /\ main = "run" /\ UNCHANGED <<main, todo, job, errs, start>>
           /\ \E r \in Releases :
                /\ job[w] = r
                /\ \A q \in Releases : q # r => cluster'[q] = cluster[q]
                /\ killed' \in {killed, killed \cup {r}}
                /\ r \notin Desired => cluster'[r] \in {cluster[r], "absent"}
                /\ r \in Desired \ Reinstall /\ cluster'[r] = "absent" => cluster[r] = "absent"
<1>1. pc[w] # "idle"
  BY DEF Step, Presync, List, LockMutex, Uninstall, StartHelm, EndHelm, Record,
         RecordReinstall, Track
<1>2. PICK r \in Releases : job[w] = r /\ AtWork(w, r)
  BY <1>1, HasRelease
<1>3. main = "run" /\ TypeOK
  BY <1>1, HasRelease DEF IInv
<1>4. UNCHANGED <<main, todo, job, errs, start>>
  BY DEF Step, Presync, List, LockMutex, Uninstall, StartHelm, EndHelm, Record,
         RecordReinstall, Track, workerVars
<1>5. \/ cluster' = cluster
      \/ pc[w] = "uninstall" /\ cluster' = [cluster EXCEPT ![r] = "absent"]
      \/ pc[w] = "helm" /\ \E s \in {cluster[r], "failed", "new"} :
                              cluster' = [cluster EXCEPT ![r] = s]
  <2>1. CASE Uninstall(w)
    BY <1>2, <2>1 DEF Uninstall, Removal
  <2>2. CASE EndHelm(w)
    BY <1>2, <2>2 DEF EndHelm, Leaves
  <2>3. CASE ~Uninstall(w) /\ ~EndHelm(w)
    BY <2>3 DEF Step, Presync, List, LockMutex, StartHelm, Record, RecordReinstall, Track
  <2> QED BY <2>1, <2>2, <2>3
<1>6. pc[w] = "helm" => r \in Desired
  BY <1>2 DEF AtWork
<1>10. pc[w] = "uninstall" => r \notin Desired \ Reinstall
  BY <1>2 DEF AtWork
<1>7. \A q \in Releases : q # r => cluster'[q] = cluster[q]
  BY <1>3, <1>5 DEF TypeOK
<1>8. r \notin Desired => cluster'[r] \in {cluster[r], "absent"}
  BY <1>3, <1>5, <1>6 DEF TypeOK
<1>9. r \in Desired \ Reinstall /\ cluster'[r] = "absent" => cluster[r] = "absent"
  BY <1>3, <1>5, <1>10 DEF TypeOK
<1>11. killed' \in {killed, killed \cup {r}}
  BY <1>2 DEF Step, Presync, List, LockMutex, Uninstall, StartHelm, EndHelm, Record,
         RecordReinstall, Track
<1> QED BY <1>2, <1>3, <1>4, <1>7, <1>8, <1>9, <1>11

\* Taking a release does not show either.
LEMMA TakeHidden ==
    ASSUME IInv, NEW w \in Workers, Take(w)
    PROVE  /\ main = "run" /\ Pending' = Pending
           /\ UNCHANGED <<main, errs, start, cluster, killed>>
<1>1. PICK r \in todo : todo' = todo \ {r} /\ job' = [job EXCEPT ![w] = r]
  BY DEF Take
<1>2. job \in [Workers -> Releases \cup {None}] /\ todo \subseteq Releases /\ job[w] = None
  BY DEF IInv, TypeOK, Take
<1>3. main = "run" /\ UNCHANGED <<main, errs, start, cluster, killed>>
  BY DEF Take
<1>4. \A q \in Releases : (\E v \in Workers : job'[v] = q) <=> q = r \/ \E v \in Workers : job[v] = q
  BY <1>1, <1>2, ReleaseWorkersAssumption
<1> QED BY <1>1, <1>2, <1>3, <1>4 DEF Pending

\* The result of a release is sent.
LEMMA ResultSent ==
    ASSUME IInv, NEW w \in Workers, Finish(w)
    PROVE  /\ main = "run" /\ UNCHANGED <<main, start, cluster, killed>>
           /\ \E r \in Pending :
                /\ Pending' = Pending \ {r}
                /\ \/ errs' = errs \cup {r}
                   \/ errs' = errs /\ AsAsked(r)
<1>1. pc[w] # "idle"
  BY DEF Finish
<1>2. PICK r \in Releases : /\ job[w] = r /\ r \notin todo /\ AtWork(w, r)
                            /\ \A v \in Workers : v # w => job[v] # r
  BY <1>1, HasRelease
<1>3. main = "run" /\ UNCHANGED <<main, todo, start, cluster, killed>>
  BY <1>1, HasRelease DEF Finish, workerVars
<1>4. job' = [job EXCEPT ![w] = None] /\ job \in [Workers -> Releases \cup {None}]
  BY DEF Finish, IInv, TypeOK
<1>5. \A q \in Releases :
        (\E v \in Workers : job'[v] = q) <=> q # r /\ \E v \in Workers : job[v] = q
  BY <1>2, <1>4, ReleaseWorkersAssumption
<1>6. r \in Pending /\ Pending' = Pending \ {r}
  BY <1>2, <1>3, <1>5 DEF Pending
<1>7. errs' = errs \cup {r} \/ (errs' = errs /\ w \notin failing)
  BY <1>2 DEF Finish
<1>8. w \in failing \/ AsAsked(r)
  BY <1>2 DEF AtWork, Finish
<1> QED BY <1>3, <1>6, <1>7, <1>8

\* The steps that have nothing to do with one release.
LEMMA CallSteps ==
    ASSUME IInv, MapInv, Return \/ UNCHANGED vars
    PROVE  /\ MapInv' /\ Pending' = Pending
           /\ (main' = "aborted") = (main = "aborted") /\ UNCHANGED <<errs, start, cluster, killed>>
<1>1. /\ UNCHANGED <<errs, start, cluster, killed, todo, job>>
      /\ (main' = "aborted") = (main = "aborted") /\ (main' = "prepare") = (main = "prepare")
  BY DEF Return, vars
<1>2. Pending' = Pending
  BY <1>1 DEF Pending
<1>3. main' \in {"prepare", "aborted"} => main \in {"prepare", "aborted"}
  BY <1>1
<1> QED BY <1>1, <1>2, <1>3 DEF MapInv

LEMMA MapInitial == Init => MapInv
<1> QED BY DEF Init, MapInv

\* Every step keeps it.
LEMMA MapInductive == IInv /\ MapInv /\ [Next]_vars => MapInv'
<1> SUFFICES ASSUME IInv, MapInv, [Next]_vars
             PROVE  MapInv'
  OBVIOUS
<1>1. CASE Prepare
  <2>1. UNCHANGED <<start, cluster, killed, job>> /\ start = cluster /\ killed = {}
    BY <1>1 DEF Prepare, MapInv
  <2>2. \A w \in Workers : job[w] = None
    BY <1>1 DEF IInv, TypeOK, Phases, Prepare
  <2>3. \/ main' = "run" /\ errs' = {}
        \/ main' = "aborted" /\ todo' = {}
    BY <1>1 DEF Prepare, IInv, Phases
  <2>4. \A r \in Pending' : r \notin errs'
    BY <2>1, <2>2, <2>3, ReleaseWorkersAssumption DEF Pending
  <2> QED BY <2>1, <2>4 DEF MapInv
<1>2. ASSUME NEW w \in Workers, Step(w)
      PROVE  MapInv'
  <2>1. CASE Take(w)
    <3>1. main = "run" /\ Pending' = Pending /\ UNCHANGED <<main, errs, start, cluster, killed>>
      BY <2>1, TakeHidden
    <3> QED BY <3>1 DEF MapInv
  <2>2. CASE Finish(w)
    <3>1. main = "run" /\ UNCHANGED <<main, start, cluster, killed>>
      BY <2>2, ResultSent
    <3>2. PICK r \in Pending : /\ Pending' = Pending \ {r}
                               /\ errs' = errs \cup {r} \/ errs' = errs
      BY <2>2, ResultSent
    <3> QED BY <3>1, <3>2 DEF MapInv
  <2>3. CASE ~Take(w) /\ ~Finish(w)
    <3>1. main = "run" /\ UNCHANGED <<main, todo, job, errs, start>>
      BY <1>2, <2>3, BetweenSteps
    <3>2. PICK r \in Releases :
            /\ job[w] = r
            /\ \A q \in Releases : q # r => cluster'[q] = cluster[q]
            /\ r \notin Desired => cluster'[r] \in {cluster[r], "absent"}
            /\ r \in Desired \ Reinstall /\ cluster'[r] = "absent" => cluster[r] = "absent"
      BY <1>2, <2>3, BetweenSteps
    <3>3. Pending' = Pending
      BY <3>1 DEF Pending
    <3>4. \A q \in Releases \ Desired : cluster'[q] \in {cluster[q], "absent"}
      BY <3>2
    <3>5. \A q \in Desired \ Reinstall : cluster'[q] = "absent" => cluster[q] = "absent"
      BY <3>2, ReleaseSyncAssumption
    <3> QED BY <3>1, <3>3, <3>4, <3>5 DEF MapInv
  <2> QED BY <2>1, <2>2, <2>3
<1>3. CASE Return \/ UNCHANGED vars
  BY <1>3, CallSteps
<1> QED BY <1>1, <1>2, <1>3 DEF Next, Done

\* For the caller of SyncReleases a release is worked on in one step, whose result tells what
\* has become of it unless its helm was interrupted, whatever its workers do in between and
\* whichever locks they hold.
THEOREM SyncRefines == Spec => SyncImplementsBatch
<1>1. Init => SyncBatch!BatchInit
  <2> SUFFICES ASSUME Init
               PROVE  SyncBatch!BatchInit
    OBVIOUS
  <2>1. Pending = Releases /\ main = "prepare" /\ errs = {} /\ killed = {}
    BY DEF Init, Pending
  <2>2. SeenStatus \in [Releases -> {"absent", "old", "new"}]
    BY <2>1 DEF Init, SeenStatus
  <2> QED BY <2>1, <2>2, ReleaseSyncAssumption DEF SyncBatch!BatchInit, SyncBatch!Statuses
<1>2. IInv /\ MapInv /\ [Next]_vars => [SyncBatch!BatchNext]_(SyncBatch!batchVars)
  <2> SUFFICES ASSUME IInv, MapInv, [Next]_vars
               PROVE  [SyncBatch!BatchNext]_(SyncBatch!batchVars)
    OBVIOUS
  <2> DEFINE done == IF main = "aborted" THEN {} ELSE Releases \ (Pending \cup errs \cup killed)
             cut == killed \ (Pending \cup errs)
  <2>0. ASSUME Pending' = Pending, SeenStatus' = SeenStatus, errs' = errs,
               (main' = "aborted") = (main = "aborted"),
               killed' = killed \/ \E r \in Pending : killed' = killed \cup {r}
        PROVE  UNCHANGED SyncBatch!batchVars
    <3>1. done' = done /\ cut' = cut
      BY <2>0
    <3> QED BY <2>0, <3>1 DEF SyncBatch!batchVars
  <2>1. CASE Prepare
    <3>1. /\ main = "prepare" /\ start = cluster /\ UNCHANGED <<start, cluster, killed, job>>
          /\ killed = {} /\ Pending = Releases /\ cluster \in [Releases -> {"absent", "old"}]
      BY <2>1 DEF Prepare, MapInv, Pending, IInv, TypeOK
    <3>2. SeenStatus' = SeenStatus
      BY <3>1 DEF SeenStatus
    <3>3. errs = {}
      BY <3>1 DEF MapInv, IInv, TypeOK
    <3>4. CASE main' = "run" /\ todo' = Releases /\ errs' = {}
      <4>1. Pending' = Pending
        BY <3>1, <3>4 DEF Pending
      <4> QED BY <2>0, <3>1, <3>2, <3>3, <3>4, <4>1
    <3>5. CASE main' = "aborted" /\ UNCHANGED todo /\ errs' \in (SUBSET Desired) \ {{}}
      <4>1. \A w \in Workers : job[w] = None
        BY <2>1 DEF IInv, TypeOK, Phases, Prepare
      <4>2. Pending' = {}
        BY <2>1, <3>1, <3>5, <4>1, ReleaseWorkersAssumption DEF Pending, IInv, Phases
      <4>3. done = {} /\ done' = {} /\ cut = {} /\ cut' = {}
        BY <3>1, <3>5
      <4>4. SyncBatch!Abort
        BY <3>1, <3>2, <3>3, <3>5, <4>2, <4>3, ReleaseSyncAssumption DEF SyncBatch!Abort
      <4> QED BY <4>4 DEF SyncBatch!BatchNext
    <3>6. \/ main' = "run" /\ todo' = Releases /\ errs' = {}
          \/ main' = "aborted" /\ UNCHANGED todo /\ errs' \in (SUBSET Desired) \ {{}}
      BY <2>1 DEF Prepare
    <3> QED BY <3>4, <3>5, <3>6
  <2>2. ASSUME NEW w \in Workers, Take(w)
        PROVE  UNCHANGED SyncBatch!batchVars
    <3>1. Pending' = Pending /\ UNCHANGED <<main, errs, start, cluster, killed>>
      BY <2>2, TakeHidden
    <3>2. SeenStatus' = SeenStatus
      BY <3>1 DEF SeenStatus
    <3> QED BY <2>0, <3>1, <3>2
  <2>3. ASSUME NEW w \in Workers, Step(w), ~Take(w), ~Finish(w)
        PROVE  UNCHANGED SyncBatch!batchVars
    <3>1. UNCHANGED <<main, todo, job, errs, start>>
      BY <2>3, BetweenSteps
    <3>2. PICK r \in Releases : /\ job[w] = r
                                /\ \A q \in Releases : q # r => cluster'[q] = cluster[q]
                                /\ killed' \in {killed, killed \cup {r}}
      BY <2>3, BetweenSteps
    <3>3. Pending' = Pending /\ r \in Pending
      BY <3>1, <3>2 DEF Pending
    <3>4. SeenStatus' = SeenStatus
      BY <3>1, <3>2, <3>3 DEF SeenStatus
    <3> QED BY <2>0, <3>1, <3>2, <3>3, <3>4
  <2>4. ASSUME NEW w \in Workers, Finish(w)
        PROVE  SyncBatch!BatchNext
    <3>1. main = "run" /\ UNCHANGED <<main, start, cluster, killed>>
      BY <2>4, ResultSent
    <3>2. PICK r \in Pending : /\ Pending' = Pending \ {r}
                               /\ \/ errs' = errs \cup {r}
                                  \/ errs' = errs /\ AsAsked(r)
      BY <2>4, ResultSent
    <3>3. r \in Releases /\ r \notin errs /\ SeenStatus[r] = start[r]
      BY <3>2 DEF Pending, MapInv, SeenStatus
    <3>4. cluster \in [Releases -> {"absent", "old", "failed", "new"}]
      BY DEF IInv, TypeOK
    <3> DEFINE seen == IF cluster[r] = "failed" THEN "old" ELSE cluster[r]
    <3>5. SeenStatus' = [SeenStatus EXCEPT ![r] = seen]
      BY <3>1, <3>2, <3>3 DEF SeenStatus
    <3>6. seen \in {"absent", "old", "new"}
      BY <3>3, <3>4
    <3>7. r \notin Desired => seen \in {start[r], "absent"}
      BY <3>3 DEF MapInv, IInv, TypeOK
    <3>8. CASE errs' = errs \cup {r}
      <4>1. done' = done /\ cut' = cut
        BY <3>1, <3>2, <3>3, <3>8
      <4>2. SyncBatch!Fail(r)
        BY <3>2, <3>3, <3>5, <3>6, <3>7, <3>8, <4>1 DEF SyncBatch!Fail, SyncBatch!Statuses
      <4> QED BY <3>3, <4>2 DEF SyncBatch!BatchNext
    <3>9. CASE errs' = errs /\ AsAsked(r) /\ r \notin killed
      <4>1. done' = done \cup {r} /\ cut' = cut
        BY <3>1, <3>2, <3>3, <3>9
      <4>2. seen = IF r \in Desired THEN "new" ELSE "absent"
        BY <3>9 DEF AsAsked
      <4>3. SyncBatch!Succeed(r)
        BY <3>2, <3>5, <3>9, <4>1, <4>2 DEF SyncBatch!Succeed, SyncBatch!Target
      <4> QED BY <3>3, <4>3 DEF SyncBatch!BatchNext
    <3>10. CASE errs' = errs /\ r \in killed
      <4>1. done' = done /\ cut' = cut \cup {r}
        BY <3>1, <3>2, <3>3, <3>10
      <4>2. r \in Tracked \ Reinstall /\ r \in Desired \ Reinstall
        BY <3>10, ReleaseSyncAssumption DEF IInv, TypeOK
      <4>3. seen \in {start[r], "old", "new"}
        BY <3>6, <4>2 DEF MapInv
      <4>4. SyncBatch!Presume(r)
        BY <3>2, <3>3, <3>5, <3>10, <4>1, <4>2, <4>3 DEF SyncBatch!Presume
      <4> QED BY <3>3, <4>4 DEF SyncBatch!BatchNext
    <3> QED BY <3>2, <3>8, <3>9, <3>10
  <2>5. CASE Return \/ UNCHANGED vars
    <3>1. /\ Pending' = Pending /\ (main' = "aborted") = (main = "aborted")
          /\ UNCHANGED <<errs, start, cluster, killed>>
      BY <2>5, CallSteps
    <3>2. SeenStatus' = SeenStatus
      BY <3>1 DEF SeenStatus
    <3> QED BY <2>0, <3>1, <3>2
  <2> QED BY <2>1, <2>2, <2>3, <2>4, <2>5 DEF Next, Done
<1> QED
  BY <1>1, <1>2, MapInitial, MapInductive, Invariant, PTL
     DEF Spec, SyncImplementsBatch, SyncBatch!BatchSpec

\* SyncReleases returns only with the result of every release, so that the next group starts
\* on what this one has left (scatterGather waits for the workers).
THEOREM SyncReturnsLast == Spec => [](main \in {"returned", "aborted"} => Pending = {})
<1>1. IInv => (main \in {"returned", "aborted"} => Pending = {})
  <2> SUFFICES ASSUME IInv, main \in {"returned", "aborted"}
               PROVE  Pending = {}
    OBVIOUS
  <2>1. todo = {} /\ \A w \in Workers : job[w] = None
    BY DEF IInv, TypeOK, Phases
  <2> QED BY <2>1, ReleaseWorkersAssumption DEF Pending
<1> QED BY <1>1, Invariant, PTL

----------------------------------------------------------------------------
(* DeleteReleasesForSync and DeleteReleases.                                *)

Alone == locking \/ \A v, w \in pool : v = w

----------------------------------------------------------------------------
(* The inductive invariant.                                                 *)

\* A release whose turn has not come, and one that a worker is done with.
Waiting(r) == r \notin deleted /\ r \notin deleteFailed /\ r \notin errs
DeleteSettled(r) ==
    /\ r \in errs \/ r \notin installed
    /\ Alone => /\ r \in deleted <=> r \notin errs
                /\ r \in deleted => r \notin installed
                /\ r \in deleteFailed => r \in errs

DeleteStanding ==
    \A r \in Releases :
        /\ r \in todo /\ Alone => Waiting(r)
        /\ r \notin todo /\ (\A w \in Workers : job[w] # r) => DeleteSettled(r)

DeletePhases == /\ returned => todo = {} /\ \A w \in Workers : pc[w] = "idle"
                /\ \A w \in Workers : pc[w] = "idle" => job[w] = None /\ w \notin failing
                /\ failed = {}

\* A release has one worker, and it is of the pool.
DeleteJobs == \A w \in Workers :
    pc[w] # "idle" => /\ job[w] \in Releases /\ job[w] \notin todo /\ w \in pool
                      /\ \A v \in Workers : job[v] = job[w] => v = w

\* What a worker's place says of its release r.  An append that is not finished has loaded
\* the list as it is, if nobody else can store one.
DeleteAtWork(w, r) ==
    /\ pc[w] # "finish" => w \notin failing /\ (Alone => Waiting(r))
    /\ pc[w] = "append" => r \notin installed /\ (Alone => loaded[w] = deleted)
    /\ pc[w] = "append" => ~locking
    /\ pc[w] \in {"presync", "lock"} => locking
    /\ pc[w] = "finish" =>
          /\ w \in failing \/ r \notin installed
          /\ Alone => /\ r \in deleted <=> w \notin failing
                      /\ r \in deleted => r \notin installed
                      /\ r \in deleteFailed => w \in failing
                      /\ r \notin errs

DeleteWorking ==
    \A w \in Workers, r \in Releases : pc[w] # "idle" /\ job[w] = r => DeleteAtWork(w, r)

DeleteIInv == DeleteTypeOK /\ DeletePhases /\ DeleteJobs /\ DeleteStanding /\ DeleteWorking

----------------------------------------------------------------------------
(* A worker disturbs its own release only.                                  *)

DeleteOnlyFor(w, r) ==
    /\ UNCHANGED <<returned, call, failed>>
    /\ \A v \in Workers : v # w => /\ pc'[v] = pc[v] /\ job'[v] = job[v] /\ loaded'[v] = loaded[v]
                                   /\ v \in failing' <=> v \in failing
    /\ \A q \in Releases : q # r => /\ q \in installed' <=> q \in installed
                                    /\ q \in todo' <=> q \in todo
                                    /\ q \in errs' <=> q \in errs
                                    /\ Alone => (q \in deleted' <=> q \in deleted)
                                    /\ q \in deleteFailed' => q \in deleteFailed

\* What is left to show of a step of worker w: where it is, and what that says of r.
DeleteTurn(w, r) ==
    /\ r \notin todo
    /\ IF pc[w] = "idle" THEN job[w] = None /\ w \notin failing /\ DeleteSettled(r)
                         ELSE job[w] = r /\ w \in pool /\ DeleteAtWork(w, r)

\* A step that keeps what concerns its worker keeps the invariant.
LEMMA DeleteOneTurn ==
    ASSUME DeleteIInv, DeleteTypeOK', ~returned,
           NEW w \in Workers, w \in pool, NEW r \in Releases,
           DeleteOnlyFor(w, r), DeleteTurn(w, r)',
           \A v \in Workers : v # w => job[v] # r,
           pc[w] # "idle" => job[w] = r
    PROVE  DeleteIInv'
<1> USE DEF DeleteIInv
<1>0. /\ ~returned' /\ locking' = locking /\ pool' = pool /\ failed' = failed
      /\ Alone' <=> Alone
      /\ \A v \in Workers : v # w => pc'[v] = pc[v] /\ job'[v] = job[v]
  BY DEF DeleteOnlyFor, call, Alone
<1>1. DeletePhases'
  BY <1>0 DEF DeletePhases, DeleteOnlyFor, DeleteTurn
<1>2. \A v \in Workers : v # w => job'[v] # r
  BY <1>0
<1>3. None \notin Releases
  BY ReleaseWorkersAssumption
<1>4. DeleteJobs'
  <2> SUFFICES ASSUME NEW v \in Workers, pc'[v] # "idle"
               PROVE  /\ job'[v] \in Releases /\ job'[v] \notin todo' /\ v \in pool'
                      /\ \A u \in Workers : job'[u] = job'[v] => u = v
    BY DEF DeleteJobs
  <2>1. CASE v = w
    BY <1>0, <1>2, <2>1 DEF DeleteTurn
  <2>2. CASE v # w
    <3>1. pc[v] # "idle" /\ job'[v] = job[v] /\ job[v] # r
      BY <1>0, <1>2, <2>2
    <3>2. job[v] \in Releases /\ job[v] \notin todo' /\ v \in pool
      BY <3>1 DEF DeleteJobs, DeleteOnlyFor
    <3>3. job'[w] \in {r, None}
      BY DEF DeleteTurn
    <3>4. \A u \in Workers : job'[u] = job'[v] => u = v
      BY <1>0, <1>3, <3>1, <3>2, <3>3 DEF DeleteJobs
    <3> QED BY <1>0, <3>1, <3>2, <3>4
  <2> QED BY <2>1, <2>2
<1>5. DeleteStanding'
  <2> SUFFICES ASSUME NEW q \in Releases
               PROVE  /\ q \in todo' /\ Alone' => Waiting(q)'
                      /\ q \notin todo' /\ (\A v \in Workers : job'[v] # q) => DeleteSettled(q)'
    BY DEF DeleteStanding
  <2>1. CASE q = r
    <3>1. (\A v \in Workers : job'[v] # q) => pc'[w] = "idle"
      BY <2>1 DEF DeleteTurn
    <3> QED BY <2>1, <3>1 DEF DeleteTurn
  <2>2. CASE q # r
    <3>1. (\A v \in Workers : job'[v] # q) => \A v \in Workers : job[v] # q
      <4>1. job[w] # q
        BY <1>3, <2>2 DEF DeletePhases
      <4> QED BY <1>0, <4>1
    <3>2. q \in todo /\ Alone => Waiting(q)
      BY DEF DeleteStanding
    <3>3. q \notin todo /\ (\A v \in Workers : job[v] # q) => DeleteSettled(q)
      BY DEF DeleteStanding
    <3> QED BY <1>0, <2>2, <3>1, <3>2, <3>3 DEF DeleteOnlyFor, Waiting, DeleteSettled
  <2> QED BY <2>1, <2>2
<1>6. DeleteWorking'
  <2> SUFFICES ASSUME NEW v \in Workers, NEW q \in Releases, pc'[v] # "idle", job'[v] = q
               PROVE  DeleteAtWork(v, q)'
    BY DEF DeleteWorking
  <2>1. CASE v = w
    BY <1>2, <2>1 DEF DeleteTurn
  <2>2. CASE v # w
    <3>1. pc[v] # "idle" /\ job[v] = q /\ q # r /\ v \in pool
      BY <1>0, <1>2, <2>2 DEF DeleteJobs
    <3>2. DeleteAtWork(v, q)
      BY <3>1 DEF DeleteWorking
    <3>3. pc[v] = "append" => ~Alone
      BY <2>2, <3>1, <3>2 DEF DeleteAtWork, Alone
    <3> QED BY <1>0, <2>2, <3>1, <3>2, <3>3 DEF DeleteOnlyFor, DeleteAtWork, Waiting
  <2> QED BY <2>1, <2>2
<1> QED BY <1>1, <1>4, <1>5, <1>6

----------------------------------------------------------------------------
(* The steps of a worker.                                                   *)

\* A worker that is not idle has a release of its own, and the call has not returned.
LEMMA DeleteHasRelease ==
    ASSUME DeleteIInv, NEW w \in Workers, pc[w] # "idle"
    PROVE  /\ ~returned /\ w \in pool
           /\ \E r \in Releases : /\ job[w] = r /\ r \notin todo /\ DeleteAtWork(w, r)
                                 /\ \A v \in Workers : v # w => job[v] # r
<1>1. ~returned
  BY DEF DeleteIInv, DeletePhases
<1>2. /\ job[w] \in Releases /\ job[w] \notin todo /\ w \in pool
      /\ \A v \in Workers : v # w => job[v] # job[w]
  BY DEF DeleteIInv, DeleteJobs
<1>3. \A r \in Releases : job[w] = r => DeleteAtWork(w, r)
  BY DEF DeleteIInv, DeleteWorking
<1> QED BY <1>1, <1>2, <1>3

\* Steps of a worker keep the state well formed.
LEMMA DeleteStepTypes ==
    ASSUME DeleteIInv, NEW w \in Workers, DeleteStep(w)
    PROVE  DeleteTypeOK'
<1>1. DeleteTypeOK /\ (pc[w] # "idle" => job[w] \in Releases)
  BY DEF DeleteIInv, DeleteJobs
<1>2. Free \notin Workers
  BY ReleaseWorkersAssumption
<1> USE <1>1, <1>2 DEF DeleteTypeOK
<1>3. CASE DeleteTake(w)
  BY <1>3 DEF DeleteTake, Goto, call
<1>4. CASE DeletePresync(w)
  BY <1>4 DEF DeletePresync, Goto, call
<1>5. CASE DeleteLockMutex(w)
  <2>1. locking
    BY <1>1, <1>5 DEF DeleteLockMutex, DeleteIInv, DeleteWorking, DeleteAtWork
  <2> QED BY <1>5, <2>1 DEF DeleteLockMutex, Goto, call
<1>6. CASE DeleteUninstall(w)
  BY <1>6 DEF DeleteUninstall, Goto, call
<1>7. CASE StoreAppend(w)
  BY <1>7 DEF StoreAppend, Goto, call
<1>8. CASE DeleteFinish(w)
  BY <1>8 DEF DeleteFinish, Goto, call
<1> QED BY <1>3, <1>4, <1>5, <1>6, <1>7, <1>8 DEF DeleteStep

\* presync hooks: on to the mutex, or to the end with an error.
LEMMA DeletePresyncKeeps ==
    ASSUME DeleteIInv, NEW w \in Workers, DeletePresync(w)
    PROVE  DeleteIInv'
<1>1. pc[w] # "idle"
  BY DEF DeletePresync
<1>2. PICK r \in Releases : /\ job[w] = r /\ r \notin todo /\ DeleteAtWork(w, r)
                            /\ \A v \in Workers : v # w => job[v] # r
  BY <1>1, DeleteHasRelease
<1>3. DeleteTypeOK /\ DeleteTypeOK' /\ ~returned /\ w \in pool
  BY <1>1, DeleteHasRelease, DeleteStepTypes DEF DeleteStep, DeleteIInv
<1>4. DeleteOnlyFor(w, r)
  BY <1>2, <1>3 DEF DeleteOnlyFor, DeletePresync, Goto, DeleteTypeOK, call, DeleteAtWork,
                    DeleteIInv, DeletePhases
<1>5. DeleteTurn(w, r)'
  BY <1>2, <1>3 DEF DeleteTurn, DeletePresync, Goto, DeleteTypeOK, call, DeleteAtWork, Waiting,
                    DeleteSettled, Alone,
                     DeleteIInv, DeletePhases
<1> QED BY <1>2, <1>3, <1>4, <1>5, DeleteOneTurn

\* The mutex is taken before the uninstallation.
LEMMA DeleteLockMutexKeeps ==
    ASSUME DeleteIInv, NEW w \in Workers, DeleteLockMutex(w)
    PROVE  DeleteIInv'
<1>1. pc[w] # "idle"
  BY DEF DeleteLockMutex
<1>2. PICK r \in Releases : /\ job[w] = r /\ r \notin todo /\ DeleteAtWork(w, r)
                            /\ \A v \in Workers : v # w => job[v] # r
  BY <1>1, DeleteHasRelease
<1>3. DeleteTypeOK /\ DeleteTypeOK' /\ ~returned /\ w \in pool
  BY <1>1, DeleteHasRelease, DeleteStepTypes DEF DeleteStep, DeleteIInv
<1>4. DeleteOnlyFor(w, r)
  BY <1>2, <1>3 DEF DeleteOnlyFor, DeleteLockMutex, Goto, DeleteTypeOK, call, DeleteAtWork,
                    DeleteIInv, DeletePhases
<1>5. DeleteTurn(w, r)'
  BY <1>2, <1>3 DEF DeleteTurn, DeleteLockMutex, Goto, DeleteTypeOK, call, DeleteAtWork,
                    Waiting, DeleteSettled, Alone,
                     DeleteIInv, DeletePhases
<1> QED BY <1>2, <1>3, <1>4, <1>5, DeleteOneTurn

\* An uninstallation that fails or succeeds, and what is noted of it.
LEMMA DeleteUninstallKeeps ==
    ASSUME DeleteIInv, NEW w \in Workers, DeleteUninstall(w)
    PROVE  DeleteIInv'
<1>1. pc[w] # "idle"
  BY DEF DeleteUninstall
<1>2. PICK r \in Releases : /\ job[w] = r /\ r \notin todo /\ DeleteAtWork(w, r)
                            /\ \A v \in Workers : v # w => job[v] # r
  BY <1>1, DeleteHasRelease
<1>3. DeleteTypeOK /\ DeleteTypeOK' /\ ~returned /\ w \in pool
  BY <1>1, DeleteHasRelease, DeleteStepTypes DEF DeleteStep, DeleteIInv
<1>4. DeleteOnlyFor(w, r)
  BY <1>2, <1>3 DEF DeleteOnlyFor, DeleteUninstall, Goto, DeleteTypeOK, call, DeleteAtWork,
                    DeleteIInv, DeletePhases
<1>5. DeleteTurn(w, r)'
  BY <1>2, <1>3 DEF DeleteTurn, DeleteUninstall, Goto, DeleteTypeOK, call, DeleteAtWork,
                    Waiting, DeleteSettled, Alone,
                     DeleteIInv, DeletePhases
<1> QED BY <1>2, <1>3, <1>4, <1>5, DeleteOneTurn

\* The second half of an append.
LEMMA StoreAppendKeeps ==
    ASSUME DeleteIInv, NEW w \in Workers, StoreAppend(w)
    PROVE  DeleteIInv'
<1>1. pc[w] # "idle"
  BY DEF StoreAppend
<1>2. PICK r \in Releases : /\ job[w] = r /\ r \notin todo /\ DeleteAtWork(w, r)
                            /\ \A v \in Workers : v # w => job[v] # r
  BY <1>1, DeleteHasRelease
<1>3. DeleteTypeOK /\ DeleteTypeOK' /\ ~returned /\ w \in pool
  BY <1>1, DeleteHasRelease, DeleteStepTypes DEF DeleteStep, DeleteIInv
<1>4. DeleteOnlyFor(w, r)
  BY <1>2, <1>3 DEF DeleteOnlyFor, StoreAppend, Goto, DeleteTypeOK, call, DeleteAtWork,
                    DeleteIInv, DeletePhases
<1>5. DeleteTurn(w, r)'
  BY <1>2, <1>3 DEF DeleteTurn, StoreAppend, Goto, DeleteTypeOK, call, DeleteAtWork, Waiting,
                    DeleteSettled, Alone,
                     DeleteIInv, DeletePhases
<1> QED BY <1>2, <1>3, <1>4, <1>5, DeleteOneTurn

\* The result.
LEMMA DeleteFinishKeeps ==
    ASSUME DeleteIInv, NEW w \in Workers, DeleteFinish(w)
    PROVE  DeleteIInv'
<1>1. pc[w] # "idle"
  BY DEF DeleteFinish
<1>2. PICK r \in Releases : /\ job[w] = r /\ r \notin todo /\ DeleteAtWork(w, r)
                            /\ \A v \in Workers : v # w => job[v] # r
  BY <1>1, DeleteHasRelease
<1>3. DeleteTypeOK /\ DeleteTypeOK' /\ ~returned /\ w \in pool
  BY <1>1, DeleteHasRelease, DeleteStepTypes DEF DeleteStep, DeleteIInv
<1>4. DeleteOnlyFor(w, r)
  BY <1>2, <1>3 DEF DeleteOnlyFor, DeleteFinish, Goto, DeleteTypeOK, call, DeleteAtWork,
                    DeleteIInv, DeletePhases
<1>5. DeleteTurn(w, r)'
  BY <1>2, <1>3 DEF DeleteTurn, DeleteFinish, Goto, DeleteTypeOK, call, DeleteAtWork, Waiting,
                    DeleteSettled, Alone,
                     DeleteIInv, DeletePhases
<1> QED BY <1>2, <1>3, <1>4, <1>5, DeleteOneTurn

\* A worker of the pool takes a release.
LEMMA DeleteTakeKeeps ==
    ASSUME DeleteIInv, NEW w \in Workers, w \in pool, DeleteTake(w)
    PROVE  DeleteIInv'
<1>1. PICK r \in todo : todo' = todo \ {r} /\ job' = [job EXCEPT ![w] = r]
  BY DEF DeleteTake
<1>2. DeleteTypeOK /\ DeleteTypeOK' /\ pc[w] = "idle" /\ w \notin failing
  BY DeleteStepTypes DEF DeleteStep, DeleteIInv, DeleteTake, DeletePhases
<1>3. r \in Releases /\ (Alone => Waiting(r)) /\ ~returned
  BY <1>2 DEF DeleteIInv, DeleteTypeOK, DeleteStanding, DeletePhases
<1>4. \A v \in Workers : job[v] # r
  BY <1>2, <1>3, ReleaseWorkersAssumption DEF DeleteIInv, DeleteJobs, DeletePhases
<1>5. DeleteOnlyFor(w, r)
  BY <1>1, <1>2 DEF DeleteOnlyFor, DeleteTake, Goto, DeleteTypeOK, call
<1>6. DeleteTurn(w, r)'
  <2>1. /\ pc'[w] = IF locking THEN "presync" ELSE "uninstall"
        /\ job'[w] = r /\ failing' = failing /\ r \notin todo' /\ w \in pool'
    BY <1>1, <1>2 DEF DeleteTake, Goto, DeleteTypeOK, call
  <2>2. (Alone' <=> Alone) /\ (Waiting(r)' <=> Waiting(r)) /\ locking' = locking
    BY DEF DeleteTake, call, Alone, Waiting
  <2> QED BY <1>2, <1>3, <2>1, <2>2 DEF DeleteTurn, DeleteAtWork
<1> QED BY <1>2, <1>3, <1>4, <1>5, <1>6, DeleteOneTurn

----------------------------------------------------------------------------
(* The call.                                                                *)

\* Nothing is listed, and everything is left to do, when a call begins.
LEMMA DeleteInitIInv == DeleteInit => DeleteIInv
<1> SUFFICES ASSUME DeleteInit
             PROVE  DeleteIInv
  OBVIOUS
<1>1. DeleteTypeOK
  BY ReleaseDeleteAssumption, ReleaseWorkersAssumption DEF DeleteInit, DeleteTypeOK
<1>2. DeletePhases /\ DeleteJobs /\ DeleteWorking
  BY DEF DeleteInit, DeletePhases, DeleteJobs, DeleteWorking
<1>3. DeleteStanding
  BY DEF DeleteInit, DeleteStanding, Waiting
<1> QED BY <1>1, <1>2, <1>3 DEF DeleteIInv

\* The call returns when every release is settled.
LEMMA DeleteReturnKeeps ==
    ASSUME DeleteIInv, DeleteReturn
    PROVE  DeleteIInv'
<1>1. /\ todo = {} /\ \A w \in Workers : pc[w] = "idle"
      /\ UNCHANGED <<todo, pc, job, loaded, m, installed, deleted, deleteFailed, failed, failing,
                     errs, call>>
  BY DEF DeleteReturn
<1>2. DeleteTypeOK'
  BY <1>1 DEF DeleteIInv, DeleteTypeOK, call, DeleteReturn
<1>3. DeletePhases' /\ DeleteJobs' /\ DeleteWorking'
  BY <1>1 DEF DeleteIInv, DeletePhases, DeleteJobs, DeleteWorking, call
<1>4. DeleteStanding'
  <2>1. \A r \in Releases : DeleteSettled(r) <=> DeleteSettled(r)'
    BY <1>1 DEF DeleteSettled, Alone, call
  <2> QED BY <1>1, <2>1 DEF DeleteIInv, DeleteStanding
<1> QED BY <1>2, <1>3, <1>4 DEF DeleteIInv

\* Every step keeps the invariant.
LEMMA DeleteInductive == DeleteIInv /\ [DeleteNext]_deleteVars => DeleteIInv'
<1> SUFFICES ASSUME DeleteIInv, [DeleteNext]_deleteVars
             PROVE  DeleteIInv'
  OBVIOUS
<1>1. ASSUME NEW w \in pool, DeleteStep(w)
      PROVE  DeleteIInv'
  <2>1. w \in Workers
    BY DEF DeleteIInv, DeleteTypeOK
  <2> QED BY <1>1, <2>1, DeleteTakeKeeps, DeletePresyncKeeps, DeleteLockMutexKeeps,
             DeleteUninstallKeeps,
             StoreAppendKeeps, DeleteFinishKeeps DEF DeleteStep
<1>2. CASE DeleteReturn
  BY <1>2, DeleteReturnKeeps
<1>3. CASE UNCHANGED deleteVars
  <2>1. \A r \in Releases : /\ Waiting(r) <=> Waiting(r)'
                            /\ DeleteSettled(r) <=> DeleteSettled(r)'
                            /\ \A w \in Workers : DeleteAtWork(w, r) <=> DeleteAtWork(w, r)'
    BY <1>3 DEF deleteVars, Waiting, DeleteSettled, DeleteAtWork, Alone
  <2>2. DeleteTypeOK' /\ DeletePhases' /\ DeleteJobs'
    BY <1>3 DEF DeleteIInv, deleteVars, DeleteTypeOK, DeletePhases, DeleteJobs
  <2>3. DeleteStanding' /\ DeleteWorking'
    BY <1>3, <2>1 DEF DeleteIInv, deleteVars, DeleteStanding, DeleteWorking, Alone
  <2> QED BY <2>2, <2>3 DEF DeleteIInv
<1> QED BY <1>1, <1>2, <1>3 DEF DeleteNext, DeleteDone

\* The inductive invariant holds in every state of the specification.
LEMMA DeleteInvariant == DeleteSpec => []DeleteIInv
<1> QED BY DeleteInitIInv, DeleteInductive, PTL DEF DeleteSpec

----------------------------------------------------------------------------
(* The theorems.                                                            *)

\* A release that a finished call has left in the cluster has an error, with the mutex or
\* without, for any number of workers.
THEOREM NothingSkipped == DeleteSpec => []NothingLeftSilently
<1>1. DeleteIInv => NothingLeftSilently
  <2> SUFFICES ASSUME DeleteIInv, returned, NEW r \in installed
               PROVE  r \in errs
    BY DEF NothingLeftSilently
  <2>1. r \in Releases /\ r \notin todo /\ \A w \in Workers : job[w] # r
    BY ReleaseWorkersAssumption DEF DeleteIInv, DeleteTypeOK, DeletePhases
  <2> QED BY <2>1 DEF DeleteIInv, DeleteStanding, DeleteSettled
<1> QED BY <1>1, DeleteInvariant, PTL

\* The mutex and the pool of a call are its own from beginning to end.
LEMMA StaysAlone ==
    ASSUME \A c \in Calls : c[1] \/ \A v, w \in c[2] : v = w
    PROVE  DeleteSpec => []Alone
<1>1. DeleteInit => Alone
  BY DEF DeleteInit, Alone
<1>2. Alone /\ [DeleteNext]_deleteVars => Alone'
  <2>1. [DeleteNext]_deleteVars => UNCHANGED call
    BY DEF DeleteNext, deleteVars, DeleteStep, DeleteTake, DeletePresync, DeleteLockMutex,
           DeleteUninstall, StoreAppend, DeleteFinish, DeleteReturn,
           DeleteDone, call
  <2> QED BY <2>1 DEF Alone, call
<1> QED BY <1>1, <1>2, PTL DEF DeleteSpec

\* The summary is exact whenever every call has the mutex or a single worker, which is what
\* DeleteReleases lacks with two workers.
THEOREM SummaryExact ==
    ASSUME \A c \in Calls : c[1] \/ \A v, w \in c[2] : v = w
    PROVE  DeleteSpec => []DeletedListExact
<1>1. DeleteIInv /\ Alone => DeletedListExact
  <2> SUFFICES ASSUME DeleteIInv, Alone, returned
               PROVE  /\ deleted = Releases \ errs
                      /\ deleted \cap installed = {}
                      /\ deleteFailed \subseteq errs
    BY DEF DeletedListExact
  <2>1. \A r \in Releases : DeleteSettled(r)
    BY ReleaseWorkersAssumption DEF DeleteIInv, DeleteStanding, DeletePhases
  <2>2. {installed, deleted, deleteFailed, errs} \subseteq SUBSET Releases
    BY DEF DeleteIInv, DeleteTypeOK
  <2> QED BY <2>1, <2>2 DEF DeleteSettled
<1>2. DeleteSpec => []Alone
  BY StaysAlone
<1> QED BY <1>1, <1>2, DeleteInvariant, PTL
----------------------------------------------------------------------------
(* One step per release: both functions implement ReleaseBatch.             *)

\* A release without a result has no error.
DeleteMapInv == \A r \in DeletePending : r \notin errs

\* The steps before the result of a release concern that release only, and do not show.
LEMMA DeleteHidden ==
    ASSUME DeleteIInv, NEW w \in Workers, w \in pool, DeleteStep(w), ~DeleteFinish(w)
    PROVE  /\ DeletePending' = DeletePending /\ errs' = errs
           /\ \A q \in Releases \ DeletePending : q \in installed' <=> q \in installed
<1>1. CASE DeleteTake(w)
  <2>1. PICK r \in todo : todo' = todo \ {r} /\ job' = [job EXCEPT ![w] = r]
    BY <1>1 DEF DeleteTake
  <2>2. job \in [Workers -> Releases \cup {None}] /\ todo \subseteq Releases /\ job[w] = None
    BY <1>1 DEF DeleteIInv, DeleteTypeOK, DeletePhases, DeleteTake
  <2>3. \A q \in Releases :
          (\E v \in Workers : job'[v] = q) <=> q = r \/ \E v \in Workers : job[v] = q
    BY <2>1, <2>2, ReleaseWorkersAssumption
  <2>4. DeletePending' = DeletePending
    BY <2>1, <2>2, <2>3 DEF DeletePending
  <2> QED BY <1>1, <2>4 DEF DeleteTake
<1>2. CASE ~DeleteTake(w)
  <2>1. pc[w] # "idle" /\ UNCHANGED <<todo, job, errs>>
    BY <1>2 DEF DeleteStep, DeletePresync, DeleteLockMutex, DeleteUninstall, StoreAppend
  <2>2. PICK r \in Releases : job[w] = r
    BY <2>1, DeleteHasRelease
  <2>3. r \in DeletePending
    BY <2>2 DEF DeletePending
  <2>4. installed' \in {installed, installed \ {r}}
    BY <1>2, <2>2 DEF DeleteStep, DeletePresync, DeleteLockMutex, DeleteUninstall, StoreAppend
  <2> QED BY <2>1, <2>3, <2>4 DEF DeletePending
<1> QED BY <1>1, <1>2

\* The result of a release is sent.
LEMMA DeleteResultSent ==
    ASSUME DeleteIInv, NEW w \in Workers, DeleteFinish(w)
    PROVE  /\ installed' = installed
           /\ \E r \in DeletePending :
                /\ DeletePending' = DeletePending \ {r}
                /\ \/ errs' = errs \cup {r}
                   \/ errs' = errs /\ r \notin installed
<1>1. pc[w] # "idle" /\ pc[w] = "finish"
  BY DEF DeleteFinish
<1>2. PICK r \in Releases : /\ job[w] = r /\ r \notin todo /\ DeleteAtWork(w, r)
                            /\ \A v \in Workers : v # w => job[v] # r
  BY <1>1, DeleteHasRelease
<1>3. /\ job' = [job EXCEPT ![w] = None] /\ job \in [Workers -> Releases \cup {None}]
      /\ UNCHANGED <<todo, installed>>
  BY DEF DeleteFinish, DeleteIInv, DeleteTypeOK
<1>4. \A q \in Releases :
        (\E v \in Workers : job'[v] = q) <=> q # r /\ \E v \in Workers : job[v] = q
  BY <1>2, <1>3, ReleaseWorkersAssumption
<1>5. r \in DeletePending /\ DeletePending' = DeletePending \ {r}
  BY <1>2, <1>3, <1>4 DEF DeletePending
<1>6. errs' = errs \cup {r} \/ (errs' = errs /\ w \notin failing)
  BY <1>2 DEF DeleteFinish
<1>7. w \in failing \/ r \notin installed
  BY <1>1, <1>2 DEF DeleteAtWork
<1> QED BY <1>3, <1>5, <1>6, <1>7

\* The steps that have nothing to do with one release.
LEMMA DeleteCallSteps ==
    ASSUME DeleteReturn \/ UNCHANGED deleteVars
    PROVE  DeletePending' = DeletePending /\ UNCHANGED <<errs, installed>>
<1>1. UNCHANGED <<errs, installed, todo, job>>
  BY DEF DeleteReturn, deleteVars
<1> QED BY <1>1 DEF DeletePending

LEMMA DeleteMapInitial == DeleteInit => DeleteMapInv
<1> QED BY DEF DeleteInit, DeleteMapInv

\* Every step keeps it.
LEMMA DeleteMapInductive == DeleteIInv /\ DeleteMapInv /\ [DeleteNext]_deleteVars => DeleteMapInv'
<1> SUFFICES ASSUME DeleteIInv, DeleteMapInv, [DeleteNext]_deleteVars
             PROVE  DeleteMapInv'
  OBVIOUS
<1>1. ASSUME NEW w \in pool, DeleteStep(w)
      PROVE  DeleteMapInv'
  <2>1. w \in Workers
    BY DEF DeleteIInv, DeleteTypeOK
  <2>2. CASE DeleteFinish(w)
    <3>1. PICK r \in DeletePending : /\ DeletePending' = DeletePending \ {r}
                                     /\ errs' = errs \cup {r} \/ errs' = errs
      BY <2>1, <2>2, DeleteResultSent
    <3> QED BY <3>1 DEF DeleteMapInv
  <2>3. CASE ~DeleteFinish(w)
    <3>1. DeletePending' = DeletePending /\ errs' = errs
      BY <1>1, <2>1, <2>3, DeleteHidden
    <3> QED BY <3>1 DEF DeleteMapInv
  <2> QED BY <2>2, <2>3
<1>2. CASE DeleteReturn \/ UNCHANGED deleteVars
  BY <1>2, DeleteCallSteps DEF DeleteMapInv
<1> QED BY <1>1, <1>2 DEF DeleteNext, DeleteDone

\* For the caller of DeleteReleasesForSync or DeleteReleases a release is uninstalled in one
\* step, whose result tells whether it is gone, the mutex or none, whatever is lost of the
\* lists of the summary.
THEOREM DeleteRefines == DeleteSpec => DeleteImplementsBatch
<1> DEFINE done == Releases \ (DeletePending \cup errs)
<1>1. DeleteInit => DeleteBatch!BatchInit
  <2> SUFFICES ASSUME DeleteInit
               PROVE  DeleteBatch!BatchInit
    OBVIOUS
  <2>1. DeletePending = Releases /\ errs = {}
    BY DEF DeleteInit, DeletePending
  <2>2. SeenInstalled \in [Releases -> {"absent", "old", "new"}]
    BY DEF SeenInstalled
  <2> QED BY <2>1, <2>2 DEF DeleteBatch!BatchInit, DeleteBatch!Statuses
<1>2. DeleteIInv /\ DeleteMapInv /\ [DeleteNext]_deleteVars
        => [DeleteBatch!BatchNext]_(DeleteBatch!batchVars)
  <2> SUFFICES ASSUME DeleteIInv, DeleteMapInv, [DeleteNext]_deleteVars
               PROVE  [DeleteBatch!BatchNext]_(DeleteBatch!batchVars)
    OBVIOUS
  <2>1. ASSUME NEW w \in pool, DeleteStep(w), ~DeleteFinish(w)
        PROVE  UNCHANGED DeleteBatch!batchVars
    <3>1. w \in Workers
      BY DEF DeleteIInv, DeleteTypeOK
    <3>2. /\ DeletePending' = DeletePending /\ errs' = errs
          /\ \A q \in Releases \ DeletePending : q \in installed' <=> q \in installed
      BY <2>1, <3>1, DeleteHidden
    <3>3. SeenInstalled' = SeenInstalled
      BY <3>2 DEF SeenInstalled
    <3>4. done' = done
      BY <3>2
    <3> QED BY <3>2, <3>3, <3>4 DEF DeleteBatch!batchVars
  <2>2. ASSUME NEW w \in pool, DeleteFinish(w)
        PROVE  DeleteBatch!BatchNext
    <3>1. w \in Workers
      BY DEF DeleteIInv, DeleteTypeOK
    <3>2. installed' = installed
      BY <2>2, <3>1, DeleteResultSent
    <3>3. PICK r \in DeletePending : /\ DeletePending' = DeletePending \ {r}
                                     /\ \/ errs' = errs \cup {r}
                                        \/ errs' = errs /\ r \notin installed
      BY <2>2, <3>1, DeleteResultSent
    <3>4. r \in Releases /\ r \notin errs /\ SeenInstalled[r] = "old"
      BY <3>3 DEF DeletePending, DeleteMapInv, SeenInstalled
    <3>5. SeenInstalled' = [SeenInstalled EXCEPT ![r] = IF r \in installed THEN "old"
                                                                           ELSE "absent"]
      BY <3>2, <3>3, <3>4 DEF SeenInstalled
    <3>6. CASE errs' = errs \cup {r}
      <4>1. done' = done
        BY <3>3, <3>4, <3>6
      <4>2. DeleteBatch!Fail(r)
        BY <3>3, <3>4, <3>5, <3>6, <4>1 DEF DeleteBatch!Fail
      <4> QED BY <3>4, <4>2 DEF DeleteBatch!BatchNext
    <3>7. CASE errs' = errs /\ r \notin installed
      <4>1. done' = done \cup {r}
        BY <3>3, <3>4, <3>7
      <4>2. DeleteBatch!Succeed(r)
        BY <3>3, <3>5, <3>7, <4>1 DEF DeleteBatch!Succeed, DeleteBatch!Target
      <4> QED BY <3>4, <4>2 DEF DeleteBatch!BatchNext
    <3> QED BY <3>3, <3>6, <3>7
  <2>3. CASE DeleteReturn \/ UNCHANGED deleteVars
    <3>1. DeletePending' = DeletePending /\ UNCHANGED <<errs, installed>>
      BY <2>3, DeleteCallSteps
    <3>2. SeenInstalled' = SeenInstalled /\ done' = done
      BY <3>1 DEF SeenInstalled
    <3> QED BY <3>1, <3>2 DEF DeleteBatch!batchVars
  <2> QED BY <2>1, <2>2, <2>3 DEF DeleteNext, DeleteDone
<1> QED
  BY <1>1, <1>2, DeleteMapInitial, DeleteMapInductive, DeleteInvariant, PTL
     DEF DeleteSpec, DeleteImplementsBatch, DeleteBatch!BatchSpec

\* And so do DeleteReleasesForSync and DeleteReleases.
THEOREM DeleteReturnsLast == DeleteSpec => [](returned => DeletePending = {})
<1>1. DeleteIInv => (returned => DeletePending = {})
  <2> SUFFICES ASSUME DeleteIInv, returned
               PROVE  DeletePending = {}
    OBVIOUS
  <2>1. todo = {} /\ \A w \in Workers : job[w] = None
    BY DEF DeleteIInv, DeletePhases
  <2> QED BY <2>1, ReleaseWorkersAssumption DEF DeletePending
<1> QED BY <1>1, DeleteInvariant, PTL
=============================================================================
