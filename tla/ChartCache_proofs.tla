------------------------- MODULE ChartCache_proofs -------------------------
(***************************************************************************)
(* Proofs about the downloads of charts, for any workers, processes,       *)
(* directories and crashes: a process downloads a chart once, and a chart  *)
(* in use is complete unless a download was broken off.                    *)
(***************************************************************************)
EXTENDS ChartCache, TLAPS

----------------------------------------------------------------------------
(* The inductive invariant.                                                 *)

SameChart(v, w) == Proc(v) = Proc(w) /\ Key(v) = Key(w)
Known(w) == memory[Proc(w)][Key(w)]

\* The mutex of a chart and version: one worker of a process is busy with it.
OneDownload ==
    \A v, w \in Workers :
        SameChart(v, w) /\ pc[v] \in Downloading /\ pc[w] \in Downloading => v = w

\* The file lock of a directory: whoever holds it exclusively holds it alone.
OneWriter ==
    \A v, w \in Workers :
        Path(v) = Path(w) /\ pc[v] \in FlockExclusive /\ pc[w] \in FlockExclusive \cup {"validate"} => v = w

Found == {"release", "unlock", "use", "done", "crashed"}

\* What a process remembers, and what a worker found, is the directory of such a worker.
Remembered ==
    \A w \in Workers :
        /\ Known(w) # NoPath => \E v \in Workers : SameChart(v, w) /\ Path(v) = Known(w)
        /\ got[w] # NoPath => /\ Known(w) # NoPath /\ pc[w] \in Found
                              /\ \E v \in Workers : SameChart(v, w) /\ Path(v) = got[w]

\* A chart that was downloaded is stored and still there, for whoever has yet to look for it.
Kept ==
    \A w \in Workers :
        /\ pc[w] = "store" => Disk(w) # "none"
        /\ pc[w] \in {"start", "queue"} /\ fetched[Proc(w)][Key(w)] # 0 =>
               \/ Cached(w) # NoPath
               \/ \E v \in Workers : SameChart(v, w) /\ pc[v] = "store"

\* Whoever is about to download a chart is the first of its process.
First ==
    /\ \A p \in Processes, k \in Keys : fetched[p][k] \in {0, 1}
    /\ \A w \in Workers :
           pc[w] \in Downloading \ {"store", "release", "unlock"} => fetched[Proc(w)][Key(w)] = 0

IInv == TypeOK /\ OneDownload /\ OneWriter /\ Remembered /\ Kept /\ First

\* Without a disturbance a chart is cut short only while it is downloaded, a download that has
\* ended is complete, and so is a chart that a live process knows or a worker has found.
Over(place) == place \in {"done", "failed", "crashed"}
Undisturbed ==
    /\ \A p \in Paths : disk[p] = "partial" => \E v \in Workers : Path(v) = p /\ pc[v] = "download"
    /\ \A w \in Workers :
           /\ pc[w] = "store" => Disk(w) = "complete"
           /\ Known(w) # NoPath /\ ~Over(pc[w]) => disk[Known(w)] = "complete"
           /\ got[w] # NoPath /\ ~Over(pc[w]) => disk[got[w]] = "complete"
Intact == ~disturbed => Undisturbed

----------------------------------------------------------------------------
(* Every step keeps the state well formed.                                  *)

LEMMA Directories ==
    ASSUME TypeOK
    PROVE  /\ \A w \in Workers : Proc(w) \in Processes /\ Path(w) \in Paths /\ Key(w) \in Keys
           /\ setup.shared \subseteq Paths /\ NoPath \notin Paths
           /\ \A v, w \in Workers : Path(v) = Path(w) =>
                  Key(v) = Key(w) /\ (Path(v) \notin setup.shared => Proc(v) = Proc(w))
BY ChartCacheAssumption, OwnDirectories DEF TypeOK, Proc, Path, Key

LEMMA InitTypes == Init => TypeOK
<1> SUFFICES ASSUME Init
             PROVE  TypeOK
  OBVIOUS
<1>1. disk \in [Paths -> {"none", "empty", "partial", "complete"}]
  BY DEF Init
<1>2. attempt \in [Workers -> 1..MaxRetries]
  BY ChartCacheAssumption DEF Init
<1>3. pc \in [Workers -> Places] /\ \A w \in Workers : pc[w] # "use"
  BY DEF Init, Places
<1>4. /\ memory \in [Processes -> [Keys -> Paths \cup {NoPath}]]
      /\ fetched \in [Processes -> [Keys -> Nat]] /\ got \in [Workers -> Paths \cup {NoPath}]
  BY DEF Init
<1> QED BY <1>1, <1>2, <1>3, <1>4 DEF Init, TypeOK

\* The tables after a chart is remembered, and after it is fetched.
LEMMA Tables ==
    ASSUME TypeOK, NEW w \in Workers
    PROVE  /\ Cached(w) \in Paths \cup {NoPath} /\ Known(w) \in Paths \cup {NoPath}
           /\ Remember(w) => memory' \in [Processes -> [Keys -> Paths \cup {NoPath}]]
           /\ [fetched EXCEPT ![Proc(w)][Key(w)] = @ + 1] \in [Processes -> [Keys -> Nat]]
<1>1. Proc(w) \in Processes /\ Path(w) \in Paths /\ Key(w) \in Keys
  BY Directories
<1>2. Known(w) \in Paths \cup {NoPath}
  BY <1>1 DEF Known, TypeOK
<1>3. Cached(w) \in Paths \cup {NoPath}
  BY <1>2 DEF Cached, Known
<1>4. /\ memory[Proc(w)] \in [Keys -> Paths \cup {NoPath}] /\ fetched[Proc(w)] \in [Keys -> Nat]
  BY <1>1 DEF TypeOK
<1>5. Remember(w) => memory' \in [Processes -> [Keys -> Paths \cup {NoPath}]]
  BY <1>1, <1>4 DEF Remember, TypeOK
<1>6. [fetched EXCEPT ![Proc(w)][Key(w)] = @ + 1] \in [Processes -> [Keys -> Nat]]
  BY <1>1, <1>4 DEF TypeOK
<1> QED BY <1>2, <1>3, <1>5, <1>6

LEMMA StepTypes ==
    ASSUME TypeOK, NEW w \in Workers, Step(w)
    PROVE  TypeOK'
<1>1. Proc(w) \in Processes /\ Path(w) \in Paths /\ Key(w) \in Keys /\ NoPath \notin Paths
  BY Directories
<1>0. /\ Cached(w) \in Paths \cup {NoPath}
      /\ Remember(w) => memory' \in [Processes -> [Keys -> Paths \cup {NoPath}]]
      /\ [fetched EXCEPT ![Proc(w)][Key(w)] = @ + 1] \in [Processes -> [Keys -> Nat]]
  BY Tables
<1> USE <1>1, ChartCacheAssumption DEF TypeOK, Go, Places
<1>2. CASE LookUp(w)
  <2>1. CASE Go(w, "start", "queue") /\ UNCHANGED got
    BY <1>2, <2>1 DEF LookUp
  <2>2. CASE Cached(w) # NoPath /\ Go(w, "start", "use") /\ UseCached(w)
    <3>1. got' = [got EXCEPT ![w] = Cached(w)]
      BY <2>2 DEF UseCached
    <3> QED BY <1>0, <1>2, <2>2, <3>1 DEF LookUp
  <2> QED BY <1>2, <2>1, <2>2 DEF LookUp
<1>3. CASE Enter(w)
  <2>1. CASE Go(w, "queue", "probe") /\ UNCHANGED got
    BY <1>3, <2>1 DEF Enter
  <2>2. CASE Cached(w) # NoPath /\ Go(w, "queue", "use") /\ UseCached(w)
    <3>1. got' = [got EXCEPT ![w] = Cached(w)]
      BY <2>2 DEF UseCached
    <3> QED BY <1>0, <1>3, <2>2, <3>1 DEF Enter
  <2> QED BY <1>3, <2>1, <2>2 DEF Enter
<1>4. CASE Probe(w)
  BY <1>4 DEF Probe
<1>5. CASE RLock(w)
  BY <1>5 DEF RLock
<1>6. CASE RFlock(w)
  BY <1>6 DEF RFlock
<1>7. CASE Validate(w)
  <2>1. memory' \in [Processes -> [Keys -> Paths \cup {NoPath}]]
    BY <1>0, <1>7 DEF Validate
  <2>2. CASE Go(w, "validate", "use") /\ got' = [got EXCEPT ![w] = Path(w)]
    <3>1. pc' \in [Workers -> Places] /\ got' \in [Workers -> Paths \cup {NoPath}]
      BY <2>2
    <3>2. \A v \in Workers : pc'[v] = "use" => got'[v] # NoPath
      BY <2>2
    <3> QED BY <1>7, <2>1, <3>1, <3>2 DEF Validate
  <2>3. CASE Go(w, "validate", "wlock") /\ UNCHANGED got
    BY <1>7, <2>1, <2>3 DEF Validate
  <2> QED BY <1>7, <2>2, <2>3 DEF Validate
<1>8. CASE WLock(w)
  BY <1>8 DEF WLock
<1>9. CASE WFlock(w)
  BY <1>9 DEF WFlock
<1>10. CASE Decide(w)
  <2>1. memory' \in [Processes -> [Keys -> Paths \cup {NoPath}]]
    BY <1>0, <1>10 DEF Decide
  <2>2. disk' \in [Paths -> {"none", "empty", "partial", "complete"}]
    BY <1>10 DEF Decide
  <2>3. pc' \in [Workers -> Places] /\ got' \in [Workers -> Paths \cup {NoPath}]
    BY <1>10 DEF Decide
  <2> QED BY <1>10, <2>1, <2>2, <2>3 DEF Decide
<1>11. CASE Download(w)
  BY <1>11 DEF Download, Disk
<1>12. CASE Downloaded(w)
  BY <1>12, <1>0 DEF Downloaded
<1>13. CASE Store(w)
  BY <1>13, <1>0 DEF Store
<1>14. CASE Release(w)
  BY <1>14 DEF Release
<1>15. CASE Unlock(w)
  BY <1>15 DEF Unlock
<1>16. CASE Finish(w)
  BY <1>16 DEF Finish
<1> QED BY <1>2, <1>3, <1>4, <1>5, <1>6, <1>7, <1>8, <1>9, <1>10, <1>11, <1>12, <1>13,
           <1>14, <1>15, <1>16 DEF Step

LEMMA CrashTypes ==
    ASSUME TypeOK, NEW p \in Processes, Crash(p)
    PROVE  TypeOK'
<1>1. disturbed' \in BOOLEAN
  BY DEF Crash, TypeOK
<1>2. pc' \in [Workers -> Places] /\ \A w \in Workers : pc'[w] = "use" => pc[w] = "use"
  BY DEF Crash, TypeOK, Places
<1> QED BY <1>1, <1>2 DEF Crash, TypeOK

----------------------------------------------------------------------------
(* What a step of a worker changes.                                         *)

\* A worker moves alone, and takes the mutex of a chart and the file locks as they are free.
Moves(w) ==
    /\ setup' = setup
    /\ \A v \in Workers : v # w => pc'[v] = pc[v] /\ got'[v] = got[v]
    /\ pc'[w] \in Downloading /\ pc[w] \notin Downloading =>
           pc[w] = "queue" /\ Cached(w) = NoPath
           /\ \A v \in SameProcess(w) : Key(v) = Key(w) => pc[v] \notin Downloading
    /\ pc'[w] \in FlockExclusive /\ pc[w] \notin FlockExclusive =>
           \A v \in SamePath(w) : pc[v] \notin FlockExclusive \cup {"validate"}
    /\ pc'[w] = "validate" =>
           pc[w] = "rflock" /\ \A v \in SamePath(w) : pc[v] \notin FlockExclusive

LEMMA StepMoves ==
    ASSUME TypeOK, NEW w \in Workers, Step(w)
    PROVE  Moves(w)
<1> USE DEF TypeOK, Moves, Go, Downloading, FlockExclusive, Held
<1>2. CASE LookUp(w)
  BY <1>2 DEF LookUp, UseCached
<1>3. CASE Enter(w)
  BY <1>3 DEF Enter, UseCached
<1>4. CASE Probe(w)
  BY <1>4 DEF Probe
<1>5. CASE RLock(w)
  BY <1>5 DEF RLock
<1>6. CASE RFlock(w)
  BY <1>6 DEF RFlock
<1>7. CASE Validate(w)
  BY <1>7 DEF Validate
<1>8. CASE WLock(w)
  BY <1>8 DEF WLock
<1>9. CASE WFlock(w)
  BY <1>9 DEF WFlock
<1>10. CASE Decide(w)
  BY <1>10 DEF Decide
<1>11. CASE Download(w)
  BY <1>11 DEF Download
<1>12. CASE Downloaded(w)
  BY <1>12 DEF Downloaded
<1>13. CASE Store(w)
  BY <1>13 DEF Store
<1>14. CASE Release(w)
  BY <1>14 DEF Release
<1>15. CASE Unlock(w)
  BY <1>15 DEF Unlock
<1>16. CASE Finish(w)
  BY <1>16 DEF Finish
<1> QED BY <1>2, <1>3, <1>4, <1>5, <1>6, <1>7, <1>8, <1>9, <1>10, <1>11, <1>12, <1>13,
           <1>14, <1>15, <1>16 DEF Step

\* What it writes down: the chart it found, in the table of its process for itself and the
\* others, or a download that has ended.
Records(w) ==
    /\ \/ memory' = memory
       \/ /\ Remember(w) /\ got'[w] = Path(w) /\ pc[w] \in {"validate", "decide", "store"}
          /\ pc[w] # "store" => Valid(Disk(w))
          /\ disk' = disk
    /\ \/ got'[w] = got[w]
       \/ /\ Remember(w) /\ got'[w] = Path(w) /\ pc[w] \in {"validate", "decide", "store"}
          /\ pc[w] # "store" => Valid(Disk(w))
          /\ disk' = disk
       \/ got'[w] = Cached(w) /\ Cached(w) # NoPath /\ pc[w] \in {"start", "queue"} /\ memory' = memory
    /\ \/ fetched' = fetched
       \/ /\ pc[w] = "download" /\ pc'[w] = "store" /\ Disk(w) = "complete" /\ disk' = disk
          /\ memory' = memory
          /\ fetched' = [fetched EXCEPT ![Proc(w)][Key(w)] = @ + 1]
    /\ pc'[w] = "store" => fetched' # fetched
    /\ pc'[w] \in {"start", "queue"} => pc[w] = "start" /\ Cached(w) = NoPath /\ fetched' = fetched
    /\ pc'[w] \in Downloading \ {"store", "release", "unlock"} =>
           pc[w] \in {"queue"} \cup (Downloading \ {"store", "release", "unlock"}) /\ fetched' = fetched
    /\ pc[w] = "store" => Remember(w)
    /\ pc'[w] \in Found \/ (got'[w] = got[w] /\ (pc[w] \in Found => got[w] = NoPath))

LEMMA Counted ==
    ASSUME TypeOK, NEW w \in Workers
    PROVE  fetched # [fetched EXCEPT ![Proc(w)][Key(w)] = @ + 1]
<1>1. Proc(w) \in Processes /\ Key(w) \in Keys
  BY Directories
<1>2. fetched[Proc(w)] \in [Keys -> Nat] /\ fetched[Proc(w)][Key(w)] \in Nat
  BY <1>1 DEF TypeOK
<1>3. [fetched EXCEPT ![Proc(w)][Key(w)] = @ + 1][Proc(w)][Key(w)] = fetched[Proc(w)][Key(w)] + 1
  BY <1>1, <1>2 DEF TypeOK
<1> QED BY <1>2, <1>3

LEMMA StepRecords ==
    ASSUME TypeOK, NEW w \in Workers, Step(w)
    PROVE  Records(w)
<1>1. fetched # [fetched EXCEPT ![Proc(w)][Key(w)] = @ + 1]
  BY Counted
<1> USE DEF TypeOK, Records, Go, Downloading, Found
<1>2. CASE LookUp(w)
  BY <1>2 DEF LookUp, UseCached
<1>3. CASE Enter(w)
  BY <1>3 DEF Enter, UseCached
<1>4. CASE Probe(w)
  BY <1>4 DEF Probe
<1>5. CASE RLock(w)
  BY <1>5 DEF RLock
<1>6. CASE RFlock(w)
  BY <1>6 DEF RFlock
<1>7. CASE Validate(w)
  BY <1>7 DEF Validate
<1>8. CASE WLock(w)
  BY <1>8 DEF WLock
<1>9. CASE WFlock(w)
  BY <1>9 DEF WFlock
<1>10. CASE Decide(w)
  BY <1>10 DEF Decide
<1>11. CASE Download(w)
  BY <1>11 DEF Download
<1>12. CASE Downloaded(w)
  BY <1>1, <1>12 DEF Downloaded
<1>13. CASE Store(w)
  BY <1>13 DEF Store
<1>14. CASE Release(w)
  BY <1>14 DEF Release
<1>15. CASE Unlock(w)
  BY <1>15 DEF Unlock
<1>16. CASE Finish(w)
  BY <1>16 DEF Finish
<1> QED BY <1>2, <1>3, <1>4, <1>5, <1>6, <1>7, <1>8, <1>9, <1>10, <1>11, <1>12, <1>13,
           <1>14, <1>15, <1>16 DEF Step

\* A directory is removed only outside the shared cache: to download its chart again, when the
\* process does not have it yet, or after the last worker of its process.
Removes(w, p) ==
    /\ p \notin setup.shared
    /\ \/ /\ pc[w] = "decide" /\ p = Path(w)
          /\ disk[p] = "empty" \/ (Known(w) = NoPath /\ Valid(disk[p]))
       \/ /\ pc[w] = "use" /\ pc'[w] = "done"
          /\ \E v \in Workers : Proc(v) = Proc(w) /\ Path(v) = p
          /\ \A v \in SameProcess(w) : pc[v] \in {"done", "failed"}

LEMMA StepRemoves ==
    ASSUME TypeOK, NEW w \in Workers, Step(w), NEW p \in Paths, disk[p] # "none", disk'[p] = "none"
    PROVE  Removes(w, p)
<1>1. Path(w) \in Paths
  BY Directories
<1>2. CASE UNCHANGED disk
  BY <1>2
<1>3. CASE Decide(w)
  BY <1>1, <1>3 DEF Decide, Go, Disk, Valid, MayUse, Known, Removes, TypeOK
<1>4. CASE Download(w)
  BY <1>1, <1>4 DEF Download, Disk, TypeOK
<1>5. CASE Finish(w)
  BY <1>5 DEF Finish, Go, SameProcess, Removes, TypeOK
<1> QED BY <1>2, <1>3, <1>4, <1>5
        DEF Step, LookUp, Enter, Probe, RLock, RFlock, Validate, WLock, WFlock, Downloaded,
            Store, Release, Unlock

----------------------------------------------------------------------------
(* The steps of a worker keep the invariant.                                *)

\* The setup is fixed, and with it what every worker works on.
LEMMA Fixed ==
    ASSUME setup' = setup
    PROVE  /\ \A w \in Workers : Proc(w)' = Proc(w) /\ Path(w)' = Path(w) /\ Key(w)' = Key(w)
           /\ \A v, w \in Workers : SameChart(v, w)' <=> SameChart(v, w)
BY DEF Proc, Path, Key, SameChart

LEMMA OneDownloadKept ==
    ASSUME OneDownload, NEW w \in Workers, Moves(w)
    PROVE  OneDownload'
<1> SUFFICES ASSUME NEW u \in Workers, NEW v \in Workers, SameChart(u, v)', u # v,
                    pc'[u] \in Downloading, pc'[v] \in Downloading
             PROVE  FALSE
  BY DEF OneDownload, Downloading
<1>1. SameChart(u, v) /\ SameChart(v, u)
  BY Fixed DEF Moves, SameChart
<1>2. ~(pc[u] \in Downloading /\ pc[v] \in Downloading)
  BY <1>1 DEF OneDownload
<1>3. CASE u = w
  <2>1. pc[v] \in Downloading /\ pc[w] \notin Downloading
    BY <1>2, <1>3 DEF Moves
  <2>2. v \in SameProcess(w) /\ Key(v) = Key(w)
    BY <1>1, <1>3 DEF SameProcess, SameChart
  <2> QED BY <1>3, <2>1, <2>2 DEF Moves
<1>4. CASE v = w
  <2>1. pc[u] \in Downloading /\ pc[w] \notin Downloading
    BY <1>2, <1>4 DEF Moves
  <2>2. u \in SameProcess(w) /\ Key(u) = Key(w)
    BY <1>1, <1>4 DEF SameProcess, SameChart
  <2> QED BY <1>4, <2>1, <2>2 DEF Moves
<1>5. CASE u # w /\ v # w
  BY <1>2, <1>5 DEF Moves
<1> QED BY <1>3, <1>4, <1>5

LEMMA OneWriterKept ==
    ASSUME OneWriter, NEW w \in Workers, Moves(w)
    PROVE  OneWriter'
<1> SUFFICES ASSUME NEW u \in Workers, NEW v \in Workers, Path(u)' = Path(v)', u # v,
                    pc'[u] \in FlockExclusive, pc'[v] \in FlockExclusive \cup {"validate"}
             PROVE  FALSE
  BY DEF OneWriter, FlockExclusive
<1>1. Path(u) = Path(v)
  BY DEF Moves, Path
<1>2. /\ ~(pc[u] \in FlockExclusive /\ pc[v] \in FlockExclusive \cup {"validate"})
      /\ ~(pc[v] \in FlockExclusive /\ pc[u] \in FlockExclusive \cup {"validate"})
  BY <1>1 DEF OneWriter
<1>3. CASE u = w
  <2>1. v \in SamePath(w) /\ pc'[v] = pc[v]
    BY <1>1, <1>3 DEF SamePath, Moves
  <2> QED BY <1>2, <1>3, <2>1 DEF Moves
<1>4. CASE v = w
  <2>1. u \in SamePath(w) /\ pc'[u] = pc[u]
    BY <1>1, <1>4 DEF SamePath, Moves
  <2> QED BY <1>2, <1>4, <2>1 DEF Moves
<1>5. CASE u # w /\ v # w
  BY <1>2, <1>5 DEF Moves
<1> QED BY <1>3, <1>4, <1>5

\* The table of a process after a step of w.
LEMMA KnownAfter ==
    ASSUME TypeOK, NEW w \in Workers, Moves(w), Records(w), NEW u \in Workers
    PROVE  \/ Known(u)' = Known(u)
           \/ SameChart(u, w) /\ Remember(w) /\ memory' # memory /\ Known(u)' = Path(w)
<1>1. /\ Proc(u) \in Processes /\ Key(u) \in Keys /\ Proc(u)' = Proc(u) /\ Key(u)' = Key(u)
      /\ Proc(w) \in Processes /\ Key(w) \in Keys
  BY Directories, Fixed DEF Moves
<1>2. CASE memory' = memory
  BY <1>1, <1>2 DEF Known
<1>3. CASE memory' # memory
  <2>1. memory' = [memory EXCEPT ![Proc(w)][Key(w)] = Path(w)]
    BY <1>3 DEF Records, Remember
  <2>2. memory[Proc(w)] \in [Keys -> Paths \cup {NoPath}]
    BY <1>1 DEF TypeOK
  <2>3. CASE SameChart(u, w)
    <3>1. Known(u)' = Path(w)
      BY <1>1, <2>1, <2>2, <2>3 DEF Known, SameChart, TypeOK
    <3> QED BY <1>3, <2>3, <3>1 DEF Records
  <2>4. CASE ~SameChart(u, w)
    BY <1>1, <2>1, <2>2, <2>4 DEF Known, SameChart, TypeOK
  <2> QED BY <2>3, <2>4
<1> QED BY <1>2, <1>3

LEMMA RememberedKept ==
    ASSUME TypeOK, Remembered, NEW w \in Workers, Moves(w), Records(w)
    PROVE  Remembered'
<1> SUFFICES ASSUME NEW u \in Workers
             PROVE  /\ Known(u)' # NoPath => \E v \in Workers : SameChart(v, u)' /\ Path(v)' = Known(u)'
                    /\ got'[u] # NoPath => /\ Known(u)' # NoPath /\ pc'[u] \in Found
                                           /\ \E v \in Workers : SameChart(v, u)' /\ Path(v)' = got'[u]
  BY DEF Remembered
<1>1. /\ \A v \in Workers : Path(v)' = Path(v) /\ (SameChart(v, u)' <=> SameChart(v, u))
  BY Fixed DEF Moves
<1>2. Path(w) # NoPath
  BY Directories
<1>3. /\ Known(u)' # NoPath => \E v \in Workers : SameChart(v, u) /\ Path(v) = Known(u)'
      /\ Known(u) # NoPath => Known(u)' # NoPath
  BY <1>2, KnownAfter DEF Remembered, SameChart
<1>4. got'[u] # NoPath => Known(u)' # NoPath /\ \E v \in Workers : SameChart(v, u) /\ Path(v) = got'[u]
  <2>1. CASE got'[u] = got[u]
    BY <1>3, <2>1 DEF Remembered
  <2>2. CASE got'[u] # got[u]
    <3>1. u = w
      BY <2>2 DEF Moves
    <3>2. CASE got'[w] = Path(w) /\ Remember(w)
      <4>1. Known(w)' = Path(w)
        <5>1. Proc(w) \in Processes /\ Key(w) \in Keys /\ Proc(w)' = Proc(w) /\ Key(w)' = Key(w)
          BY Directories, Fixed DEF Moves
        <5>2. memory[Proc(w)] \in [Keys -> Paths \cup {NoPath}]
          BY <5>1 DEF TypeOK
        <5> QED BY <3>2, <5>1, <5>2 DEF Remember, Known, TypeOK
      <4> QED BY <1>2, <3>1, <3>2, <4>1 DEF SameChart
    <3>3. CASE got'[w] = Cached(w) /\ Cached(w) # NoPath
      <4>1. Known(w) # NoPath /\ got'[w] = Known(w)
        BY <3>3 DEF Cached, Known
      <4> QED BY <1>3, <3>1, <4>1 DEF Remembered
    <3> QED BY <2>2, <3>1, <3>2, <3>3 DEF Records
  <2> QED BY <2>1, <2>2
<1>5. got'[u] # NoPath => pc'[u] \in Found
  <2>1. got[u] # NoPath => pc[u] \in Found
    BY DEF Remembered
  <2>2. CASE u = w
    BY <2>1, <2>2 DEF Records
  <2>3. CASE u # w
    BY <2>1, <2>3 DEF Moves
  <2> QED BY <2>2, <2>3
<1> QED BY <1>1, <1>3, <1>4, <1>5

\* A directory stays while a worker of its process has yet to look for the chart in it.
LEMMA Stays ==
    ASSUME IInv, NEW w \in Workers, Step(w), NEW u \in Workers, NEW v \in Workers,
           SameChart(v, u), Disk(v) # "none",
           \/ pc[u] = "store"
           \/ pc[u] \in {"start", "queue"} /\ fetched[Proc(u)][Key(u)] # 0
    PROVE  disk'[Path(v)] # "none"
<1> SUFFICES ASSUME disk'[Path(v)] = "none"
             PROVE  FALSE
  OBVIOUS
<1>1. Removes(w, Path(v))
  BY Directories, StepRemoves DEF IInv, Disk
<1>2. \A x \in Workers : Path(x) = Path(v) => Proc(x) = Proc(u) /\ Key(x) = Key(u)
  BY <1>1, Directories DEF IInv, Removes, SameChart
<1>3. CASE pc[w] = "decide" /\ Path(v) = Path(w)
  <2>1. SameChart(w, u)
    BY <1>2, <1>3 DEF SameChart
  <2>2. fetched[Proc(u)][Key(u)] = 0
    BY <1>3, <2>1 DEF IInv, First, Downloading, SameChart
  <2>3. pc[u] # "store"
    BY <1>3, <2>1 DEF IInv, OneDownload, Downloading
  <2> QED BY <2>2, <2>3
<1>4. CASE /\ pc[w] = "use" /\ \E x \in Workers : Proc(x) = Proc(w) /\ Path(x) = Path(v)
           /\ \A x \in SameProcess(w) : pc[x] \in {"done", "failed"}
  <2>1. u = w \/ u \in SameProcess(w)
    BY <1>2, <1>4 DEF SameProcess
  <2> QED BY <1>4, <2>1
<1> QED BY <1>1, <1>3, <1>4 DEF Removes

LEMMA KnownNow ==
    ASSUME TypeOK, NEW w \in Workers, Moves(w), Remember(w), NEW u \in Workers, SameChart(u, w)
    PROVE  Known(u)' = Path(w)
<1>1. /\ Proc(u) = Proc(w) /\ Key(u) = Key(w) /\ Proc(w) \in Processes /\ Key(w) \in Keys
      /\ Proc(u)' = Proc(u) /\ Key(u)' = Key(u)
  BY Directories, Fixed DEF Moves, SameChart
<1>2. memory[Proc(w)] \in [Keys -> Paths \cup {NoPath}]
  BY <1>1 DEF TypeOK
<1> QED BY <1>1, <1>2 DEF Remember, Known, TypeOK

LEMMA StoreKept ==
    ASSUME IInv, NEW w \in Workers, Step(w), Moves(w), Records(w),
           NEW u \in Workers, pc'[u] = "store"
    PROVE  Disk(u)' # "none"
<1>1. Path(u)' = Path(u)
  BY Fixed DEF Moves
<1>2. CASE u = w
  <2>1. Disk(w) = "complete" /\ disk' = disk
    BY <1>2 DEF Records
  <2> QED BY <1>1, <1>2, <2>1 DEF Disk
<1>3. CASE u # w
  <2>1. pc[u] = "store" /\ Disk(u) # "none"
    BY <1>3 DEF Moves, IInv, Kept
  <2>2. disk'[Path(u)] # "none"
    BY <2>1, Stays DEF SameChart
  <2> QED BY <1>1, <2>2 DEF Disk
<1> QED BY <1>2, <1>3

\* How often the chart of u was fetched, after a step of w.
LEMMA FetchedAfter ==
    ASSUME TypeOK, NEW w \in Workers, Moves(w), Records(w), NEW u \in Workers
    PROVE  \/ fetched'[Proc(u)'][Key(u)'] = fetched[Proc(u)][Key(u)]
           \/ /\ SameChart(w, u) /\ pc[w] = "download" /\ pc'[w] = "store"
<1>1. /\ Proc(u) \in Processes /\ Key(u) \in Keys /\ Proc(u)' = Proc(u) /\ Key(u)' = Key(u)
      /\ Proc(w) \in Processes /\ Key(w) \in Keys
  BY Directories, Fixed DEF Moves
<1>2. fetched[Proc(w)] \in [Keys -> Nat]
  BY <1>1 DEF TypeOK
<1>3. CASE fetched' = fetched
  BY <1>1, <1>3
<1>4. CASE /\ fetched' = [fetched EXCEPT ![Proc(w)][Key(w)] = @ + 1]
           /\ pc[w] = "download" /\ pc'[w] = "store"
  <2>1. CASE SameChart(w, u)
    BY <1>4, <2>1
  <2>2. CASE ~SameChart(w, u)
    BY <1>1, <1>2, <1>4, <2>2 DEF SameChart, TypeOK
  <2> QED BY <2>1, <2>2
<1> QED BY <1>3, <1>4 DEF Records

LEMMA WaitingKept ==
    ASSUME IInv, NEW w \in Workers, Step(w), Moves(w), Records(w),
           NEW u \in Workers, pc'[u] \in {"start", "queue"}, fetched'[Proc(u)'][Key(u)'] # 0
    PROVE  \/ Cached(u)' # NoPath
           \/ \E v \in Workers : SameChart(v, u)' /\ pc'[v] = "store"
<1>1. \A v \in Workers : SameChart(v, u)' <=> SameChart(v, u)
  BY Fixed DEF Moves
<1>2. TypeOK
  BY DEF IInv
<1>3. CASE fetched[Proc(u)][Key(u)] = 0
  BY <1>1, <1>2, <1>3, FetchedAfter
<1>4. CASE fetched[Proc(u)][Key(u)] # 0
  <2>1. pc[u] \in {"start", "queue"} /\ (u = w => Cached(u) = NoPath)
    BY DEF Moves, Records
  <2>2. Cached(u) # NoPath \/ \E v \in Workers : SameChart(v, u) /\ pc[v] = "store"
    BY <1>4, <2>1 DEF IInv, Kept
  <2>3. CASE Cached(u) # NoPath
    <3>1. Known(u) # NoPath /\ disk[Known(u)] # "none"
      BY <2>3 DEF Cached, Known
    <3>2. PICK v \in Workers : SameChart(v, u) /\ Path(v) = Known(u)
      BY <3>1 DEF IInv, Remembered
    <3>3. disk'[Known(u)] # "none"
      BY <1>4, <2>1, <3>1, <3>2, Stays DEF Disk
    <3>4. CASE Known(u)' = Known(u)
      BY <3>1, <3>3, <3>4 DEF Cached, Known
    <3>5. CASE Remember(w) /\ SameChart(u, w) /\ Known(u)' = Path(w) /\ memory' # memory
      <4>1. Disk(w) # "none" /\ disk' = disk
        BY <3>5 DEF Records, Valid, IInv, Kept
      <4> QED BY <3>5, <4>1, <1>2, Directories DEF Cached, Known, Disk
    <3> QED BY <1>2, <3>4, <3>5, KnownAfter
  <2>4. CASE \E v \in Workers : SameChart(v, u) /\ pc[v] = "store"
    <3>1. PICK v \in Workers : SameChart(v, u) /\ pc[v] = "store"
      BY <2>4
    <3>2. CASE v # w
      BY <1>1, <3>1, <3>2 DEF Moves
    <3>3. CASE v = w
      <4>1. Known(u)' = Path(w)
        BY <1>2, <3>1, <3>3, KnownNow DEF Records, SameChart
      <4>2. disk'[Path(w)] # "none"
        BY <1>4, <2>1, <3>1, <3>3, Stays DEF IInv, Kept
      <4> QED BY <1>2, <4>1, <4>2, Directories DEF Cached, Known
    <3> QED BY <3>2, <3>3
  <2> QED BY <2>2, <2>3, <2>4
<1> QED BY <1>3, <1>4

LEMMA FirstKept ==
    ASSUME IInv, TypeOK', NEW w \in Workers, Moves(w), Records(w)
    PROVE  First'
<1>1. TypeOK /\ Proc(w) \in Processes /\ Key(w) \in Keys
  BY Directories DEF IInv
<1>2. \A p \in Processes, k \in Keys : fetched'[p][k] \in {0, 1}
  <2> SUFFICES ASSUME NEW p \in Processes, NEW k \in Keys
               PROVE  fetched'[p][k] \in {0, 1}
    OBVIOUS
  <2>1. fetched[p][k] \in {0, 1}
    BY DEF IInv, First
  <2>2. CASE fetched' = fetched
    BY <2>1, <2>2
  <2>3. CASE /\ fetched' = [fetched EXCEPT ![Proc(w)][Key(w)] = @ + 1] /\ pc[w] = "download"
    <3>1. fetched[Proc(w)][Key(w)] = 0 /\ fetched[Proc(w)] \in [Keys -> Nat]
      BY <1>1, <2>3 DEF IInv, First, Downloading, TypeOK
    <3> QED BY <1>1, <2>1, <2>3, <3>1 DEF TypeOK
  <2> QED BY <2>2, <2>3 DEF Records
<1>3. \A u \in Workers :
          pc'[u] \in Downloading \ {"store", "release", "unlock"} => fetched'[Proc(u)'][Key(u)'] = 0
  <2> SUFFICES ASSUME NEW u \in Workers, pc'[u] \in Downloading \ {"store", "release", "unlock"}
               PROVE  fetched'[Proc(u)'][Key(u)'] = 0
    OBVIOUS
  <2>1. CASE u = w
    <3>1. fetched'[Proc(w)'][Key(w)'] = fetched[Proc(w)][Key(w)]
      BY <1>1, <2>1, FetchedAfter
    <3>2. CASE pc[w] \in Downloading \ {"store", "release", "unlock"}
      BY <2>1, <3>1, <3>2 DEF IInv, First
    <3>3. CASE pc[w] = "queue"
      <4>1. Cached(w) = NoPath /\ \A v \in SameProcess(w) : Key(v) = Key(w) => pc[v] \notin Downloading
        BY <2>1, <3>3 DEF Moves, Downloading
      <4>2. ~\E v \in Workers : SameChart(v, w) /\ pc[v] = "store"
        BY <3>3, <4>1 DEF SameChart, SameProcess, Downloading
      <4> QED BY <2>1, <3>1, <3>3, <4>1, <4>2 DEF IInv, Kept
    <3> QED BY <2>1, <3>2, <3>3 DEF Records
  <2>2. CASE u # w
    <3>1. pc[u] \in Downloading \ {"store", "release", "unlock"}
      BY <2>2 DEF Moves
    <3>2. fetched[Proc(u)][Key(u)] = 0 /\ (SameChart(w, u) => pc[w] \notin Downloading)
      BY <2>2, <3>1 DEF IInv, First, OneDownload
    <3> QED BY <1>1, <3>2, FetchedAfter DEF Downloading
  <2> QED BY <2>1, <2>2
<1> QED BY <1>2, <1>3 DEF First, Downloading

LEMMA StepKeeps ==
    ASSUME IInv, NEW w \in Workers, Step(w)
    PROVE  IInv'
<1>1. TypeOK /\ TypeOK' /\ Moves(w) /\ Records(w)
  BY StepTypes, StepMoves, StepRecords DEF IInv
<1>2. OneDownload' /\ OneWriter' /\ Remembered'
  BY <1>1, OneDownloadKept, OneWriterKept, RememberedKept DEF IInv
<1>3. Kept'
  BY <1>1, StoreKept, WaitingKept DEF Kept
<1>4. First'
  BY <1>1, FirstKept
<1> QED BY <1>1, <1>2, <1>3, <1>4 DEF IInv

----------------------------------------------------------------------------
(* A crash, and the first state.                                            *)

\* Who is not crashed is where it was, and everybody else of its process lives too.
LEMMA Survivors ==
    ASSUME TypeOK, NEW p \in Processes, Crash(p)
    PROVE  /\ \A w \in Workers : pc'[w] # "crashed" => pc'[w] = pc[w]
           /\ \A w \in Workers : pc'[w] = "crashed" /\ pc[w] # "crashed" => Proc(w) = p
           /\ \A v, w \in Workers :
                  Proc(v) = Proc(w) /\ ~Over(pc'[w]) /\ ~Over(pc[v]) => pc'[v] = pc[v]
           /\ UNCHANGED <<setup, disk, memory, got, fetched>>
BY DEF Crash, TypeOK, Over

LEMMA CrashKeeps ==
    ASSUME IInv, NEW p \in Processes, Crash(p)
    PROVE  IInv'
<1>1. TypeOK /\ TypeOK'
  BY CrashTypes DEF IInv
<1>2. /\ \A w \in Workers : pc'[w] # "crashed" => pc'[w] = pc[w]
      /\ \A v, w \in Workers :
             Proc(v) = Proc(w) /\ ~Over(pc'[w]) /\ ~Over(pc[v]) => pc'[v] = pc[v]
      /\ UNCHANGED <<setup, disk, memory, got, fetched>>
  BY <1>1, Survivors
<1>3. /\ \A w \in Workers : Proc(w)' = Proc(w) /\ Path(w)' = Path(w) /\ Key(w)' = Key(w)
      /\ \A v, w \in Workers : SameChart(v, w)' <=> SameChart(v, w)
  BY <1>2, Fixed
<1>4. \A w \in Workers : Known(w)' = Known(w) /\ Cached(w)' = Cached(w) /\ Disk(w)' = Disk(w)
  BY <1>2, <1>3 DEF Known, Cached, Disk
<1>5. OneDownload'
  BY <1>2, <1>3 DEF IInv, OneDownload, Downloading
<1>6. OneWriter'
  BY <1>2, <1>3 DEF IInv, OneWriter, FlockExclusive
<1>7. Remembered'
  BY <1>2, <1>3, <1>4 DEF IInv, Remembered, Found
<1>8. Kept'
  <2> SUFFICES ASSUME NEW w \in Workers
               PROVE  /\ pc'[w] = "store" => Disk(w)' # "none"
                      /\ pc'[w] \in {"start", "queue"} /\ fetched'[Proc(w)'][Key(w)'] # 0 =>
                             \/ Cached(w)' # NoPath
                             \/ \E v \in Workers : SameChart(v, w)' /\ pc'[v] = "store"
    BY DEF Kept
  <2>1. pc'[w] = "store" => Disk(w)' # "none"
    BY <1>2, <1>4 DEF IInv, Kept
  <2>2. ASSUME pc'[w] \in {"start", "queue"}, fetched'[Proc(w)'][Key(w)'] # 0, Cached(w)' = NoPath
        PROVE  \E v \in Workers : SameChart(v, w)' /\ pc'[v] = "store"
    <3>1. PICK v \in Workers : SameChart(v, w) /\ pc[v] = "store"
      BY <1>2, <1>3, <1>4, <2>2 DEF IInv, Kept
    <3>2. pc'[v] = "store"
      BY <1>2, <2>2, <3>1 DEF SameChart, Over
    <3> QED BY <1>3, <3>1, <3>2
  <2> QED BY <2>1, <2>2
<1>9. First'
  BY <1>2, <1>3 DEF IInv, First, Downloading
<1> QED BY <1>1, <1>5, <1>6, <1>7, <1>8, <1>9 DEF IInv

LEMMA InitKeeps == Init => IInv /\ Intact
<1> SUFFICES ASSUME Init
             PROVE  IInv /\ Intact
  OBVIOUS
<1>1. TypeOK
  BY InitTypes
<1>2. \A w \in Workers : /\ Proc(w) \in Processes /\ Key(w) \in Keys
                         /\ pc[w] = "start" /\ got[w] = NoPath
                         /\ Known(w) = NoPath /\ fetched[Proc(w)][Key(w)] = 0
  BY <1>1, Directories DEF Init, Known
<1>3. OneDownload /\ OneWriter
  BY <1>2 DEF OneDownload, OneWriter, Downloading, FlockExclusive
<1>4. Remembered /\ Kept
  BY <1>2 DEF Remembered, Kept
<1>5. First
  BY <1>2 DEF Init, First, Downloading
<1>6. \A p \in Paths : disk[p] # "partial"
  BY DEF Init
<1>7. Intact
  BY <1>2, <1>6 DEF Intact, Undisturbed
<1> QED BY <1>1, <1>3, <1>4, <1>5, <1>7 DEF IInv

----------------------------------------------------------------------------
(* Undisturbed downloads.                                                   *)

\* helm only writes to a chart that is not complete, and leaves it to nobody before it is.
Writes(w) ==
    /\ disturbed => disturbed'
    /\ \A p \in Paths : disk'[p] # disk[p] /\ disk'[p] # "none" =>
           p = Path(w) /\ pc[w] = "download" /\ pc'[w] = "download" /\ disk[p] # "complete"
    /\ pc[w] = "download" /\ pc'[w] # "download" => disturbed' \/ Disk(w) = "complete"

LEMMA StepWrites ==
    ASSUME TypeOK, NEW w \in Workers, Step(w)
    PROVE  Writes(w)
<1>1. Path(w) \in Paths
  BY Directories
<1>2. CASE UNCHANGED <<disk, disturbed>> /\ pc[w] # "download"
  BY <1>2 DEF Writes
<1>3. CASE Decide(w)
  BY <1>1, <1>3 DEF Decide, Go, Writes, TypeOK
<1>4. CASE Download(w)
  BY <1>1, <1>4 DEF Download, Disk, Writes, TypeOK
<1>5. CASE Downloaded(w)
  BY <1>1, <1>5 DEF Downloaded, Go, Writes, TypeOK
<1>6. CASE Finish(w)
  BY <1>6 DEF Finish, Go, Writes, TypeOK
<1> QED BY <1>2, <1>3, <1>4, <1>5, <1>6
        DEF Step, Go, LookUp, Enter, Probe, RLock, RFlock, Validate, WLock, WFlock, Store,
            Release, Unlock

\* A complete chart stays complete for a live worker whose process knows it or has just
\* downloaded it.
LEMMA CompleteStays ==
    ASSUME IInv, NEW w \in Workers, Step(w), NEW u \in Workers, NEW v \in Workers,
           SameChart(v, u), Disk(v) = "complete", ~Over(pc'[u]),
           Known(u) # NoPath \/ (pc[u] = "store" /\ u # w)
    PROVE  disk'[Path(v)] = "complete"
<1>1. TypeOK /\ Path(v) \in Paths /\ Moves(w) /\ Writes(w)
  BY Directories, StepMoves, StepWrites DEF IInv
<1> SUFFICES ASSUME disk'[Path(v)] = "none"
             PROVE  FALSE
  BY <1>1 DEF Writes, Disk
<1>2. Removes(w, Path(v))
  BY <1>1, StepRemoves DEF Disk
<1>3. \A x \in Workers : Path(x) = Path(v) => Proc(x) = Proc(u) /\ Key(x) = Key(u)
  BY <1>1, <1>2, Directories DEF Removes, SameChart
<1>4. CASE pc[w] = "decide" /\ Path(v) = Path(w) /\ Known(w) = NoPath
  <2>1. SameChart(w, u) /\ Known(u) = Known(w)
    BY <1>3, <1>4 DEF SameChart, Known
  <2> QED BY <1>4, <2>1 DEF IInv, OneDownload, Downloading
<1>5. CASE /\ pc[w] = "use" /\ pc'[w] = "done" /\ \E x \in Workers : Proc(x) = Proc(w) /\ Path(x) = Path(v)
           /\ \A x \in SameProcess(w) : pc[x] \in {"done", "failed"}
  <2>1. u = w \/ u \in SameProcess(w)
    BY <1>3, <1>5 DEF SameProcess
  <2> QED BY <1>1, <1>5, <2>1 DEF Moves, Over, SameProcess
<1> QED BY <1>2, <1>4, <1>5 DEF Removes, Disk

\* What a worker finds in a directory that nobody is writing to is complete.
LEMMA FoundComplete ==
    ASSUME IInv, Undisturbed, NEW w \in Workers, pc[w] \in {"validate", "decide", "store"},
           pc[w] # "store" => Valid(Disk(w))
    PROVE  Disk(w) = "complete"
<1>1. CASE pc[w] = "store"
  BY <1>1 DEF Undisturbed
<1>2. CASE pc[w] # "store"
  <2>1. ~\E v \in Workers : Path(v) = Path(w) /\ pc[v] = "download"
    BY <1>2 DEF IInv, OneWriter, FlockExclusive
  <2>2. Path(w) \in Paths
    BY Directories DEF IInv
  <2> QED BY <1>2, <2>1, <2>2 DEF Undisturbed, Valid, Disk
<1> QED BY <1>1, <1>2

LEMMA IntactKept ==
    ASSUME IInv, Intact, NEW w \in Workers, Step(w)
    PROVE  Intact'
<1> SUFFICES ASSUME ~disturbed'
             PROVE  Undisturbed'
  BY DEF Intact
<1>1. TypeOK /\ TypeOK' /\ Moves(w) /\ Records(w) /\ Writes(w)
  BY StepTypes, StepMoves, StepRecords, StepWrites DEF IInv
<1>2. Undisturbed
  BY <1>1 DEF Writes, Intact
<1>3. /\ \A v \in Workers : Path(v)' = Path(v) /\ Path(v) \in Paths
      /\ \A u, v \in Workers : SameChart(v, u)' <=> SameChart(v, u)
  BY <1>1, Fixed, Directories DEF Moves
<1>4. ASSUME NEW p \in Paths, disk'[p] = "partial"
      PROVE  \E v \in Workers : Path(v)' = p /\ pc'[v] = "download"
  <2>1. CASE disk[p] = "partial"
    <3>1. PICK v \in Workers : Path(v) = p /\ pc[v] = "download"
      BY <1>2, <2>1 DEF Undisturbed
    <3>2. pc'[v] = "download"
      BY <1>1, <2>1, <3>1 DEF Moves, Writes, Disk
    <3> QED BY <1>3, <3>1, <3>2
  <2>2. CASE disk[p] # "partial"
    BY <1>1, <1>3, <1>4, <2>2 DEF Writes
  <2> QED BY <2>1, <2>2
<1>5. ASSUME NEW u \in Workers, pc'[u] = "store"
      PROVE  Disk(u)' = "complete"
  <2>1. CASE u = w
    BY <1>1, <1>3, <1>5, <2>1 DEF Records, Disk
  <2>2. CASE u # w
    <3>1. pc[u] = "store" /\ Disk(u) = "complete"
      BY <1>1, <1>2, <1>5, <2>2 DEF Moves, Undisturbed
    <3> QED BY <1>3, <1>5, <2>2, <3>1, CompleteStays DEF SameChart, Over, Disk
  <2> QED BY <2>1, <2>2
<1>6. ASSUME Remember(w), pc[w] \in {"validate", "decide", "store"},
             pc[w] # "store" => Valid(Disk(w)), disk' = disk
      PROVE  disk'[Path(w)] = "complete"
  BY <1>2, <1>6, FoundComplete DEF Disk
<1>7. ASSUME NEW u \in Workers, ~Over(pc'[u])
      PROVE  ~Over(pc[u])
  BY <1>1, <1>7 DEF Moves, Over, Step, Go, LookUp, Enter, Probe, RLock, RFlock, Validate, WLock, WFlock,
     Decide, Download, Downloaded, Store, Release, Unlock, Finish
<1>8. ASSUME NEW u \in Workers, ~Over(pc'[u]), Known(u) # NoPath
      PROVE  disk'[Known(u)] = "complete"
  <2>1. PICK v \in Workers : SameChart(v, u) /\ Path(v) = Known(u)
    BY <1>8 DEF IInv, Remembered
  <2>2. Disk(v) = "complete"
    BY <1>2, <1>7, <1>8, <2>1 DEF Undisturbed, Disk
  <2> QED BY <1>8, <2>1, <2>2, CompleteStays
<1>9. ASSUME NEW u \in Workers, ~Over(pc'[u]), got[u] # NoPath
      PROVE  disk'[got[u]] = "complete"
  <2>1. Known(u) # NoPath /\ \E v \in Workers : SameChart(v, u) /\ Path(v) = got[u]
    BY <1>9 DEF IInv, Remembered
  <2>2. PICK v \in Workers : SameChart(v, u) /\ Path(v) = got[u]
    BY <2>1
  <2>3. Disk(v) = "complete"
    BY <1>2, <1>7, <1>9, <2>2 DEF Undisturbed, Disk
  <2> QED BY <1>9, <2>1, <2>2, <2>3, CompleteStays
<1>10. ASSUME NEW u \in Workers, Known(u)' # NoPath, ~Over(pc'[u])
       PROVE  disk'[Known(u)'] = "complete"
  <2>1. CASE Known(u)' = Known(u)
    BY <1>8, <1>10, <2>1
  <2>2. CASE Remember(w) /\ memory' # memory /\ Known(u)' = Path(w)
    BY <1>1, <1>6, <2>2 DEF Records
  <2> QED BY <1>1, <2>1, <2>2, KnownAfter
<1>11. ASSUME NEW u \in Workers, got'[u] # NoPath, ~Over(pc'[u])
       PROVE  disk'[got'[u]] = "complete"
  <2>1. CASE got'[u] = got[u]
    BY <1>9, <1>11, <2>1
  <2>2. CASE got'[u] # got[u]
    <3>1. u = w
      BY <1>1, <2>2 DEF Moves
    <3>2. CASE got'[w] = Cached(w) /\ Cached(w) # NoPath
      <4>1. Known(w) # NoPath /\ got'[w] = Known(w)
        BY <3>2 DEF Cached, Known
      <4> QED BY <1>8, <1>11, <3>1, <4>1
    <3>3. CASE got'[w] = Path(w) /\ Remember(w) /\ ~(got'[w] = Cached(w) /\ Cached(w) # NoPath)
      BY <1>1, <1>6, <2>2, <3>1, <3>3 DEF Records
    <3> QED BY <1>1, <2>2, <3>1, <3>2, <3>3 DEF Records
  <2> QED BY <2>1, <2>2
<1> QED BY <1>4, <1>5, <1>10, <1>11 DEF Undisturbed

LEMMA IntactAfterCrash ==
    ASSUME IInv, Intact, NEW p \in Processes, Crash(p)
    PROVE  Intact'
<1> SUFFICES ASSUME ~disturbed'
             PROVE  Undisturbed'
  BY DEF Intact
<1>1. /\ \A w \in Workers : pc'[w] # "crashed" => pc'[w] = pc[w]
      /\ UNCHANGED <<setup, disk, memory, got, fetched>>
  BY Survivors DEF IInv
<1>2. Undisturbed
  BY DEF Crash, Intact
<1>3. \A w \in Workers : Path(w)' = Path(w) /\ Known(w)' = Known(w) /\ Disk(w)' = Disk(w)
  BY <1>1, Fixed DEF Known, Disk
<1>4. \A w \in Workers : pc[w] = "download" /\ Disk(w) # "none" => pc'[w] = "download"
  BY DEF Crash, IInv, TypeOK
<1>5. \A q \in Paths : disk'[q] = "partial" => \E v \in Workers : Path(v)' = q /\ pc'[v] = "download"
  <2> SUFFICES ASSUME NEW q \in Paths, disk[q] = "partial"
               PROVE  \E v \in Workers : Path(v)' = q /\ pc'[v] = "download"
    BY <1>1
  <2>1. PICK v \in Workers : Path(v) = q /\ pc[v] = "download"
    BY <1>2 DEF Undisturbed
  <2> QED BY <1>3, <1>4, <2>1 DEF Disk
<1> QED BY <1>1, <1>2, <1>3, <1>5 DEF Undisturbed, Over

----------------------------------------------------------------------------
(* Theorems.                                                                *)

LEMMA NextKeeps == IInv /\ Intact /\ [Next]_vars => (IInv /\ Intact)'
<1> SUFFICES ASSUME IInv, Intact, [Next]_vars
             PROVE  (IInv /\ Intact)'
  OBVIOUS
<1>1. ASSUME NEW w \in Workers, Step(w)
      PROVE  (IInv /\ Intact)'
  BY <1>1, StepKeeps, IntactKept
<1>2. ASSUME NEW p \in Processes, Crash(p)
      PROVE  (IInv /\ Intact)'
  BY <1>2, CrashKeeps, IntactAfterCrash
<1>3. CASE UNCHANGED vars
  <2> USE <1>3 DEF vars
  <2>1. TypeOK'
    BY DEF IInv, TypeOK
  <2>2. /\ \A w \in Workers : Proc(w)' = Proc(w) /\ Path(w)' = Path(w) /\ Key(w)' = Key(w)
        /\ \A v, w \in Workers : SameChart(v, w)' <=> SameChart(v, w)
    BY Fixed
  <2>3. \A w \in Workers : Known(w)' = Known(w) /\ Cached(w)' = Cached(w) /\ Disk(w)' = Disk(w)
    BY <2>2 DEF Known, Cached, Disk
  <2>4. OneDownload' /\ OneWriter' /\ Remembered'
    BY <2>2, <2>3 DEF IInv, OneDownload, OneWriter, Remembered, Downloading, FlockExclusive
  <2>5. Kept' /\ First'
    BY <2>2, <2>3 DEF IInv, Kept, First, Downloading
  <2>6. Intact'
    BY <2>2, <2>3 DEF Intact, Undisturbed
  <2> QED BY <2>1, <2>4, <2>5, <2>6 DEF IInv
<1> QED BY <1>1, <1>2, <1>3 DEF Next

LEMMA Invariant == Spec => [](IInv /\ Intact)
BY InitKeeps, NextKeeps, PTL DEF Spec

\* Every variable stays in its type, whatever is downloaded, fails or crashes.
THEOREM TypeCorrect == Spec => []TypeOK
<1>1. IInv => TypeOK
  BY DEF IInv
<1> QED BY Invariant, <1>1, PTL

\* A process downloads a chart and version at most once, however many of its releases use it:
\* the table and the mutex per chart (getOCIChart, forcedDownloadChart) see to that even when
\* directories are removed, other processes download and some of them crash.
THEOREM OneFetch == Spec => []DownloadedOnce
<1>1. IInv => DownloadedOnce
  BY DEF IInv, First, DownloadedOnce
<1> QED BY Invariant, <1>1, PTL

\* As long as no download was broken off, helm works with complete charts, which nobody removes
\* or writes to: acquireChartLock gives back every lock before the chart is used.
THEOREM ChartsComplete == Spec => []ChartIntact
<1>1. IInv /\ Intact => ChartIntact
  BY DEF IInv, TypeOK, Intact, Undisturbed, ChartIntact, Over
<1> QED BY Invariant, <1>1, PTL
=============================================================================
