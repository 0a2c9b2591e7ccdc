----------------------------- MODULE ChartCache -----------------------------
(***************************************************************************)
(* Downloading remote charts (pkg/state/state.go getOCIChart and           *)
(* forcedDownloadChart over acquireChartLock): the workers of several      *)
(* helmfile processes, each with the chart of its release to download, the *)
(* directories the charts are downloaded to, and four layers of            *)
(* coordination: a table in the memory of a process, a mutex per chart and *)
(* version, a readers-writer mutex per directory, and a file lock per      *)
(* directory, the only one that processes share.                           *)
(*                                                                         *)
(* A lock is held exactly while its holder is at certain places of the     *)
(* code, so the tables of holders are definitions on pc, and a process     *)
(* that crashes gives everything up except what it wrote to the disk.      *)
(***************************************************************************)
EXTENDS Integers, FiniteSets

CONSTANTS Workers, Processes, Paths, Keys,
          Setups,     \* records [proc, path, key, shared, refresh]: see Init
          NoPath,
          MaxRetries, \* attempts at the exclusive file lock (3 in the code)
          MaxCrashes  \* processes that may crash

ASSUME ChartCacheAssumption ==
    /\ NoPath \notin Paths /\ MaxCrashes \in Nat /\ MaxRetries \in Nat \ {0}
    /\ Setups \subseteq [proc : [Workers -> Processes], path : [Workers -> Paths],
                         key : [Workers -> Keys], shared : SUBSET Paths, refresh : SUBSET Processes]

\* A directory is made for one chart and version, and outside the shared cache for one process.
ASSUME OwnDirectories ==
    \A s \in Setups : \A v, w \in Workers :
        s.path[v] = s.path[w] => /\ s.key[v] = s.key[w]
                                 /\ s.path[v] \notin s.shared => s.proc[v] = s.proc[w]

VARIABLES setup,
          disk,       \* a directory: "none", "empty" (no Chart.yaml), "partial" or "complete"
          memory,     \* downloadedCharts of every process
          pc, attempt,
          got,        \* the path a worker found, or NoPath on its way to an error
          fetched,    \* how often each process has downloaded each chart
          disturbed   \* a download failed or was cut off by a crash

vars == <<setup, disk, memory, pc, attempt, got, fetched, disturbed>>

Proc(w) == setup.proc[w]
Path(w) == setup.path[w]
Key(w) == setup.key[w]
NeedsRefresh(w) == Proc(w) \in setup.refresh
Disk(w) == disk[Path(w)]
Valid(d) == d \in {"partial", "complete"}   \* findChartDirectory: there is a Chart.yaml

Places == {"start", "queue", "probe", "rlock", "rflock", "validate", "wlock", "wflock",
           "backoff", "decide", "download", "store", "release", "unlock",
           "use", "done", "failed", "crashed"}

\* Where a worker holds the mutex of its chart and version, the mutex of the directory as a
\* reader or writer, and the file lock; "release" and "unlock" follow a writer only.
Downloading == {"probe", "rlock", "rflock", "validate", "wlock", "wflock", "backoff",
                "decide", "download", "store", "release", "unlock"}
Reading == {"rflock", "validate"}
Writing == {"wflock", "decide", "download", "store", "release"}
FlockExclusive == {"decide", "download", "store", "release", "unlock"}

Held(ws, places) == {v \in ws : pc[v] \in places}
SamePath(w) == {v \in Workers \ {w} : Path(v) = Path(w)}
SameProcess(w) == {v \in Workers \ {w} : Proc(v) = Proc(w)}

TypeOK ==
    /\ setup \in Setups
    /\ disk \in [Paths -> {"none", "empty", "partial", "complete"}]
    /\ memory \in [Processes -> [Keys -> Paths \cup {NoPath}]]
    /\ pc \in [Workers -> Places] /\ attempt \in [Workers -> 1..MaxRetries]
    /\ got \in [Workers -> Paths \cup {NoPath}]
    /\ fetched \in [Processes -> [Keys -> Nat]] /\ disturbed \in BOOLEAN
    /\ \A w \in Workers : pc[w] = "use" => got[w] # NoPath

Init ==
    /\ setup \in Setups
    /\ disk \in [Paths -> {"none", "empty", "complete"}]
    /\ \A p \in Paths : p \notin setup.shared => disk[p] = "none"
    /\ memory = [p \in Processes |-> [k \in Keys |-> NoPath]]
    /\ pc = [w \in Workers |-> "start"] /\ attempt = [w \in Workers |-> 1]
    /\ got = [w \in Workers |-> NoPath]
    /\ fetched = [p \in Processes |-> [k \in Keys |-> 0]] /\ disturbed = FALSE

Go(w, from, to) == pc[w] = from /\ pc' = [pc EXCEPT ![w] = to]

----------------------------------------------------------------------------
(* getOCIChart, forcedDownloadChart, before the directory is locked.        *)

\* The chart this process has downloaded already, if its directory is still there.
Cached(w) == LET p == memory[Proc(w)][Key(w)] IN
             IF p # NoPath /\ disk[p] # "none" THEN p ELSE NoPath

UseCached(w) == got' = [got EXCEPT ![w] = Cached(w)]

\* The fast path, without any lock.
LookUp(w) ==
    /\ \/ Cached(w) # NoPath /\ Go(w, "start", "use") /\ UseCached(w)
       \/ Cached(w) = NoPath /\ Go(w, "start", "queue") /\ UNCHANGED got
    /\ UNCHANGED <<setup, disk, memory, attempt, fetched, disturbed>>

\* A bug: the table is not looked up again under the mutex.
EnterUnchecked(w) ==
    /\ \A v \in SameProcess(w) : Key(v) = Key(w) => pc[v] \notin Downloading
    /\ Go(w, "queue", "probe")
    /\ UNCHANGED <<setup, disk, memory, attempt, got, fetched, disturbed>>

\* Take the mutex of the chart and version, look the table up again, and leave if it has it.
Enter(w) ==
    /\ \A v \in SameProcess(w) : Key(v) = Key(w) => pc[v] \notin Downloading
    /\ \/ Cached(w) # NoPath /\ Go(w, "queue", "use") /\ UseCached(w)
       \/ Cached(w) = NoPath /\ Go(w, "queue", "probe") /\ UNCHANGED got
    /\ UNCHANGED <<setup, disk, memory, attempt, fetched, disturbed>>

----------------------------------------------------------------------------
(* acquireChartLock.                                                        *)

\* Make the directory of the lock, which may fail; a chart that is there and must not be
\* refreshed is read under the shared lock.
Probe(w) ==
    /\ \/ Go(w, "probe", IF Disk(w) # "none" /\ ~NeedsRefresh(w) THEN "rlock" ELSE "wlock")
       \/ Go(w, "probe", "failed")
    /\ UNCHANGED <<setup, disk, memory, attempt, got, fetched, disturbed>>

RLock(w) ==
    /\ Held(SamePath(w) \cap SameProcess(w), Writing) = {}
    /\ Go(w, "rlock", "rflock")
    /\ UNCHANGED <<setup, disk, memory, attempt, got, fetched, disturbed>>

\* The shared file lock; on an error, or after 30 seconds, the exclusive one is tried.
RFlock(w) ==
    /\ \/ Held(SamePath(w), FlockExclusive) = {} /\ Go(w, "rflock", "validate")
       \/ Go(w, "rflock", "wlock")
    /\ UNCHANGED <<setup, disk, memory, attempt, got, fetched, disturbed>>

Remember(w) == memory' = [memory EXCEPT ![Proc(w)][Key(w)] = Path(w)]

\* Under the shared lock a chart is used as it is; without Chart.yaml both locks are
\* released for the exclusive one.
Validate(w) ==
    /\ \/ /\ Valid(Disk(w)) /\ Go(w, "validate", "use")
          /\ Remember(w) /\ got' = [got EXCEPT ![w] = Path(w)]
       \/ ~Valid(Disk(w)) /\ Go(w, "validate", "wlock") /\ UNCHANGED <<memory, got>>
    /\ UNCHANGED <<setup, disk, attempt, fetched, disturbed>>

WLock(w) ==
    /\ Held(SamePath(w) \cap SameProcess(w), Writing \cup Reading) = {}
    /\ \/ Go(w, "wlock", "wflock")
       \/ Go(w, "backoff", "wflock")
    /\ UNCHANGED <<setup, disk, memory, attempt, got, fetched, disturbed>>

\* A bug: the attempts are not counted.
WFlockForever(w) ==
    LET holders == Held(SamePath(w), FlockExclusive \cup {"validate"}) IN
    /\ \/ holders = {} /\ Go(w, "wflock", "decide")
       \/ holders # {} /\ Go(w, "wflock", "failed")
       \/ Go(w, "wflock", "backoff")
    /\ UNCHANGED <<setup, disk, memory, attempt, got, fetched, disturbed>>

\* The exclusive file lock.  A timeout, which takes a holder, is an error; an error of the
\* file system is tried again, without the mutex in between.
WFlock(w) ==
    LET holders == Held(SamePath(w), FlockExclusive \cup {"validate"}) IN
    /\ \/ holders = {} /\ Go(w, "wflock", "decide") /\ UNCHANGED attempt
       \/ holders # {} /\ Go(w, "wflock", "failed") /\ UNCHANGED attempt
       \/ /\ attempt[w] < MaxRetries /\ Go(w, "wflock", "backoff")
          /\ attempt' = [attempt EXCEPT ![w] = @ + 1]
       \/ attempt[w] = MaxRetries /\ Go(w, "wflock", "failed") /\ UNCHANGED attempt
    /\ UNCHANGED <<setup, disk, memory, got, fetched, disturbed>>

\* A bug: a chart of the shared cache is refreshed as well.
MayUsePrivately(w) == ~NeedsRefresh(w) \/ memory[Proc(w)][Key(w)] # NoPath

\* No refresh was asked for, this process has the chart already, or others may use it.
MayUse(w) == ~NeedsRefresh(w) \/ memory[Proc(w)][Key(w)] # NoPath \/ Path(w) \in setup.shared

\* Under the exclusive lock: use the chart that is there, or remove it (which may fail) to
\* download it again.  In the shared cache nothing is removed, and a directory without
\* Chart.yaml is an error.
Decide(w) ==
    /\ \/ /\ Valid(Disk(w)) /\ MayUse(w)
          /\ Go(w, "decide", "release") /\ Remember(w)
          /\ got' = [got EXCEPT ![w] = Path(w)] /\ UNCHANGED disk
       \/ /\ \/ Valid(Disk(w)) /\ ~MayUse(w)
             \/ Disk(w) = "empty" /\ Path(w) \notin setup.shared
          /\ \/ Go(w, "decide", "download") /\ disk' = [disk EXCEPT ![Path(w)] = "none"]
             \/ Go(w, "decide", "release") /\ UNCHANGED disk
          /\ UNCHANGED <<memory, got>>
       \/ /\ Disk(w) = "empty" /\ Path(w) \in setup.shared
          /\ Go(w, "decide", "release") /\ UNCHANGED <<disk, memory, got>>
       \/ /\ Disk(w) = "none"
          /\ Go(w, "decide", "download") /\ UNCHANGED <<disk, memory, got>>
    /\ UNCHANGED <<setup, attempt, fetched, disturbed>>

----------------------------------------------------------------------------
(* The download, and the end.                                               *)

\* helm writes the chart file by file, outside the reach of helmfile.
Download(w) ==
    /\ pc[w] = "download" /\ Disk(w) # "complete"
    /\ disk' = [disk EXCEPT ![Path(w)] =
                   CASE @ = "none" -> "empty" [] @ = "empty" -> "partial" [] @ = "partial" -> "complete"]
    /\ UNCHANGED <<setup, memory, pc, attempt, got, fetched, disturbed>>

\* helm pull, fetch or export ends, or fails wherever it is; what it wrote stays.
Downloaded(w) ==
    /\ \/ /\ Disk(w) = "complete" /\ Go(w, "download", "store")
          /\ fetched' = [fetched EXCEPT ![Proc(w)][Key(w)] = @ + 1] /\ UNCHANGED disturbed
       \/ Go(w, "download", "release") /\ disturbed' = TRUE /\ UNCHANGED fetched
    /\ UNCHANGED <<setup, disk, memory, attempt, got>>

Store(w) ==
    /\ Go(w, "store", "release") /\ Remember(w) /\ got' = [got EXCEPT ![w] = Path(w)]
    /\ UNCHANGED <<setup, disk, attempt, fetched, disturbed>>

\* chartLockResult.Release: the mutex of the directory first, then the file lock.
Release(w) ==
    /\ Go(w, "release", "unlock")
    /\ UNCHANGED <<setup, disk, memory, attempt, got, fetched, disturbed>>

Unlock(w) ==
    /\ Go(w, "unlock", IF got[w] # NoPath THEN "use" ELSE "failed")
    /\ UNCHANGED <<setup, disk, memory, attempt, got, fetched, disturbed>>

\* The helm operations of the release are over; the temporary directories go after the last
\* one of the process (WithPreparedCharts), the shared cache stays.
Finish(w) ==
    /\ Go(w, "use", "done")
    /\ disk' = [p \in Paths |-> IF /\ p \notin setup.shared /\ p \in {Path(v) : v \in SameProcess(w) \cup {w}}
                                   /\ \A v \in SameProcess(w) : pc[v] \in {"done", "failed"}
                                THEN "none" ELSE disk[p]]
    /\ UNCHANGED <<setup, memory, attempt, got, fetched, disturbed>>

\* A process is killed: its locks and its memory are gone, the disk stays.
Crash(p) ==
    LET dead == {w \in Workers : Proc(w) = p /\ pc[w] \notin {"done", "failed", "crashed"}} IN
    /\ dead # {}
    /\ Cardinality({Proc(w) : w \in {v \in Workers : pc[v] = "crashed"}}) < MaxCrashes
    /\ pc' = [w \in Workers |-> IF w \in dead THEN "crashed" ELSE pc[w]]
    /\ disturbed' = (disturbed \/ \E w \in dead : pc[w] = "download" /\ Disk(w) # "none")
    /\ UNCHANGED <<setup, disk, memory, attempt, got, fetched>>

Step(w) == \/ LookUp(w) \/ Enter(w) \/ Probe(w) \/ RLock(w) \/ RFlock(w) \/ Validate(w)
           \/ WLock(w) \/ WFlock(w) \/ Decide(w) \/ Download(w) \/ Downloaded(w) \/ Store(w)
           \/ Release(w) \/ Unlock(w) \/ Finish(w)

Ended == \A w \in Workers : pc[w] \in {"done", "failed", "crashed"}

Next == \/ \E w \in Workers : Step(w)
        \/ \E p \in Processes : Crash(p)
        \/ Ended /\ UNCHANGED vars

\* Go schedules every goroutine and helm ends; nothing is assumed of crashes.
Spec == Init /\ [][Next]_vars /\ \A w \in Workers : WF_vars(Step(w))

----------------------------------------------------------------------------
(* Properties.                                                              *)

\* The chart that helm works with is complete, and nobody removes it or writes to it
\* ("charts in the shared cache are not deleted or refreshed to prevent race conditions where
\* one process might delete a chart that another is using"), as long as no download was
\* broken off: what that leaves in the shared cache is taken for a chart.
ChartIntact ==
    \A w \in Workers : pc[w] = "use" /\ ~disturbed => disk[got[w]] = "complete"

\* A process downloads a chart and version once, however many of its releases use it.
DownloadedOnce == \A p \in Processes, k \in Keys : fetched[p][k] <= 1

\* Every worker gets a chart or an error and ends, whatever fails or crashes around it.
Answered == \A w \in Workers : <>(pc[w] \in {"done", "failed", "crashed"})
=============================================================================
