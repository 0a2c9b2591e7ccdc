--------------------------- MODULE ScatterGather ---------------------------
(***************************************************************************)
(* HelmState.scatterGather (pkg/state/state_run.go): one producer          *)
(* goroutine, a clamped number of worker goroutines, and the caller, which *)
(* aggregates the results and then waits on a WaitGroup.                   *)
(*                                                                         *)
(* Every parallel operation of helmfile runs on it, and they differ in     *)
(* three parameters only:                                                  *)
(*   - iterateOnReleases makes both channels unbuffered;                   *)
(*   - SyncReleases, DiffReleases, DeleteReleasesForSync, PrepareCharts and *)
(*     the env-secret loader make both as large as the number of inputs;   *)
(*   - PrepareCharts stops aggregating at the first error it receives,     *)
(*     every other aggregator receives exactly one result per input.       *)
(*                                                                         *)
(* Channels are FIFO, so a channel is a log with two indices: the jobs     *)
(* channel holds the jobs taken+1..sent, the results channel holds         *)
(* log[got+1..Len(log)].  With capacity 0 a send is a rendezvous and both  *)
(* indices move in one step.                                               *)
(***************************************************************************)
EXTENDS Integers, Sequences

CONSTANTS Inputs,       \* number of inputs
          Concurrency,  \* the concurrency the caller asks for; 0 = no limit
          Wirings       \* the kinds of caller: <<jobCap, resultCap, failFast>>

\* The callers' channels are either unbuffered or have one place per input; the only
\* fail-fast aggregator (PrepareCharts) has a results channel with a place per input.
ASSUME ScatterGatherAssumption ==
    /\ Inputs \in Nat /\ Concurrency \in Int
    /\ Wirings \subseteq ({0, Inputs} \X {0, Inputs} \X BOOLEAN)
    /\ \A w \in Wirings : w[3] => w[2] = Inputs

\* The number of workers: concurrency < 1 and concurrency > items both mean items.
ClampConcurrency(c, items) == IF c < 1 \/ c > items THEN items ELSE c

Jobs == 1..Inputs
Workers == 1..ClampConcurrency(Concurrency, Inputs)

VARIABLES jobCap,    \* capacity of the jobs channel
          resultCap, \* capacity of the results channel
          failFast,  \* the aggregator returns at the first error
          sent,      \* jobs the producer has sent
          closed,    \* the producer has closed the jobs channel
          taken,     \* jobs the workers have received
          pc,        \* pc[w]: where worker w is
          held,      \* held[w]: the job worker w works on
          outcome,   \* outcome[j]: what do() returned for job j
          log,       \* jobs in the order their results were sent
          got,       \* results the aggregator has received
          wg,        \* counter of the WaitGroup
          main       \* where the calling goroutine is

wiring == <<jobCap, resultCap, failFast>>
vars == <<jobCap, resultCap, failFast, sent, closed, taken, pc, held, outcome, log, got, wg, main>>

TypeOK ==
    /\ jobCap \in Nat /\ resultCap \in Nat /\ failFast \in BOOLEAN
    /\ sent \in 0..Inputs /\ taken \in 0..Inputs /\ closed \in BOOLEAN
    /\ pc \in [Workers -> {"receive", "do", "send", "exited"}]
    /\ held \in [Workers -> 0..Inputs]
    /\ outcome \in [Jobs -> {"none", "ok", "err"}]
    /\ log \in Seq(Jobs) /\ got \in Nat
    /\ wg \in Nat              \* a negative WaitGroup counter panics
    /\ main \in {"aggregate", "wait", "returned"}

\* waitGroup.Add(concurrency) before any goroutine starts.
Init == /\ \E k \in Wirings : jobCap = k[1] /\ resultCap = k[2] /\ failFast = k[3]
        /\ sent = 0 /\ closed = FALSE /\ taken = 0
        /\ pc = [w \in Workers |-> "receive"]
        /\ held = [w \in Workers |-> 0]
        /\ outcome = [j \in Jobs |-> "none"]
        /\ log = <<>> /\ got = 0
        /\ wg = ClampConcurrency(Concurrency, Inputs)
        /\ main = IF Inputs = 0 THEN "wait" ELSE "aggregate"   \* no iteration

----------------------------------------------------------------------------
(* The producer: one send per input, then close.                           *)

Produce == /\ sent < Inputs
           /\ sent - taken < jobCap
           /\ sent' = sent + 1
           /\ UNCHANGED <<closed, taken, pc, held, outcome, log, got, wg, main, wiring>>

Close == /\ sent = Inputs /\ ~closed
         /\ closed' = TRUE
         /\ UNCHANGED <<sent, taken, pc, held, outcome, log, got, wg, main, wiring>>

----------------------------------------------------------------------------
(* The workers.                                                            *)

\* A bug: the jobs channel carries the address of the producer's loop variable.
ReceiveLoopVariable(w) ==
    /\ pc[w] = "receive"
    /\ \/ taken < sent /\ UNCHANGED sent
       \/ jobCap = 0 /\ sent < Inputs /\ sent' = sent + 1
    /\ taken' = taken + 1
    /\ held' = [held EXCEPT ![w] = sent']
    /\ pc' = [pc EXCEPT ![w] = "do"]
    /\ UNCHANGED <<closed, outcome, log, got, wg, main, wiring>>

\* Receive from the buffer, or directly from the producer on an unbuffered channel.
Receive(w) ==
    /\ pc[w] = "receive"
    /\ \/ taken < sent /\ UNCHANGED sent
       \/ jobCap = 0 /\ sent < Inputs /\ sent' = sent + 1
    /\ taken' = taken + 1
    /\ held' = [held EXCEPT ![w] = taken + 1]
    /\ pc' = [pc EXCEPT ![w] = "do"]
    /\ UNCHANGED <<closed, outcome, log, got, wg, main, wiring>>

Do(w) ==
    /\ pc[w] = "do"
    /\ \E o \in {"ok", "err"} : outcome' = [outcome EXCEPT ![held[w]] = o]
    /\ pc' = [pc EXCEPT ![w] = "send"]
    /\ UNCHANGED <<sent, closed, taken, held, log, got, wg, main, wiring>>

\* A bug: the aggregator's loop ends one result early.
ReceiveOneTooFew(l, n) ==
    /\ got' = n
    /\ main' = IF n = Inputs - 1 \/ (failFast /\ outcome[l[n]] = "err")
               THEN "wait" ELSE "aggregate"

\* What the aggregator does with the result it has just received, the n-th of the log l.
Aggregate(l, n) ==
    /\ got' = n
    /\ main' = IF n = Inputs \/ (failFast /\ outcome[l[n]] = "err")
               THEN "wait" ELSE "aggregate"

\* A bug: the results channel is made without a capacity.
SendResultUnbuffered(w) ==
    /\ pc[w] = "send"
    /\ log' = Append(log, held[w])
    /\ main = "aggregate" /\ Aggregate(log', got + 1)
    /\ pc' = [pc EXCEPT ![w] = "receive"]
    /\ UNCHANGED <<sent, closed, taken, held, outcome, wg, wiring>>

\* Send the result to the buffer, or directly to the aggregator on an unbuffered channel.
SendResult(w) ==
    /\ pc[w] = "send"
    /\ log' = Append(log, held[w])
    /\ \/ Len(log) - got < resultCap /\ UNCHANGED <<got, main>>
       \/ resultCap = 0 /\ main = "aggregate" /\ Aggregate(log', got + 1)
    /\ pc' = [pc EXCEPT ![w] = "receive"]
    /\ UNCHANGED <<sent, closed, taken, held, outcome, wg, wiring>>

\* The range over the closed, drained jobs channel ends; waitGroup.Done().
Exit(w) ==
    /\ pc[w] = "receive"
    /\ closed /\ taken = sent
    /\ pc' = [pc EXCEPT ![w] = "exited"]
    /\ wg' = wg - 1
    /\ UNCHANGED <<sent, closed, taken, held, outcome, log, got, main, wiring>>

Worker(w) == Receive(w) \/ Do(w) \/ SendResult(w) \/ Exit(w)

----------------------------------------------------------------------------
(* The caller.                                                             *)

\* Receive a buffered result.
Gather == /\ main = "aggregate" /\ got < Len(log)
          /\ Aggregate(log, got + 1)
          /\ UNCHANGED <<sent, closed, taken, pc, held, outcome, log, wg, wiring>>

\* A bug: the caller returns without waiting for the workers.
WaitForNobody ==
        /\ main = "wait"
        /\ main' = "returned"
        /\ UNCHANGED <<sent, closed, taken, pc, held, outcome, log, got, wg, wiring>>

\* waitGroup.Wait() returns once every worker is done.
Wait == /\ main = "wait" /\ wg = 0
        /\ main' = "returned"
        /\ UNCHANGED <<sent, closed, taken, pc, held, outcome, log, got, wg, wiring>>

Done == main = "returned" /\ UNCHANGED vars

Next == \/ Produce \/ Close
        \/ \E w \in Workers : Worker(w)
        \/ Gather \/ Wait
        \/ Done

Spec == Init /\ [][Next]_vars

\* Every goroutine that can run eventually does: the Go scheduler is fair to runnable
\* goroutines, and do() is assumed to end (it is a helm command).
Fairness == /\ WF_vars(Produce \/ Close)
            /\ \A w \in Workers : WF_vars(Worker(w))
            /\ WF_vars(Gather \/ Wait)

FairSpec == Spec /\ Fairness

----------------------------------------------------------------------------
(* Properties.                                                             *)

Busy(w) == pc[w] \in {"do", "send"}
Logged(j) == \E i \in 1..Len(log) : log[i] = j

\* No release is processed twice and none is lost between the channels: a job handed to
\* the workers is either held by exactly one of them or its result was sent exactly once
\* (range over the jobs channel, results <- in every worker of pkg/state).
JobAccounting ==
    /\ \A v, w \in Workers : Busy(v) /\ Busy(w) /\ held[v] = held[w] => v = w
    /\ \A w \in Workers : Busy(w) => held[w] \in 1..taken /\ ~Logged(held[w])
    /\ \A i, k \in 1..Len(log) : log[i] = log[k] => i = k
    /\ \A j \in 1..taken : Logged(j) \/ \E w \in Workers : Busy(w) /\ held[w] = j

\* When the aggregator stops it has the result of every input, or it is fail-fast and
\* has stopped at the very first error it received (PrepareCharts reports one error).
AggregatedExactly ==
    main # "aggregate" =>
        \/ \A j \in Jobs : \E i \in 1..got : log[i] = j
        \/ /\ failFast /\ got > 0
           /\ \A i \in 1..got : (outcome[log[i]] = "err") = (i = got)

\* The caller goes on only when every worker has left and every input was run to its
\* end: what it does next (removing temporary files, reading affectedReleases, starting
\* the next DAG batch) cannot race with a worker.
ReturnsQuiescent ==
    main = "returned" => /\ \A w \in Workers : pc[w] = "exited"
                         /\ \A j \in Jobs : outcome[j] # "none"
                         /\ sent = Inputs

\* A worker is a slot of the abstract loop, busy while do() runs.
SlotOfWorker == [w \in Workers |-> IF pc[w] = "do" THEN held[w] ELSE 0]

Loop == INSTANCE ParallelFor
            WITH Slots <- ClampConcurrency(Concurrency, Inputs),
                 next <- taken,
                 slot <- SlotOfWorker,
                 returned <- (main = "returned")

\* The goroutine protocol implements the bounded parallel loop its callers rely on.
ImplementsParallelFor == Loop!ForSpec

\* scatterGather returns, with every goroutine gone, whatever the channels' capacities
\* and also when the aggregator stops early.
Terminates == <>[](main = "returned" /\ \A w \in Workers : pc[w] = "exited")
=============================================================================
