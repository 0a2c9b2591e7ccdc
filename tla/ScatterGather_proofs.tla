------------------------ MODULE ScatterGather_proofs ------------------------
(***************************************************************************)
(* Proofs about the worker pool of ScatterGather.tla, for every number of  *)
(* inputs, every requested concurrency and every channel capacity the      *)
(* callers use.                                                            *)
(***************************************************************************)
EXTENDS ScatterGather, FiniteSetTheorems, TLAPS

\* The workers whose waitGroup.Done() is still to come.
Running == {w \in Workers : pc[w] # "exited"}

\* The state without the WaitGroup counter has its types.
Typing ==
    /\ jobCap \in Nat /\ resultCap \in Nat /\ failFast \in BOOLEAN
    /\ sent \in 0..Inputs /\ taken \in 0..Inputs /\ closed \in BOOLEAN
    /\ pc \in [Workers -> {"receive", "do", "send", "exited"}]
    /\ held \in [Workers -> 0..Inputs]
    /\ outcome \in [Jobs -> {"none", "ok", "err"}]
    /\ log \in Seq(Jobs) /\ got \in Nat
    /\ main \in {"aggregate", "wait", "returned"}

\* The counter counts the running workers; a worker leaves only after the channel is
\* closed and drained, and the producer never closes early.
Counting ==
    /\ wg = Cardinality(Running)
    /\ taken <= sent
    /\ closed => sent = Inputs
    /\ \A w \in Workers : pc[w] = "exited" => closed /\ taken = sent
    /\ main = "returned" => Running = {}

\* Only jobs the workers received are logged.
LogBound == \A i \in 1..Len(log) : log[i] <= taken

\* A job that left the workers' hands has an outcome.
Outcomes ==
    /\ \A i \in 1..Len(log) : outcome[log[i]] # "none"
    /\ \A w \in Workers : pc[w] = "send" => outcome[held[w]] # "none"

\* Where the aggregator is in its loop.
Aggregating ==
    /\ got <= Len(log)
    /\ main = "aggregate" => /\ got < Inputs
                             /\ failFast => \A i \in 1..got : outcome[log[i]] # "err"
    /\ main # "aggregate" =>
         \/ got = Inputs
         \/ /\ failFast /\ got > 0
            /\ \A i \in 1..got : (outcome[log[i]] = "err") = (i = got)

USE DEF wiring

IInv == Typing /\ Counting /\ JobAccounting /\ LogBound /\ Outcomes /\ Aggregating

\* scatterGather starts a natural number of workers, one at least when there is an input.
LEMMA ClampType ==
  /\ ClampConcurrency(Concurrency, Inputs) \in Nat
  /\ Inputs > 0 => ClampConcurrency(Concurrency, Inputs) > 0
  BY ScatterGatherAssumption DEF ClampConcurrency

\* The set of workers, and every subset of it, is finite.
LEMMA WorkersFinite ==
  /\ IsFiniteSet(Workers)
  /\ Cardinality(Workers) = ClampConcurrency(Concurrency, Inputs)
  /\ \A S \in SUBSET Workers : IsFiniteSet(S)
<1>1. IsFiniteSet(Workers) /\ Cardinality(Workers) = ClampConcurrency(Concurrency, Inputs)
  BY ClampType, FS_Interval DEF Workers
<1> QED
  BY <1>1, FS_Subset

\* When a worker leaves, one worker fewer is running.
LEMMA OneFewer ==
  ASSUME Typing, NEW w \in Workers, pc[w] # "exited",
         pc' = [pc EXCEPT ![w] = "exited"]
  PROVE  Cardinality(Running') = Cardinality(Running) - 1
<1>1. Running' = Running \ {w} /\ w \in Running
  BY DEF Running, Typing
<1>2. IsFiniteSet(Running)
  BY WorkersFinite DEF Running
<1> QED
  BY <1>1, <1>2, FS_RemoveElement

\* A change of pc that makes no worker leave changes nobody's membership in Running.
LEMMA SameRunning ==
  ASSUME Typing, NEW w \in Workers, pc[w] # "exited",
         NEW p \in {"receive", "do", "send"}, pc' = [pc EXCEPT ![w] = p]
  PROVE  Running' = Running
  BY DEF Running, Typing

LEMMA InitEstablishes == Init => IInv
<1> SUFFICES ASSUME Init PROVE IInv
  OBVIOUS
<1>1. Typing
  <2>1. sent \in 0..Inputs /\ taken \in 0..Inputs /\ got \in Nat
    BY ScatterGatherAssumption DEF Init
  <2>2. /\ pc \in [Workers -> {"receive", "do", "send", "exited"}]
        /\ held \in [Workers -> 0..Inputs]
        /\ outcome \in [Jobs -> {"none", "ok", "err"}]
    BY ScatterGatherAssumption DEF Init
  <2>3. log \in Seq(Jobs)
    BY DEF Init
  <2>4. closed \in BOOLEAN /\ main \in {"aggregate", "wait", "returned"}
    BY DEF Init
  <2>5. jobCap \in Nat /\ resultCap \in Nat /\ failFast \in BOOLEAN
    BY ScatterGatherAssumption DEF Init
  <2> QED
    BY <2>1, <2>2, <2>3, <2>4, <2>5 DEF Typing
<1>2. Counting
  <2>1. Running = Workers
    BY DEF Init, Running
  <2>2. main = "returned" => FALSE
    BY DEF Init
  <2> QED
    BY <2>1, <2>2, WorkersFinite, ScatterGatherAssumption DEF Init, Counting
<1>3. JobAccounting
  BY DEF Init, JobAccounting, Busy, Logged
<1>4. Outcomes /\ LogBound
  BY DEF Init, Outcomes, LogBound
<1>5. Aggregating
  BY ScatterGatherAssumption DEF Init, Aggregating
<1> QED
  BY <1>1, <1>2, <1>3, <1>4, <1>5 DEF IInv
\* Receiving the result that stands at got + 1 of the log keeps the aggregator's invariant.
LEMMA AggregateStep ==
  ASSUME Typing, Aggregating, main = "aggregate", log' \in Seq(Jobs), outcome' = outcome,
         failFast' = failFast,
         got + 1 <= Len(log'), \A i \in 1..got : log'[i] = log[i],
         Aggregate(log', got + 1)
  PROVE  Aggregating'
<1>1. got' = got + 1 /\ got \in Nat /\ got < Inputs /\ Len(log') \in Nat
  BY DEF Aggregate, Typing, Aggregating
<1>2. \A i \in 1..got' : i \in 1..got \/ i = got + 1
  BY <1>1
<1>3. CASE main' = "aggregate"
  <2>1. got + 1 # Inputs /\ ~(failFast /\ outcome[log'[got + 1]] = "err")
    BY <1>3 DEF Aggregate
  <2> QED
    BY <1>1, <1>2, <1>3, <2>1, ScatterGatherAssumption DEF Aggregating
<1>4. CASE main' # "aggregate"
  <2>1. got + 1 = Inputs \/ (failFast /\ outcome[log'[got + 1]] = "err")
    BY <1>4 DEF Aggregate
  <2> QED
    BY <1>1, <1>2, <1>4, <2>1, ScatterGatherAssumption DEF Aggregating
<1> QED
  BY <1>3, <1>4

LEMMA SendPreserves ==
  ASSUME IInv, NEW w \in Workers, SendResult(w)
  PROVE  IInv'
<1> USE DEF IInv
<1>1. held[w] \in Jobs /\ held[w] <= taken /\ Busy(w) /\ ~Logged(held[w])
  BY DEF SendResult, JobAccounting, Busy, Typing, Jobs
<1>2. /\ log' \in Seq(Jobs) /\ Len(log') = Len(log) + 1 /\ Len(log) \in Nat
      /\ log'[Len(log) + 1] = held[w]
      /\ \A i \in 1..Len(log) : log'[i] = log[i]
  BY <1>1 DEF SendResult, Typing
<1>3. Typing'
  BY <1>2 DEF SendResult, Aggregate, Typing
<1>4. Counting'
  <2>1. Running' = Running
    BY SameRunning DEF SendResult
  <2>2. main' = "returned" => main = "returned"
    BY DEF SendResult, Aggregate
  <2> QED
    BY <2>1, <2>2 DEF SendResult, Counting, Typing
<1>5. \A v \in Workers : Busy(v)' <=> (Busy(v) /\ v # w)
  BY DEF SendResult, Busy, Typing
<1>6. \A j : Logged(j)' <=> (Logged(j) \/ j = held[w])
  BY <1>2 DEF Logged
<1>7. JobAccounting'
  <2>1. \A i, k \in 1..Len(log') : log'[i] = log'[k] => i = k
    <3>1. \A i \in 1..Len(log) : log[i] # held[w]
      BY <1>1 DEF Logged
    <3>2. \A i \in 1..Len(log') : i \in 1..Len(log) \/ i = Len(log) + 1
      BY <1>2
    <3> QED
      BY <1>2, <3>1, <3>2 DEF JobAccounting
  <2>2. \A v \in Workers : (Busy(v) => held[v] \in 1..taken /\ ~Logged(held[v]))'
    <3> SUFFICES ASSUME NEW v \in Workers, Busy(v)'
                 PROVE  (held[v] \in 1..taken /\ ~Logged(held[v]))'
      OBVIOUS
    <3>1. held'[v] = held[v] /\ taken' = taken /\ Busy(v) /\ v # w
      BY <1>5 DEF SendResult
    <3>2. held[v] # held[w]
      BY <1>1, <3>1 DEF JobAccounting
    <3>3. ~Logged(held[v]) /\ held[v] \in 1..taken
      BY <3>1 DEF JobAccounting
    <3> QED
      BY <1>2, <3>1, <3>2, <3>3 DEF Logged
  <2>3. \A j \in 1..taken' : Logged(j)' \/ \E v \in Workers : Busy(v)' /\ held'[v] = j
    BY <1>5, <1>6 DEF SendResult, JobAccounting
  <2> QED
    BY <1>5, <2>1, <2>2, <2>3 DEF SendResult, JobAccounting
<1>8. LogBound' /\ Outcomes'
  <2>1. \A i \in 1..Len(log') : i \in 1..Len(log) \/ i = Len(log) + 1
    BY <1>2
  <2>2. LogBound'
    BY <1>1, <1>2, <2>1 DEF SendResult, LogBound
  <2>3. \A i \in 1..Len(log') : outcome'[log'[i]] # "none"
    BY <1>2, <2>1 DEF SendResult, Outcomes
  <2>4. \A v \in Workers : pc'[v] = "send" => outcome'[held'[v]] # "none"
    BY DEF SendResult, Outcomes, Typing
  <2> QED
    BY <2>2, <2>3, <2>4 DEF Outcomes
<1>9. Aggregating'
  <2>1. CASE UNCHANGED <<got, main>>
    <3>1. \A i \in 1..got : i \in 1..Len(log) /\ log'[i] = log[i]
      BY <1>2 DEF Aggregating, Typing
    <3> QED
      BY <1>2, <2>1, <3>1 DEF SendResult, Aggregating, Typing
  <2>2. CASE main = "aggregate" /\ Aggregate(log', got + 1)
    <3>1. got + 1 <= Len(log') /\ \A i \in 1..got : log'[i] = log[i]
      BY <1>2 DEF Aggregating, Typing
    <3> QED
      BY <1>2, <2>2, <3>1, AggregateStep DEF SendResult
  <2> QED
    BY <2>1, <2>2 DEF SendResult
<1> QED
  BY <1>3, <1>4, <1>7, <1>8, <1>9

LEMMA StepPreserves == IInv /\ [Next]_vars => IInv'
<1> SUFFICES ASSUME IInv, [Next]_vars PROVE IInv'
  OBVIOUS
<1> USE DEF IInv
<1>1. CASE Produce
  <2>1. Typing'
    BY <1>1, ScatterGatherAssumption DEF Produce, Typing
  <2>2. Counting'
    BY <1>1, ScatterGatherAssumption DEF Produce, Counting, Typing, Running
  <2>3. JobAccounting' /\ LogBound' /\ Outcomes' /\ Aggregating'
    BY <1>1 DEF Produce, JobAccounting, LogBound, Busy, Logged, Outcomes, Aggregating
  <2> QED
    BY <2>1, <2>2, <2>3
<1>2. CASE Close
  <2>1. Typing' /\ Counting'
    BY <1>2 DEF Close, Typing, Counting, Running
  <2>2. JobAccounting' /\ LogBound' /\ Outcomes' /\ Aggregating'
    BY <1>2 DEF Close, JobAccounting, LogBound, Busy, Logged, Outcomes, Aggregating
  <2> QED
    BY <2>1, <2>2
<1>3. ASSUME NEW w \in Workers, Receive(w) PROVE IInv'
  <2>1. taken < Inputs /\ taken + 1 \in Jobs
    BY <1>3, ScatterGatherAssumption DEF Receive, Typing, Counting, Jobs
  <2>2. Typing'
    BY <1>3, <2>1, ScatterGatherAssumption DEF Receive, Typing, Jobs
  <2>3. Counting'
    <3>1. Running' = Running
      BY <1>3, SameRunning DEF Receive
    <3>2. ~closed \/ taken < sent
      BY <1>3 DEF Receive, Counting, Typing
    <3>3. sent' >= taken' /\ (closed' => sent' = Inputs)
      BY <1>3, <2>1, ScatterGatherAssumption DEF Receive, Counting, Typing
    <3>4. \A v \in Workers : pc'[v] # "exited"
      BY <1>3, <3>2 DEF Receive, Counting, Typing
    <3> QED
      BY <1>3, <3>1, <3>3, <3>4 DEF Receive, Counting, Typing
  <2>4. JobAccounting'
    <3>1. held'[w] = taken + 1 /\ \A v \in Workers \ {w} : held'[v] = held[v] /\ pc'[v] = pc[v]
      BY <1>3 DEF Receive, Typing
    <3>2. \A j \in Jobs : Logged(j)' <=> Logged(j)
      BY <1>3 DEF Receive, Logged
    <3>3. \A j \in Jobs : Logged(j) \/ (\E v \in Workers : Busy(v) /\ held[v] = j) => j <= taken
      <4>1. SUFFICES \A j \in Jobs : Logged(j) => j <= taken
        BY DEF JobAccounting, Typing
      <4> QED
        BY ScatterGatherAssumption DEF LogBound, Logged, Typing, Jobs
    <3>4. ~Busy(w) /\ Busy(w)' /\ \A v \in Workers \ {w} : Busy(v)' <=> Busy(v)
      BY <1>3, <3>1 DEF Receive, Busy, Typing
    <3>5. \A u, v \in Workers : Busy(u)' /\ Busy(v)' /\ held'[u] = held'[v] => u = v
      BY <2>1, <3>1, <3>3, <3>4 DEF JobAccounting, Typing
    <3>6. \A v \in Workers : (Busy(v) => held[v] \in 1..taken /\ ~Logged(held[v]))'
      <4> SUFFICES ASSUME NEW v \in Workers, Busy(v)'
                   PROVE  (held[v] \in 1..taken /\ ~Logged(held[v]))'
        OBVIOUS
      <4>1. log' = log /\ taken' = taken + 1 /\ taken \in Nat
        BY <1>3, ScatterGatherAssumption DEF Receive, Typing
      <4>2. CASE v = w
        BY <4>1, <4>2, <2>1, <3>1 DEF LogBound, Logged
      <4>3. CASE v # w
        BY <4>1, <4>3, <3>1, <3>4 DEF JobAccounting, Logged
      <4> QED
        BY <4>2, <4>3
    <3>7. \A j \in 1..taken' : Logged(j)' \/ \E v \in Workers : Busy(v)' /\ held'[v] = j
      <4> SUFFICES ASSUME NEW j \in 1..taken', ~Logged(j)'
                   PROVE  \E v \in Workers : Busy(v)' /\ held'[v] = j
        OBVIOUS
      <4>1. CASE j = taken + 1
        BY <4>1, <3>1, <3>4
      <4>2. CASE j \in 1..taken
        <5>1. j \in Jobs /\ ~Logged(j)
          BY <4>2, <3>2, <2>1, ScatterGatherAssumption DEF Typing, Jobs
        <5>2. PICK v \in Workers : Busy(v) /\ held[v] = j
          BY <4>2, <5>1 DEF JobAccounting
        <5> QED
          BY <5>2, <3>1, <3>4
      <4> QED
        BY <1>3, <4>1, <4>2 DEF Receive, Typing
    <3> QED
      BY <1>3, <3>5, <3>6, <3>7 DEF Receive, JobAccounting
  <2>5. LogBound'
    <3>1. log' = log /\ taken' = taken + 1 /\ taken \in Nat
      BY <1>3, ScatterGatherAssumption DEF Receive, Typing
    <3>2. \A i \in 1..Len(log) : log[i] \in Nat
      BY ScatterGatherAssumption DEF Typing, Jobs
    <3> QED
      BY <3>1, <3>2 DEF LogBound
  <2>6. Outcomes' /\ Aggregating'
    BY <1>3 DEF Receive, Outcomes, Aggregating, Typing
  <2> QED
    BY <2>2, <2>3, <2>4, <2>5, <2>6
<1>4. ASSUME NEW w \in Workers, Do(w) PROVE IInv'
  <2>1. PICK o \in {"ok", "err"} : outcome' = [outcome EXCEPT ![held[w]] = o]
    BY <1>4 DEF Do
  <2>2. Typing'
    BY <1>4, <2>1 DEF Do, Typing
  <2>3. Counting'
    <3>1. Running' = Running
      BY <1>4, SameRunning DEF Do
    <3> QED
      BY <1>4, <3>1 DEF Do, Counting, Typing
  <2>4. JobAccounting' /\ LogBound'
    <3>1. \A v \in Workers : Busy(v)' <=> Busy(v)
      BY <1>4 DEF Do, Busy, Typing
    <3> QED
      BY <1>4, <3>1 DEF Do, JobAccounting, LogBound, Logged
  <2>5. ~Logged(held[w]) /\ held[w] \in Jobs
    BY <1>4 DEF Do, JobAccounting, Busy, Typing, Jobs
  <2>6. \A i \in 1..Len(log) : outcome'[log[i]] = outcome[log[i]]
    BY <2>1, <2>5 DEF Logged, Typing
  <2>7. Outcomes'
    <3>1. \A v \in Workers : pc[v] = "send" => held[v] # held[w]
      BY <1>4 DEF Do, JobAccounting, Busy
    <3> QED
      BY <1>4, <2>1, <2>5, <2>6, <3>1 DEF Do, Outcomes, Typing
  <2>8. Aggregating'
    <3>1. \A i \in 1..got : i \in 1..Len(log)
      BY DEF Aggregating, Typing
    <3> QED
      BY <1>4, <2>6, <3>1 DEF Do, Aggregating
  <2> QED
    BY <2>2, <2>3, <2>4, <2>7, <2>8
<1>5. ASSUME NEW w \in Workers, SendResult(w) PROVE IInv'
  BY <1>5, SendPreserves
<1>6. ASSUME NEW w \in Workers, Exit(w) PROVE IInv'
  <2>1. Typing' /\ JobAccounting' /\ LogBound' /\ Outcomes' /\ Aggregating'
    <3>1. \A v \in Workers : Busy(v)' <=> Busy(v)
      BY <1>6 DEF Exit, Busy, Typing
    <3>2. JobAccounting'
      BY <1>6, <3>1 DEF Exit, JobAccounting, Logged
    <3>3. Typing' /\ LogBound' /\ Outcomes' /\ Aggregating'
      BY <1>6 DEF Exit, Typing, LogBound, Outcomes, Aggregating
    <3> QED
      BY <3>2, <3>3
  <2>2. Cardinality(Running') = Cardinality(Running) - 1
    BY <1>6, OneFewer DEF Exit
  <2>3. Counting'
    <3>1. wg' = Cardinality(Running')
      BY <1>6, <2>2 DEF Exit, Counting
    <3>2. \A v \in Workers : pc'[v] = "exited" => closed' /\ taken' = sent'
      BY <1>6 DEF Exit, Counting, Typing
    <3>3. main' # "returned"
      BY <1>6 DEF Exit, Counting, Running
    <3> QED
      BY <1>6, <3>1, <3>2, <3>3 DEF Exit, Counting
  <2> QED
    BY <2>1, <2>3
<1>7. CASE Gather
  <2>1. Typing' /\ Counting' /\ JobAccounting' /\ LogBound' /\ Outcomes'
    BY <1>7 DEF Gather, Aggregate, Typing, Counting, Running, JobAccounting, LogBound, Busy,
                Logged, Outcomes
  <2>2. Aggregating'
    BY <1>7, AggregateStep DEF Gather, Typing
  <2> QED
    BY <2>1, <2>2
<1>8. CASE Wait
  <2>1. Running = {}
    BY <1>8, WorkersFinite, FS_EmptySet DEF Wait, Counting, Running
  <2> QED
    BY <1>8, <2>1 DEF Wait, Typing, Counting, Running, JobAccounting, LogBound, Busy, Logged,
                      Outcomes, Aggregating
<1>9. CASE UNCHANGED vars
  BY <1>9 DEF vars, Typing, Counting, Running, JobAccounting, LogBound, Busy, Logged, Outcomes, Aggregating
<1> QED
  BY <1>1, <1>2, <1>3, <1>4, <1>5, <1>6, <1>7, <1>8, <1>9 DEF Next, Worker, Done

THEOREM Invariant == Spec => []IInv
<1>1. Init => IInv
  BY InitEstablishes
<1>2. IInv /\ [Next]_vars => IInv'
  BY StepPreserves
<1> QED
  BY <1>1, <1>2, PTL DEF Spec

\* The WaitGroup counter never becomes negative (Go would panic), and every variable keeps
\* its type, whatever the number of inputs, of workers and the channels' capacities.
THEOREM TypeCorrect == Spec => []TypeOK
<1>1. IInv => TypeOK
  <2>1. ASSUME IInv PROVE Cardinality(Running) \in Nat
    BY WorkersFinite, FS_CardinalityType DEF Running
  <2> QED
    BY <2>1 DEF IInv, Typing, Counting, TypeOK
<1> QED
  BY Invariant, <1>1, PTL

\* No job is processed twice and none is lost.
THEOREM Accounting == Spec => []JobAccounting
<1>1. IInv => JobAccounting
  BY DEF IInv
<1> QED
  BY Invariant, <1>1, PTL

\* An aggregator that has received as many results as there are inputs has the result of
\* every input: an injective log of Inputs jobs covers them all.
LEMMA AllGathered ==
  ASSUME Typing, Aggregating, JobAccounting, got = Inputs
  PROVE  \A j \in Jobs : \E i \in 1..got : log[i] = j
<1> DEFINE f == [i \in Jobs |-> log[i]]
<1>1. \A i \in Jobs : i \in 1..Len(log) /\ log[i] \in Jobs
  BY ScatterGatherAssumption DEF Typing, Aggregating, Jobs
<1>2. f \in Injection(Jobs, Jobs)
  BY <1>1 DEF Injection, IsInjective, JobAccounting
<1>3. IsFiniteSet(Jobs)
  BY ScatterGatherAssumption, FS_Interval DEF Jobs
<1>4. f \in Surjection(Jobs, Jobs)
  BY <1>2, <1>3, FS_Injection, Zenon
<1> QED
  BY <1>4 DEF Surjection, Jobs

\* When an aggregator stops it has every result, or it has stopped at the first error.
THEOREM Aggregation == Spec => []AggregatedExactly
<1>1. IInv => AggregatedExactly
  <2> SUFFICES ASSUME IInv, main # "aggregate" PROVE AggregatedExactly
    BY DEF AggregatedExactly
  <2>1. CASE got = Inputs
    BY <2>1, AllGathered DEF IInv, AggregatedExactly
  <2>2. CASE got # Inputs
    BY <2>2 DEF IInv, Aggregating, AggregatedExactly
  <2> QED
    BY <2>1, <2>2
<1> QED
  BY Invariant, <1>1, PTL

\* Once no worker is running every job was handed out, ran to its end and was logged.
LEMMA AllRan ==
  ASSUME IInv, Running = {}
  PROVE  taken = Inputs /\ sent = Inputs /\ \A j \in Jobs : outcome[j] # "none"
<1>1. \A w \in Workers : pc[w] = "exited"
  BY DEF Running
<1>2. sent = Inputs /\ taken = Inputs
  <2>1. CASE Inputs = 0
    BY <2>1, ScatterGatherAssumption DEF IInv, Typing
  <2>2. CASE Inputs > 0
    <3>1. 1 \in Workers
      BY <2>2, ClampType DEF Workers
    <3> QED
      BY <1>1, <3>1 DEF IInv, Counting
  <2> QED
    BY <2>1, <2>2, ScatterGatherAssumption
<1>3. \A j \in Jobs : Logged(j)
  BY <1>1, <1>2 DEF IInv, JobAccounting, Busy, Jobs
<1>4. \A j \in Jobs : outcome[j] # "none"
  BY <1>3 DEF IInv, Outcomes, Logged
<1> QED
  BY <1>2, <1>4

\* The caller continues only when no worker is left and every input was run.
THEOREM Quiescence == Spec => []ReturnsQuiescent
<1>1. IInv => ReturnsQuiescent
  BY AllRan DEF IInv, Counting, ReturnsQuiescent, Running
<1> QED
  BY Invariant, <1>1, PTL

\* The scatter-gather protocol implements the bounded parallel loop: handing out a job is
\* a receive, running it is a slot's turn, and the wait for the group is the loop's return.
THEOREM Implementation == Spec => ImplementsParallelFor
<1> USE DEF SlotOfWorker
<1>1. Init => Loop!ForInit
  <2> SUFFICES ASSUME Init PROVE Loop!ForInit
    OBVIOUS
  <2>1. (main = "returned") = FALSE
    BY DEF Init
  <2>2. SlotOfWorker = [s \in 1..ClampConcurrency(Concurrency, Inputs) |-> 0]
    BY DEF Init, Workers
  <2> QED
    BY <2>1, <2>2 DEF Init, Loop!ForInit, Jobs
<1>2. IInv /\ [Next]_vars => [Loop!ForNext]_(Loop!forVars)
  <2> SUFFICES ASSUME IInv, [Next]_vars PROVE [Loop!ForNext]_(Loop!forVars)
    OBVIOUS
  <2>1. CASE Produce \/ Close \/ UNCHANGED vars
    BY <2>1 DEF Produce, Close, vars, Loop!forVars
  <2>2. ASSUME NEW w \in Workers, Receive(w) PROVE Loop!Start(w)
    <3>1. taken' = taken + 1 /\ taken < Inputs
      BY <2>2, ScatterGatherAssumption DEF Receive, IInv, Typing, Counting
    <3>2. SlotOfWorker[w] = 0
      BY <2>2 DEF Receive
    <3>3. SlotOfWorker' = [SlotOfWorker EXCEPT ![w] = taken + 1]
      BY <2>2 DEF Receive, IInv, Typing
    <3> QED
      BY <2>2, <3>1, <3>2, <3>3 DEF Receive, Loop!Start
  <2>3. ASSUME NEW w \in Workers, Do(w) PROVE \E o \in {"ok", "err"} : Loop!Finish(w, o)
    <3>1. SlotOfWorker[w] = held[w] /\ held[w] # 0
      BY <2>3 DEF Do, IInv, JobAccounting, Busy
    <3>2. SlotOfWorker' = [SlotOfWorker EXCEPT ![w] = 0]
      BY <2>3 DEF Do, IInv, Typing
    <3> QED
      BY <2>3, <3>1, <3>2 DEF Do, Loop!Finish
  <2>4. ASSUME NEW w \in Workers, SendResult(w) \/ Exit(w) PROVE UNCHANGED Loop!forVars
    <3>1. SlotOfWorker' = SlotOfWorker
      BY <2>4 DEF SendResult, Exit, IInv, Typing
    <3>2. (main' = "returned") = (main = "returned")
      BY <2>4 DEF SendResult, Exit, Aggregate
    <3> QED
      BY <2>4, <3>1, <3>2 DEF SendResult, Exit, Loop!forVars
  <2>5. CASE Gather
    <3>1. (main' = "returned") = (main = "returned")
      BY <2>5 DEF Gather, Aggregate
    <3> QED
      BY <2>5, <3>1 DEF Gather, Loop!forVars
  <2>6. ASSUME Wait PROVE Loop!Return
    <3>1. Running = {}
      BY <2>6, WorkersFinite, FS_EmptySet DEF Wait, IInv, Counting, Running
    <3>2. \A j \in Jobs : outcome[j] # "none"
      BY <3>1, AllRan
    <3>3. (main' = "returned") = TRUE /\ SlotOfWorker' = SlotOfWorker
      BY <2>6 DEF Wait
    <3> QED
      BY <2>6, <3>2, <3>3 DEF Wait, Loop!Return, Jobs
  <2>7. \A w \in Workers : w \in 1..ClampConcurrency(Concurrency, Inputs)
    BY DEF Workers
  <2> QED
    BY <2>1, <2>2, <2>3, <2>4, <2>5, <2>6, <2>7 DEF Next, Worker, Done, Loop!ForNext
<1> QED
  BY <1>1, <1>2, Invariant, PTL DEF Spec, ImplementsParallelFor, Loop!ForSpec
=============================================================================
