---------------------------- MODULE ParallelFor ----------------------------
(***************************************************************************)
(* What helmfile's callers of HelmState.scatterGather rely on              *)
(* (pkg/state/state_run.go): a bounded parallel for loop.  Every input is  *)
(* handed to one worker slot, each slot runs one input at a time, and the  *)
(* loop returns only when every input has been run to the end.             *)
(* ScatterGather.tla is the goroutine and channel protocol that implements *)
(* it.                                                                     *)
(***************************************************************************)
EXTENDS Integers

CONSTANTS Inputs,      \* number of inputs (releases, jobs, secret files)
          Slots        \* number of worker goroutines

VARIABLES next,        \* inputs 1..next have been handed out
          slot,        \* slot[s]: the input slot s is running, 0 when idle
          outcome,     \* outcome[j]: what running input j produced
          returned     \* the loop has returned to its caller

forVars == <<next, slot, outcome, returned>>

ForInit == /\ next = 0
           /\ slot = [s \in 1..Slots |-> 0]
           /\ outcome = [j \in 1..Inputs |-> "none"]
           /\ returned = FALSE

\* An idle slot starts the next input, in the order of the inputs.
Start(s) == /\ slot[s] = 0
            /\ next < Inputs
            /\ next' = next + 1
            /\ slot' = [slot EXCEPT ![s] = next + 1]
            /\ UNCHANGED <<outcome, returned>>

\* The slot's input ends, with or without an error; the slot is idle again.
Finish(s, o) == /\ slot[s] # 0
                /\ outcome' = [outcome EXCEPT ![slot[s]] = o]
                /\ slot' = [slot EXCEPT ![s] = 0]
                /\ UNCHANGED <<next, returned>>

Return == /\ \A j \in 1..Inputs : outcome[j] # "none"
          /\ returned' = TRUE
          /\ UNCHANGED <<next, slot, outcome>>

ForNext == \/ \E s \in 1..Slots : \/ Start(s)
                                  \/ \E o \in {"ok", "err"} : Finish(s, o)
           \/ Return

ForSpec == ForInit /\ [][ForNext]_forVars
=============================================================================
