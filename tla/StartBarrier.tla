----------------------------- MODULE StartBarrier ----------------------------
(***************************************************************************)
(* measureOperationMultithreaded (benchmarks/include/map_parameters/       *)
(* map_parameters.h): the main thread starts threadCount workers, lets them*)
(* go together through a counter that every thread increments, and takes   *)
(* the longest of the times they report.  One overload has all workers do  *)
(* the same operation and captures the loop variable i by reference; the   *)
(* other has one writer and threadCount - 1 readers and captures i by      *)
(* value.  A spin on the counter is a step that is enabled when it ends.   *)
(***************************************************************************)
EXTENDS Naturals

CONSTANTS
  threadCount,
  mapSize

(* SetUp throws on a map with fewer keys than threads (line 34).           *)
ASSUME SetUpAssumption ==
  threadCount \in Nat \ {0} /\ mapSize \in Nat /\ mapSize >= threadCount

Ids  == 0 .. threadCount - 1
Idle == mapSize + threadCount    \* no key index
Ops  == mapSize \div threadCount

VARIABLES
  byReference,  \* is i captured by reference: the first overload
  barrier,    \* the atomic counter
  main,       \* what the main thread does next
  i,          \* the variable of its loop, the starting and then the joining one
  worker,     \* what each worker does next
  key,        \* the index of the key it measures
  count,      \* the operations it has performed
  times       \* has it reported

vars == <<byReference, barrier, main, i, worker, key, count, times>>

Init ==
  /\ byReference \in BOOLEAN
  /\ barrier = 0
  /\ main = "start" /\ i = 0
  /\ worker = [id \in Ids |-> "unborn"]
  /\ key = [id \in Ids |-> Idle]
  /\ count = [id \in Ids |-> 0]
  /\ times = [id \in Ids |-> FALSE]

-----------------------------------------------------------------------------
(* The main thread.                                                        *)

(* Mutant: one worker too many.                                            *)
Start_extra ==
  /\ main = "start" /\ i <= threadCount
  /\ worker' = [worker EXCEPT ![i] = "arrive"]
  /\ i' = i + 1
  /\ UNCHANGED <<byReference, barrier, main, key, count, times>>

Start ==
  /\ main = "start" /\ i < threadCount
  /\ worker' = [worker EXCEPT ![i] = "arrive"]
  /\ i' = i + 1
  /\ UNCHANGED <<byReference, barrier, main, key, count, times>>

AllArrived ==
  /\ main = "start" /\ i = threadCount
  /\ barrier >= threadCount
  /\ main' = "release"
  /\ UNCHANGED <<byReference, barrier, i, worker, key, count, times>>

Release ==
  /\ main = "release"
  /\ barrier' = barrier + 1
  /\ main' = "join" /\ i' = 0
  /\ UNCHANGED <<byReference, worker, key, count, times>>

(* Mutant: the last worker is not joined.                                  *)
Join_short ==
  /\ main = "join" /\ worker[i] = "done"
  /\ i' = i + 1
  /\ main' = IF i + 2 >= threadCount THEN "max" ELSE "join"
  /\ UNCHANGED <<byReference, barrier, worker, key, count, times>>

Join ==
  /\ main = "join" /\ worker[i] = "done"
  /\ i' = i + 1
  /\ main' = IF i + 1 = threadCount THEN "max" ELSE "join"
  /\ UNCHANGED <<byReference, barrier, worker, key, count, times>>

-----------------------------------------------------------------------------
(* A worker.                                                               *)

Arrive(id) ==
  /\ worker[id] = "arrive"
  /\ barrier' = barrier + 1
  /\ worker' = [worker EXCEPT ![id] = "wait"]
  /\ UNCHANGED <<byReference, main, i, key, count, times>>

(* Mutant: waits for the workers only.                                     *)
Go_early(id) ==
  /\ worker[id] = "wait"
  /\ barrier >= threadCount
  /\ worker' = [worker EXCEPT ![id] = "key"]
  /\ UNCHANGED <<byReference, barrier, main, i, key, count, times>>

Go(id) ==
  /\ worker[id] = "wait"
  /\ barrier >= threadCount + 1
  /\ worker' = [worker EXCEPT ![id] = "key"]
  /\ UNCHANGED <<byReference, barrier, main, i, key, count, times>>

(* By reference, i is dead by now: its memory still holds the value that   *)
(* ended the first loop, or it has become the i of the joining loop.       *)
CapturedIndex(id) ==
  IF byReference THEN {threadCount} \cup (IF main = "join" THEN {i} ELSE {})
                 ELSE {id}

ReadKey(id) ==
  /\ worker[id] = "key"
  /\ \E k \in CapturedIndex(id) : key' = [key EXCEPT ![id] = k]
  /\ worker' = [worker EXCEPT ![id] = "run"]
  /\ UNCHANGED <<byReference, barrier, main, i, count, times>>

Operate(id) ==
  /\ worker[id] = "run" /\ count[id] < Ops
  /\ count' = [count EXCEPT ![id] = @ + 1]
  /\ UNCHANGED <<byReference, barrier, main, i, worker, key, times>>

Finish(id) ==
  /\ worker[id] = "run" /\ count[id] = Ops
  /\ times' = [times EXCEPT ![id] = TRUE]
  /\ worker' = [worker EXCEPT ![id] = "done"]
  /\ UNCHANGED <<byReference, barrier, main, i, key, count>>

-----------------------------------------------------------------------------
Main == Start \/ AllArrived \/ Release \/ Join
Worker(id) ==
  Arrive(id) \/ Go(id) \/ ReadKey(id) \/ Operate(id) \/ Finish(id)

Returned == main = "max" /\ (\A id \in Ids : worker[id] = "done") /\ UNCHANGED vars

Next == Main \/ (\E id \in Ids : Worker(id)) \/ Returned

Spec == Init /\ [][Next]_vars

(* The operating system runs every thread.                                 *)
FairSpec == Spec /\ WF_vars(Main) /\ \A id \in Ids : WF_vars(Worker(id))

-----------------------------------------------------------------------------
(* Every variable has its type; the counter never passes its last value,   *)
(* and no index passes the last worker.                                    *)
TypeOK ==
  /\ byReference \in BOOLEAN
  /\ barrier \in 0 .. threadCount + 1
  /\ main \in {"start", "release", "join", "max"}
  /\ i \in 0 .. threadCount
  /\ worker \in [Ids -> {"unborn", "arrive", "wait", "key", "run", "done"}]
  /\ key \in [Ids -> Nat]
  /\ count \in [Ids -> 0 .. Ops]
  /\ times \in [Ids -> BOOLEAN]

(* No worker is measured before all of them, and the main thread, have     *)
(* reached the barrier: the operations run simultaneously (lines 64-67,    *)
(* 73-76).                                                                 *)
StartTogether == \A id \in Ids : worker[id] \in {"key", "run", "done"} =>
  /\ main \in {"join", "max"}
  /\ \A other \in Ids : worker[other] \notin {"unborn", "arrive"}

(* The maximum is taken over complete times, and nothing the workers refer *)
(* to goes out of scope before they end (lines 77-81).                     *)
MaximumOfAll == main = "max" =>
  \A id \in Ids : times[id] /\ worker[id] = "done" /\ count[id] = Ops

(* SetUp throws unless the map is larger than the number of threads        *)
(* (lines 33-35), so that the key a worker measures is one of the keys.    *)
KeyInRange == \A id \in Ids : worker[id] = "run" => key[id] < mapSize

(* The measurement ends.                                                   *)
MeasurementReturns == <>(main = "max")
=============================================================================
