----------------------- MODULE LockfreeBenchmark_proofs -----------------------
(***************************************************************************)
(* The fixture and its benchmarks, for any number of threads and keys.     *)
(*                                                                         *)
(* The barrier holds back every worker until all have arrived: the         *)
(* invariant says what the counter counts, the workers that have arrived   *)
(* and, once it has released them, the main thread.  The benchmarks of the *)
(* standard maps keep to that protocol: what they add, the mutex and the   *)
(* map, never lets a worker do what the barrier forbids.  So do those of   *)
(* the lock-free table.  In the benchmark of remove the list that all      *)
(* workers share never outgrows its row, for each enters retire_node once. *)
(***************************************************************************)
EXTENDS LockfreeBenchmark, RetiredLists_proofs, FunctionTheorems

-----------------------------------------------------------------------------
(* The barrier and the fixture (StartBarrier).                             *)

Arrived  == {id \in Ids : worker[id] \notin {"unborn", "arrive"}}
Released == main \in {"join", "max"}

BarrierTypes ==
  /\ barrier \in Nat
  /\ main \in {"start", "release", "join", "max"}
  /\ i \in Nat
  /\ worker \in [Ids -> {"unborn", "arrive", "wait", "key", "run", "done"}]

CounterCounts == barrier = Cardinality(Arrived) + IF Released THEN 1 ELSE 0

(* The workers that the first loop has still to start.                     *)
Unstarted == main = "start" => \A id \in Ids : id >= i => worker[id] = "unborn"

BarrierInv == BarrierTypes /\ CounterCounts /\ Unstarted /\ StartTogether

(* There are threadCount workers.                                          *)
LEMMA IdsCount == IsFiniteSet(Ids) /\ Cardinality(Ids) = threadCount
<1>1. 0 \in Int /\ threadCount - 1 \in Int
  BY SetUpAssumption
<1> QED
  BY <1>1, FS_Interval, SetUpAssumption DEF Ids

(* The workers that have arrived are finitely many, and all of them if     *)
(* there are threadCount of them.                                          *)
LEMMA ArrivedCount ==
  /\ IsFiniteSet(Arrived) /\ Cardinality(Arrived) \in Nat
  /\ Cardinality(Arrived) <= threadCount
  /\ Cardinality(Arrived) = threadCount => Arrived = Ids
<1>1. Arrived \subseteq Ids
  BY DEF Arrived
<1>2. IsFiniteSet(Arrived) /\ Cardinality(Arrived) <= Cardinality(Ids)
      /\ (Cardinality(Arrived) = Cardinality(Ids) => Arrived = Ids)
  BY <1>1, IdsCount, FS_Subset
<1> QED
  BY <1>2, IdsCount, FS_CardinalityType

(* A step that leaves the set of arrived workers and the release alone.    *)
LEMMA SameCount ==
  ASSUME CounterCounts, UNCHANGED barrier, Arrived' = Arrived, Released' = Released
  PROVE  CounterCounts'
BY DEF CounterCounts

(* The invariant holds at the start.                                       *)
LEMMA InitHolds == Init => BarrierInv
<1> SUFFICES ASSUME Init PROVE BarrierInv
  OBVIOUS
<1>1. Arrived = {}
  BY DEF Init, Arrived
<1>2. Cardinality(Arrived) = 0
  BY <1>1, FS_EmptySet
<1> QED
  BY <1>2 DEF Init, BarrierInv, BarrierTypes, CounterCounts, Released, Unstarted, StartTogether

(* No step of the main thread or of a worker breaks it.                    *)
LEMMA StepHolds == BarrierInv /\ [Next]_vars => BarrierInv'
<1> SUFFICES ASSUME BarrierInv, [Next]_vars PROVE BarrierInv'
  OBVIOUS
<1> USE DEF BarrierInv, BarrierTypes
<1>1. CASE Start
  <2>1. i \in Ids /\ worker[i] = "unborn" /\ main = "start"
    BY <1>1, SetUpAssumption DEF Start, Unstarted, Ids
  <2>2. BarrierTypes' /\ Unstarted'
    BY <1>1, <2>1, SetUpAssumption DEF Start, Unstarted, Ids
  <2>3. Arrived' = Arrived /\ Released' = Released
    BY <1>1, <2>1 DEF Start, Arrived, Released
  <2>4. CounterCounts'
    BY <1>1, <2>3, SameCount DEF Start
  <2>5. StartTogether'
    BY <1>1, <2>1 DEF Start, StartTogether
  <2> QED
    BY <2>2, <2>4, <2>5
<1>2. CASE AllArrived
  <2>1. Arrived' = Arrived /\ Released' = Released
    BY <1>2 DEF AllArrived, Arrived, Released
  <2>2. CounterCounts'
    BY <1>2, <2>1, SameCount DEF AllArrived
  <2> QED
    BY <1>2, <2>2 DEF AllArrived, Unstarted, StartTogether
<1>3. CASE Release
  <2>1. Arrived' = Arrived /\ ~Released /\ Released'
    BY <1>3 DEF Release, Arrived, Released
  <2>2. CounterCounts'
    BY <1>3, <2>1, ArrivedCount DEF Release, CounterCounts
  <2>3. StartTogether'
    BY <1>3 DEF Release, StartTogether
  <2> QED
    BY <1>3, <2>2, <2>3 DEF Release, Unstarted
<1>4. CASE Join
  <2>1. Arrived' = Arrived /\ Released' = Released
    BY <1>4 DEF Join, Arrived, Released
  <2>2. CounterCounts'
    BY <1>4, <2>1, SameCount DEF Join
  <2>3. StartTogether'
    BY <1>4 DEF Join, StartTogether
  <2> QED
    BY <1>4, <2>2, <2>3 DEF Join, Unstarted
<1>5. ASSUME NEW id \in Ids, Arrive(id) PROVE BarrierInv'
  <2>1. worker[id] = "arrive" /\ id \notin Arrived
    BY <1>5 DEF Arrive, Arrived
  <2>2. Arrived' = Arrived \cup {id} /\ Released' = Released
    BY <1>5 DEF Arrive, Arrived, Released
  <2>3. Cardinality(Arrived') = Cardinality(Arrived) + 1
    BY <2>1, <2>2, ArrivedCount, FS_AddElement
  <2>4. CounterCounts'
    BY <1>5, <2>2, <2>3, ArrivedCount DEF Arrive, CounterCounts
  <2>5. BarrierTypes'
    BY <1>5 DEF Arrive
  <2>6. Unstarted' /\ StartTogether'
    BY <1>5, <2>1 DEF Arrive, Unstarted, StartTogether
  <2> QED
    BY <2>4, <2>5, <2>6
<1>6. ASSUME NEW id \in Ids, Go(id) PROVE BarrierInv'
  <2>1. Released /\ Arrived = Ids
    <3>1. Cardinality(Arrived) + (IF Released THEN 1 ELSE 0) >= threadCount + 1
      BY <1>6 DEF Go, CounterCounts
    <3> QED
      BY <3>1, ArrivedCount, SetUpAssumption
  <2>2. Arrived' = Arrived /\ Released' = Released
    BY <1>6 DEF Go, Arrived, Released
  <2>3. CounterCounts'
    BY <1>6, <2>2, SameCount DEF Go
  <2>4. BarrierTypes' /\ Unstarted'
    BY <1>6 DEF Go, Unstarted
  <2>5. StartTogether'
    BY <1>6, <2>1 DEF Go, StartTogether, Released, Arrived
  <2> QED
    BY <2>3, <2>4, <2>5
<1>7. ASSUME NEW id \in Ids, ReadKey(id) \/ Operate(id) \/ Finish(id) PROVE BarrierInv'
  <2>1. Arrived' = Arrived /\ Released' = Released /\ UNCHANGED barrier
    BY <1>7 DEF ReadKey, Operate, Finish, Arrived, Released
  <2>2. CounterCounts'
    BY <2>1, SameCount
  <2>3. BarrierTypes' /\ Unstarted' /\ StartTogether'
    BY <1>7 DEF ReadKey, Operate, Finish, Unstarted, StartTogether
  <2> QED
    BY <2>2, <2>3
<1>8. CASE UNCHANGED vars
  <2>1. Arrived' = Arrived /\ Released' = Released
    BY <1>8 DEF vars, Arrived, Released
  <2>2. CounterCounts'
    BY <1>8, <2>1, SameCount DEF vars
  <2> QED
    BY <1>8, <2>2 DEF vars, Unstarted, StartTogether
<1> QED
  BY <1>1, <1>2, <1>3, <1>4, <1>5, <1>6, <1>7, <1>8
     DEF Next, Main, Worker, Returned

(* No worker of any number of them is measured before all have reached the *)
(* barrier and the main thread has released it.                            *)
THEOREM BarrierHolds == Spec => []StartTogether
<1>1. BarrierInv => StartTogether
  BY DEF BarrierInv
<1> QED
  BY <1>1, InitHolds, StepHolds, PTL DEF Spec

-----------------------------------------------------------------------------
(* What the main thread finds when it takes the maximum.                   *)

MeasureTypes ==
  /\ byReference \in BOOLEAN
  /\ i \in 0 .. threadCount
  /\ key \in [Ids -> Nat]
  /\ count \in [Ids -> 0 .. Ops]
  /\ times \in [Ids -> BOOLEAN]

(* Joining ends with the last worker, and waits for each on its way.       *)
Joined ==
  /\ main = "join" => i < threadCount /\ \A id \in Ids : id < i => worker[id] = "done"
  /\ main = "max"  => \A id \in Ids : worker[id] = "done"

(* A worker counts from zero to Ops, then reports.                         *)
Progress == \A id \in Ids :
  /\ worker[id] \notin {"run", "done"} => count[id] = 0
  /\ worker[id] = "done" => times[id] /\ count[id] = Ops

(* A worker that captured its index by value has the key of its own.       *)
OwnKey == ~byReference => \A id \in Ids : worker[id] \in {"run", "done"} => key[id] = id

MeasureInv == MeasureTypes /\ Joined /\ Progress /\ OwnKey

LEMMA OpsNat == Ops \in Nat
BY SetUpAssumption DEF Ops

(* It holds at the start.                                                  *)
LEMMA MeasureInit == Init => MeasureInv
BY OpsNat, SetUpAssumption
   DEF Init, MeasureInv, MeasureTypes, Joined, Progress, OwnKey, Idle, Ids

(* No step breaks it.                                                      *)
LEMMA MeasureStep == BarrierInv /\ MeasureInv /\ [Next]_vars => MeasureInv'
<1> SUFFICES ASSUME BarrierInv, MeasureInv, [Next]_vars PROVE MeasureInv'
  OBVIOUS
<1> USE SetUpAssumption, OpsNat DEF BarrierInv, BarrierTypes, MeasureInv, MeasureTypes
<1>1. CASE Start
  <2>1. i \in Ids /\ worker[i] = "unborn"
    BY <1>1 DEF Start, Unstarted, Ids
  <2> QED
    BY <1>1, <2>1 DEF Start, Joined, Progress, OwnKey
<1>2. CASE AllArrived
  BY <1>2 DEF AllArrived, Joined, Progress, OwnKey
<1>3. CASE Release
  BY <1>3 DEF Release, Joined, Progress, OwnKey, Ids
<1>4. CASE Join
  <2>1. i < threadCount /\ worker[i] = "done" /\ \A id \in Ids : id < i => worker[id] = "done"
    BY <1>4 DEF Join, Joined
  <2>2. \A id \in Ids : id < i + 1 => worker[id] = "done"
    BY <2>1 DEF Ids
  <2>3. Joined'
    BY <1>4, <2>1, <2>2 DEF Join, Joined, Ids
  <2> QED
    BY <1>4, <2>1, <2>3 DEF Join, Progress, OwnKey
<1>5. ASSUME NEW id \in Ids, Arrive(id) \/ Go(id) PROVE MeasureInv'
  BY <1>5 DEF Arrive, Go, Joined, Progress, OwnKey
<1>6. ASSUME NEW id \in Ids, ReadKey(id) PROVE MeasureInv'
  <2>1. PICK k \in CapturedIndex(id) : key' = [key EXCEPT ![id] = k]
    BY <1>6 DEF ReadKey
  <2>2. k \in Nat /\ (~byReference => k = id)
    BY <2>1 DEF CapturedIndex, Ids
  <2> QED
    BY <1>6, <2>1, <2>2 DEF ReadKey, Joined, Progress, OwnKey
<1>7. ASSUME NEW id \in Ids, Operate(id) PROVE MeasureInv'
  BY <1>7 DEF Operate, Joined, Progress, OwnKey
<1>8. ASSUME NEW id \in Ids, Finish(id) PROVE MeasureInv'
  BY <1>8 DEF Finish, Joined, Progress, OwnKey
<1>9. CASE UNCHANGED vars
  BY <1>9 DEF vars, Joined, Progress, OwnKey
<1> QED
  BY <1>1, <1>2, <1>3, <1>4, <1>5, <1>6, <1>7, <1>8, <1>9 DEF Next, Main, Worker, Returned

(* The counter stays within its range.                                     *)
LEMMA TypesFollow == BarrierInv /\ MeasureInv => TypeOK
<1> SUFFICES ASSUME BarrierInv, MeasureInv PROVE TypeOK
  OBVIOUS
<1>1. barrier \in 0 .. threadCount + 1
  BY ArrivedCount, SetUpAssumption DEF BarrierInv, CounterCounts
<1> QED
  BY <1>1 DEF BarrierInv, BarrierTypes, MeasureInv, MeasureTypes, TypeOK

LEMMA MeasureHolds == Spec => [](BarrierInv /\ MeasureInv)
BY InitHolds, StepHolds, MeasureInit, MeasureStep, PTL DEF Spec

(* Every variable has its type; the counter ends at threadCount + 1.       *)
THEOREM MeasureTyped == Spec => []TypeOK
BY MeasureHolds, TypesFollow, PTL

(* The maximum is taken when every worker has reported and ended, so that  *)
(* nothing the workers refer to goes out of scope before (lines 77-81).    *)
THEOREM MaximumIsComplete == Spec => []MaximumOfAll
<1>1. MeasureInv => MaximumOfAll
  BY DEF MeasureInv, Joined, Progress, MaximumOfAll
<1> QED
  BY <1>1, MeasureHolds, PTL

-----------------------------------------------------------------------------
(* The benchmarks of the standard maps (MapBenchmark).                     *)

(* A step of a benchmark is a step of its workers or leaves them alone.    *)
LEMMA BenchStep == [BenchNext]_benchVars => [Next]_vars
<1> SUFFICES ASSUME [BenchNext]_benchVars PROVE [Next]_vars
  OBVIOUS
<1>1. CASE BenchMain
  BY <1>1 DEF BenchMain, Next
<1>2. ASSUME NEW id \in Ids, BenchWorker(id) PROVE [Next]_vars
  <2>1. CASE Lock(id)
    BY <2>1 DEF Lock
  <2>2. CASE Access(id)
    BY <2>2 DEF Access, Next, Worker
  <2>3. CASE Arrive(id) \/ Go(id) \/ ReadKey(id) \/ Finish(id)
    BY <2>3 DEF Next, Worker
  <2> QED
    BY <1>2, <2>1, <2>2, <2>3 DEF BenchWorker
<1>3. CASE Returned
  BY <1>3 DEF Next
<1>4. CASE UNCHANGED benchVars
  BY <1>4 DEF benchVars
<1> QED
  BY <1>1, <1>2, <1>3, <1>4 DEF BenchNext

(* The benchmarks with mutex and map implement the bare measurement of     *)
(* map_parameters.h (lines 48-95).                                         *)
THEOREM BenchImplementsBarrier == BenchSpec => Spec
<1>1. BenchInit => Init
  BY DEF BenchInit
<1> QED
  BY <1>1, BenchStep, PTL DEF BenchSpec, Spec

(* No worker performs an operation on the map before all of them have      *)
(* reached the barrier (lines 64-67, 73-76).                               *)
THEOREM BenchBarrierHolds == BenchSpec => []StartTogether
BY BenchImplementsBarrier, BarrierHolds, PTL

-----------------------------------------------------------------------------
(* What the map holds while a benchmark runs.                              *)

Gets == {"getBrackets", "getAt"}
Puts == {"putBrackets", "putInsert"}

MapTypes ==
  /\ bench \in Gets \cup Puts \cup {"erase"}
  /\ bench \in Puts <=> ~byReference
  /\ mutex \in Ids \cup {Free}
  /\ map \in [0 .. mapSize - 1 -> Nat \cup {None}]

(* The owner of the mutex is in the middle of an operation.                *)
OwnerRuns == mutex \in Ids => worker[mutex] = "run" /\ count[mutex] < Ops

KeyKnown == \A id \in Ids :
  key[id] <= IF worker[id] \in {"run", "done"} THEN threadCount ELSE Idle

(* A worker that has operated has a key for good; before, it counts for    *)
(* nothing.                                                                *)
Operated(k) == \E id \in Ids : key[id] = k /\ count[id] > 0

Contents ==
  /\ bench \in Gets => map = InitialMap(bench)
  /\ bench = "erase" => map = [k \in 0 .. mapSize - 1 |-> IF Operated(k) THEN None ELSE k]
  /\ bench \in Puts => map = [InitialMap(bench) EXCEPT ![0] =
       IF count[0] = 0 THEN None ELSE IF bench = "putBrackets" THEN count[0] - 1 ELSE 0]

MapInv == MapTypes /\ OwnerRuns /\ KeyKnown /\ Contents

(* What a filled and an empty map hold.                                    *)
LEMMA Initially ==
  ASSUME NEW b \in Gets \cup Puts \cup {"erase"}
  PROVE  InitialMap(b) = [k \in 0 .. mapSize - 1 |-> IF b \in Puts THEN None ELSE k]
BY DEF InitialMap, Gets, Puts

(* It holds at the start.                                                  *)
LEMMA MapInit == BenchInit => MapInv
<1> SUFFICES ASSUME BenchInit PROVE MapInv
  OBVIOUS
<1> USE SetUpAssumption, OutsideAssumption, OpsNat DEF BenchInit, Init
<1>1. bench \in Gets \cup Puts \cup {"erase"} /\ (bench \in Puts <=> ~byReference)
  BY DEF Benchmarks, Gets, Puts
<1>2. map \in [0 .. mapSize - 1 -> Nat \cup {None}]
  <2>1. map = [k \in 0 .. mapSize - 1 |-> IF bench \in Puts THEN None ELSE k]
    BY <1>1, Initially
  <2>2. \A k \in 0 .. mapSize - 1 : k \in Nat
    OBVIOUS
  <2> QED
    BY <2>1, <2>2
<1>3. OwnerRuns /\ KeyKnown
  BY DEF OwnerRuns, KeyKnown, Idle
<1>4. Contents
  <2>1. 0 \in Ids /\ count[0] = 0 /\ \A k \in Nat : ~Operated(k)
    BY DEF Operated, Ids
  <2>2. CASE bench \in Gets
    BY <2>2 DEF Contents, Gets, Puts
  <2>3. CASE bench = "erase"
    BY <2>1, <2>3 DEF Contents, Gets, Puts, InitialMap
  <2>4. CASE bench \in Puts
    BY <2>1, <2>4 DEF Contents, Gets, Puts, InitialMap
  <2> QED
    BY <1>1, <2>2, <2>3, <2>4
<1> QED
  BY <1>1, <1>2, <1>3, <1>4 DEF MapInv, MapTypes

(* Steps that leave the map alone, and every key and count that matters.   *)
LEMMA SameMap ==
  ASSUME Contents, UNCHANGED <<bench, map, count>>,
         \A id \in Ids : count[id] # 0 => key'[id] = key[id],
         count \in [Ids -> Nat]
  PROVE  Contents'
<1>1. \A k : Operated(k)' <=> Operated(k)
  BY DEF Operated
<1> QED
  BY <1>1 DEF Contents, InitialMap

(* No step breaks it.                                                      *)
LEMMA MapStep == BarrierInv /\ MeasureInv /\ MapInv /\ [BenchNext]_benchVars => MapInv'
<1> SUFFICES ASSUME BarrierInv, MeasureInv, MapInv, [BenchNext]_benchVars PROVE MapInv'
  OBVIOUS
<1> USE SetUpAssumption, OutsideAssumption, OpsNat
    DEF BarrierInv, BarrierTypes, MeasureInv, MeasureTypes, MapInv, MapTypes
<1>0. count \in [Ids -> Nat] /\ 0 \in Ids /\ \A id \in Ids : id \in Nat
  BY DEF Ids
<1>1. CASE BenchMain
  <2>1. UNCHANGED <<bench, mutex, map, byReference, key, count>>
    BY <1>1 DEF BenchMain, Main, Start, AllArrived, Release, Join
  <2>2. \A id \in Ids : worker'[id] # worker[id] => worker[id] = "unborn" /\ worker'[id] = "arrive"
    BY <1>1 DEF BenchMain, Main, Start, AllArrived, Release, Join, Unstarted, Ids
  <2>3. OwnerRuns' /\ KeyKnown'
    BY <2>1, <2>2 DEF OwnerRuns, KeyKnown
  <2> QED
    BY <1>0, <2>1, <2>3, SameMap
<1>2. ASSUME NEW id \in Ids, Lock(id) PROVE MapInv'
  <2>1. OwnerRuns' /\ KeyKnown' /\ Contents'
    BY <1>0, <1>2, SameMap DEF Lock, vars, OwnerRuns, KeyKnown
  <2> QED
    BY <1>2, <2>1 DEF Lock, vars
<1>3. ASSUME NEW id \in Ids, Access(id) PROVE MapInv'
  <2>1. /\ worker[id] = "run" /\ count[id] < Ops /\ mutex' = Free
        /\ count' = [count EXCEPT ![id] = @ + 1]
        /\ UNCHANGED <<byReference, bench, worker, key>>
    BY <1>3 DEF Access, Operate
  <2>2. OwnerRuns' /\ KeyKnown'
    BY <2>1 DEF OwnerRuns, KeyKnown
  <2>3. CASE bench \in Gets
    <3>1. map' = [map EXCEPT ![key[id]] = Get(bench, @)]
      BY <1>3, <2>3 DEF Access, Gets
    <3>2. map' = map
      <4>1. map = [k \in 0 .. mapSize - 1 |-> k]
        BY <2>3, Initially DEF Contents, Gets, Puts
      <4>2. CASE key[id] \in 0 .. mapSize - 1
        <5>1. map[key[id]] = key[id] /\ key[id] # None
          BY <4>1, <4>2
        <5>2. Get(bench, map[key[id]]) = map[key[id]]
          BY <5>1 DEF Get
        <5> QED
          BY <3>1, <5>2
      <4>3. CASE key[id] \notin 0 .. mapSize - 1
        BY <3>1, <4>3
      <4> QED
        BY <4>2, <4>3
    <3> QED
      BY <2>1, <2>2, <2>3, <3>2 DEF Contents, Gets, Puts, InitialMap
  <2>4. CASE bench = "erase"
    <3>1. map' = [map EXCEPT ![key[id]] = None]
      BY <1>3, <2>4 DEF Access, Erase
    <3>2. \A k : Operated(k)' <=> Operated(k) \/ k = key[id]
      BY <1>0, <2>1 DEF Operated
    <3>3. map' = [k \in 0 .. mapSize - 1 |-> IF Operated(k)' THEN None ELSE k]
      BY <2>4, <3>1, <3>2 DEF Contents
    <3>4. map' \in [0 .. mapSize - 1 -> Nat \cup {None}]
      BY <3>1
    <3>5. Contents'
      BY <2>1, <2>4, <3>3 DEF Contents, Gets, Puts
    <3> QED
      BY <2>1, <2>2, <3>4, <3>5
  <2>5. CASE bench \in Puts /\ id = 0
    <3>1. key[id] = 0 /\ 0 \in 0 .. mapSize - 1
      BY <2>1, <2>5 DEF OwnKey
    <3>2. map' = [map EXCEPT ![0] = Put(bench, @, count[0])]
      BY <1>3, <2>5, <3>1 DEF Access, Puts
    <3>3. map'[0] = IF bench = "putBrackets" THEN count[0] ELSE 0
      BY <1>0, <2>5, <3>1, <3>2 DEF Contents, Puts, Gets, Put, InitialMap
    <3>4. count'[0] = count[0] + 1 /\ count'[0] # 0 /\ count[0] \in Nat
      BY <1>0, <2>1, <2>5
    <3>5. Contents'
      <4>1. map' = [InitialMap(bench) EXCEPT ![0] = map'[0]]
        BY <2>5, <3>1, <3>2, Initially DEF Contents, Gets, Puts
      <4>2. count'[0] - 1 = count[0]
        BY <3>4
      <4> QED
        BY <2>1, <2>5, <3>3, <3>4, <4>1, <4>2 DEF Contents, Gets, Puts, InitialMap
    <3>6. map' \in [0 .. mapSize - 1 -> Nat \cup {None}]
      BY <3>1, <3>2, <3>3, <3>4
    <3> QED
      BY <2>1, <2>2, <3>5, <3>6
  <2>6. CASE bench \in Puts /\ id # 0
    <3>1. map' = map
      BY <1>3, <2>6 DEF Access, Puts
    <3>2. count'[0] = count[0]
      BY <1>0, <2>1, <2>6
    <3>3. Contents'
      BY <2>1, <2>6, <3>1, <3>2 DEF Contents, Gets, Puts, InitialMap
    <3> QED
      BY <2>1, <2>2, <3>1, <3>3
  <2> QED
    BY <2>3, <2>4, <2>5, <2>6
<1>4. ASSUME NEW id \in Ids, Arrive(id) \/ Go(id) \/ Finish(id), UNCHANGED <<bench, mutex, map>>
      PROVE  MapInv'
  <2>1. UNCHANGED <<byReference, key, count>>
    BY <1>4 DEF Arrive, Go, Finish
  <2>2. OwnerRuns' /\ KeyKnown'
    <3>1. CASE Arrive(id) \/ Go(id)
      BY <1>4, <2>1, <3>1 DEF Arrive, Go, OwnerRuns, KeyKnown
    <3>2. CASE Finish(id)
      <4>1. mutex # id
        BY <3>2 DEF Finish, OwnerRuns
      <4> QED
        BY <1>4, <2>1, <3>2, <4>1 DEF Finish, OwnerRuns, KeyKnown
    <3> QED
      BY <1>4, <3>1, <3>2
  <2> QED
    BY <1>0, <1>4, <2>1, <2>2, SameMap
<1>5. ASSUME NEW id \in Ids, ReadKey(id), UNCHANGED <<bench, mutex, map>> PROVE MapInv'
  <2>1. PICK k \in CapturedIndex(id) : key' = [key EXCEPT ![id] = k]
    BY <1>5 DEF ReadKey
  <2>2. k \in Nat /\ k <= threadCount
    BY <2>1 DEF CapturedIndex, Ids
  <2>3. worker[id] = "key" /\ count[id] = 0 /\ UNCHANGED <<byReference, count>>
    BY <1>5 DEF ReadKey, Progress
  <2>4. OwnerRuns' /\ KeyKnown'
    BY <1>5, <2>1, <2>2, <2>3 DEF ReadKey, OwnerRuns, KeyKnown
  <2> QED
    BY <1>0, <1>5, <2>1, <2>3, <2>4, SameMap
<1>6. CASE Returned /\ UNCHANGED <<bench, mutex, map>>
  BY <1>0, <1>6, SameMap DEF Returned, vars, OwnerRuns, KeyKnown
<1>7. CASE UNCHANGED benchVars
  BY <1>0, <1>7, SameMap DEF benchVars, vars, OwnerRuns, KeyKnown
<1> QED
  BY <1>1, <1>2, <1>3, <1>4, <1>5, <1>6, <1>7 DEF BenchNext, BenchWorker

LEMMA MapHolds == BenchSpec => [](BarrierInv /\ MeasureInv /\ MapInv)
<1>1. BenchSpec => []MapInv
  BY BenchImplementsBarrier, MeasureHolds, MapInit, MapStep, PTL DEF BenchSpec
<1> QED
  BY <1>1, BenchImplementsBarrier, MeasureHolds, PTL

-----------------------------------------------------------------------------
(* With more keys than threads every operation of a get benchmark finds an *)
(* entry: [] creates none, at never throws, although the key is read       *)
(* through a dangling reference.                                           *)
THEOREM GetsHit == mapSize > threadCount => (BenchSpec => []GetHits)
<1> SUFFICES ASSUME mapSize > threadCount PROVE BenchSpec => []GetHits
  OBVIOUS
<1>1. MeasureInv /\ MapInv => GetHits
  <2> SUFFICES ASSUME MeasureInv, MapInv, NEW id \in Ids, mutex = id, bench \in Gets
               PROVE  map[key[id]] # None
    BY DEF GetHits, Gets
  <2>1. key[id] \in 0 .. mapSize - 1
    BY SetUpAssumption DEF MeasureInv, MeasureTypes, MapInv, OwnerRuns, KeyKnown
  <2> QED
    <3>1. bench \notin Puts /\ map = InitialMap(bench)
      BY DEF MapInv, Contents, Gets, Puts
    <3>2. map = [k \in 0 .. mapSize - 1 |-> k]
      BY <3>1, Initially
    <3>3. map[key[id]] = key[id] /\ key[id] \in Nat
      BY <2>1, <3>2
    <3> QED
      BY <3>3, OutsideAssumption
<1> QED
  BY <1>1, MapHolds, PTL

LEMMA OpsPositive == Ops > 0
BY SetUpAssumption DEF Ops

(* When erase has been measured, the workers' keys are gone and no others. *)
THEOREM ErasesJustTheirs == BenchSpec => []ErasesTheirKeys
<1>1. MeasureInv /\ MapInv => ErasesTheirKeys
  <2> SUFFICES ASSUME MeasureInv, MapInv, main = "max", bench = "erase",
                      NEW k \in 0 .. mapSize - 1
               PROVE  map[k] = None <=> \E id \in Ids : key[id] = k
    BY DEF ErasesTheirKeys
  <2>1. \A id \in Ids : count[id] > 0
    BY OpsPositive DEF MeasureInv, Joined, Progress
  <2>2. Operated(k) <=> \E id \in Ids : key[id] = k
    BY <2>1 DEF Operated
  <2>3. map[k] = IF Operated(k) THEN None ELSE k
    BY DEF MapInv, Contents
  <2> QED
    BY <2>2, <2>3, OutsideAssumption
<1> QED
  BY <1>1, MapHolds, PTL

(* When put has been measured, its key holds the last value of [] and the  *)
(* first of insert, and no reader has created an entry.                    *)
THEOREM PutsStore == BenchSpec => []PutStores
<1>1. MeasureInv /\ MapInv => PutStores
  <2> SUFFICES ASSUME MeasureInv, MapInv, main = "max", bench \in Puts
               PROVE  map = [InitialMap(bench) EXCEPT ![0] =
                               IF bench = "putBrackets" THEN Ops - 1 ELSE 0]
    BY DEF PutStores, Benchmarks, Puts
  <2>1. 0 \in Ids
    BY SetUpAssumption DEF Ids
  <2>2. count[0] = Ops /\ Ops # 0
    BY <2>1, OpsPositive DEF MeasureInv, Joined, Progress
  <2> QED
    BY <2>2 DEF MapInv, Contents, Gets, Puts
<1> QED
  BY <1>1, MapHolds, PTL

-----------------------------------------------------------------------------
(* All benchmarks (LockfreeBenchmark).                                     *)

(* What the steps of a benchmark do to barrier and lists.                  *)
LEMMA SuiteStep ==
  ASSUME [SuiteNext]_suiteVars
  PROVE  [Next]_vars /\ [ListsNext]_listVars /\ UNCHANGED bench
<1> USE CompositionAssumption
<1>1. CASE SuiteMain
  BY <1>1 DEF SuiteMain, BenchMain, Next
<1>2. ASSUME NEW id \in Ids, StandardWorker(id) PROVE [Next]_vars /\ UNCHANGED <<listVars, bench>>
  <2>1. [BenchNext]_benchVars /\ UNCHANGED bench
    BY <1>2 DEF StandardWorker, BenchNext, BenchWorker, Lock, Access
  <2> QED
    BY <1>2, <2>1, BenchStep DEF StandardWorker
<1>3. ASSUME NEW id \in Ids, LockfreeWorker(id)
      PROVE  [Next]_vars /\ [ListsNext]_listVars /\ UNCHANGED bench
  <2>1. CASE LockfreeSearch(id) \/ LockfreeInsert(id) \/ LockfreeBegin(id) \/ LockfreeAbsent(id)
    BY <2>1 DEF LockfreeSearch, LockfreeInsert, LockfreeBegin, LockfreeAbsent, Next, Worker
  <2>2. CASE LockfreeUnlink(id)
    <3>1. map[key[id]] \in Entries /\ Enter(id, map[key[id]])
      BY <2>2 DEF LockfreeUnlink, Enter
    <3> QED
      BY <2>2, <3>1 DEF LockfreeUnlink, ListsNext
  <2>3. CASE LockfreeUnlinkNull(id)
    <3>1. Nothing(id) \in Entries /\ Enter(id, Nothing(id))
      BY <2>3 DEF LockfreeUnlinkNull, Enter
    <3> QED
      BY <2>3, <3>1 DEF LockfreeUnlinkNull, ListsNext, benchVars
  <2>4. CASE LockfreeRetire(id)
    BY <2>4 DEF LockfreeRetire, ListsNext, Next, Worker
  <2>5. CASE (Arrive(id) \/ Go(id) \/ Finish(id)) /\ UNCHANGED <<bench, mutex, map, listVars, saw>>
    BY <2>5 DEF Next, Worker
  <2> QED
    BY <1>3, <2>1, <2>2, <2>3, <2>4, <2>5 DEF LockfreeWorker
<1>4. CASE Returned /\ UNCHANGED suiteVars
  BY <1>4 DEF suiteVars, benchVars
<1>5. CASE UNCHANGED suiteVars
  BY <1>5 DEF suiteVars, benchVars
<1> QED
  BY <1>1, <1>2, <1>3, <1>4, <1>5 DEF SuiteNext, SuiteWorker

(* They retire nodes as RetiredLists says.                                 *)
LEMMA SuiteLists == SuiteSpec => ListsSpec
<1>1. SuiteInit => ListsInit
  BY DEF SuiteInit
<1>2. [SuiteNext]_suiteVars => [ListsNext]_listVars
  BY SuiteStep
<1> QED
  BY <1>1, <1>2, PTL DEF SuiteSpec, ListsSpec

(* The benchmarks of both kinds of map keep to the barrier.                *)
THEOREM SuiteImplementsBarrier == SuiteSpec => Spec
<1>1. SuiteInit => Init
  BY DEF SuiteInit, BenchInit, LockfreeInit
<1>2. [SuiteNext]_suiteVars => [Next]_vars
  BY SuiteStep
<1> QED
  BY <1>1, <1>2, PTL DEF SuiteSpec, Spec

(* So no worker of any benchmark starts before the others, and the maximum *)
(* is taken at the end.                                                    *)
THEOREM SuiteMeasures == SuiteSpec => [](TypeOK /\ StartTogether /\ MaximumOfAll)
BY SuiteImplementsBarrier, MeasureTyped, BarrierHolds, MaximumIsComplete, PTL

(* Until two workers have met in retire_node, what the remove benchmark has*)
(* retired is deleted once and not forgotten.                              *)
THEOREM SuiteReclaims == SuiteSpec => [](DeletedOnce /\ NothingForgotten)
BY SuiteLists, DeletesAreOwed, NoNodeForgotten, PTL

-----------------------------------------------------------------------------
(* What the lock-free table holds while it is measured.                    *)

Measuring(id) == worker[id] \in {"run", "done"}

KeysReached == \A id \in Ids : Measuring(id) => key[id] <= threadCount

(* A worker in retire_node is in the middle of a remove.                   *)
RetireRuns == \A id \in Ids : Inside(id) =>
  bench = "remove" /\ worker[id] = "run" /\ count[id] < Ops

(* A worker enters retire_node during its first remove only.               *)
EntersOnce ==
  /\ node \in [Workers -> Entries \cup {Wild}]
  /\ \A id \in Ids : (count[id] = 0 /\ ~Inside(id)) => node[id] = Wild

(* What a worker has removed is gone.                                      *)
Removed == bench = "remove" =>
  /\ map \in [0 .. mapSize - 1 -> Nat \cup {None}]
  /\ \A k \in 0 .. mapSize - 1 : map[k] \in {None, k}
  /\ \A id \in Ids : (Inside(id) \/ count[id] > 0) => map[key[id]] = None

(* What is retired is the entry or the null pointer of a worker's remove.  *)
RetiredByWorkers == \A n \in retired : \E id \in Ids :
  Measuring(id) /\ node[id] = n /\ n \in {key[id], Nothing(id)}

(* An entry that a first remove began with is there or retired.            *)
SawEntries ==
  /\ saw \in [Ids -> SUBSET (0 .. mapSize - 1)]
  /\ \A id \in Ids : saw[id] # {} =>
        /\ bench = "remove" /\ worker[id] = "run" /\ count[id] = 0 /\ ~Inside(id)
        /\ \A k \in saw[id] : map[k] = None => k \in retired

(* A worker retires a null pointer when another has retired its entry.     *)
NullsAreLate == \A id \in Ids : node[id] = Nothing(id) => key[id] \in retired

SuiteInv ==
  /\ retired \subseteq Entries /\ step \in [Workers -> Steps]
  /\ KeysReached /\ RetireRuns /\ EntersOnce /\ Removed
  /\ RetiredByWorkers /\ SawEntries /\ NullsAreLate

(* A null pointer is an entry of its own, and no node.                     *)
LEMMA Nothings ==
  /\ \A id \in Ids : Nothing(id) \in Entries /\ Nothing(id) >= mapSize
  /\ \A id, other \in Ids : Nothing(id) = Nothing(other) => id = other
BY SetUpAssumption, CompositionAssumption DEF Nothing, Ids

(* It holds at the start.                                                  *)
LEMMA SuiteStart == SuiteInit => SuiteInv
<1> SUFFICES ASSUME SuiteInit PROVE SuiteInv
  OBVIOUS
<1> USE SetUpAssumption, CompositionAssumption, OutsideAssumption, RowAssumption DEF SuiteInit
<1>1. /\ Init /\ retired = {} /\ step = [w \in Workers |-> "out"]
      /\ node = [w \in Workers |-> Wild] /\ saw = [id \in Ids |-> {}]
  BY DEF BenchInit, LockfreeInit, ListsInit
<1>2. KeysReached /\ RetireRuns /\ RetiredByWorkers /\ SawEntries
  BY <1>1 DEF Init, KeysReached, RetireRuns, RetiredByWorkers, SawEntries, Measuring, Inside
<1>3. EntersOnce /\ NullsAreLate
  BY <1>1, Nothings DEF EntersOnce, NullsAreLate
<1>4. Removed
  <2>1. CASE BenchInit
    BY <2>1 DEF BenchInit, Benchmarks, Removed
  <2>2. CASE LockfreeInit
    <3>1. PICK dropped \in SUBSET (0 .. mapSize - 1) :
            map = Filled(IF bench = "insert" THEN 0 .. mapSize - 1 ELSE dropped)
      BY <2>2 DEF LockfreeInit
    <3>2. \A id \in Ids : count[id] = 0 /\ ~Inside(id)
      BY <1>1 DEF Init, Inside
    <3> QED
      BY <3>1, <3>2 DEF Removed, Filled
  <2> QED
    BY <2>1, <2>2
<1> QED
  BY <1>1, <1>2, <1>3, <1>4 DEF SuiteInv, Steps

(* A step of the measurement that operates on nothing and reads no key.    *)
Moves(id) == Arrive(id) \/ Go(id) \/ Finish(id)

LEMMA MovesKeep ==
  ASSUME BarrierInv, MeasureInv, SuiteInv, NEW id \in Ids, Moves(id),
         UNCHANGED <<bench, map, listVars, saw>>
  PROVE  SuiteInv'
<1> USE SetUpAssumption, CompositionAssumption
    DEF BarrierInv, BarrierTypes, MeasureInv, MeasureTypes, SuiteInv
<1>1. UNCHANGED <<retired, step, node, saw, bench, map, key, count>>
  BY DEF listVars, Moves, Arrive, Go, Finish
<1>2. \A other \in Ids : Measuring(other)' <=> Measuring(other)
  BY DEF Moves, Arrive, Go, Finish, Measuring
<1>3. \A other \in Ids : worker[other] = "run" /\ count[other] < Ops => worker'[other] = "run"
  BY DEF Moves, Arrive, Go, Finish
<1>4. KeysReached' /\ RetiredByWorkers'
  BY <1>1, <1>2 DEF KeysReached, RetiredByWorkers, Nothing
<1>5. RetireRuns' /\ EntersOnce' /\ Removed' /\ NullsAreLate'
  BY <1>1, <1>3 DEF RetireRuns, EntersOnce, Removed, NullsAreLate, Inside, Nothing
<1>6. SawEntries'
  BY <1>1, <1>3, OpsPositive DEF SawEntries, Inside
<1> QED
  BY <1>1, <1>4, <1>5, <1>6

(* A worker that reads its key has neither operated nor retired a node.    *)
LEMMA ReadKeyKeeps ==
  ASSUME BarrierInv, MeasureInv, SuiteInv, NEW id \in Ids, ReadKey(id),
         UNCHANGED <<bench, map, listVars>>,
         \/ saw' = saw
         \/ /\ bench = "remove"
            /\ saw' = [saw EXCEPT ![id] = {k \in 0 .. mapSize - 1 : map[k] # None}]
  PROVE  SuiteInv'
<1> USE SetUpAssumption, CompositionAssumption
    DEF BarrierInv, BarrierTypes, MeasureInv, MeasureTypes, SuiteInv
<1>1. UNCHANGED <<retired, step, node, bench, map, count>>
  BY DEF listVars, ReadKey
<1>2. /\ worker[id] = "key" /\ count[id] = 0 /\ ~Inside(id) /\ node[id] = Wild
      /\ \A other \in Ids \ {id} : worker'[other] = worker[other] /\ key'[other] = key[other]
  BY DEF ReadKey, Progress, RetireRuns, EntersOnce
<1>3. worker'[id] = "run" /\ key'[id] \in Nat /\ key'[id] <= threadCount
  <2>1. PICK k \in CapturedIndex(id) : key' = [key EXCEPT ![id] = k]
    BY DEF ReadKey
  <2> QED
    BY <2>1 DEF ReadKey, CapturedIndex, Ids
<1>4. KeysReached' /\ RetireRuns'
  BY <1>1, <1>2, <1>3 DEF KeysReached, RetireRuns, Measuring, Inside
<1>5. EntersOnce' /\ Removed'
  <2>1. EntersOnce'
    BY <1>1 DEF EntersOnce, Inside
  <2>2. \A other \in Ids : (Inside(other)' \/ count'[other] > 0) =>
          (Inside(other) \/ count[other] > 0) /\ key'[other] = key[other]
    BY <1>1, <1>2 DEF Inside
  <2> QED
    BY <1>1, <2>1, <2>2 DEF Removed
<1>6. RetiredByWorkers'
  <2>1. \A other \in Ids : Measuring(other) => other # id
    BY <1>2 DEF Measuring
  <2> QED
    BY <1>1, <1>2, <2>1 DEF RetiredByWorkers, Measuring, Nothing
<1>7. NullsAreLate'
  <2>1. node[id] # Nothing(id)
    BY <1>2, Nothings, RowAssumption
  <2> QED
    BY <1>1, <1>2, <2>1 DEF NullsAreLate, Nothing
<1>8. SawEntries'
  <2>1. /\ saw' \in [Ids -> SUBSET (0 .. mapSize - 1)]
        /\ \A other \in Ids \ {id} : saw'[other] = saw[other]
    BY DEF SawEntries
  <2>2. saw'[id] # {} => bench = "remove" /\ \A k \in saw'[id] : map[k] # None
    BY <1>2 DEF SawEntries
  <2> QED
    BY <1>1, <1>2, <1>3, <2>1, <2>2 DEF SawEntries, Inside
<1> QED
  BY <1>1, <1>4, <1>5, <1>6, <1>7, <1>8

(* An operation that neither retires nor removes a node keeps it, if what  *)
(* its key stands for is gone when it was a remove.                        *)
LEMMA OperateKeeps ==
  ASSUME MeasureInv, SuiteInv, NEW id \in Ids, Operate(id), ~Inside(id),
         UNCHANGED <<bench, listVars>>,
         saw' = saw \/ saw' = [saw EXCEPT ![id] = {}],
         bench = "remove" => map' = map /\ map[key[id]] = None /\ saw'[id] = {}
  PROVE  SuiteInv'
<1> USE DEF SuiteInv, MeasureInv, MeasureTypes
<1>1. /\ UNCHANGED <<retired, step, node, worker, key>>
      /\ count' = [count EXCEPT ![id] = @ + 1]
  BY DEF listVars, Operate
<1>2. KeysReached' /\ RetiredByWorkers' /\ NullsAreLate'
  BY <1>1 DEF KeysReached, RetiredByWorkers, NullsAreLate, Measuring, Nothing
<1>3. RetireRuns' /\ EntersOnce' /\ Removed'
  BY <1>1, OpsNat DEF RetireRuns, EntersOnce, Removed, Inside
<1>4. SawEntries'
  <2>1. /\ saw' \in [Ids -> SUBSET (0 .. mapSize - 1)]
        /\ \A other \in Ids : saw'[other] # {} => saw'[other] = saw[other]
    BY DEF SawEntries
  <2>2. \A other \in Ids : saw'[other] # {} => bench = "remove" /\ other # id
    BY <2>1 DEF SawEntries
  <2> QED
    BY <1>1, <2>1, <2>2 DEF SawEntries, Inside
<1> QED
  BY <1>1, <1>2, <1>3, <1>4

(* A worker whose entry is gone enters retire_node with it, or with a null *)
(* pointer if another had removed it.                                      *)
LEMMA EnterKeeps ==
  ASSUME mapSize > threadCount, MeasureInv, SuiteInv, NEW id \in Ids, NEW n, Enter(id, n),
         UNCHANGED <<vars, bench>>, saw' = [saw EXCEPT ![id] = {}],
         bench = "remove", worker[id] = "run", count[id] = 0,
         \/ n = key[id] /\ map' = [map EXCEPT ![n] = None]
         \/ n = Nothing(id) /\ key[id] \in retired /\ map' = map /\ map[key[id]] = None
  PROVE  SuiteInv'
<1> USE SetUpAssumption, CompositionAssumption DEF SuiteInv, MeasureInv, MeasureTypes
<1>1. /\ UNCHANGED <<worker, key, count>> /\ ~Inside(id) /\ n \in Entries /\ n \notin retired
      /\ step' = [step EXCEPT ![id] = "index"] /\ node' = [node EXCEPT ![id] = n]
      /\ retired' = retired \cup {n}
  BY DEF Enter, Goto, Inside, vars
<1>2. Ops > 0 /\ key[id] \in 0 .. mapSize - 1
  BY OpsPositive DEF KeysReached, Measuring
<1>3. /\ retired' \subseteq Entries /\ step' \in [Workers -> Steps]
      /\ node' \in [Workers -> Entries \cup {Wild}]
  BY <1>1 DEF Steps, EntersOnce
<1>4. \A other \in Ids : Inside(other)' <=> Inside(other) \/ other = id
  BY <1>1 DEF Inside
<1>5. KeysReached' /\ RetireRuns'
  BY <1>1, <1>2, <1>4 DEF KeysReached, RetireRuns, Measuring
<1>6. EntersOnce'
  BY <1>1, <1>3, <1>4 DEF EntersOnce
<1>7. /\ map' \in [0 .. mapSize - 1 -> Nat \cup {None}] /\ map'[key[id]] = None
      /\ \A k \in 0 .. mapSize - 1 : map'[k] = map[k] \/ (k = n /\ map'[k] = None)
  BY <1>2 DEF Removed
<1>8. Removed'
  <2>1. \A other \in Ids : (Inside(other) \/ count[other] > 0) =>
          key[other] \in 0 .. mapSize - 1 /\ map[key[other]] = None
    BY DEF Removed, RetireRuns, KeysReached, Measuring, Progress
  <2> QED
    BY <1>1, <1>4, <1>7, <2>1 DEF Removed
<1>9. \A m \in retired : \E other \in Ids \ {id} :
        Measuring(other) /\ node[other] = m /\ m \in {key[other], Nothing(other)}
  <2>1. node[id] = Wild /\ Wild \notin Entries
    BY <1>1, RowAssumption DEF EntersOnce
  <2> QED
    BY <2>1 DEF RetiredByWorkers
<1>10. RetiredByWorkers'
  <2>1. Measuring(id) /\ n \in {key[id], Nothing(id)} /\ node'[id] = n
    BY <1>1, <1>3 DEF Measuring, EntersOnce
  <2>2. \A other \in Ids \ {id} : node'[other] = node[other]
    BY <1>1 DEF EntersOnce
  <2> QED
    BY <1>1, <1>9, <2>1, <2>2 DEF RetiredByWorkers, Measuring, Nothing
<1>11. SawEntries'
  <2>1. /\ saw' \in [Ids -> SUBSET (0 .. mapSize - 1)] /\ saw'[id] = {}
        /\ \A other \in Ids \ {id} : saw'[other] = saw[other]
    BY DEF SawEntries
  <2>2. ASSUME NEW other \in Ids \ {id}, NEW k \in saw[other], map'[k] = None PROVE k \in retired'
    <3>1. k \in 0 .. mapSize - 1 /\ (map[k] = None => k \in retired)
      BY <2>2 DEF SawEntries
    <3> QED
      BY <1>1, <1>7, <2>2, <3>1
  <2>3. \A other \in Ids \ {id} : saw[other] # {} =>
          bench = "remove" /\ worker[other] = "run" /\ count[other] = 0 /\ ~Inside(other)
    BY DEF SawEntries
  <2> QED
    BY <1>1, <1>4, <2>1, <2>2, <2>3 DEF SawEntries
<1>12. NullsAreLate'
  <2>1. n = Nothing(id) => key[id] \in retired
    BY <1>2, Nothings
  <2>2. node'[id] = n /\ \A other \in Ids \ {id} : node'[other] = node[other]
    BY <1>1 DEF EntersOnce
  <2> QED
    BY <1>1, <2>1, <2>2 DEF NullsAreLate, Nothing
<1> QED
  BY <1>3, <1>5, <1>6, <1>8, <1>10, <1>11, <1>12

(* A step inside retire_node keeps it; the operation ends with the last.   *)
LEMMA RetireKeeps ==
  ASSUME MeasureInv, SuiteInv, NEW id \in Ids, LockfreeRetire(id)
  PROVE  SuiteInv'
<1> USE CompositionAssumption DEF SuiteInv, MeasureInv, MeasureTypes
<1>1. Inside(id) /\ UNCHANGED <<retired, node>> /\ \E s \in Steps : step' = [step EXCEPT ![id] = s]
  <2>1. CASE ReadIndex(id) \/ Store(id) \/ CountRead(id) \/ CountBump(id)
    BY <2>1 DEF ReadIndex, Store, CountRead, CountBump, Goto, Inside, Steps
  <2>2. CASE CheckFull(id)
    <3>1. PICK c \in Count(id) : step' = [step EXCEPT ![id] = IF c > R THEN "scan" ELSE "out"]
      BY <2>2 DEF CheckFull, Goto
    <3> QED
      BY <2>2, <3>1 DEF CheckFull, Inside, Steps
  <2>3. CASE ScanCount(id) \/ ScanReset(id) \/ ScanEnd(id)
    BY <2>3 DEF ScanCount, ScanReset, ScanEnd, Goto, Inside, Steps
  <2>4. CASE ScanDelete(id)
    <3>1. step' = [step EXCEPT ![id] = "delete"] /\ "delete" \in Steps
      BY <2>4 DEF ScanDelete, Steps
    <3> QED
      BY <2>4, <3>1 DEF ScanDelete, Inside
  <2> QED
    BY <2>1, <2>2, <2>3, <2>4 DEF LockfreeRetire, RetireStep
<1>2. /\ UNCHANGED <<bench, map, saw, worker, key>>
      /\ IF step'[id] = "out" THEN count' = [count EXCEPT ![id] = @ + 1] ELSE count' = count
  BY DEF LockfreeRetire, Operate, vars
<1>3. step' \in [Workers -> Steps] /\ count[id] \in Nat
  BY <1>1, OpsNat
<1>4. \A other \in Ids : other # id =>
        (Inside(other)' <=> Inside(other)) /\ count'[other] = count[other]
  BY <1>1, <1>2 DEF Inside
<1>5. IF Inside(id)' THEN count'[id] = count[id] ELSE count'[id] = count[id] + 1
  BY <1>2 DEF Inside
<1>6. KeysReached' /\ RetiredByWorkers' /\ NullsAreLate'
  BY <1>1, <1>2 DEF KeysReached, RetiredByWorkers, NullsAreLate, Measuring, Nothing
<1>7. RetireRuns' /\ EntersOnce' /\ Removed'
  <2>1. ASSUME NEW other \in Ids
        PROVE  /\ step'[other] # "out" => step[other] # "out" /\ count'[other] = count[other]
               /\ count'[other] > 0 => step[other] # "out" \/ count[other] > 0
               /\ count'[other] = 0 => count[other] = 0 /\ (step[other] # "out" => step'[other] # "out")
    <3>1. CASE other = id
      BY <1>1, <1>3, <1>5, <3>1 DEF Inside
    <3>2. CASE other # id
      BY <1>4, <3>2 DEF Inside
    <3> QED
      BY <3>1, <3>2
  <2>2. RetireRuns' /\ EntersOnce'
    <3>1. RetireRuns'
      BY <1>2, <2>1 DEF RetireRuns, Inside
    <3>2. EntersOnce'
      BY <1>1, <2>1 DEF EntersOnce, Inside
    <3> QED
      BY <3>1, <3>2
  <2>3. Removed'
    BY <1>2, <2>1 DEF Removed, Inside
  <2> QED
    BY <2>2, <2>3
<1>8. SawEntries'
  <2>1. saw[id] = {}
    BY <1>1 DEF SawEntries
  <2> QED
    BY <1>1, <1>2, <1>4, <2>1 DEF SawEntries
<1> QED
  BY <1>1, <1>3, <1>6, <1>7, <1>8

(* No step breaks it, if there are more keys than threads.                 *)
LEMMA SuiteKeeps ==
  ASSUME mapSize > threadCount
  PROVE  BarrierInv /\ MeasureInv /\ SuiteInv /\ [SuiteNext]_suiteVars => SuiteInv'
<1> SUFFICES ASSUME BarrierInv, MeasureInv, SuiteInv, [SuiteNext]_suiteVars PROVE SuiteInv'
  OBVIOUS
<1> USE SetUpAssumption, CompositionAssumption, OutsideAssumption, OpsNat
    DEF BarrierInv, BarrierTypes, MeasureInv, MeasureTypes
<1>1. CASE SuiteMain
  <2>1. UNCHANGED <<bench, map, retired, step, node, saw, key, count>>
    BY <1>1 DEF SuiteMain, listVars, BenchMain, Main, Start, AllArrived, Release, Join
  <2>2. \A id \in Ids : worker'[id] = worker[id] \/ (worker[id] = "unborn" /\ worker'[id] = "arrive")
    <3>1. CASE Start
      <4>1. i \in Ids /\ worker[i] = "unborn"
        BY <3>1 DEF Start, Unstarted, Ids
      <4> QED
        BY <3>1, <4>1 DEF Start
    <3>2. CASE AllArrived \/ Release \/ Join
      BY <3>2 DEF AllArrived, Release, Join
    <3> QED
      BY <1>1, <3>1, <3>2 DEF SuiteMain, BenchMain, Main
  <2>3. \A id \in Ids : Measuring(id)' <=> Measuring(id)
    BY <2>2 DEF Measuring
  <2>4. KeysReached' /\ RetiredByWorkers'
    BY <2>1, <2>3 DEF SuiteInv, KeysReached, RetiredByWorkers, Nothing
  <2>5. RetireRuns' /\ EntersOnce' /\ Removed' /\ NullsAreLate' /\ SawEntries'
    BY <2>1, <2>2
       DEF SuiteInv, RetireRuns, EntersOnce, Removed, NullsAreLate, SawEntries, Inside, Nothing
  <2> QED
    BY <2>1, <2>4, <2>5 DEF SuiteInv
<1>2. ASSUME NEW id \in Ids, StandardWorker(id) PROVE SuiteInv'
  <2>1. bench # "remove" /\ UNCHANGED <<listVars, saw>> /\ ~Inside(id)
    BY <1>2 DEF StandardWorker, Benchmarks, SuiteInv, RetireRuns
  <2>2. CASE Lock(id)
    <3>1. UNCHANGED <<bench, map, retired, step, node, saw, worker, key, count>>
      BY <2>1, <2>2 DEF Lock, vars, listVars
    <3> QED
      BY <3>1 DEF SuiteInv, KeysReached, RetireRuns, EntersOnce, Removed, RetiredByWorkers,
                  SawEntries, NullsAreLate, Measuring, Inside, Nothing
  <2>3. CASE Access(id)
    BY <2>1, <2>3, OperateKeeps DEF Access
  <2>4. CASE Moves(id) /\ UNCHANGED <<bench, mutex, map>>
    BY <2>1, <2>4, MovesKeep
  <2>5. CASE ReadKey(id) /\ UNCHANGED <<bench, mutex, map>>
    BY <2>1, <2>5, ReadKeyKeeps
  <2> QED
    BY <1>2, <2>2, <2>3, <2>4, <2>5 DEF StandardWorker, BenchWorker, Moves
<1>3. ASSUME NEW id \in Ids, LockfreeSearch(id) \/ LockfreeInsert(id) PROVE SuiteInv'
  <2>1. Operate(id) /\ UNCHANGED <<bench, listVars, saw>> /\ bench # "remove"
    BY <1>3 DEF LockfreeSearch, LockfreeInsert
  <2>2. ~Inside(id)
    BY <2>1 DEF SuiteInv, RetireRuns
  <2> QED
    BY <2>1, <2>2, OperateKeeps
<1>4. ASSUME NEW id \in Ids, LockfreeBegin(id) PROVE SuiteInv'
  BY <1>4, ReadKeyKeeps DEF LockfreeBegin
<1>5. ASSUME NEW id \in Ids, LockfreeAbsent(id) PROVE SuiteInv'
  <2>1. saw' = [saw EXCEPT ![id] = {}] /\ saw'[id] = {}
    BY <1>5 DEF LockfreeAbsent, SuiteInv, SawEntries
  <2> QED
    BY <1>5, <2>1, OperateKeeps DEF LockfreeAbsent
<1>6. ASSUME NEW id \in Ids, LockfreeUnlink(id) PROVE SuiteInv'
  <2>1. /\ bench = "remove" /\ ~Inside(id) /\ worker[id] = "run" /\ map[key[id]] # None
        /\ map' = [map EXCEPT ![key[id]] = None] /\ saw' = [saw EXCEPT ![id] = {}]
        /\ Enter(id, map[key[id]]) /\ UNCHANGED <<vars, bench>>
    BY <1>6 DEF LockfreeUnlink
  <2>2. key[id] \in 0 .. mapSize - 1
    BY <2>1 DEF SuiteInv, KeysReached, Measuring
  <2>3. map[key[id]] = key[id] /\ count[id] = 0
    BY <2>1, <2>2 DEF SuiteInv, Removed
  <2> QED
    BY <2>1, <2>3, EnterKeeps
<1>7. ASSUME NEW id \in Ids, LockfreeUnlinkNull(id) PROVE SuiteInv'
  <2>1. /\ bench = "remove" /\ key[id] \in saw[id] /\ map[key[id]] = None
        /\ saw' = [saw EXCEPT ![id] = {}] /\ Enter(id, Nothing(id)) /\ UNCHANGED benchVars
    BY <1>7 DEF LockfreeUnlinkNull
  <2>2. worker[id] = "run" /\ count[id] = 0 /\ key[id] \in retired
    BY <2>1 DEF SuiteInv, SawEntries
  <2> QED
    BY <2>1, <2>2, EnterKeeps DEF benchVars
<1>8. ASSUME NEW id \in Ids, LockfreeRetire(id) PROVE SuiteInv'
  BY <1>8, RetireKeeps
<1>9. ASSUME NEW id \in Ids, Moves(id), UNCHANGED <<bench, mutex, map, listVars, saw>> PROVE SuiteInv'
  BY <1>9, MovesKeep
<1>10. CASE UNCHANGED suiteVars
  BY <1>10 DEF suiteVars, benchVars, vars, listVars, SuiteInv, KeysReached, RetireRuns, EntersOnce,
     Removed, RetiredByWorkers, SawEntries, NullsAreLate, Measuring, Inside, Nothing
<1> QED
  BY <1>1, <1>2, <1>3, <1>4, <1>5, <1>6, <1>7, <1>8, <1>9, <1>10
     DEF SuiteNext, SuiteWorker, LockfreeWorker, Moves

LEMMA SuiteHolds ==
  ASSUME mapSize > threadCount
  PROVE  SuiteSpec => [](BarrierInv /\ MeasureInv /\ SuiteInv)
<1>1. SuiteSpec => [](BarrierInv /\ MeasureInv)
  BY SuiteImplementsBarrier, MeasureHolds, PTL
<1>2. SuiteSpec /\ [](BarrierInv /\ MeasureInv) => []SuiteInv
  BY SuiteStart, SuiteKeeps, PTL DEF SuiteSpec
<1> QED
  BY <1>1, <1>2, PTL

-----------------------------------------------------------------------------
(* The workers retire no more pointers than they are.                      *)
LEMMA FewRetired == SuiteInv => IsFiniteSet(retired) /\ Cardinality(retired) <= threadCount
<1> SUFFICES ASSUME SuiteInv
             PROVE  IsFiniteSet(retired) /\ Cardinality(retired) <= threadCount
  OBVIOUS
<1> DEFINE by == [n \in retired |-> CHOOSE id \in Ids : node[id] = n]
<1>1. \A n \in retired : by[n] \in Ids /\ node[by[n]] = n
  BY DEF SuiteInv, RetiredByWorkers
<1>2. by \in [retired -> Ids] /\ \A m, n \in retired : by[m] = by[n] => m = n
  BY <1>1
<1>3. by \in Injection(retired, Ids)
  BY <1>2, Fun_IsInj
<1> QED
  BY <1>3, IdsCount, FS_Injection

(* With more keys than threads, and a row for as many nodes as there are   *)
(* threads (256 for the 50 of the benchmarks), the workers that share one  *)
(* retired list never write or read past its row (line 77), however their  *)
(* plain reads and writes of the count interleave: each enters retire_node *)
(* once, though with a null pointer if it came late to its entry.          *)
THEOREM SharedRowHolds ==
  mapSize > threadCount /\ threadCount <= MAX_BUF => (SuiteSpec => []RowsInBounds)
<1> SUFFICES ASSUME mapSize > threadCount, threadCount <= MAX_BUF
             PROVE  SuiteSpec => []RowsInBounds
  OBVIOUS
<1>1. SuiteInv => Cardinality(retired) <= MAX_BUF
  BY FewRetired, FS_CardinalityType, SetUpAssumption, RowAssumption
<1> QED
  BY <1>1, SuiteHolds, SuiteLists, RowsHold, PTL

(* When remove has been measured the keys of the workers are gone, no other*)
(* entry has been retired, and null pointers only by those that came late. *)
THEOREM RemovesJustTheirs == mapSize > threadCount => (SuiteSpec => []RemovesTheirKeys)
<1> SUFFICES ASSUME mapSize > threadCount PROVE SuiteSpec => []RemovesTheirKeys
  OBVIOUS
<1>1. MeasureInv /\ SuiteInv => RemovesTheirKeys
  <2> SUFFICES ASSUME MeasureInv, SuiteInv, main = "max", bench = "remove"
               PROVE  /\ \A id \in Ids : key[id] < mapSize => map[key[id]] = None
                      /\ \A k \in retired \cap (0 .. mapSize - 1) :
                            \E id \in Ids : key[id] = k /\ node[id] = k
                      /\ \A id \in Ids : Nothing(id) \in retired =>
                            node[id] = Nothing(id) /\ key[id] \in retired
    BY DEF RemovesTheirKeys
  <2>1. \A id \in Ids : count[id] > 0
    BY OpsPositive DEF MeasureInv, Joined, Progress
  <2>2. \A k \in retired \cap (0 .. mapSize - 1) : \E id \in Ids : key[id] = k /\ node[id] = k
    BY Nothings, SetUpAssumption DEF SuiteInv, RetiredByWorkers
  <2>3. ASSUME NEW id \in Ids, Nothing(id) \in retired PROVE node[id] = Nothing(id)
    <3>1. PICK other \in Ids : /\ Measuring(other) /\ node[other] = Nothing(id)
                               /\ Nothing(id) \in {key[other], Nothing(other)}
      BY <2>3 DEF SuiteInv, RetiredByWorkers
    <3>2. key[other] < Nothing(id)
      BY <3>1, Nothings, SetUpAssumption
         DEF SuiteInv, KeysReached, MeasureInv, MeasureTypes, Nothing, Ids
    <3> QED
      BY <3>1, <3>2, Nothings DEF MeasureInv, MeasureTypes
  <2> QED
    BY <2>1, <2>2, <2>3 DEF SuiteInv, Removed, NullsAreLate
<1> QED
  BY <1>1, SuiteHolds, PTL
=============================================================================
