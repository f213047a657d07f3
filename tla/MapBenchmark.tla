---------------------------- MODULE MapBenchmark -----------------------------
(***************************************************************************)
(* The multi-thread benchmarks of std::map and std::unordered_map          *)
(* (benchmarks/src/multi_thread): StartBarrier's workers, whose operations *)
(* on one map that they share are guarded by one mutex.  The benchmarks of *)
(* get ([] and at), put ([] and insert) and erase differ in what they do to*)
(* the map; those of the other key and value types repeat them.            *)
(***************************************************************************)
EXTENDS StartBarrier

CONSTANTS
  None,   \* no entry
  Free    \* the mutex has no owner

ASSUME OutsideAssumption == None \notin Nat /\ Free \notin Ids

VARIABLES
  bench,  \* the benchmark that runs
  mutex,  \* its owner, or Free
  map     \* the value stored under each key, by index in `keys`

benchVars == <<vars, bench, mutex, map>>

(* Only put has a writer and readers, and captures i by value.             *)
Benchmarks == IF byReference THEN {"getBrackets", "getAt", "erase"}
                             ELSE {"putBrackets", "putInsert"}

(* Mutant: initializeCollection stores one key per thread.                 *)
InitialMap_short(b) == [k \in 0 .. mapSize - 1 |->
  IF b \in {"putBrackets", "putInsert"} \/ k >= threadCount THEN None ELSE k]

(* initializeCollection: the benchmarks of put only make the keys.         *)
InitialMap(b) == [k \in 0 .. mapSize - 1 |->
  IF b \in {"putBrackets", "putInsert"} THEN None ELSE k]

(* What is stored under a key after an operation on it, if `old` was       *)
(* before: [] creates the entry it does not find, at throws.               *)
Get(b, old) == IF b = "getBrackets" /\ old = None THEN 0 ELSE old

(* Mutant: insert overwrites.                                              *)
Put_overwrites(b, old, value) == value

(* [] = overwrites, insert does not.                                       *)
Put(b, old, value) == IF b = "putInsert" /\ old # None THEN old ELSE value

Erase(old) == None

BenchInit ==
  /\ Init
  /\ bench \in Benchmarks
  /\ mutex = Free
  /\ map = InitialMap(bench)

-----------------------------------------------------------------------------
(* One operation of a worker: from the lock_guard's constructor, which     *)
(* waits for the mutex, to its destructor.                                 *)
Lock(id) ==
  /\ worker[id] = "run" /\ count[id] < Ops
  /\ mutex = Free
  /\ mutex' = id
  /\ UNCHANGED <<vars, bench, map>>

(* Mutant: the mutex is not released.                                      *)
Access_keeps(id) ==
  /\ mutex = id
  /\ Operate(id)
  /\ UNCHANGED <<bench, mutex, map>>

Access(id) ==
  /\ mutex = id
  /\ map' = [map EXCEPT ![key[id]] =
       CASE bench = "erase"
              -> Erase(@)
         [] bench \in {"getBrackets", "getAt"}
              -> Get(bench, @)
         [] bench \in {"putBrackets", "putInsert"} /\ id = 0
              -> Put(bench, @, count[id])
         [] OTHER
              -> @]
  /\ mutex' = Free
  /\ Operate(id)
  /\ UNCHANGED bench

BenchMain == Main /\ UNCHANGED <<bench, mutex, map>>

BenchWorker(id) ==
  \/ Lock(id) \/ Access(id)
  \/ (Arrive(id) \/ Go(id) \/ ReadKey(id) \/ Finish(id)) /\ UNCHANGED <<bench, mutex, map>>

BenchNext ==
  \/ BenchMain
  \/ \E id \in Ids : BenchWorker(id)
  \/ Returned /\ UNCHANGED <<bench, mutex, map>>

BenchSpec == BenchInit /\ [][BenchNext]_benchVars

(* Every thread runs.  The mutex need not be fair: each worker asks for it *)
(* a bounded number of times.                                              *)
BenchFairSpec ==
  BenchSpec /\ WF_benchVars(BenchMain) /\ \A id \in Ids : WF_benchVars(BenchWorker(id))

-----------------------------------------------------------------------------
(* get measures accesses to entries: whichever key the workers race to     *)
(* read, it is stored, so [] never creates an entry and at never throws.   *)
GetHits == \A id \in Ids :
  (mutex = id /\ bench \in {"getBrackets", "getAt"}) => map[key[id]] # None

(* When erase has been measured, the keys of the workers are gone and no   *)
(* others, whatever the order in which the mutex let them in.              *)
ErasesTheirKeys == (main = "max" /\ bench = "erase") =>
  \A k \in 0 .. mapSize - 1 : map[k] = None <=> \E id \in Ids : key[id] = k

(* erase measures deletions: each operation finds an entry to delete.      *)
EraseDeletes == \A id \in Ids :
  (mutex = id /\ bench = "erase") => map[key[id]] # None

(* When put has been measured, its key holds the last value of [] and the  *)
(* first of insert; the readers have created no entry.                     *)
PutStores == (main = "max" /\ bench \in Benchmarks \ {"getBrackets", "getAt", "erase"}) =>
  map = [InitialMap(bench) EXCEPT ![0] = IF bench = "putBrackets" THEN Ops - 1 ELSE 0]
=============================================================================
