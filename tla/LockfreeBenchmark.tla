-------------------------- MODULE LockfreeBenchmark --------------------------
(***************************************************************************)
(* The multi-thread benchmarks of benchmarks/src/multi_thread, all of them:*)
(* those of the standard maps, and those of the lock-free table, whose     *)
(* workers all pass tid = threadCount - 1 and so share one retired list.   *)
(*                                                                         *)
(* In these benchmarks nothing ever moves: there is one inserter, into an  *)
(* empty table, or there are only searches or only removes.  So a search or*)
(* an insert takes effect at once.  A remove unlinks what its find has     *)
(* found, though that may have become none; what it retires then is left to*)
(* RetiredLists, step by step.  The node of the entry of key k is k.  Which*)
(* keys share a home is left open.                                         *)
(***************************************************************************)
EXTENDS MapBenchmark, RetiredLists

CONSTANT Droppable   \* bound: the inserts that the table may drop as it is filled

ASSUME CompositionAssumption ==
  /\ Droppable \subseteq 0 .. mapSize - 1
  /\ Workers = Ids /\ Rows = {threadCount - 1} /\ Entries = 0 .. mapSize + threadCount - 1

VARIABLE saw   \* the entries of the table when a worker's first remove began

suiteVars == <<benchVars, listVars, saw>>

(* The null pointer, if worker id retires one.                             *)
Nothing(id) == mapSize + id

LockfreeBenchmarks == IF byReference THEN {"search", "remove"}
                                     ELSE {"insert"}

(* initializeCollection inserts every key; an insert that finds no path    *)
(* within THRESHOLD is dropped without a word.                             *)
Filled(dropped) == [k \in 0 .. mapSize - 1 |-> IF k \in dropped THEN None ELSE k]

LockfreeInit ==
  /\ Init
  /\ bench \in LockfreeBenchmarks
  /\ mutex = Free
  /\ \E dropped \in SUBSET Droppable :
        map = Filled(IF bench = "insert" THEN 0 .. mapSize - 1 ELSE dropped)

SuiteInit == (BenchInit \/ LockfreeInit) /\ ListsInit /\ saw = [id \in Ids |-> {}]

-----------------------------------------------------------------------------
(* Every worker searches, but the first of an insert benchmark.            *)
LockfreeSearch(id) ==
  /\ bench = "search" \/ (bench = "insert" /\ id # 0)
  /\ Operate(id)
  /\ UNCHANGED <<bench, mutex, map, listVars, saw>>

LockfreeInsert(id) ==
  /\ bench = "insert" /\ id = 0
  /\ Operate(id)
  /\ map' = [map EXCEPT ![key[id]] = count[id]]
  /\ UNCHANGED <<bench, mutex, listVars, saw>>

(* A worker that knows its key begins to remove it.                        *)
LockfreeBegin(id) ==
  /\ ReadKey(id)
  /\ saw' = IF bench = "remove" THEN [saw EXCEPT ![id] = {k \in 0 .. mapSize - 1 : map[k] # None}]
                                ELSE saw
  /\ UNCHANGED <<bench, mutex, map, listVars>>

(* There is none, or none any more: another worker's CAS came first.       *)
LockfreeAbsent(id) ==
  /\ bench = "remove" /\ ~Inside(id)
  /\ Operate(id)
  /\ map[key[id]] = None
  /\ saw' = [saw EXCEPT ![id] = {}]
  /\ UNCHANGED <<bench, mutex, map, listVars>>

(* The CAS unlinks the entry, which goes into retire_node.                 *)
LockfreeUnlink(id) ==
  /\ bench = "remove" /\ ~Inside(id)
  /\ worker[id] = "run" /\ count[id] < Ops
  /\ map[key[id]] # None
  /\ map' = [map EXCEPT ![key[id]] = None]
  /\ saw' = [saw EXCEPT ![id] = {}]
  /\ Enter(id, map[key[id]])
  /\ UNCHANGED <<vars, bench, mutex>>

(* Mutant: remove does not ask whether find has found its key.             *)
LockfreeUnlinkNull_unchecked(id) ==
  /\ bench = "remove" /\ ~Inside(id)
  /\ worker[id] = "run" /\ count[id] < Ops
  /\ map[key[id]] = None /\ Nothing(id) \notin retired
  /\ saw' = [saw EXCEPT ![id] = {}]
  /\ Enter(id, Nothing(id))
  /\ UNCHANGED benchVars

(* find has seen its entry in the first home, and starts again because the *)
(* second home is emptied while it looks, but keeps FIRST.  If the first   *)
(* home is empty by then too, the CAS puts null for null, and null is      *)
(* retired.                                                                *)
LockfreeUnlinkNull(id) ==
  /\ bench = "remove" /\ ~Inside(id)
  /\ worker[id] = "run" /\ count[id] < Ops
  /\ key[id] \in saw[id] /\ map[key[id]] = None
  /\ \E k \in saw[id] \ {key[id]} : map[k] = None
  /\ saw' = [saw EXCEPT ![id] = {}]
  /\ Enter(id, Nothing(id))
  /\ UNCHANGED benchVars

LockfreeRetire(id) ==
  /\ RetireStep(id)
  /\ IF step'[id] = "out" THEN Operate(id) ELSE UNCHANGED vars
  /\ UNCHANGED <<bench, mutex, map, saw>>

LockfreeWorker(id) ==
  /\ bench \in LockfreeBenchmarks
  /\ \/ LockfreeSearch(id) \/ LockfreeInsert(id)
     \/ LockfreeBegin(id) \/ LockfreeAbsent(id)
     \/ LockfreeUnlink(id) \/ LockfreeUnlinkNull(id) \/ LockfreeRetire(id)
     \/ /\ Arrive(id) \/ Go(id) \/ Finish(id)
        /\ UNCHANGED <<bench, mutex, map, listVars, saw>>

StandardWorker(id) == bench \in Benchmarks /\ BenchWorker(id) /\ UNCHANGED <<listVars, saw>>

SuiteWorker(id) == StandardWorker(id) \/ LockfreeWorker(id)

SuiteMain == BenchMain /\ UNCHANGED <<listVars, saw>>

SuiteNext ==
  \/ SuiteMain
  \/ \E id \in Ids : SuiteWorker(id)
  \/ Returned /\ UNCHANGED suiteVars

SuiteSpec == SuiteInit /\ [][SuiteNext]_suiteVars

(* Every thread runs.  A remove never waits for another.                   *)
SuiteFairSpec ==
  SuiteSpec /\ WF_suiteVars(SuiteMain) /\ \A id \in Ids : WF_suiteVars(SuiteWorker(id))

(* Bound of a run: no more than two workers in retire_node at once.        *)
FewInside == \A u, v, w \in Ids :
  Inside(u) /\ Inside(v) /\ Inside(w) => u = v \/ v = w \/ u = w

-----------------------------------------------------------------------------
(* When remove has been measured, the keys of the workers are gone and no  *)
(* other entry was retired: each by one of the workers that raced for it,  *)
(* while those that came late have retired a null pointer at most.         *)
RemovesTheirKeys == (main = "max" /\ bench = "remove") =>
  /\ \A id \in Ids : key[id] < mapSize => map[key[id]] = None
  /\ \A k \in retired \cap (0 .. mapSize - 1) : \E id \in Ids : key[id] = k /\ node[id] = k
  /\ \A id \in Ids : Nothing(id) \in retired =>
        node[id] = Nothing(id) /\ key[id] \in retired
=============================================================================
