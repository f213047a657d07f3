# TLA+ models of kpsr-map-benchmarks

The repository measures three maps under threads: `std::map`, `std::unordered_map` and a
lock-free cuckoo hash table of its own. This directory holds TLA+ models of that code, TLC
configurations that check them on small instances, and proofs that TLAPS checks for every
instance. Paths and line numbers refer to `src/`; `PROJECT.json` maps each definition to the
lines it stands for.

Contents: [the system](#the-system) · [modules](#modules) · [runs](#runs) ·
[bounds](#bounds) · [fairness](#fairness) · [proofs](#proofs) ·
[what the code does otherwise than it says](#where-code-and-text-disagree) ·
[not modelled](#not-modelled) · [plan](#plan)

## The system

| part | code | state | operations | works with |
|---|---|---|---|---|
| packed table word | `modules/include/lockfree_hash_table.h`, `Count_ptr` helpers in the `.cpp` | a 64-bit word: node address (lowest bit: relocation mark), 16-bit counter | `make_pointer`, `get_*`, `set_marked`, `check_counter` | all of the table |
| lock-free hash table | `modules/src/lockfree_hash_table.cpp` | two arrays of words; nodes (key, value) | `search`, `insert`, `remove`; inside: `find`, `relocate`, `help_relocate`, `del_dup` | read and written by all threads, CAS on single words |
| reclamation | same file, lines 75-118 | `rlist[tid]`, `rcount[tid]`, `hp_rec` | `retire_node`, `scan` | `remove` retires; everybody reads nodes |
| hash functions | same file, lines 120-138 | none | `hash1`, `hash2` | index the two arrays |
| templated table | `modules/include/lockfree_hash_table_templated.h` | as above, plus `vectorOfKeys[tid]` | as above, plus `removeIf` | callback of the user |
| tables of `unsigned` and `std::string` | `modules/include/lockfree_hash_table_uint.h`, `..._string.h` | as above | `createHash` | what the benchmarks measure |
| benchmark fixture | `benchmarks/include/map_parameters/map_parameters.h` | keys, atomic counter, `times` | `SetUp`, two overloads of `measureOperationMultithreaded` | starts and joins the workers |
| multi-thread benchmarks | `benchmarks/src/multi_thread` | a map with a mutex, or a lock-free table | get, put, erase under a `lock_guard`; `search`, `insert`, `remove`, all with tid `threadCount - 1` | run by the fixture's workers |
| single-thread benchmarks, registration, tests, build | `benchmarks/src/single_thread`, `main.cpp`, `tests`, `CMakeLists.txt` | none shared | straight-line | |

How the parts interact. A benchmark's main thread fills a map, starts `threadCount` workers
and lets them go through a counter that each of them and finally the main thread increments.
Each worker then performs `mapSize / threadCount` operations on the key it picks, and reports
its time; the main thread joins them and takes the maximum. On the standard maps each
operation holds one mutex. On the lock-free table all of the workers pass the same tid, and
so share one retired list, and the operations interleave at every access to shared memory: an `insert` that finds both homes of its key taken walks from entry to
entry until it meets an empty slot and then moves the entries one by one. A move is three
CAS (mark the source, copy to the destination, clear the source), and any thread that meets a
mark takes over the move or cancels it.

What is hard about it, and what correctness means for each part:

* **Table.** Between any two reads of a call the words it read may have been changed, moved or
  reused by others. The table should still be a map: a key has one entry, in one of its two
  homes; no CAS overwrites an entry; a move never loses one; a search finds what was there
  throughout; inserts and removes take effect at one moment; calls return.
* **Reclamation.** A node is retired once, does not come back into the table, and is not
  deleted while somebody is about to read it. Each retired node is deleted once, and none is
  forgotten, also when threads share a list; the destructor deletes the others, once.
* **Hash functions.** On a signed int with overflow both results must be indices.
* **Templated table.** The key lists must follow the table, or `removeIf` misses entries; the
  callback's answer may be stale when the entry is removed.
* **Fixture.** Nobody starts before all have arrived; the maximum is taken over finished
  workers; the loop variable, captured by reference, may be read when it is dead.
* **Benchmarks.** Each operation should do what it measures: `get` hit, `erase` delete,
  `put` store; everybody gets the mutex in the end.

`PROJECT.json` lists every hazard with its line, and the properties that would catch it.

## Modules

| module | what it models |
|---|---|
| `CountPtr` | a table word as a record `[node, mark, cnt]`; a counter has `CounterMod` values and is truncated by `make_pointer` |
| `LockfreeHashTable` | the table: one action per access to a table word or through a node pointer |
| `HashTableHistory` | the same with a history variable `window`, and the refinement mapping to `ConcurrentMap` |
| `ConcurrentMap` | the abstract specification: what the table owes its callers |
| `HashTableInvariants` | the inductive invariants of the proofs, and the conditions on an execution that some of them need |
| `LockfreeHashTable_types`, `_slots`, `_writers` | the proofs about the table: types; homes and claims; owners, keys and effects, and the workloads for which they need no condition |
| `HashTableLifetime` | composes the table with the end of its life, the destructor |
| `HashTableLifetime_proofs` | proofs about the destructor, and that the table implements `ConcurrentMap` |
| `MCHashTable`, `MCLifetime` | keys, hash functions, initial tables and workloads for TLC; the same followed to the destructor |
| `RetiredLists`, `RetiredLists_proofs` | `retire_node` and `scan`, one action per access to `rlist` and `rcount`, for workers that may share a row; proofs |
| `HashIndex`, `MCHashIndex`, `HashIndex_proofs` | `createHash` and the two hash functions bit by bit, a sample of keys, a proof |
| `KeyedHashTable`, `MCKeyedTable` | the templated table: composes the table's actions with the key lists and `removeIf` |
| `KeyedHashTable_proofs` | proofs of what the lists and `removeIf` promise |
| `StartBarrier` | both overloads of `measureOperationMultithreaded` |
| `MapBenchmark` | composes `StartBarrier`'s workers with a map and a mutex |
| `LockfreeBenchmark` | all multi-thread benchmarks: `MapBenchmark`'s, and those of the lock-free table, composed with `RetiredLists` |
| `LockfreeBenchmark_proofs` | proofs of all safety properties of these three modules, that each implements the measurement of `StartBarrier`, and that the row the workers share never overflows |

### LockfreeHashTable

`pc[t]` says what thread `t` does next; labels carry the name of the function they are in
(`search.key`, `help.copy`). The locals of a function are kept only while they matter:

| variable | in the code |
|---|---|
| `table[slot]` | `table[0][..]` and `table[1][..]` |
| `heap[n]`, `nalloc` | the `Hash_entry` nodes; `insert` allocates one at entry |
| `rlist`, `freed` | retired nodes of each tid; nodes that `scan` has deleted |
| `side`, `ptr`, `ts` | which home `search`/`find` looks at; `ptr1`/`ptr2` (`e1`/`e2`); `ts1`/`ts2` |
| `result` | `find`'s `result`, which is set before its loop and survives a retry |
| `rel` | `relocate`'s `route`, `index` and table, `ptr1`, `i` |
| `hlp` | `help_relocate`'s arguments, `ptr1`, `src_hash`, `ptr2`, and where it returns to |
| `call`, `left`, `out`, `new` | the client: current call, calls left, last outcome, `new_node` |

| actions | lines of `lockfree_hash_table.cpp` |
|---|---|
| `SearchRead` … `SearchRecount` | `search`, 379-420 |
| `FindRead` … `FindRecount` | `find`, 140-200 |
| `DelDupCheck`, `DelDupCheckSecond`, `DelDup` | `del_dup`, 366-377 |
| `InsertUpdate`, `InsertPlace`, `InsertRelocate`, `InsertDrop` | `insert`, 422-470; `rehash`, 72 |
| `RemoveAbsent`, `RemoveRecheck`, `RemoveUnlink`, `Retire` | `remove`, 472-510; `retire_node` and `scan`, 75-118 |
| `PathRead`, `PathCheck`, `PathKey`, `MoveRead`, `MoveReread`, `MoveDest`, `MoveDone` | `relocate`, 202-297 |
| `HelpRead` … `HelpUnmark` | `help_relocate`, 299-364 |

`find` keeps its result `FIRST` across a retry, `del_dup` gives up only if *both* words have
changed, the inner loop of `help_relocate` keeps an old `src_hash` when its recheck fails, and
insert and remove keep the counter of the word they replace: each of these oddities is in the
model as it is in the code, since the properties turn on them.

Modelling assumptions:

* Threads interleave between accesses (sequential consistency). The code reads table words
  with plain loads; a data race on a value that `insert` overwrites in place is one access.
* Node addresses are never handed out twice and a deleted node keeps its content. `freed` says
  what has been deleted, and `NoUseAfterFree` says who is about to read it. ABA through a reused
  address is thereby excluded; ABA through an unchanged counter is not.
* A null dereference leads to `pc = "crashed"`, after which nothing happens any more. There are
  three places: `InsertUpdate`, `DelDup` and `HelpDest`.
* Each thread has a tid of its own, and `Retire` runs `retire_node` with its `scan` in one step:
  no other thread looks at the row. That the step is right for one row to a thread is
  `OwnRowsReclaim`; threads that share a row are in `LockfreeBenchmark`. The table starts with
  entries put in by one thread.
* `hp_rec` is left out: its vectors are `reserve`d, never resized, so that `hp_rec.size()` is 0
  and `scan` never looks at one. `rlist` is a sequence; the storage behind the reserved but
  empty vector is taken to be there.

### HashTableLifetime

`Destroy` deletes what each slot holds, slot by slot, when no call is under way, and counts the
deletes of each node; `linked` remembers which nodes have ever stood in the table. `DestroyedOnce`
is what the destructor relies on without checking: no move has left its node in both homes,
and nothing that `scan` has deleted stands in a slot. `LinkedDeleted` says that it reaches
every node that stood in the table, except those still in a retired list. Those leak, and so
does the node that `insert` allocates and does not need (`NothingLeaked`, `Leaks.cfg`).

### RetiredLists

`rlist[r][c]`, `rcount[r]` as in the code; a cell that was never written holds `Wild`. `rcount` is
a plain `int` that several threads of one tid read, increment and reset. `rcount[tid]++` is two
steps, `CountRead` and `CountBump`, and wherever the code reads the count again it gets what is in
memory or what it read before (`Count`), since a compiler may keep it in a register. A worker's
place in `retire_node` and `scan` is `step`, the node it retires `node`, the count it has read
`seen` (`scan`'s `n`), the loop index `at`. `scan` compares with no hazard pointer, so `ScanDelete`
deletes what it finds. `raced` records that two workers have been inside `retire_node` of one row.

### ConcurrentMap and the refinement

`ConcurrentMap` is a map with pending calls. An insert or remove changes the map in one step
between its call and its return; a search answers with a value that is in its `window`, what
the map held for its key at some moment of the call. Two liberties of the code are written into
it, so that what remains can be checked: an insert of an absent key may be dropped, and
`Move(k)`, an entry that changes its home, lets calls under way answer that `k` is missing.
`HashTableHistory` (which extends `HashTableInvariants`) maps the table to it: the abstract map is `View(k)`, the value in the first
home if the key stands there, else the one in the second; a remove has taken effect when it is
about to retire the node.

### KeyedHashTable

The table's actions, each with what it adds to the lists (so it extends `HashTableInvariants`). A call that returns owes a change
of a list (`owed`), made by `ChangeList` in a step of its own: `insert` pushes the key to the
caller's list, a dropped insert to the list of tid 0 (line 208 writes `vectorOfKeys[0]`),
`remove` erases the first occurrence of its key. When two threads are changing the same vector,
one of the changes may get lost; that stands for the data race. The history variable `unlisted`
keeps the keys of lost pushes, so that `EntriesListed` can say that nothing else unlists an entry. `removeIf` copies its list and
for each key searches, asks the callback, removes.

### StartBarrier and MapBenchmark

One action per access to the counter, the loop variable or a worker's time. `byReference`,
chosen at the start, selects the overload: with it, `ReadKey` reads the loop variable after its loop has ended, and
gets the value that ended the loop or the index of the joining loop, which may have taken its
place. `MapBenchmark` refines `Operate` into `Lock` and `Access` and adds the map; `bench`
ranges over get (`[]`, `at`), put (`[]`, `insert`) and erase. Where all workers do the same
operation the key is captured by reference, in put it is captured by value and only worker 0
writes.

### LockfreeBenchmark

`MapBenchmark` and three more benchmarks: search and remove of a table that was filled before,
and insert by worker 0 into an empty table while the others search. In none of them does
anything move: there are only searches, only removes, or one inserter of one key (`OneWriter` and
`Removers` check the table itself, and `RemoversAreSafe` proves for such workloads that nothing moves
and that nodes are retired once). So a search and an insert take effect at once here, on a map; their
interleavings inside the table are the subject of `LockfreeHashTable`. A remove takes three steps and more:
`LockfreeBegin`, where the worker knows its key; the CAS, with which it enters `retire_node`; and from there
`RetiredLists` step by step, with one row for all workers. That the CAS is apart from the beginning
matters: `find` keeps `FIRST` when it starts again because another worker has emptied the second home, and
if the first home is empty by then as well, the CAS replaces null by null and the remove
retires a null pointer (`LockfreeUnlinkNull`, from lines 140-200 and 472-490 of the table;
`NullRetired.cfg` shows it in `LockfreeHashTable`). `saw` is a history variable that says when this can be:
the entries of the table when the worker's first remove began, its own and another among them,
both gone when it comes to its CAS. Which keys share a home is left open, so any other entry will do. A null
pointer has an identity here, `Nothing(id)`, to tell who retired it. The fill may have dropped keys
(`Filled`), as `insert` does when it finds no path. The workers of a tid also erase from one `vectorOfKeys` without
synchronisation: that is `ChangeList` in `KeyedHashTable` and not repeated here.

### HashIndex

An int is the set of its one bits; shifts, xor, sums and products modulo 2^32 and the sign of
the remainder are modelled by what they do. `createHash` drops the bits above an int: none of an
`unsigned`'s, the upper half of a `std::hash`, which may be any 64-bit value.

## Runs

Passing runs. Each property also has a mutant of the code in `PROJECT.json` that breaks it.

| run | workload | shows |
|---|---|---|
| `OneWriter` | one thread makes three calls out of insert (with two moves), update and two removes; one searches; then the table may be destroyed | every answer is one that `ConcurrentMap` allows; one entry per key; insert takes effect; remove takes its own key; every call returns, every mark goes; the destructor deletes no node twice and misses none but the retired; the inductive `OrderlyInv` |
| `TwoInserters` | two new keys whose paths share a slot | types, no null dereference, what was inserted is what the table answers, nothing gets lost, still a `ConcurrentMap` |
| `TwoWriters` | an inserter that moves `a` against inserts, updates and removes of the same keys | `HomeSlot`, `NoOverwrite`, `ClaimIsHonoured`; a node removed while it is moved is retired once and not put back by a helper; the inductive `ClaimInv` |
| `Removers` | three threads remove and insert the same keys, nothing moves | each node is retired once; the inductive `OwnerInv` (nothing moves here: its clauses about moves are left to the proof) |
| `HashIndex` | 529 ints of both signs, 96 string hashes, four capacities | both indices lie in their arrays |
| `Lists` | templated table: one thread moves, removes and sweeps; the other stores and removes the same key and has an insert dropped into the first one's list | a key with an entry is on a list, unless its push was lost in a race; a sweep removes all of its own matching entries and nothing the callback refused; the callback reads live nodes; types, and that `removeIf` goes on only when its call has returned |
| `Benchmarks` | get, put and erase under the mutex; search, insert and remove of the lock-free table with one tid; three workers, both overloads | all start together; complete times; get always hits; erase and remove take the measured keys and no others, and a null pointer is retired only by a remove that came late; put leaves the right value; the shared retired list stays within its row, and deletes each node once and forgets none until two workers meet in it; the measurement ends |

The other runs each end in a counterexample; they are described
[below](#where-code-and-text-disagree).

## Bounds

* `THRESHOLD` is 4 or 5 where the code has 50, large enough for a path of two moves and small
  enough that a path that goes round is given up. `DropAlone` uses 50: the shortened path is not
  what drops the insert.
* `R`, how many nodes a thread retires before it scans, is 1 to 9 for the code's 25. With 1
  `scan` runs in `Removers` and `OneWriter`; where deletion is not the question it does not.
* `CounterMod` is 16 (4 in `Livelock`) for the code's 2^16. `BoundedCounters` follows no
  behaviour past a word whose counter exceeds `MaxCnt` (3 or 4): two threads can push entries to
  and fro for ever. It is a constraint of safety runs only, and it keeps counters from wrapping
  at 16. In `Livelock` counters wrap at 4, which makes the cycle finite; TLC
  finds the same livelock with 8 and with 16.
  In `OneWriter`, `Removers` and `Lists` no constraint is needed.
* `Budget` bounds the calls of each thread (1 to 3), `MaxNodes` is large enough for all of the
  inserts of that budget, so it never disables one. `Sweeps` bounds calls of `removeIf`.
* Two or three threads, two to six keys and four or six slots, half of them in each array as the
  constructor splits a capacity. Three homes in use give a chain of two moves; the fourth slot is
  in use where two chains meet and stays free elsewhere; in `Lists` two more are always full, so
  that an insert is dropped; with three threads two removers meet an inserter.
* `threadCount` 3 with `mapSize` 7, not a multiple of it: two operations each, one key to spare.
  The code runs 10 to 50 threads on 8192 keys; the barrier is symmetric in its workers, and
  `BarrierHolds` is proved for any number.
* In `Benchmarks` a row has `MAX_BUF` = 3 cells for the code's 256 and is scanned beyond `R` = 1
  node for its 25. The proportion is the worst that matters: the three workers, who remove the
  keys they measure and so retire at most one pointer each, could fill the row but not more, and the
  second one scans. In the code 30 to 50 threads go beyond 25 nodes and 10 or 20 never scan.
  `Droppable` is the key that the fill may have dropped, `threadCount`: the one that all workers may
  come to measure.
* `FewInside` follows no behaviour of `Benchmarks` in which all three workers are inside `retire_node` at
  once; two are enough for every loss that `SharedTidDeletes` and `SharedTidForgets` show, and
  `SharedRowHolds` is proved for any number. `MeasurementReturns` is checked of the behaviours within
  this bound. No other run has a constraint together with a liveness property.
* `Lists` and `OneWriter` take `R` = 1, so that a second retired node makes `scan` delete the first.
* `HashIndex` takes all 529 ints whose one bits are consecutive (0, powers of two, INT_MAX,
  INT_MIN, -1, …), 64-bit hashes that keep 1, 16 or all bits of their lower half and some of their
  upper, and capacities 2, 3, 64 and 16384, the last being the benchmarks' own.

## Fairness

A thread *inside* a call keeps being scheduled (`WF_vars(Step(t))`); nobody has to make another
call. That is what an operating system gives a runnable thread, and nothing in the table waits
for another thread. `Livelock` has the same fairness, so its counterexample is a run in which
both threads go on for ever. In `StartBarrier` the main thread and the workers are scheduled
(`WF`); a spin is a step that is enabled when the spin ends. The mutex of `MapBenchmark` is not
assumed to be fair: each worker asks for it `Ops` times, so the others cannot shut one out
for ever, and weak fairness of the workers is enough. `LockfreeBenchmark` has the same fairness;
its lock-free workers wait for nobody. `HashTableLifetime` keeps the table's: nobody has to
destroy a table.

## Proofs

| theorem | says | for |
|---|---|---|
| `TypeCorrect` | `Spec => []TypeOK`; `route[THRESHOLD]` is never overrun | any threads, keys, sizes, hash functions, workload |
| `EntriesAtHome` | `Spec => []HomeSlot` | the same, even when counters wrap |
| `SlotsNotOverwritten` | `Spec /\ []NoWrap => NoOverwrite` | as long as no counter reaches its last value |
| `ClaimsHonoured` | `Spec /\ []NoWrap => ClaimIsHonoured` | the same |
| `ClaimsKnown` | `Spec /\ []NoWrap => []ClaimInv`, the invariant of the two before | the same |
| `OwnersKnown` | `Spec /\ []MovesAlone => []OwnerInv`: each node is in a slot, in the hands of one thread, or retired | any threads, keys, sizes, hash functions and workload, while nobody else writes during a move |
| `NodesRetiredOnce` | `[]RetiredOnce` | the same |
| `KeysKnown` | `Spec /\ []Orderly => []KeyInv` | as long as, besides, no two threads write one key at a time |
| `KeysHaveOneEntry`, `KeysRemovedAreOwn`, `NothingNullDereferenced`, `InsertsTakeEffect` | `[]OneEntryPerKey`, `[]RemovesOwnKey`, `[]NoNullDereference`, `[]InsertTakesEffect` | the same |
| `OneWriterIsSafe` | these and `RetiredOnce`, `RetiredStaysOut`, with no condition on the execution | workloads in which one thread inserts and removes (`OneWriter`); any number search |
| `RemoversAreSafe` | `Spec => [](RetiredOnce /\ RetiredStaysOut)` | workloads in which nothing can move (`FirstHomesOwn`); any number remove |
| `NodesDestroyedOnce` | `LifetimeSpec /\ []MovesAlone => []DestroyedOnce` | as `OwnersKnown` |
| `LinkedNodesDeleted` | `LifetimeSpec /\ []Orderly => []LinkedDeleted` | as `KeysKnown` |
| `AnswersWitnessed` | `HistorySpec /\ []Orderly => []OrderlyInv`: what a search is about to answer was true during its call | the same |
| `TableImplementsMap` | `HistorySpec /\ []Orderly => ImplementsMap` | the same |
| `OneWriterImplementsMap` | `HistorySpec => ImplementsMap` | as `OneWriterIsSafe` |
| `KeyedTypeCorrect` | `KeyedSpec => []KeyedTypeOK` | any threads, keys, workload |
| `EntriesAreListed`, `SweepsRemoveMatching` | `KeyedSpec /\ []Orderly => []EntriesListed`, `[]SweepRemovesMatching` | as `KeysKnown` |
| `CallbacksReadLive` | `KeyedSpec /\ []Orderly => []CallbackReadsLive` | the same, if at most one thread calls `removeIf` (`OneSweeper`) |
| `OneKeyedWriterIsSafe` | `KeyedSpec =>` these three and `[]SweptClean`, with no condition on the execution | workloads in which one thread inserts, removes and sweeps (`OneKeyedWriter`); any number search |
| `DeletesAreOwed` | `ListsSpec => []DeletedOnce`: until two workers meet in a row, only retired nodes are deleted, and once | any workers, rows, nodes, `R` < `MAX_BUF` |
| `NoNodeForgotten` | `ListsSpec => []NothingForgotten`: under the same condition every retired node is deleted or still listed | the same |
| `OwnRowsReclaim` | both without the condition, and `RowsInBounds`, if each worker has a row of its own | the same |
| `RowsHold` | `ListsSpec /\ [](Cardinality(retired) <= MAX_BUF) => []RowsInBounds`: a row does not overflow until more nodes have been retired than it has cells, whoever shares it | the same |
| `HashNeverNegative` | the ints that `hash1` and `hash2` reduce are not negative | any width and key |
| `IndicesInRange` | `Spec => []IndexInRange` | any width and key, capacities from 2 on |
| `BarrierHolds` | `Spec => []StartTogether` | any `threadCount` and `mapSize` with `mapSize >= threadCount` |
| `MeasureTyped`, `MaximumIsComplete` | `Spec => []TypeOK`, `[]MaximumOfAll` | the same |
| `BenchImplementsBarrier` | `BenchSpec => Spec`: `MapBenchmark` implements `StartBarrier` | the same |
| `BenchBarrierHolds` | `BenchSpec => []StartTogether` | the same |
| `ErasesJustTheirs`, `PutsStore` | `BenchSpec => []ErasesTheirKeys`, `[]PutStores` | the same |
| `GetsHit` | `BenchSpec => []GetHits` | `mapSize > threadCount`; `EqualSize` is why |
| `SuiteImplementsBarrier` | `SuiteSpec => Spec`: all benchmarks keep to the barrier | any `threadCount` and `mapSize` with `mapSize >= threadCount` |
| `SuiteMeasures`, `SuiteReclaims` | the theorems of `StartBarrier` and `RetiredLists`, of all benchmarks | the same |
| `SharedRowHolds` | `SuiteSpec => []RowsInBounds`: the row that all workers share does not overflow | `threadCount <= MAX_BUF`, `mapSize > threadCount` |
| `RemovesJustTheirs` | `SuiteSpec => []RemovesTheirKeys` | `mapSize > threadCount` |

They rest on the assumptions that the modules state by name (`SizeAssumption`,
`WorkloadAssumption`, `PreloadAssumption`, `CounterModAssumption`, `NoneAssumption`,
`SweepAssumption`, `WidthAssumption`, `KeysAssumption`, `CapacityAssumption`, `SetUpAssumption`,
`RowAssumption`, `OutsideAssumption`, `CompositionAssumption`), and on none other; TLC evaluates each
of them in the runs.

Some theorems have a condition on the execution, in the form `Spec /\ []C => []P`: they say that `P`
holds until `C` fails. The conditions are not facts about the code. For the last two there
are counterexamples that show the code to need them; for the first it is the argument that fails:

| condition | says | without it |
|---|---|---|
| `NoWrap` | no counter is at its last value | `ClaimInv` fails in `TwoWriters` with counters of one bit |
| `MovesAlone` | while a thread is in `help_relocate`, no other is in an insert or remove | `Resurrect`, `DestroyTwice` |
| `Orderly` | `MovesAlone`, and no two threads are in an insert or remove of the same key | `RemoveOther`, `UpdateLost`, `NullDereference` |

Searches are free under all of them; writers of different keys race as they like until one meets a
word to move. For the workloads of `OneWriter`, `FirstHomesOwn` and `OneKeyedWriter`, which are
conditions on constants, the theorems above with these hypotheses need no condition on the
execution: every execution of such a workload satisfies it, and that is part of what is proved. Every
benchmark of the lock-free table is of one of these kinds.

*Types.* `TypeOK` is not inductive: the index that `MoveDest` uses is one that `MoveRead` tested
several steps before, perhaps with a call of `help_relocate` in between. `TypeInv` adds `Control`,
what each program point knows of its frame. One lemma per action, then per function.

*Homes.* `HomeSlot` alone is not inductive, since `help.copy` and `help.unmark` write nodes that
were read long ago. `HomeInv` says that every node in a slot is at home there, *and* every
node a helper holds (`ptr1` and `src`, which may come from different words) is at home in the
slot it works on, *and* insert's own node carries its key. Nodes keep their keys and homes do
not depend on the table, so what was true when the word was read is still true.

*Claims.* The interesting one is `help.unmark`: it writes back `src`, but compares with `ptr1`, and
`src` may be stale. `ClaimInv` says why that is harmless: the counter of the slot is never
behind that of a word a helper holds, a claimed word changes only together with its counter,
and if `src` is not the node of `ptr1` then the slot's counter is already past `ptr1`'s, so the CAS
fails. It also says that `find` hands no claimed word to insert, remove and `del_dup`. From it
each step changes a word in one of the ways of `WordStep` (empty to filled, filled to empty, mark,
end of a claim), which implies both action properties. This needs counters that do not wrap:
`NoWrap` is a hypothesis of the theorem, not a fact about the code, which after 65536 moves
through one slot has no such argument.

*Owners.* `RetiredOnce` is not inductive: what keeps a node from being retired twice is that only
one thread can have it. `OwnerInv` says where each allocated node is: in one slot, or in the two of a
move (`NodeOnce`); in the hands of one thread that has allocated it and not placed it, or unlinked
it and not retired it (`InHand`, `HandsApart`); or retired, and then in no slot. A move is the
difficult part, for a node is in two slots then. Under `MovesAlone` every mark belongs to a thread
in `help_relocate` (`Marks`), and `MoverKnows` says for each label of `help_relocate` what the two
words are at that moment, so that its copy and its last CAS do what they are for. Each step then
leaves a node where it is, or moves it from the hands to a slot, from a slot to the hands, or from
the hands to a retired list.

*Keys.* Under `Orderly` nobody else writes the key that an insert or remove works on, so that
what it has read of that key stays so. `FindKnows` says what `find` knows at each label: which of the
two homes hold the key, and with which word. `CallerKnows` carries that to `insert`, `remove` and
`del_dup`, and `RelocateKnows` through the path and the moves, which may put *other* entries
elsewhere but not this key. Hence an insert that places its key finds it in neither home, a remove
unlinks an entry of its own key, and a word that is dereferenced is not null. One step lemma says
that a step of another thread leaves a key as it is (`KeyStill`), but for a move.

*Entries and effect.* `InsertTakesEffect` is about `EntryOf(k)`, what a search would find. Every
step either stores an entry of a key, or unlinks it, or keeps it: a move keeps it, since the copy
is there before the source is cleared and both hold one node.

*Refinement.* A step of the table maps to a step of `ConcurrentMap` or to a stutter; which one
follows from what the step does to the entry of the caller's key. An insert or remove takes effect at
its CAS. A search has no such step: what it answers must lie in its `window`, and the proof
keeps for each label of `search` a witness that it does (`OrderlyInv`). A value was in the first or second
home when it was read; *missing* was true at one of the two reads, or an entry was moved in between,
which is `Move(k)` and makes `missing` an answer that `ConcurrentMap` allows.

*Lists and sweeps.* Each step of `KeyedHashTable` is a step of the table, the start of a call, or a
change of lists and frames that leaves the table alone; so the table's invariants carry over, with
`removeIf`'s own searches and removes as calls. `ListInv` says that an entry is on a list, or its
thread has yet to push it, or its push was lost; and that a thread that is to unlist a key does so
because no entry of it is left. `SweepKnows` follows one key through `removeIf`: the node it
found, its value and what the callback said of it, provided nobody else stores the key. `LiveInv` adds that
the entry is still there, which nobody but the sweeper could change. `SweptClean` is about the
whole list, and takes a single writer: what its search does not find is not there (`ExactKnows`), and
what was on the list when the sweep began is refused, removed or still to come (`RestInv`).

*Retired lists.* That nodes are deleted once is not inductive: `scan` deletes what is in the cells,
so the cells must be right. The argument is about `Pending(r)`, the cells of a row that still owe a
delete: those below the count, the one just filled, and those a scan has not come to. The
invariant says, as long as nobody has met anybody (`~raced`): a row has one worker at a time
(`Alone`) and the count it read is the count (`Frame`); pending cells hold retired nodes not yet
deleted (`PendingOwed`), all different (`PendingDistinct`), none of them in the hands of a worker
that has yet to store it (`HandsFree`). `Store` moves a node from the hands into a cell, `ScanDelete`
takes one cell out of `Pending` with its delete, and the other steps leave the pending cells as
they are (`SameContents`). Workers with rows of their own never meet, hence `OwnRowsReclaim`: what
the table promises a caller who uses tids as its interface means them.

*Barrier.* `StartTogether` follows from `CounterCounts`: the counter equals the number of workers
that have arrived plus one if the main thread has released them. It passes `threadCount` only
by that last increment, which waits for it to reach `threadCount`. `MapBenchmark` adds variables
and splits an operation into taking the mutex, which stutters, and the access; so its steps are
steps of `StartBarrier` and the invariant carries over. `MeasureInv` follows the loops: joining has
passed only workers that are done (`Joined`), and a worker that is done has counted to `Ops`
(`Progress`).

*Maps.* What the map holds while it is measured is said by `Contents`: in a get benchmark every key;
in erase, exactly the keys that no worker has erased yet; in put, worker 0's count of operations
decides what stands under its key. `OwnerRuns` adds that whoever has the mutex is about to operate,
and `KeyKnown` that the key it measures is at most `threadCount`, the value with which the first loop
ended. That this is a key at all needs more keys than threads, and `SetUp` does not ask for that;
the hypothesis of `GetsHit` is the case its message describes.

*Shared row.* Nothing keeps the count of a row apart from what two racing workers last read
of it, but every count, in memory or in a register, was made by adding one to a count, once for each
node. `CountInv` says so: no count anywhere exceeds the number of retired nodes whose worker is past the
increment (`Counted`). A worker about to store has a node in hand that is not among them, so
the index it has read is smaller than the number of retired nodes (`RowsHold`). In the benchmarks a
worker enters `retire_node` once: with the entry of its key, of which nothing is left afterwards
(`Removed`), or with a null pointer if it has seen that entry and another worker's remove was first
(`SawEntries`, `NullsAreLate`). Either belongs to its first remove (`EntersOnce`), so there are
no more retired pointers than workers (`RetiredByWorkers`): 50 at most, for rows of 256 cells.

*Hash.* The last line of each function is `x ^ (x >> n)`; an arithmetic shift copies the sign, so
the xor clears it. The remainder of a non-negative int is computed bit by bit by a recursive
function. That it stays below the capacity is proved by its least counterexample: the library's
theorem of well-founded induction over Nat gives a smallest bit at which it fails, and doubling and
reducing the value of the bit before contradicts that.

Only model-checked:

* all liveness (`CallsReturn`, `MarksResolve`, `MeasurementReturns`): fairness and `ENABLED` are out
  of the prover's reach;
* `NothingLost`;
* what the runs check of executions that are not orderly: `TwoInserters`, where helpers race in one
  move and the table still implements `ConcurrentMap` and dereferences no null pointer, `TwoWriters`,
  where entries are removed while they are moved, and `Lists`, where two threads write the same key;
* `SweptClean` with several writers;
* the properties of the other five runs, which the code violates.

## Where code and text disagree

Each of these runs checks one property, and TLC finds it violated.

| run | what happens |
|---|---|
| `SearchMiss` | `search(b)` reads b's first home before b is copied there and its second after b is cleared. `check_counter` asks for counters that grew by 2 and 3; one move adds 1. |
| `DropAlone` | a third key with the same two homes is dropped by `insert` without a word, single-threaded, with a slot free elsewhere. |
| `RemoveOther` | `find` returns a `FIRST` from an earlier round; `remove` unlinks whatever stands in the first home now. |
| `UseAfterFree` | `scan` deletes a node that a search is about to read. |
| `Livelock` | two inserters move their entries into the one free slot in turn; no call ever returns. |

The following configurations, which are not among the runs of `PROJECT.json`, end in a
counterexample too; they mark the limits of the passing runs (`NothingLost` holds for inserts of
new keys and fails when one of them is an update of a key being moved, and so on). Each is
checked by `tlc -config <name>.cfg <module>`.

| configuration (module, property) | what happens |
|---|---|
| `DropWithRoom` (`MCHashTable`, `InsertStores`) | an update of the key being moved makes the move undo itself; the inserter goes round until `THRESHOLD`, with a slot free on its path. |
| `UpdateLost` (`MCHashTable`, `InsertTakesEffect`) | an insert that misses its key during a move stores a second entry; searches find the old one. |
| `DelDupLoses` (`MCHashTable`, `NothingLost`) | `del_dup` deletes the second copy though the first is gone, since it gives up only if both words changed. |
| `Resurrect` (`MCHashTable`, `RetiredStaysOut`) | a helper's late copy puts a removed and retired node back: the slot went from empty to filled to empty with the same counter. It takes three calls of the second thread; with the two of `TwoWriters` it does not happen. |
| `DestroyTwice` (`MCLifetime`, `DestroyedOnce`) | two helpers carry out one move; the one whose copy CAS loses (line 344) goes on to line 360 and unmarks the source. The node stays in both homes, a later path goes round between them, and the destructor deletes it twice. |
| `NullRetired` (`MCHashTable`, `RemovesOwnKey`) | removes alone: another thread empties the second home, so that `find` starts again, and then the first; with the `FIRST` it has kept, `remove` replaces null by null and retires a null pointer. |
| `Leaks` (`MCLifetime`, `NothingLeaked`) | an update leaves the node that `insert` has allocated; the retired lists are not emptied at the end. |
| `NullDereference` (`MCHashTable`, `NoNullDereference`) | `find` keeps a `FIRST` from an earlier round, the first home has been emptied meanwhile, and `insert` writes through a null pointer (line 438). |
| `SharedTidDeletes` (`LockfreeBenchmark`, `DeletesOwed`) | two workers with one tid: both read the same count, store to one cell and count twice, and `scan` deletes one node twice or what an unwritten cell holds. |
| `SharedTidForgets` (`LockfreeBenchmark`, `NodesAccounted`) | the same meeting; the node that was stored first is overwritten and never deleted. |
| `EqualSize` (`StartBarrier`, `KeyInRange`) | `SetUp` accepts as many threads as keys though its message asks for more keys; a worker then reads `keys[threadCount]`. |
| `EraseRepeats` (`MapBenchmark`, `EraseDeletes`) | an erase benchmark performs its operation `mapSize / threadCount` times on one key; only the first deletes. |

One more configuration passes and bounds what the proofs assume. `CounterWraps` (`MCHashTable`) runs
`TwoInserters` with counters of one bit and no constraint: every second move through a slot wraps. `HomeSlot`,
`OneEntryPerKey`, `NothingLost`, `NoOverwrite` and `ClaimIsHonoured` still hold there. So do
`NoOverwrite` and `ClaimIsHonoured` with the writers of `TwoWriters` and such counters, but `ClaimInv`,
which the proof of both rests on, does not.

Observed while reading and not modelled, since nothing interleaves: the single-thread erase
benchmarks of the standard maps build a lambda and never measure it
(`benchmarks/src/single_thread/map_uint_erase.cpp:25-42`), and the one named after the unordered
map uses `std::map`.

## Not modelled

* Reuse of addresses by the allocator, weak memory, and the layout of reserved vectors: `rlist`,
  `rcount` and `hp_rec` are indexed though their size is 0, which works as long as the storage is
  there. `delete` of an array that was made by `new[]`.
* In `LockfreeBenchmark`, the race of workers on one `vectorOfKeys`: erasing from one `std::vector`
  in two threads is undefined, and what it leaves behind depends on the library. `KeyedHashTable`
  takes it as a lost change.
* Clocks, the single-thread `measureOperation` and benchmarks, registration, tests and build
  files: straight-line code. Two of the tests' assertions are properties here.
* A sweep that copies its list while another thread's dropped insert pushes to it (list 0): the push is
  taken as coming before the copy or after it. What a `std::vector` that is reallocated meanwhile would
  hand out is not modelled.
* A table of capacity 0 or 1, whose first array is empty: nothing builds one.

## Plan

Done: `CountPtr`, `LockfreeHashTable` with its abstract specification and the end of its life,
`RetiredLists`, `HashIndex` with `createHash`, `KeyedHashTable`, `StartBarrier`, `MapBenchmark`,
`LockfreeBenchmark`; for each safety property of a passing run except `NothingLost` a theorem, some
of them under the conditions above; the refinement of `ConcurrentMap` under `Orderly`.

Next, in this order:

1. Weaken `MovesAlone`: what owners and keys need is that nobody finishes a move twice. A helper
   that takes over a mark of the one inserter, as in `TwoInserters`, should be allowed.
2. `NothingLost`: under `Orderly` a key's entry goes only with a remove of the key. The lemmas about
   entries (`Stands`, `KeyStill`) say so step by step; the property needs them as an invariant.
3. `SweptClean` when nothing moves, for several threads that write different keys.
4. What tables in which nothing moves (`FirstHomesOwn`) still are when removes of one key race.
   They do not implement `ConcurrentMap` as it stands: a remove that retires a null pointer takes effect
   without an entry. With that liberty written into `Remove` they should.
