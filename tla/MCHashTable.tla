----------------------------- MODULE MCHashTable -----------------------------
(***************************************************************************)
(* Small instances of the hash table for TLC: keys, hash functions, an     *)
(* initial table and the calls of each thread.  Node n is Preload[n].      *)
(***************************************************************************)
EXTENDS HashTableHistory, TLC

CONSTANTS t1, t2, t3, a, b, x, y, z, v1, v2, MaxCnt

search(k)    == [op |-> "search", key |-> k, val |-> v1]
insert(k, v) == [op |-> "insert", key |-> k, val |-> v]
remove(k)    == [op |-> "remove", key |-> k, val |-> v1]
Entry(s, k)  == [slot |-> s, key |-> k, val |-> v1]

(* Bound of the runs in which two inserters can push entries to and fro for*)
(* ever: no behaviour is followed past a word whose counter exceeds MaxCnt.*)
BoundedCounters == \A s \in Slots : table[s].cnt <= MaxCnt

(* Four slots, of which three are homes.  x is new; both its homes are     *)
(* taken, and to make room a moves to the second array after b has moved to*)
(* the first.                                                              *)
Chain_hash1   == (a :> 1) @@ (b :> 0) @@ (x :> 1)
Chain_hash2   == (a :> 0) @@ (b :> 0) @@ (x :> 0)
Chain_Preload == <<Entry(<<0, 1>>, a), Entry(<<1, 0>>, b)>>

(* A second new key, y, whose homes are the free slot and b's.             *)
Chain2_hash1  == Chain_hash1 @@ (y :> 0)
Chain2_hash2  == Chain_hash2 @@ (y :> 0)

(* Four slots.  x is new; to make room a moves to the second array.        *)
Down_hash1    == (a :> 1) @@ (b :> 0) @@ (x :> 1)
Down_hash2    == (a :> 0) @@ (b :> 1) @@ (x :> 1)
Down_Preload  == <<Entry(<<0, 1>>, a), Entry(<<1, 1>>, b)>>

(* Four slots, one free.  x and y are new; a and z share the free slot as  *)
(* their second home, and moving one there makes room for x or for y.      *)
Rivals_hash1   == (a :> 1) @@ (z :> 0) @@ (b :> 0) @@ (x :> 1) @@ (y :> 0)
Rivals_hash2   == (a :> 0) @@ (z :> 0) @@ (b :> 1) @@ (x :> 1) @@ (y :> 1)
Rivals_Preload == <<Entry(<<0, 1>>, a), Entry(<<0, 0>>, z), Entry(<<1, 1>>, b)>>

(* Three keys with the same two homes.                                     *)
Same_hash1   == (a :> 0) @@ (b :> 0) @@ (x :> 0)
Same_hash2   == (a :> 0) @@ (b :> 0) @@ (x :> 0)
Same_Preload == <<Entry(<<0, 0>>, a)>>

OneWriter_Calls  == (t1 :> {insert(x, v2), insert(b, v2), remove(a), remove(x)})
                      @@ (t2 :> {search(a), search(b), search(x)})
OneWriter_Budget == (t1 :> 3) @@ (t2 :> 1)

TwoWriters_Calls  == (t1 :> {insert(x, v2), remove(x)})
                       @@ (t2 :> {insert(a, v2), insert(b, v2), insert(x, v2), remove(a)})
TwoWriters_Budget == (t1 :> 1) @@ (t2 :> 2)

TwoInserters_Calls == (t1 :> {insert(x, v2)}) @@ (t2 :> {insert(y, v2)})

Removers_Calls  == (t1 :> {remove(a), remove(b)})
                     @@ (t2 :> {remove(a), insert(a, v2), search(a)})
                     @@ (t3 :> {remove(b)})
Removers_Budget == (t1 :> 2) @@ (t2 :> 2) @@ (t3 :> 1)

Alone_Calls      == (t1 :> {insert(b, v2), insert(x, v2)})
Alone_Budget     == (t1 :> 2)

SearchB_Calls    == (t1 :> {insert(x, v2)}) @@ (t2 :> {search(b)})
UpdateB_Calls    == (t1 :> {insert(x, v2)}) @@ (t2 :> {insert(b, v2)})
UpdateA_Calls    == (t1 :> {insert(x, v2)}) @@ (t2 :> {insert(a, v2)})
RemoveA_Calls    == (t1 :> {insert(x, v2)}) @@ (t2 :> {remove(a)})
CycleA_Calls     == (t1 :> {insert(x, v2)}) @@ (t2 :> {remove(a), insert(a, v2)})
Removes_Calls    == (t1 :> {remove(a)}) @@ (t2 :> {remove(a), remove(b)})
Free_Calls       == (t1 :> {remove(a), remove(b)}) @@ (t2 :> {search(a)})

OneEach   == (t1 :> 1) @@ (t2 :> 1)
OneThree  == (t1 :> 1) @@ (t2 :> 3)
OneTwo    == (t1 :> 1) @@ (t2 :> 2)
TwoOne    == (t1 :> 2) @@ (t2 :> 1)
=============================================================================
