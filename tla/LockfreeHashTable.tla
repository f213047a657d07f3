-------------------------- MODULE LockfreeHashTable --------------------------
(***************************************************************************)
(* Lockfree_hash_table (modules/src/lockfree_hash_table.cpp): a cuckoo     *)
(* hash table of two arrays shared by threads that search, insert and      *)
(* remove without locks.  Every read of a table word, every compare-and-   *)
(* swap on one and every access through a node pointer is a step of its    *)
(* own; threads interleave between steps (sequential consistency).         *)
(*                                                                         *)
(* A key has one slot in each array, its homes.  To make room, a thread    *)
(* relocates an entry to its other home: it marks the word, copies the     *)
(* node pointer to the other home and clears the marked word; a thread     *)
(* that meets a mark in find or relocate helps to finish or cancel that    *)
(* relocation.  A relocation bumps the counters of the words it writes.    *)
(*                                                                         *)
(* Memory is abstracted: node addresses are handed out in order and never  *)
(* handed out again, and a deleted node keeps its content; `freed` tells   *)
(* which nodes have been deleted.  hp_rec is left out: no code reads it    *)
(* except scan, over hp_rec.size() entries, and the constructor only       *)
(* reserves capacity, so that size is 0 for the life of the table.         *)
(***************************************************************************)
EXTENDS Naturals, Sequences, FiniteSets, CountPtr

CONSTANTS
  Threads,        \* the threads, each with a tid of its own
  Keys, Vals,
  Size1, Size2,   \* capacities of the two arrays
  hash1, hash2,   \* the hash functions, as functions from keys to indices
  THRESHOLD,      \* longest relocation path (50 in the code)
  R,              \* retired nodes a thread may keep before it scans (25)
  Preload,        \* the entries put in before the threads start
  Calls,          \* the calls each thread may make
  Budget,         \* bound: how many calls each thread makes
  MaxNodes        \* bound: how many nodes are ever allocated

Slots == ({0} \X (0 .. Size1 - 1)) \cup ({1} \X (0 .. Size2 - 1))
Nodes == 1 .. MaxNodes

(* The slot of key k in array w.                                           *)
Home(w, k) == <<w, IF w = 0 THEN hash1[k] ELSE hash2[k]>>

Call == [op : {"search", "insert", "remove"}, key : Keys, val : Vals]

ASSUME SizeAssumption ==
  /\ Size1 \in Nat \ {0} /\ Size2 \in Nat \ {0}
  /\ hash1 \in [Keys -> 0 .. Size1 - 1]
  /\ hash2 \in [Keys -> 0 .. Size2 - 1]
  /\ THRESHOLD \in Nat \ {0} /\ R \in Nat /\ MaxNodes \in Nat

ASSUME WorkloadAssumption ==
  /\ Keys # {} /\ Vals # {}
  /\ Calls \in [Threads -> SUBSET Call]
  /\ Budget \in [Threads -> Nat]

(* Entries are preloaded in one of their homes, one to a slot and one to a *)
(* key, as inserts and removes by a single thread leave them.              *)
ASSUME PreloadAssumption ==
  /\ Preload \in Seq([slot : Slots, key : Keys, val : Vals])
  /\ Len(Preload) <= MaxNodes
  /\ \A i \in 1 .. Len(Preload) :
        Preload[i].slot = Home(Preload[i].slot[1], Preload[i].key)
  /\ \A i, j \in 1 .. Len(Preload) :
        i # j => /\ Preload[i].slot # Preload[j].slot
                 /\ Preload[i].key  # Preload[j].key

VARIABLES
  table,    \* the word in each slot
  heap,     \* the key and value in each node
  nalloc,   \* nodes 1 .. nalloc have been allocated
  rlist,    \* the nodes each thread has retired and not yet deleted
  freed,    \* nodes deleted
  pc,       \* what each thread does next
  call,     \* its current (or last) call
  left,     \* how many calls it may still make
  out,      \* what its last call returned
  new,      \* insert's new_node
  side,     \* which of its key's two slots it is looking at
  ptr,      \* ptr1 and ptr2 (e1 and e2) of search, find, insert and remove
  ts,       \* ts1 and ts2 of search and find
  result,   \* find's result
  rel,      \* relocate's frame
  hlp       \* help_relocate's frame

shared == <<table, heap, nalloc>>
gc     == <<rlist, freed>>
client == <<call, left, out, new>>
probe  == <<side, ptr, ts, result>>
vars   == <<shared, gc, client, probe, pc, rel, hlp>>

-----------------------------------------------------------------------------
(* Frames, jumps and returns.                                              *)

Goto(t, l) == pc' = [pc EXCEPT ![t] = l]

(* The process dies on a null dereference.                                 *)
Crash(t) == Goto(t, "crashed")
Crashed  == \E t \in Threads : pc[t] = "crashed"

NoWords == [w \in {0, 1} |-> EmptyWord]
NoTimes == [w \in {0, 1} |-> 0]
NoRel   == [route |-> <<>>, slot |-> <<0, 0>>, ptr1 |-> EmptyWord, i |-> 0]
NoHelp  == [slot |-> <<0, 0>>, init |-> FALSE, ret |-> "idle",
            ptr1 |-> EmptyWord, src |-> NULL, ptr2 |-> EmptyWord]
NoCall(k, v) == [op |-> "search", key |-> k, val |-> v]
Outcome(kind, v) == [kind |-> kind, val |-> v]

MyHome(t, w) == Home(w, call[t].key)

(* search and find (re)start at line 386 or 148; the words of an earlier   *)
(* round are dead.                                                         *)
Probe(t, l) ==
  /\ Goto(t, l)
  /\ side' = [side EXCEPT ![t] = 0]
  /\ ptr'  = [ptr EXCEPT ![t] = NoWords]
  /\ ts'   = [ts EXCEPT ![t] = NoTimes]

(* A call of find by insert or remove: result is set once, before the loop.*)
StartFind(t) == Probe(t, "find.read") /\ result' = [result EXCEPT ![t] = "unset"]
RetryFind(t) == Probe(t, "find.read") /\ UNCHANGED result

(* find returns to its caller, which is insert or remove.                  *)
LeaveFind(t, res) ==
  /\ result' = [result EXCEPT ![t] = res]
  /\ Goto(t, call[t].op)

Return(t, o) ==
  /\ Probe(t, "idle")
  /\ result' = [result EXCEPT ![t] = "unset"]
  /\ out' = [out EXCEPT ![t] = o]
  /\ new' = [new EXCEPT ![t] = NULL]
  /\ UNCHANGED <<call, left>>

EnterHelp(t, s, initiator, back) ==
  /\ hlp' = [hlp EXCEPT ![t] = [NoHelp EXCEPT !.slot = s, !.init = initiator,
                                               !.ret = back]]
  /\ Goto(t, "help.read")

LeaveHelp(t) ==
  /\ Goto(t, hlp[t].ret)
  /\ hlp' = [hlp EXCEPT ![t] = NoHelp]

(* Mutant: a store without the compare.                                    *)
CAS_store(s, old, new_word) == table' = [table EXCEPT ![s] = new_word]

(* __sync_bool_compare_and_swap on a table word.                           *)
CAS(s, old, new_word) ==
  table' = IF table[s] = old THEN [table EXCEPT ![s] = new_word] ELSE table

-----------------------------------------------------------------------------
Init ==
  /\ table = [s \in Slots |->
                IF \E i \in 1 .. Len(Preload) : Preload[i].slot = s
                THEN make_pointer(CHOOSE i \in 1 .. Len(Preload) :
                                     Preload[i].slot = s, 0)
                ELSE EmptyWord]
  /\ heap = [n \in Nodes |->
                IF n <= Len(Preload)
                THEN [key |-> Preload[n].key, val |-> Preload[n].val]
                ELSE [key |-> CHOOSE k \in Keys : TRUE, val |-> CHOOSE v \in Vals : TRUE]]
  /\ nalloc = Len(Preload)
  /\ rlist = [t \in Threads |-> <<>>]
  /\ freed = {}
  /\ pc = [t \in Threads |-> "idle"]
  /\ call = [t \in Threads |-> NoCall(CHOOSE k \in Keys : TRUE, CHOOSE v \in Vals : TRUE)]
  /\ left = Budget
  /\ out = [t \in Threads |-> Outcome("none", CHOOSE v \in Vals : TRUE)]
  /\ new = [t \in Threads |-> NULL]
  /\ side = [t \in Threads |-> 0]
  /\ ptr = [t \in Threads |-> NoWords]
  /\ ts = [t \in Threads |-> NoTimes]
  /\ result = [t \in Threads |-> "unset"]
  /\ rel = [t \in Threads |-> NoRel]
  /\ hlp = [t \in Threads |-> NoHelp]

(* A thread makes its next call; insert allocates its node at once.        *)
Begin(t, c, l) ==
  /\ pc[t] = "idle" /\ left[t] > 0
  /\ c \in Calls[t]
  /\ call' = [call EXCEPT ![t] = c]
  /\ left' = [left EXCEPT ![t] = @ - 1]
  /\ out'  = [out EXCEPT ![t] = Outcome("none", c.val)]
  /\ Goto(t, l)
  /\ UNCHANGED <<table, gc, probe, rel, hlp>>

CallSearch(t, c) ==
  /\ c.op = "search" /\ Begin(t, c, "search.read")
  /\ UNCHANGED <<heap, nalloc, new>>

CallInsert(t, c) ==
  /\ c.op = "insert" /\ Begin(t, c, "find.read")
  /\ nalloc < MaxNodes
  /\ nalloc' = nalloc + 1
  /\ heap' = [heap EXCEPT ![nalloc + 1] = [key |-> c.key, val |-> c.val]]
  /\ new' = [new EXCEPT ![t] = nalloc + 1]

CallRemove(t, c) ==
  /\ c.op = "remove" /\ Begin(t, c, "find.read")
  /\ UNCHANGED <<heap, nalloc, new>>

-----------------------------------------------------------------------------
(* search: one probe of each home, each validated by a second read; then   *)
(* the counters decide whether the two probes can be trusted.              *)

(* Read home w: the second one once the first has not matched.             *)
SearchRead(t, w) ==
  /\ IF w = 0 THEN pc[t] = "search.read" ELSE pc[t] = "search.next" /\ side[t] = 0
  /\ side' = [side EXCEPT ![t] = w]
  /\ ptr'  = [ptr EXCEPT ![t][w] = table[MyHome(t, w)]]
  /\ ts'   = [ts EXCEPT ![t][w] = get_counter(table[MyHome(t, w)])]
  /\ Goto(t, "search.check")
  /\ UNCHANGED <<shared, gc, client, result, rel, hlp>>

SearchRetry(t) ==
  /\ pc[t] = "search.check"
  /\ ptr[t][side[t]] # table[MyHome(t, side[t])]
  /\ Probe(t, "search.read")
  /\ UNCHANGED <<shared, gc, client, result, rel, hlp>>

SearchCheck(t) ==
  /\ pc[t] = "search.check"
  /\ ptr[t][side[t]] = table[MyHome(t, side[t])]
  /\ Goto(t, IF get_pointer(ptr[t][side[t]]) = NULL THEN "search.next" ELSE "search.key")
  /\ UNCHANGED <<shared, gc, client, probe, rel, hlp>>

SearchKey(t) ==
  /\ pc[t] = "search.key"
  /\ LET e == heap[get_pointer(ptr[t][side[t]])] IN
     IF e.key = call[t].key
     THEN Return(t, Outcome("found", e.val))
     ELSE Goto(t, "search.next") /\ UNCHANGED <<client, probe>>
  /\ UNCHANGED <<shared, gc, rel, hlp>>

(* Mutant: the second home is not probed.                                  *)
SearchReread_early(t) ==
  /\ pc[t] = "search.next"
  /\ ptr' = [ptr EXCEPT ![t][0] = table[MyHome(t, 0)]]
  /\ Goto(t, "search.recount")
  /\ UNCHANGED <<shared, gc, client, side, ts, result, rel, hlp>>

(* Neither home matched: read ts1x, then ts2x.                             *)
SearchReread(t) ==
  /\ pc[t] = "search.next" /\ side[t] = 1
  /\ ptr' = [ptr EXCEPT ![t][0] = table[MyHome(t, 0)]]
  /\ Goto(t, "search.recount")
  /\ UNCHANGED <<shared, gc, client, side, ts, result, rel, hlp>>

SearchRecount(t) ==
  /\ pc[t] = "search.recount"
  /\ IF check_counter(ts[t][0], ts[t][1], get_counter(ptr[t][0]),
                      get_counter(table[MyHome(t, 1)]))
     THEN Probe(t, "search.read") /\ UNCHANGED <<client, result>>
     ELSE Return(t, Outcome("missing", call[t].val))
  /\ UNCHANGED <<shared, gc, rel, hlp>>

-----------------------------------------------------------------------------
(* find: like search, but it compares addresses only, helps the            *)
(* relocations it meets and removes a duplicate.  `result` keeps FIRST     *)
(* across a retry.  On NIL ptr1 and ptr2 are the words of the last reads.  *)

FindRead(t, w) ==
  /\ IF w = 0 THEN pc[t] = "find.read" ELSE pc[t] = "find.next" /\ side[t] = 0
  /\ side' = [side EXCEPT ![t] = w]
  /\ ptr'  = [ptr EXCEPT ![t][w] = table[MyHome(t, w)]]
  /\ ts'   = [ts EXCEPT ![t][w] = get_counter(table[MyHome(t, w)])]
  /\ Goto(t, "find.check")
  /\ UNCHANGED <<shared, gc, client, result, rel, hlp>>

FindRetry(t) ==
  /\ pc[t] = "find.check"
  /\ get_pointer(ptr[t][side[t]]) # get_pointer(table[MyHome(t, side[t])])
  /\ RetryFind(t)
  /\ UNCHANGED <<shared, gc, client, rel, hlp>>

FindHelp(t) ==
  /\ pc[t] = "find.check"
  /\ get_pointer(ptr[t][side[t]]) = get_pointer(table[MyHome(t, side[t])])
  /\ get_pointer(ptr[t][side[t]]) # NULL /\ get_marked(ptr[t][side[t]])
  /\ EnterHelp(t, MyHome(t, side[t]), FALSE, "find.read")
  /\ side' = [side EXCEPT ![t] = 0]
  /\ ptr'  = [ptr EXCEPT ![t] = NoWords]
  /\ ts'   = [ts EXCEPT ![t] = NoTimes]
  /\ UNCHANGED <<shared, gc, client, result, rel>>

(* Mutant: a marked word is taken like any other.                          *)
FindCheck_marked(t) ==
  /\ pc[t] = "find.check"
  /\ get_pointer(ptr[t][side[t]]) = get_pointer(table[MyHome(t, side[t])])
  /\ Goto(t, IF get_pointer(ptr[t][side[t]]) = NULL THEN "find.next" ELSE "find.key")
  /\ UNCHANGED <<shared, gc, client, probe, rel, hlp>>

(* The home is empty or its word unmarked: go on.                          *)
FindCheck(t) ==
  /\ pc[t] = "find.check"
  /\ get_pointer(ptr[t][side[t]]) = get_pointer(table[MyHome(t, side[t])])
  /\ IF get_pointer(ptr[t][side[t]]) = NULL
     THEN Goto(t, "find.next")
     ELSE ~get_marked(ptr[t][side[t]]) /\ Goto(t, "find.key")
  /\ UNCHANGED <<shared, gc, client, probe, rel, hlp>>

(* Mutant: the second home is not compared.                                *)
FindKey_first(t) ==
  /\ pc[t] = "find.key"
  /\ Goto(t, "find.next")
  /\ result' = IF side[t] = 0 /\ heap[get_pointer(ptr[t][0])].key = call[t].key
               THEN [result EXCEPT ![t] = "FIRST"] ELSE result
  /\ UNCHANGED <<shared, gc, client, side, ptr, ts, rel, hlp>>

(* Mutant: any entry in the second home counts as a match.                 *)
FindKey_any(t) ==
  /\ pc[t] = "find.key"
  /\ IF side[t] = 1
     THEN LeaveFind(t, IF result[t] = "FIRST" THEN "FIRST" ELSE "SECOND")
     ELSE /\ Goto(t, "find.next")
          /\ result' = IF heap[get_pointer(ptr[t][0])].key = call[t].key
                       THEN [result EXCEPT ![t] = "FIRST"] ELSE result
  /\ UNCHANGED <<shared, gc, client, side, ptr, ts, rel, hlp>>

FindKey(t) ==
  /\ pc[t] = "find.key"
  /\ IF heap[get_pointer(ptr[t][side[t]])].key # call[t].key
     THEN Goto(t, "find.next") /\ UNCHANGED result
     ELSE IF side[t] = 0
     THEN Goto(t, "find.next") /\ result' = [result EXCEPT ![t] = "FIRST"]
     ELSE IF result[t] = "FIRST"
     THEN Goto(t, "del_dup") /\ UNCHANGED result
     ELSE LeaveFind(t, "SECOND")
  /\ UNCHANGED <<shared, gc, client, side, ptr, ts, rel, hlp>>

(* After the second home: return FIRST, or read both words again.          *)
FindReread(t) ==
  /\ pc[t] = "find.next" /\ side[t] = 1
  /\ IF result[t] = "FIRST"
     THEN Goto(t, call[t].op) /\ UNCHANGED ptr
     ELSE Goto(t, "find.recount") /\ ptr' = [ptr EXCEPT ![t][0] = table[MyHome(t, 0)]]
  /\ UNCHANGED <<shared, gc, client, side, ts, result, rel, hlp>>

FindRecount(t) ==
  /\ pc[t] = "find.recount"
  /\ LET w == table[MyHome(t, 1)] IN
     IF check_counter(ts[t][0], ts[t][1], get_counter(ptr[t][0]), get_counter(w))
     THEN RetryFind(t)
     ELSE /\ ptr' = [ptr EXCEPT ![t][1] = w]
          /\ LeaveFind(t, "NIL")
          /\ UNCHANGED <<side, ts>>
  /\ UNCHANGED <<shared, gc, client, rel, hlp>>

(* del_dup gives up only if both words changed.                            *)
DelDupCheck(t) ==
  /\ pc[t] = "del_dup"
  /\ Goto(t, IF ptr[t][0] # table[MyHome(t, 0)] THEN "del_dup.second" ELSE "del_dup.cas")
  /\ UNCHANGED <<shared, gc, client, probe, rel, hlp>>

DelDupCheckSecond(t) ==
  /\ pc[t] = "del_dup.second"
  /\ Goto(t, IF ptr[t][1] # table[MyHome(t, 1)] THEN call[t].op ELSE "del_dup.cas")
  /\ UNCHANGED <<shared, gc, client, probe, rel, hlp>>

DelDup(t) ==
  /\ pc[t] = "del_dup.cas"
  /\ LET n1 == get_pointer(ptr[t][0])
         n2 == get_pointer(ptr[t][1]) IN
     IF n1 = NULL
     THEN Crash(t) /\ UNCHANGED table
     ELSE /\ IF heap[n1].key = heap[n2].key
             THEN CAS(MyHome(t, 1), ptr[t][1], make_pointer(NULL, get_counter(ptr[t][1])))
             ELSE UNCHANGED table
          /\ Goto(t, call[t].op)
  /\ UNCHANGED <<heap, nalloc, gc, client, probe, rel, hlp>>

-----------------------------------------------------------------------------
(* insert, after find.                                                     *)

(* Mutant: returns without writing the value.                              *)
InsertUpdate_lost(t) ==
  /\ pc[t] = "insert" /\ result[t] \in {"FIRST", "SECOND"}
  /\ Return(t, Outcome("stored", call[t].val))
  /\ UNCHANGED <<shared, gc, rel, hlp>>

(* The key is there: write the value into its node; new_node is dropped.   *)
InsertUpdate(t) ==
  /\ pc[t] = "insert" /\ result[t] \in {"FIRST", "SECOND"}
  /\ LET n == get_pointer(ptr[t][IF result[t] = "FIRST" THEN 0 ELSE 1]) IN
     IF n = NULL
     THEN Crash(t) /\ UNCHANGED <<heap, client, probe>>
     ELSE /\ heap' = [heap EXCEPT ![n].val = call[t].val]
          /\ Return(t, Outcome("stored", call[t].val))
  /\ UNCHANGED <<table, nalloc, gc, rel, hlp>>

(* Mutant: the indices h1 and h2 swapped.                                  *)
InsertPlace_swapped(t, w) ==
  /\ pc[t] = "insert" /\ result[t] = "NIL"
  /\ get_pointer(ptr[t][w]) = NULL
  /\ w = 1 => get_pointer(ptr[t][0]) # NULL
  /\ LET s == <<w, MyHome(t, 1 - w)[2]>> IN
     /\ CAS(s, ptr[t][w], make_pointer(new[t], get_counter(ptr[t][w])))
     /\ IF table[s] = ptr[t][w]
        THEN Return(t, Outcome("stored", call[t].val))
        ELSE StartFind(t) /\ UNCHANGED client
  /\ UNCHANGED <<heap, nalloc, gc, rel, hlp>>

(* Place new_node in home w, the first one that was empty.                 *)
InsertPlace(t, w) ==
  /\ pc[t] = "insert" /\ result[t] = "NIL"
  /\ get_pointer(ptr[t][w]) = NULL
  /\ w = 1 => get_pointer(ptr[t][0]) # NULL
  /\ LET s == MyHome(t, w) IN
     /\ CAS(s, ptr[t][w], make_pointer(new[t], get_counter(ptr[t][w])))
     /\ IF table[s] = ptr[t][w]
        THEN Return(t, Outcome("stored", call[t].val))
        ELSE StartFind(t) /\ UNCHANGED client
  /\ UNCHANGED <<heap, nalloc, gc, rel, hlp>>

StartRelocate(t) ==
  /\ rel' = [rel EXCEPT ![t] = [NoRel EXCEPT !.slot = MyHome(t, 0)]]
  /\ Goto(t, "path.read")

InsertRelocate(t) ==
  /\ pc[t] = "insert" /\ result[t] = "NIL"
  /\ get_pointer(ptr[t][0]) # NULL /\ get_pointer(ptr[t][1]) # NULL
  /\ StartRelocate(t)
  /\ UNCHANGED <<shared, gc, client, probe, hlp>>

-----------------------------------------------------------------------------
(* remove, after find.                                                     *)

RemoveAbsent(t) ==
  /\ pc[t] = "remove" /\ result[t] = "NIL"
  /\ Return(t, Outcome("absent", call[t].val))
  /\ UNCHANGED <<shared, gc, rel, hlp>>

RemoveRecheck(t) ==
  /\ pc[t] = "remove" /\ result[t] = "SECOND"
  /\ IF table[MyHome(t, 0)] # ptr[t][0]
     THEN StartFind(t)
     ELSE Goto(t, "remove.second") /\ UNCHANGED probe
  /\ UNCHANGED <<shared, gc, client, rel, hlp>>

(* Mutant: the result of the CAS is not looked at.                         *)
RemoveUnlink_unchecked(t, w) ==
  /\ IF w = 0 THEN pc[t] = "remove" /\ result[t] = "FIRST"
              ELSE pc[t] = "remove.second"
  /\ CAS(MyHome(t, w), ptr[t][w], make_pointer(NULL, get_counter(ptr[t][w])))
  /\ Goto(t, "retire")
  /\ UNCHANGED <<heap, nalloc, gc, client, probe, rel, hlp>>

(* Unlink the entry found in home w.                                       *)
RemoveUnlink(t, w) ==
  /\ IF w = 0 THEN pc[t] = "remove" /\ result[t] = "FIRST"
              ELSE pc[t] = "remove.second"
  /\ LET s == MyHome(t, w) IN
     /\ CAS(s, ptr[t][w], make_pointer(NULL, get_counter(ptr[t][w])))
     /\ IF table[s] = ptr[t][w]
        THEN Goto(t, "retire") /\ UNCHANGED probe
        ELSE StartFind(t)
  /\ UNCHANGED <<heap, nalloc, gc, client, rel, hlp>>

(* Mutant: the node of the other home is retired.                          *)
RemovedNode_other(t) == get_pointer(ptr[t][IF result[t] = "FIRST" THEN 1 ELSE 0])

RemovedNode(t) == get_pointer(ptr[t][IF result[t] = "FIRST" THEN 0 ELSE 1])

(* retire_node and, beyond R nodes, scan.  The list of hazard pointers that*)
(* scan collects (plist) is empty, since hp_rec.size() = 0: it deletes all *)
(* the nodes this thread has retired.  Deleting a null pointer is void.    *)
Retire(t) ==
  /\ pc[t] = "retire"
  /\ LET retired == Append(rlist[t], RemovedNode(t)) IN
     IF Len(retired) > R
     THEN /\ rlist' = [rlist EXCEPT ![t] = <<>>]
          /\ freed' = freed \cup ({retired[i] : i \in 1 .. Len(retired)} \ {NULL})
     ELSE /\ rlist' = [rlist EXCEPT ![t] = retired]
          /\ UNCHANGED freed
  /\ Return(t, Outcome("erased", call[t].val))
  /\ UNCHANGED <<shared, rel, hlp>>

-----------------------------------------------------------------------------
(* relocate: follow entries from home to home until an empty slot ends the *)
(* path, then move them, last one first.  rel.route holds the slots of     *)
(* route[0 .. depth-1]; rel.i - 1 is the loop index of the second half.    *)

PathRead(t) ==
  /\ pc[t] = "path.read"
  /\ LET w == table[rel[t].slot] IN
     IF get_marked(w)
     THEN EnterHelp(t, rel[t].slot, FALSE, "path.read") /\ UNCHANGED rel
     ELSE /\ rel' = [rel EXCEPT ![t].ptr1 = w]
          /\ Goto(t, "path.check")
          /\ UNCHANGED hlp
  /\ UNCHANGED <<shared, gc, client, probe>>

(* An empty slot ends the discovery: start to move from the last entry.    *)
PathCheck(t) ==
  /\ pc[t] = "path.check"
  /\ LET e1 == get_pointer(rel[t].ptr1) IN
     IF e1 # get_pointer(table[rel[t].slot])
     THEN StartRelocate(t)
     ELSE IF e1 = NULL
     THEN /\ rel' = [rel EXCEPT ![t].i = Len(rel[t].route)]
          /\ Goto(t, "move.read")
     ELSE Goto(t, "path.key") /\ UNCHANGED rel
  /\ UNCHANGED <<shared, gc, client, probe, hlp>>

(* Mutant: one entry too many in the route.                                *)
PathKey_overrun(t) ==
  /\ pc[t] = "path.key"
  /\ Len(rel[t].route) + 1 <= THRESHOLD
  /\ LET k == heap[get_pointer(rel[t].ptr1)].key IN
     rel' = [rel EXCEPT ![t].route = Append(@, rel[t].slot),
                        ![t].slot  = Home(1 - rel[t].slot[1], k)]
  /\ Goto(t, "path.read")
  /\ UNCHANGED <<shared, gc, client, probe, hlp>>

PathKey(t) ==
  /\ pc[t] = "path.key"
  /\ Len(rel[t].route) + 1 < THRESHOLD
  /\ LET k == heap[get_pointer(rel[t].ptr1)].key IN
     rel' = [rel EXCEPT ![t].route = Append(@, rel[t].slot),
                        ![t].slot  = Home(1 - rel[t].slot[1], k)]
  /\ Goto(t, "path.read")
  /\ UNCHANGED <<shared, gc, client, probe, hlp>>

(* relocate returns false and rehash does nothing: insert gives up.        *)
InsertDrop(t) ==
  /\ pc[t] = "path.key"
  /\ Len(rel[t].route) + 1 >= THRESHOLD
  /\ rel' = [rel EXCEPT ![t] = NoRel]
  /\ Return(t, Outcome("dropped", call[t].val))
  /\ UNCHANGED <<shared, gc, hlp>>

(* relocate returns true and insert looks for its key again.               *)
MoveDone(t) ==
  /\ pc[t] = "move.read" /\ rel[t].i = 0
  /\ rel' = [rel EXCEPT ![t] = NoRel]
  /\ StartFind(t)
  /\ UNCHANGED <<shared, gc, client, hlp>>

MoveRead(t) ==
  /\ pc[t] = "move.read" /\ rel[t].i > 0
  /\ LET s == rel[t].route[rel[t].i] IN
     IF get_marked(table[s])
     THEN EnterHelp(t, s, FALSE, "move.reread") /\ UNCHANGED rel
     ELSE /\ rel' = [rel EXCEPT ![t].ptr1 = table[s]]
          /\ Goto(t, "move.dest")
          /\ UNCHANGED hlp
  /\ UNCHANGED <<shared, gc, client, probe>>

MoveReread(t) ==
  /\ pc[t] = "move.reread"
  /\ rel' = [rel EXCEPT ![t].ptr1 = table[rel[t].route[rel[t].i]]]
  /\ Goto(t, "move.dest")
  /\ UNCHANGED <<shared, gc, client, probe, hlp>>

MoveDest(t) ==
  /\ pc[t] = "move.dest"
  /\ LET i    == rel[t].i
         s    == rel[t].route[i]
         e1   == get_pointer(rel[t].ptr1)
         dest == Home(1 - s[1], heap[e1].key) IN
     IF e1 = NULL
     THEN /\ rel' = [rel EXCEPT ![t].i = i - 1]
          /\ Goto(t, "move.read")
          /\ UNCHANGED hlp
     ELSE IF get_pointer(table[dest]) # NULL
     THEN /\ rel' = [rel EXCEPT ![t].route = SubSeq(@, 1, i), ![t].slot = dest]
          /\ Goto(t, "path.read")
          /\ UNCHANGED hlp
     ELSE /\ rel' = [rel EXCEPT ![t].i = i - 1]
          /\ EnterHelp(t, s, TRUE, "move.read")
  /\ UNCHANGED <<shared, gc, client, probe>>

-----------------------------------------------------------------------------
(* help_relocate.                                                          *)

HelpRead(t) ==
  /\ pc[t] = "help.read"
  /\ LET w == table[hlp[t].slot] IN
     hlp' = [hlp EXCEPT ![t].ptr1 = w, ![t].src = get_pointer(w)]
  /\ Goto(t, "help.check")
  /\ UNCHANGED <<shared, gc, client, probe, rel>>

(* Mutant: the initiator marks whatever it has read.                       *)
TestMark_null(t, src) ==
  IF get_marked(hlp[t].ptr1)
  THEN Goto(t, "help.dest") /\ hlp' = [hlp EXCEPT ![t].src = src]
  ELSE IF hlp[t].init
  THEN Goto(t, "help.mark") /\ hlp' = [hlp EXCEPT ![t].src = src]
  ELSE LeaveHelp(t)

(* The tests of lines 309-325, with ptr1 and src as they now stand.        *)
TestMark(t, src) ==
  IF get_marked(hlp[t].ptr1)
  THEN Goto(t, "help.dest") /\ hlp' = [hlp EXCEPT ![t].src = src]
  ELSE IF hlp[t].init /\ src # NULL
  THEN Goto(t, "help.mark") /\ hlp' = [hlp EXCEPT ![t].src = src]
  ELSE LeaveHelp(t)

HelpRetry(t) == Goto(t, "help.read") /\ UNCHANGED hlp

HelpCheck(t) ==
  /\ pc[t] = "help.check"
  /\ IF hlp[t].ptr1 # table[hlp[t].slot] THEN HelpRetry(t) ELSE TestMark(t, hlp[t].src)
  /\ UNCHANGED <<shared, gc, client, probe, rel>>

HelpMark(t) ==
  /\ pc[t] = "help.mark"
  /\ CAS(hlp[t].slot, hlp[t].ptr1, set_marked(hlp[t].ptr1))
  /\ Goto(t, "help.remark")
  /\ UNCHANGED <<heap, nalloc, gc, client, probe, rel, hlp>>

HelpRemark(t) ==
  /\ pc[t] = "help.remark"
  /\ hlp' = [hlp EXCEPT ![t].ptr1 = table[hlp[t].slot]]
  /\ Goto(t, "help.recheck")
  /\ UNCHANGED <<shared, gc, client, probe, rel>>

(* If the word changed again the inner loop goes on with the old src.      *)
HelpRecheck(t) ==
  /\ pc[t] = "help.recheck"
  /\ TestMark(t, IF hlp[t].ptr1 = table[hlp[t].slot]
                 THEN get_pointer(hlp[t].ptr1) ELSE hlp[t].src)
  /\ UNCHANGED <<shared, gc, client, probe, rel>>

HelpDestSlot(t) == Home(1 - hlp[t].slot[1], heap[hlp[t].src].key)

HelpDest(t) ==
  /\ pc[t] = "help.dest"
  /\ IF hlp[t].src = NULL
     THEN Crash(t) /\ UNCHANGED hlp
     ELSE /\ hlp' = [hlp EXCEPT ![t].ptr2 = table[HelpDestSlot(t)]]
          /\ Goto(t, "help.checkdest")
  /\ UNCHANGED <<shared, gc, client, probe, rel>>

HelpCheckDest(t) ==
  /\ pc[t] = "help.checkdest"
  /\ LET dst == get_pointer(hlp[t].ptr2) IN
     IF hlp[t].ptr2 # table[HelpDestSlot(t)]
     THEN HelpRetry(t)
     ELSE /\ Goto(t, CASE dst = NULL         -> "help.stable"
                       [] dst = hlp[t].src   -> "help.clear"
                       [] OTHER              -> "help.unmark")
          /\ UNCHANGED hlp
  /\ UNCHANGED <<shared, gc, client, probe, rel>>

HelpStable(t) ==
  /\ pc[t] = "help.stable"
  /\ IF hlp[t].ptr1 # table[hlp[t].slot]
     THEN HelpRetry(t)
     ELSE Goto(t, "help.copy") /\ UNCHANGED hlp
  /\ UNCHANGED <<shared, gc, client, probe, rel>>

(* Mutant: the source is cleared even if the copy was not made.            *)
HelpCopy_unchecked(t) ==
  /\ pc[t] = "help.copy"
  /\ LET ts1  == get_counter(hlp[t].ptr1)
         ts2  == get_counter(hlp[t].ptr2)
         nCnt == IF ts1 > ts2 THEN ts1 + 1 ELSE ts2 + 1 IN
     CAS(HelpDestSlot(t), hlp[t].ptr2, make_pointer(hlp[t].src, nCnt))
  /\ Goto(t, "help.clear")
  /\ UNCHANGED <<heap, nalloc, gc, client, probe, rel, hlp>>

(* Mutant: the copy keeps the counter of the word it replaces.             *)
HelpCopy_same_count(t) ==
  /\ pc[t] = "help.copy"
  /\ CAS(HelpDestSlot(t), hlp[t].ptr2, make_pointer(hlp[t].src, get_counter(hlp[t].ptr2)))
  /\ Goto(t, IF table[HelpDestSlot(t)] = hlp[t].ptr2 THEN "help.clear" ELSE "help.unmark")
  /\ UNCHANGED <<heap, nalloc, gc, client, probe, rel, hlp>>

HelpCopy(t) ==
  /\ pc[t] = "help.copy"
  /\ LET ts1  == get_counter(hlp[t].ptr1)
         ts2  == get_counter(hlp[t].ptr2)
         nCnt == IF ts1 > ts2 THEN ts1 + 1 ELSE ts2 + 1 IN
     CAS(HelpDestSlot(t), hlp[t].ptr2, make_pointer(hlp[t].src, nCnt))
  /\ Goto(t, IF table[HelpDestSlot(t)] = hlp[t].ptr2 THEN "help.clear" ELSE "help.unmark")
  /\ UNCHANGED <<heap, nalloc, gc, client, probe, rel, hlp>>

(* Mutant: the source stays marked.                                        *)
HelpClear_left(t) ==
  /\ pc[t] = "help.clear"
  /\ LeaveHelp(t)
  /\ UNCHANGED <<shared, gc, client, probe, rel>>

(* Mutant: the source is unmarked, not cleared.                            *)
HelpClear_keeps(t) ==
  /\ pc[t] = "help.clear"
  /\ CAS(hlp[t].slot, hlp[t].ptr1,
         make_pointer(hlp[t].src, get_counter(hlp[t].ptr1) + 1))
  /\ LeaveHelp(t)
  /\ UNCHANGED <<heap, nalloc, gc, client, probe, rel>>

(* The copy is in place, this thread's or another's: clear the source.     *)
HelpClear(t) ==
  /\ pc[t] = "help.clear"
  /\ CAS(hlp[t].slot, hlp[t].ptr1, make_pointer(NULL, get_counter(hlp[t].ptr1) + 1))
  /\ LeaveHelp(t)
  /\ UNCHANGED <<heap, nalloc, gc, client, probe, rel>>

(* Mutant: a cancelled relocation clears the source.                       *)
HelpUnmark_clears(t) ==
  /\ pc[t] = "help.unmark"
  /\ CAS(hlp[t].slot, hlp[t].ptr1, make_pointer(NULL, get_counter(hlp[t].ptr1) + 1))
  /\ LeaveHelp(t)
  /\ UNCHANGED <<heap, nalloc, gc, client, probe, rel>>

(* Mutant: cancelling does not advance the counter.                        *)
HelpUnmark_same_count(t) ==
  /\ pc[t] = "help.unmark"
  /\ CAS(hlp[t].slot, hlp[t].ptr1, make_pointer(hlp[t].src, get_counter(hlp[t].ptr1)))
  /\ LeaveHelp(t)
  /\ UNCHANGED <<heap, nalloc, gc, client, probe, rel>>

(* The destination was taken: cancel the relocation.                       *)
HelpUnmark(t) ==
  /\ pc[t] = "help.unmark"
  /\ CAS(hlp[t].slot, hlp[t].ptr1,
         make_pointer(hlp[t].src, get_counter(hlp[t].ptr1) + 1))
  /\ LeaveHelp(t)
  /\ UNCHANGED <<heap, nalloc, gc, client, probe, rel>>

-----------------------------------------------------------------------------
Invoke(t) == \E c \in Calls[t] : CallSearch(t, c) \/ CallInsert(t, c) \/ CallRemove(t, c)

Search(t) ==
  \/ \E w \in {0, 1} : SearchRead(t, w)
  \/ SearchRetry(t) \/ SearchCheck(t) \/ SearchKey(t)
  \/ SearchReread(t) \/ SearchRecount(t)

Find(t) ==
  \/ \E w \in {0, 1} : FindRead(t, w)
  \/ FindRetry(t) \/ FindHelp(t) \/ FindCheck(t) \/ FindKey(t)
  \/ FindReread(t) \/ FindRecount(t)
  \/ DelDupCheck(t) \/ DelDupCheckSecond(t) \/ DelDup(t)

Insert(t) ==
  \/ InsertUpdate(t) \/ InsertRelocate(t) \/ InsertDrop(t)
  \/ \E w \in {0, 1} : InsertPlace(t, w)

Remove(t) ==
  \/ RemoveAbsent(t) \/ RemoveRecheck(t) \/ Retire(t)
  \/ \E w \in {0, 1} : RemoveUnlink(t, w)

Relocate(t) ==
  \/ PathRead(t) \/ PathCheck(t) \/ PathKey(t)
  \/ MoveDone(t) \/ MoveRead(t) \/ MoveReread(t) \/ MoveDest(t)

Help(t) ==
  \/ HelpRead(t) \/ HelpCheck(t) \/ HelpMark(t) \/ HelpRemark(t) \/ HelpRecheck(t)
  \/ HelpDest(t) \/ HelpCheckDest(t) \/ HelpStable(t) \/ HelpCopy(t)
  \/ HelpClear(t) \/ HelpUnmark(t)

(* One step of a call under way.                                           *)
Step(t) ==
  /\ ~Crashed
  /\ Search(t) \/ Find(t) \/ Insert(t) \/ Remove(t) \/ Relocate(t) \/ Help(t)

(* The program may stop when no thread is inside a call, and does when one *)
(* has died.                                                               *)
Quiescent == \A t \in Threads : pc[t] = "idle"
Stopped   == (Quiescent \/ Crashed) /\ UNCHANGED vars

Next ==
  \/ \E t \in Threads : Step(t) \/ (~Crashed /\ Invoke(t))
  \/ Stopped

Spec == Init /\ [][Next]_vars

(* A thread inside a call is scheduled again and again; it need not make   *)
(* another call.                                                           *)
FairSpec == Spec /\ \A t \in Threads : WF_vars(Step(t))

-----------------------------------------------------------------------------
(* Types.                                                                  *)

TableWord == [node : 0 .. MaxNodes, mark : BOOLEAN, cnt : 0 .. CounterMod - 1]

SearchLabels == {"search.read", "search.check", "search.key", "search.next",
                 "search.recount"}
FindLabels == {"find.read", "find.check", "find.key", "find.next", "find.recount",
               "del_dup", "del_dup.second", "del_dup.cas"}
CallerLabels == {"search", "insert", "remove", "remove.second", "retire"}
PathLabels == {"path.read", "path.check", "path.key"}
MoveLabels == {"move.read", "move.reread", "move.dest"}
HelpLabels == {"help.read", "help.check", "help.mark", "help.remark", "help.recheck",
               "help.dest", "help.checkdest", "help.stable", "help.copy", "help.clear",
               "help.unmark"}
Labels == {"idle", "crashed"} \cup SearchLabels \cup FindLabels \cup CallerLabels
            \cup PathLabels \cup MoveLabels \cup HelpLabels

(* Where help_relocate returns to; "idle" in an empty frame.               *)
ReturnLabels == {"idle", "find.read", "path.read", "move.read", "move.reread"}

OutcomeKinds == {"none", "found", "missing", "stored", "dropped", "erased", "absent"}

RelocateFrame == [route : Seq(Slots), slot : Slots, ptr1 : TableWord, i : Nat]
HelpFrame == [slot : Slots, init : BOOLEAN, ret : ReturnLabels, ptr1 : TableWord,
              src : 0 .. MaxNodes, ptr2 : TableWord]

(* Every variable has its type; the index of the move loop stays inside the*)
(* route, whose length stays below THRESHOLD (the array route[THRESHOLD] is*)
(* never overrun).                                                         *)
TypeOK ==
  /\ table \in [Slots -> TableWord]
  /\ heap \in [Nodes -> [key : Keys, val : Vals]]
  /\ nalloc \in 0 .. MaxNodes
  /\ rlist \in [Threads -> Seq(0 .. MaxNodes)]
  /\ freed \in SUBSET Nodes
  /\ pc \in [Threads -> Labels]
  /\ call \in [Threads -> Call]
  /\ left \in [Threads -> Nat]
  /\ out \in [Threads -> [kind : OutcomeKinds, val : Vals]]
  /\ new \in [Threads -> 0 .. MaxNodes]
  /\ side \in [Threads -> {0, 1}]
  /\ ptr \in [Threads -> [{0, 1} -> TableWord]]
  /\ ts \in [Threads -> [{0, 1} -> 0 .. CounterMod - 1]]
  /\ result \in [Threads -> {"unset", "FIRST", "SECOND", "NIL"}]
  /\ rel \in [Threads -> RelocateFrame]
  /\ hlp \in [Threads -> HelpFrame]
  /\ \A t \in Threads : /\ Len(rel[t].route) < THRESHOLD
                        /\ rel[t].i <= Len(rel[t].route)

-----------------------------------------------------------------------------
(* What the table holds.                                                   *)

Holds(s, k) == table[s].node # NULL /\ heap[table[s].node].key = k
Present(k)  == \E w \in {0, 1} : Holds(Home(w, k), k)

Preloaded == {Preload[i].key : i \in 1 .. Len(Preload)}
(* Keys that no thread ever asks to remove.                                *)
KeptKeys  == {k \in Keys : \A t \in Threads : \A c \in Calls[t] :
                             ~(c.op = "remove" /\ c.key = k)}

(* Marking, copying, cancelling and helping, in any interleaving, never put*)
(* an entry where search(key) would not look for it (lines 281, 327).      *)
HomeSlot == \A s \in Slots :
  table[s].node # NULL => s = Home(s[1], heap[table[s].node].key)

(* A slot never goes from one entry straight to another: every CAS that    *)
(* installs a node pointer, or restores one from the stale src of          *)
(* help_relocate (line 360), finds the slot empty or holding that node.    *)
NoOverwrite == [][\A s \in Slots :
  table[s].node # NULL => table'[s].node \in {NULL, table[s].node}]_vars

(* A relocation that has been claimed (the word marked) ends in one of two *)
(* ways, whoever ends it: the entry is cleared or the mark is, and the     *)
(* counter moves on; no insert, remove or del_dup changes a claimed word.  *)
ClaimIsHonoured == [][\A s \in Slots :
  (table[s].node # NULL /\ table[s].mark /\ table'[s] # table[s]) =>
     /\ ~table'[s].mark
     /\ table'[s].cnt = (table[s].cnt + 1) % CounterMod]_vars

(* A relocation in progress leaves its key present at every moment, and    *)
(* del_dup removes only what has a second copy: a key that nobody removes  *)
(* never leaves the table (find/del_dup/help_relocate, lines 140-377).     *)
NothingLost == [][\A k \in KeptKeys : Present(k) => Present(k)']_vars

(* search(key) finds a key that is in the table for the whole call.        *)
SearchFinds == \A t \in Threads :
  (pc[t] = "idle" /\ call[t].key \in Preloaded \cap KeptKeys)
     => out[t].kind # "missing"

(* Every insert returns with its key stored.                               *)
InsertStores == \A t \in Threads : out[t].kind # "dropped"

(* remove(key) unlinks and retires an entry of that key.                   *)
RemovesOwnKey == \A t \in Threads :
  pc[t] = "retire" => /\ RemovedNode(t) # NULL
                      /\ heap[RemovedNode(t)].key = call[t].key

Retired == {n \in Nodes : n \in freed \/ \E t \in Threads :
                             \E i \in DOMAIN rlist[t] : rlist[t][i] = n}

(* An unlinked entry stays unlinked: no retired node is in the table, put  *)
(* back by a helper that was late with its copy, or left by one that has   *)
(* been overtaken.                                                         *)
RetiredStaysOut == \A s \in Slots : table[s].node \notin Retired

(* Two removes never retire the same node, so scan deletes it once.        *)
RetiredOnce == \A t, u \in Threads :
  (pc[t] = "retire" /\ RemovedNode(t) # NULL) =>
     /\ RemovedNode(t) \notin Retired
     /\ (u # t /\ pc[u] = "retire") => RemovedNode(u) # RemovedNode(t)

(* After insert(key, val) has returned, the table answers key with val, if *)
(* no other thread writes that key (lines 437-461).                        *)
Writers(k) == {t \in Threads : \E c \in Calls[t] : c.key = k /\ c.op # "search"}
InsertTakesEffect == \A t \in Threads :
  (pc[t] = "idle" /\ out[t].kind = "stored" /\ Writers(call[t].key) = {t}) =>
     \E w \in {0, 1} :
        /\ Holds(Home(w, call[t].key), call[t].key)
        /\ heap[table[Home(w, call[t].key)].node].val = out[t].val
        /\ w = 1 => ~Holds(Home(0, call[t].key), call[t].key)

(* A key has at most one entry, except that the node being moved is in both*)
(* of its homes.                                                           *)
OneEntryPerKey == \A k \in Keys :
  (Holds(Home(0, k), k) /\ Holds(Home(1, k), k))
     => table[Home(0, k)].node = table[Home(1, k)].node

(* The node a thread is about to read through has not been deleted.        *)
AboutToRead(t) ==
  CASE pc[t] \in {"search.key", "find.key"} -> get_pointer(ptr[t][side[t]])
    [] pc[t] \in {"path.key", "move.dest"}  -> get_pointer(rel[t].ptr1)
    [] pc[t] = "help.dest"                  -> hlp[t].src
    [] OTHER                                -> NULL
NoUseAfterFree == \A t \in Threads : AboutToRead(t) \notin freed

(* No call dereferences a null pointer: not the src of a relocation that   *)
(* another thread has completed (line 327), nor the ptr1 that goes with a  *)
(* FIRST which find kept from an earlier round (lines 372, 440).           *)
NoNullDereference == ~Crashed

(* Every call returns.                                                     *)
CallsReturn == \A t \in Threads : pc[t] # "idle" ~> pc[t] = "idle"

(* Lock-freedom: threads that are all inside calls, and all scheduled,     *)
(* cannot go on like that for ever; some call returns.                     *)
SomeCallReturns == []<>(Crashed \/ \E t \in Threads : pc[t] = "idle")

(* A claimed slot is always freed again.                                   *)
MarksResolve == \A s \in Slots : table[s].mark ~> ~table[s].mark
=============================================================================
