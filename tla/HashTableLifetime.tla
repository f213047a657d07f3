-------------------------- MODULE HashTableLifetime --------------------------
(***************************************************************************)
(* The life of a lock-free table to its end: LockfreeHashTable, then the   *)
(* destructor (lockfree_hash_table.cpp, 52-69; the templated one is the    *)
(* same), which runs when no thread is inside a call and deletes what each *)
(* slot holds, without asking whether another slot holds it too or whether *)
(* scan has deleted it.  It looks neither at rlist nor at what insert left *)
(* unused.                                                                 *)
(***************************************************************************)
EXTENDS HashTableHistory

VARIABLES
  destroyed,  \* has the destructor run
  deletes,    \* how often it has deleted each node
  linked      \* history: the nodes that have stood in the table

lifeVars == <<vars, window, destroyed, deletes, linked>>

SlotsOf(n) == {s \in Slots : get_pointer(table[s]) = n}
Standing   == {n \in Nodes : SlotsOf(n) # {}}

LifetimeInit ==
  /\ HistoryInit
  /\ destroyed = FALSE
  /\ deletes = [n \in Nodes |-> 0]
  /\ linked = Standing

Use ==
  /\ ~destroyed
  /\ HistoryNext
  /\ linked' = linked \cup Standing'
  /\ UNCHANGED <<destroyed, deletes>>

(* Mutant: the second array is not gone through.                           *)
Destroy_first ==
  /\ ~destroyed /\ Quiescent
  /\ destroyed' = TRUE
  /\ deletes' = [n \in Nodes |-> Cardinality({s \in SlotsOf(n) : s[1] = 0})]
  /\ UNCHANGED <<vars, window, linked>>

Destroy ==
  /\ ~destroyed /\ Quiescent
  /\ destroyed' = TRUE
  /\ deletes' = [n \in Nodes |-> Cardinality(SlotsOf(n))]
  /\ UNCHANGED <<vars, window, linked>>

LifetimeNext == Use \/ Destroy \/ (destroyed /\ UNCHANGED lifeVars)

LifetimeSpec == LifetimeInit /\ [][LifetimeNext]_lifeVars

LifetimeFairSpec == LifetimeSpec /\ \A t \in Threads : WF_vars(Step(t))

-----------------------------------------------------------------------------
(* No node is deleted twice: when the last call has returned, no relocation*)
(* has left a node in both of its homes, and no node that scan deleted is  *)
(* back in a slot (lines 52-69 and 88-115).                                *)
DestroyedOnce == destroyed => \A n \in Nodes :
  deletes[n] + (IF n \in freed THEN 1 ELSE 0) <= 1

(* Of the nodes that ever stood in the table the destructor misses only    *)
(* those that wait in a retired list: no relocation drops one on its way.  *)
LinkedDeleted == destroyed => \A n \in linked :
  deletes[n] > 0 \/ n \in Retired

(* All that was allocated has been deleted.                                *)
NothingLeaked == destroyed => \A n \in 1 .. nalloc : deletes[n] > 0 \/ n \in freed

-----------------------------------------------------------------------------
(* The invariants behind the first two.  A node that has stood in the table*)
(* still does, is about to be retired or has been; and no node stands in   *)
(* two slots when the destructor runs.                                     *)
LinkedInv ==
  /\ linked \subseteq Nodes /\ Standing \subseteq linked
  /\ \A n \in linked : \/ n \in Standing \/ n \in Retired
                       \/ \E t \in Threads : pc[t] = "retire" /\ RemovedNode(t) = n

DestroyInv ==
  /\ destroyed \in BOOLEAN
  /\ destroyed => /\ Quiescent
                  /\ \A n \in Nodes : deletes[n] = IF n \in Standing THEN 1 ELSE 0
=============================================================================
