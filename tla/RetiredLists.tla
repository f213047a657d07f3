---------------------------- MODULE RetiredLists -----------------------------
(***************************************************************************)
(* retire_node and scan (lockfree_hash_table.cpp, 75-118; the templated    *)
(* table has the same code), one step per access to rlist and rcount, for  *)
(* workers that may share a row.  A row belongs to a tid, and the          *)
(* benchmarks give all of their threads one tid.                           *)
(*                                                                         *)
(* rcount is a plain int: where the code reads it again the compiler may   *)
(* have kept it in a register.  The hazard pointers that scan compares with*)
(* are none (hp_rec.size() is 0), so that it deletes all it finds.         *)
(***************************************************************************)
EXTENDS Naturals

CONSTANTS
  Workers,
  Rows,      \* the tids
  Entries,   \* the nodes of the table, and null pointers that remove retires
  Wild,      \* what a cell holds that was never written
  R,         \* nodes a row keeps before it is scanned (25 in the code)
  MAX_BUF    \* cells of a row (256)

ASSUME RowAssumption ==
  /\ R \in Nat /\ MAX_BUF \in Nat /\ R < MAX_BUF
  /\ Wild \notin Entries

Cells == 0 .. MAX_BUF - 1

VARIABLES
  tid,      \* the row of each worker
  rlist, rcount,
  step,     \* what each worker does next inside retire_node or scan
  node,     \* the node it retires
  seen,     \* rcount as it has last read it; scan's n
  at,       \* scan's loop index
  deletes,  \* how often each node has been deleted
  retired,  \* history: the nodes that retire_node has been called with
  raced     \* history: have two workers been inside retire_node of one row

listVars == <<tid, rlist, rcount, step, node, seen, at, deletes, retired, raced>>

ListsInit ==
  /\ tid \in [Workers -> Rows]
  /\ rlist = [r \in Rows |-> [c \in Cells |-> Wild]]
  /\ rcount = [r \in Rows |-> 0]
  /\ step = [w \in Workers |-> "out"]
  /\ node = [w \in Workers |-> Wild]
  /\ seen = [w \in Workers |-> 0]
  /\ at = [w \in Workers |-> 0]
  /\ deletes = [n \in Entries \cup {Wild} |-> 0]
  /\ retired = {}
  /\ raced = FALSE

Inside(w) == step[w] # "out"
Goto(w, s) == step' = [step EXCEPT ![w] = s]

-----------------------------------------------------------------------------
(* retire_node.                                                            *)

(* A remove has unlinked n, and is the only one that has.  Null pointers   *)
(* may be retired too, each with an identity of its own.                   *)
Enter(w, n) ==
  /\ step[w] = "out" /\ n \in Entries \ retired
  /\ Goto(w, "index")
  /\ node' = [node EXCEPT ![w] = n]
  /\ retired' = retired \cup {n}
  /\ raced' = (raced \/ \E v \in Workers : Inside(v) /\ tid[v] = tid[w])
  /\ UNCHANGED <<tid, rlist, rcount, seen, at, deletes>>

(* What a read of rcount gives: memory, or the register.                   *)
Count(w) == {rcount[tid[w]], seen[w]}

ReadIndex(w) ==
  /\ step[w] = "index"
  /\ seen' = [seen EXCEPT ![w] = rcount[tid[w]]]
  /\ Goto(w, "store")
  /\ UNCHANGED <<tid, rlist, rcount, node, at, deletes, retired, raced>>

(* Mutant: stored behind the next free cell.                               *)
Store_behind(w) ==
  /\ step[w] = "store" /\ seen[w] \in Cells
  /\ rlist' = [rlist EXCEPT ![tid[w]][seen[w] + 1] = node[w]]
  /\ Goto(w, "count")
  /\ UNCHANGED <<tid, rcount, node, seen, at, deletes, retired, raced>>

Store(w) ==
  /\ step[w] = "store" /\ seen[w] \in Cells
  /\ rlist' = [rlist EXCEPT ![tid[w]][seen[w]] = node[w]]
  /\ Goto(w, "count")
  /\ UNCHANGED <<tid, rcount, node, seen, at, deletes, retired, raced>>

(* rcount[tid]++ reads and writes.                                         *)
CountRead(w) ==
  /\ step[w] = "count"
  /\ \E c \in Count(w) : seen' = [seen EXCEPT ![w] = c]
  /\ Goto(w, "bump")
  /\ UNCHANGED <<tid, rlist, rcount, node, at, deletes, retired, raced>>

(* Mutant: the count runs ahead of the cells.                              *)
CountBump_ahead(w) ==
  /\ step[w] = "bump"
  /\ rcount' = [rcount EXCEPT ![tid[w]] = seen[w] + 2]
  /\ seen' = [seen EXCEPT ![w] = @ + 2]
  /\ Goto(w, "check")
  /\ UNCHANGED <<tid, rlist, node, at, deletes, retired, raced>>

CountBump(w) ==
  /\ step[w] = "bump"
  /\ rcount' = [rcount EXCEPT ![tid[w]] = seen[w] + 1]
  /\ seen' = [seen EXCEPT ![w] = @ + 1]
  /\ Goto(w, "check")
  /\ UNCHANGED <<tid, rlist, node, at, deletes, retired, raced>>

CheckFull(w) ==
  /\ step[w] = "check"
  /\ \E c \in Count(w) :
        /\ seen' = [seen EXCEPT ![w] = c]
        /\ Goto(w, IF c > R THEN "scan" ELSE "out")
  /\ UNCHANGED <<tid, rlist, rcount, node, at, deletes, retired, raced>>

-----------------------------------------------------------------------------
(* scan.                                                                   *)

ScanCount(w) ==
  /\ step[w] = "scan"
  /\ \E c \in Count(w) : seen' = [seen EXCEPT ![w] = c]
  /\ at' = [at EXCEPT ![w] = 0]
  /\ Goto(w, "reset")
  /\ UNCHANGED <<tid, rlist, rcount, node, deletes, retired, raced>>

(* Mutant: the count is left.                                              *)
ScanReset_left(w) ==
  /\ step[w] = "reset"
  /\ Goto(w, "delete")
  /\ UNCHANGED <<tid, rlist, rcount, node, seen, at, deletes, retired, raced>>

ScanReset(w) ==
  /\ step[w] = "reset"
  /\ rcount' = [rcount EXCEPT ![tid[w]] = 0]
  /\ Goto(w, "delete")
  /\ UNCHANGED <<tid, rlist, node, seen, at, deletes, retired, raced>>

ScanDelete(w) ==
  /\ step[w] = "delete" /\ at[w] < seen[w] /\ at[w] \in Cells
  /\ deletes' = [deletes EXCEPT ![rlist[tid[w]][at[w]]] = @ + 1]
  /\ at' = [at EXCEPT ![w] = @ + 1]
  /\ UNCHANGED <<tid, rlist, rcount, step, node, seen, retired, raced>>

ScanEnd(w) ==
  /\ step[w] = "delete" /\ at[w] >= seen[w]
  /\ Goto(w, "out")
  /\ UNCHANGED <<tid, rlist, rcount, node, seen, at, deletes, retired, raced>>

-----------------------------------------------------------------------------
(* The step after which retire_node returns, and those before it.          *)
RetireStep(w) ==
  \/ ReadIndex(w) \/ Store(w) \/ CountRead(w) \/ CountBump(w) \/ CheckFull(w)
  \/ ScanCount(w) \/ ScanReset(w) \/ ScanDelete(w) \/ ScanEnd(w)

ListsNext == \E w \in Workers : RetireStep(w) \/ \E n \in Entries : Enter(w, n)

ListsSpec == ListsInit /\ [][ListsNext]_listVars

-----------------------------------------------------------------------------
(* The cells of a row that still owe a delete: those below its count, the  *)
(* one just filled, and those that a scan has not come to.                 *)
Pending(r) == {c \in Cells :
  \/ c < rcount[r]
  \/ \E w \in Workers : /\ tid[w] = r
                        /\ \/ step[w] \in {"count", "bump"} /\ c = rcount[r]
                           \/ step[w] = "delete" /\ at[w] <= c /\ c < seen[w]}

(* Deletes are of retired nodes, each once, and never of what was in a cell*)
(* that nobody has written.                                                *)
DeletesOwed ==
  /\ deletes[Wild] = 0
  /\ \A n \in Entries : deletes[n] <= IF n \in retired THEN 1 ELSE 0

(* A retired node is deleted, or will be by a scan of its row: it stands in*)
(* a pending cell, or in the hands of the worker about to store it.        *)
NodesAccounted == \A n \in retired :
  \/ deletes[n] > 0
  \/ \E r \in Rows : \E c \in Pending(r) : rlist[r][c] = n
  \/ \E w \in Workers : step[w] \in {"index", "store"} /\ node[w] = n

(* Without the guard both fail for workers that share a row, and only for  *)
(* those: `raced` remembers whether two of them have met in retire_node.   *)
DeletedOnce      == ~raced => DeletesOwed
NothingForgotten == ~raced => NodesAccounted

(* A store never leaves its row, and a scan never reads past it, whatever  *)
(* counts the workers of a row have read of each other (line 77).          *)
RowsInBounds == \A w \in Workers :
  /\ step[w] = "store" => seen[w] \in Cells
  /\ step[w] = "delete" => seen[w] <= MAX_BUF
=============================================================================
