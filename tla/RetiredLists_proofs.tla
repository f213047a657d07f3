------------------------- MODULE RetiredLists_proofs -------------------------
(***************************************************************************)
(* As long as no two workers meet in retire_node of one row, every retired *)
(* node is deleted once and none is forgotten; workers with rows of their  *)
(* own never meet.  For any number of workers, rows and nodes, and any R.  *)
(***************************************************************************)
EXTENDS RetiredLists, FiniteSetTheorems, TLAPS

Steps == {"out", "index", "store", "count", "bump", "check", "scan", "reset", "delete"}

ListTypes ==
  /\ tid \in [Workers -> Rows]
  /\ rlist \in [Rows -> [Cells -> Entries \cup {Wild}]]
  /\ rcount \in [Rows -> Nat]
  /\ step \in [Workers -> Steps]
  /\ node \in [Workers -> Entries \cup {Wild}]
  /\ seen \in [Workers -> Nat]
  /\ at \in [Workers -> Nat]
  /\ deletes \in [Entries \cup {Wild} -> Nat]
  /\ retired \in SUBSET Entries
  /\ raced \in BOOLEAN

(* A row has one worker at a time, and what that worker read of the count  *)
(* is what the count still is.                                             *)
Alone == \A v, w \in Workers : (Inside(v) /\ Inside(w) /\ tid[v] = tid[w]) => v = w

Frame(w) ==
  /\ step[w] \in {"index", "store", "count", "bump"} =>
       rcount[tid[w]] <= R /\ node[w] \in retired
  /\ step[w] \in {"store", "count", "bump", "check", "scan", "reset"} =>
       seen[w] = rcount[tid[w]]
  /\ step[w] \in {"count", "bump"} => rlist[tid[w]][seen[w]] = node[w]
  /\ step[w] \in {"check", "scan", "reset"} => rcount[tid[w]] <= R + 1
  /\ step[w] = "reset" => at[w] = 0
  /\ step[w] = "delete" => rcount[tid[w]] = 0 /\ seen[w] <= R + 1

RowsShort == \A r \in Rows :
  (\A w \in Workers : tid[w] = r => ~Inside(w)) => rcount[r] <= R

(* The pending cells hold different retired nodes that are still to be     *)
(* deleted, and none that a worker has in its hands.                       *)
InHand(w) == step[w] \in {"index", "store"}

PendingOwed == \A r \in Rows : \A c \in Pending(r) :
  rlist[r][c] \in retired /\ deletes[rlist[r][c]] = 0

PendingDistinct == \A r, s \in Rows : \A c \in Pending(r), d \in Pending(s) :
  rlist[r][c] = rlist[s][d] => r = s /\ c = d

HandsFree == \A w \in Workers : InHand(w) =>
  /\ deletes[node[w]] = 0
  /\ \A r \in Rows : \A c \in Pending(r) : rlist[r][c] # node[w]
  /\ \A v \in Workers : InHand(v) /\ node[v] = node[w] => v = w

Tidy ==
  /\ Alone /\ RowsShort
  /\ \A w \in Workers : Frame(w)
  /\ PendingOwed /\ PendingDistinct /\ HandsFree
  /\ DeletesOwed /\ NodesAccounted

IInv == ListTypes /\ (~raced => Tidy)

-----------------------------------------------------------------------------
(* Every step keeps the types.                                             *)
LEMMA TypesHold == ListTypes /\ [ListsNext]_listVars => ListTypes'
<1> SUFFICES ASSUME ListTypes, [ListsNext]_listVars PROVE ListTypes'
  OBVIOUS
<1> USE DEF ListTypes, Steps, Goto
<1>1. ASSUME NEW w \in Workers, NEW n \in Entries, Enter(w, n) PROVE ListTypes'
  BY <1>1 DEF Enter
<1>2. ASSUME NEW w \in Workers, ReadIndex(w) PROVE ListTypes'
  BY <1>2 DEF ReadIndex
<1>3. ASSUME NEW w \in Workers, Store(w) PROVE ListTypes'
  BY <1>3 DEF Store
<1>4. ASSUME NEW w \in Workers, CountRead(w) PROVE ListTypes'
  BY <1>4 DEF CountRead, Count
<1>5. ASSUME NEW w \in Workers, CountBump(w) PROVE ListTypes'
  BY <1>5 DEF CountBump
<1>6. ASSUME NEW w \in Workers, CheckFull(w) PROVE ListTypes'
  BY <1>6 DEF CheckFull, Count
<1>7. ASSUME NEW w \in Workers, ScanCount(w) PROVE ListTypes'
  BY <1>7 DEF ScanCount, Count
<1>8. ASSUME NEW w \in Workers, ScanReset(w) PROVE ListTypes'
  BY <1>8 DEF ScanReset
<1>9. ASSUME NEW w \in Workers, ScanDelete(w) PROVE ListTypes'
  BY <1>9 DEF ScanDelete
<1>10. ASSUME NEW w \in Workers, ScanEnd(w) PROVE ListTypes'
  BY <1>10 DEF ScanEnd
<1>11. CASE UNCHANGED listVars
  BY <1>11 DEF listVars
<1> QED
  BY <1>1, <1>2, <1>3, <1>4, <1>5, <1>6, <1>7, <1>8, <1>9, <1>10, <1>11
     DEF ListsNext, RetireStep

(* What the pending cells of a row are, when the row has one worker at most*)
(* and that is w.                                                          *)
LEMMA PendingOf ==
  ASSUME ListTypes, Alone, NEW w \in Workers, Inside(w)
  PROVE  Pending(tid[w]) = {c \in Cells :
           \/ c < rcount[tid[w]]
           \/ step[w] \in {"count", "bump"} /\ c = rcount[tid[w]]
           \/ step[w] = "delete" /\ at[w] <= c /\ c < seen[w]}
BY DEF ListTypes, Alone, Inside, Pending

(* A step that retires nothing, deletes nothing and leaves every pending   *)
(* cell and the nodes in hand alone keeps what is said of them.            *)
LEMMA SameContents ==
  ASSUME ListTypes, PendingOwed, PendingDistinct, HandsFree, DeletesOwed, NodesAccounted,
         UNCHANGED <<deletes, retired, node>>,
         \A r \in Rows : Pending(r)' = Pending(r),
         \A r \in Rows : \A c \in Pending(r) : rlist'[r][c] = rlist[r][c],
         \A v \in Workers : InHand(v)' = InHand(v)
  PROVE  (PendingOwed /\ PendingDistinct /\ HandsFree /\ DeletesOwed /\ NodesAccounted)'
<1>1. PendingOwed'
  BY DEF PendingOwed
<1>2. PendingDistinct'
  BY DEF PendingDistinct
<1>3. HandsFree'
  BY DEF HandsFree
<1>4. DeletesOwed'
  BY DEF DeletesOwed
<1>5. NodesAccounted'
  BY DEF NodesAccounted, InHand
<1> QED
  BY <1>1, <1>2, <1>3, <1>4, <1>5
-----------------------------------------------------------------------------
(* The steps.  Of a step that leaves the contents alone it remains to show *)
(* that the worker is still alone in its row and what its frame says.      *)

(* A node is retired in a row that has no worker.                          *)
LEMMA EnterTidy ==
  ASSUME ListTypes, Tidy, NEW w \in Workers, NEW n \in Entries, Enter(w, n), ~raced'
  PROVE  Tidy'
<1> USE DEF Tidy, ListTypes
<1>1. \A v \in Workers : Inside(v) => tid[v] # tid[w]
  BY DEF Enter
<1>2. Alone' /\ RowsShort' /\ \A v \in Workers : Frame(v)'
  BY <1>1, RowAssumption DEF Enter, Goto, Alone, Inside, RowsShort, Frame, Steps
<1>3. \A r \in Rows : Pending(r)' = Pending(r)
  BY DEF Enter, Goto, Pending, Steps
<1>4. PendingOwed' /\ PendingDistinct'
  BY <1>3 DEF Enter, PendingOwed, PendingDistinct
<1>5. DeletesOwed'
  BY DEF Enter, DeletesOwed
<1>6. deletes[n] = 0
  BY DEF Enter, DeletesOwed
<1>7. HandsFree'
  <2>1. \A r \in Rows : \A c \in Pending(r) : rlist[r][c] # n
    BY DEF Enter, PendingOwed
  <2>2. \A v \in Workers : InHand(v) => node[v] # n
    BY DEF Enter, InHand, Frame
  <2> QED
    BY <1>3, <1>6, <2>1, <2>2 DEF Enter, Goto, InHand, HandsFree, Steps
<1>8. NodesAccounted'
  BY <1>3 DEF Enter, Goto, NodesAccounted, Steps
<1> QED
  BY <1>2, <1>4, <1>5, <1>7, <1>8

(* The node is stored in the cell behind the counted ones.                 *)
LEMMA StoreTidy ==
  ASSUME ListTypes, Tidy, NEW w \in Workers, Store(w)
  PROVE  Tidy'
<1> USE DEF Tidy, ListTypes
<1>0. PICK row \in Rows : row = tid[w]
  OBVIOUS
<1> DEFINE c0 == rcount[row]
<1>1. seen[w] = c0 /\ c0 \in Cells /\ node[w] \in retired /\ InHand(w)
  BY <1>0 DEF Store, Frame, InHand
<1>2. Alone' /\ RowsShort' /\ \A v \in Workers : Frame(v)'
  BY <1>0, <1>1, RowAssumption DEF Store, Goto, Alone, Inside, RowsShort, Frame, Steps
<1>3. Pending(row) = {c \in Cells : c < c0}
  BY <1>0, PendingOf DEF Store, Inside
<1>4. Pending(row)' = Pending(row) \cup {c0}
  BY <1>0, <1>1, <1>3 DEF Store, Goto, Pending, Alone, Inside, Cells
<1>5. \A r \in Rows : r # row => Pending(r)' = Pending(r)
  BY <1>0 DEF Store, Goto, Pending, Steps
<1>6. rlist'[row][c0] = node[w]
  BY <1>0, <1>1 DEF Store
<1>7. \A r \in Rows : \A c \in Pending(r) : rlist'[r][c] = rlist[r][c]
  BY <1>0, <1>1, <1>3 DEF Store, Pending, Cells
<1>8. deletes[node[w]] = 0
  BY <1>1 DEF HandsFree
<1>9. PendingOwed'
  BY <1>1, <1>4, <1>5, <1>6, <1>7, <1>8 DEF Store, PendingOwed
<1>10. \A r \in Rows : \A c \in Pending(r) : rlist[r][c] # node[w]
  BY <1>1 DEF HandsFree
<1>11. PendingDistinct'
  <2> SUFFICES ASSUME NEW r \in Rows, NEW s \in Rows, NEW c \in Pending(r)', NEW d \in Pending(s)',
                      rlist'[r][c] = rlist'[s][d]
               PROVE  r = s /\ c = d
    BY DEF PendingDistinct
  <2>1. c \in Pending(r) \/ (r = row /\ c = c0)
    BY <1>4, <1>5
  <2>2. d \in Pending(s) \/ (s = row /\ d = c0)
    BY <1>4, <1>5
  <2>3. CASE c \in Pending(r) /\ d \in Pending(s)
    BY <1>7, <2>3 DEF PendingDistinct
  <2>4. CASE c \in Pending(r) /\ s = row /\ d = c0
    BY <1>6, <1>7, <1>10, <2>4
  <2>5. CASE r = row /\ c = c0 /\ d \in Pending(s)
    BY <1>6, <1>7, <1>10, <2>5
  <2> QED
    BY <2>1, <2>2, <2>3, <2>4, <2>5
<1>12. DeletesOwed'
  BY DEF Store, DeletesOwed
<1>13. \A v \in Workers : InHand(v)' <=> InHand(v) /\ v # w
  BY DEF Store, Goto, InHand
<1>14. HandsFree'
  BY <1>1, <1>4, <1>5, <1>6, <1>7, <1>13 DEF Store, HandsFree
<1>15. NodesAccounted'
  <2> SUFFICES ASSUME NEW n \in retired
               PROVE  \/ deletes[n] > 0
                      \/ \E r \in Rows : \E c \in Pending(r)' : rlist'[r][c] = n
                      \/ \E v \in Workers : InHand(v)' /\ node[v] = n
    BY DEF Store, NodesAccounted, InHand
  <2>1. CASE \E r \in Rows : \E c \in Pending(r) : rlist[r][c] = n
    BY <1>4, <1>5, <1>7, <2>1
  <2>2. CASE \E v \in Workers : InHand(v) /\ node[v] = n
    BY <1>4, <1>6, <1>13, <2>2
  <2> QED
    BY <2>1, <2>2 DEF NodesAccounted, InHand
<1> QED
  BY <1>2, <1>9, <1>11, <1>12, <1>14, <1>15

(* A step of retire_node that changes no cell and no delete.               *)
LEMMA QuietTidy ==
  ASSUME ListTypes, Tidy, NEW w \in Workers,
         ReadIndex(w) \/ CountRead(w) \/ CountBump(w) \/ CheckFull(w) \/ ScanCount(w)
           \/ ScanReset(w) \/ ScanEnd(w)
  PROVE  Tidy'
<1> USE DEF Tidy, ListTypes
<1>1. Inside(w)
  BY DEF ReadIndex, CountRead, CountBump, CheckFull, ScanCount, ScanReset, ScanEnd, Inside
<1>2. \A v \in Workers : v # w => Inside(v)' = Inside(v) /\ (Inside(v) => tid[v] # tid[w])
  BY <1>1 DEF ReadIndex, CountRead, CountBump, CheckFull, ScanCount, ScanReset, ScanEnd,
     Inside, Goto, Alone
<1>3. Alone'
  BY <1>1, <1>2 DEF ReadIndex, CountRead, CountBump, CheckFull, ScanCount, ScanReset,
     ScanEnd, Alone
<1>4. \A v \in Workers : v # w => Frame(v)'
  BY <1>2 DEF ReadIndex, CountRead, CountBump, CheckFull, ScanCount, ScanReset, ScanEnd,
     Inside, Goto, Frame, Steps
<1>5. Frame(w)'
  BY RowAssumption DEF ReadIndex, CountRead, CountBump, CheckFull, ScanCount, ScanReset,
     ScanEnd, Goto, Frame, Count, Steps
<1>6. RowsShort'
  BY <1>1, <1>2, RowAssumption DEF ReadIndex, CountRead, CountBump, CheckFull, ScanCount,
     ScanReset, ScanEnd, Inside, Goto, RowsShort, Frame, Count, Steps
<1>7. \A r \in Rows : Pending(r)' = Pending(r)
  <2>0. PICK row \in Rows : row = tid[w]
    OBVIOUS
  <2>1. \A r \in Rows : r # row => Pending(r)' = Pending(r)
    BY <2>0 DEF ReadIndex, CountRead, CountBump, CheckFull, ScanCount, ScanReset, ScanEnd,
       Goto, Pending, Steps
  <2> DEFINE Of(s, k, n, a) == {c \in Cells : \/ c < k
                                              \/ s \in {"count", "bump"} /\ c = k
                                              \/ s = "delete" /\ a <= c /\ c < n}
  <2>2. Pending(row) = Of(step[w], rcount[row], seen[w], at[w])
    BY <1>1, <2>0, PendingOf
  <2>3. Pending(row)' = Of(step'[w], rcount'[row], seen'[w], at'[w])
    <3>1. \A v \in Workers : v # w /\ tid[v] = row => step'[v] = "out"
      BY <1>1, <1>2, <2>0 DEF ReadIndex, CountRead, CountBump, CheckFull, ScanCount, ScanReset,
         ScanEnd, Goto, Inside, Alone, Steps
    <3> QED
      BY <2>0, <3>1 DEF ReadIndex, CountRead, CountBump, CheckFull, ScanCount, ScanReset,
         ScanEnd, Pending
  <2>4. Of(step'[w], rcount'[row], seen'[w], at'[w])
          = Of(step[w], rcount[row], seen[w], at[w])
    <3>1. CASE ReadIndex(w) \/ CountRead(w) \/ CheckFull(w) \/ ScanCount(w)
      BY <3>1 DEF ReadIndex, CountRead, CheckFull, ScanCount, Goto
    <3>2. CASE CountBump(w)
      BY <2>0, <3>2 DEF CountBump, Goto, Frame, Cells
    <3>3. CASE ScanReset(w)
      BY <2>0, <3>3 DEF ScanReset, Goto, Frame, Cells
    <3>4. CASE ScanEnd(w)
      BY <2>0, <3>4 DEF ScanEnd, Goto, Frame, Cells
    <3> QED
      BY <3>1, <3>2, <3>3, <3>4
  <2> QED
    BY <2>1, <2>2, <2>3, <2>4
<1>8. (PendingOwed /\ PendingDistinct /\ HandsFree /\ DeletesOwed /\ NodesAccounted)'
  <2>1. \A v \in Workers : InHand(v)' = InHand(v)
    BY DEF ReadIndex, CountRead, CountBump, CheckFull, ScanCount, ScanReset, ScanEnd,
       Goto, InHand
  <2> QED
    BY <1>7, <2>1, SameContents DEF ReadIndex, CountRead, CountBump, CheckFull, ScanCount,
       ScanReset, ScanEnd
<1> QED
  BY <1>3, <1>4, <1>5, <1>6, <1>8

(* A scan deletes the node of the next cell: that node is retired and has  *)
(* not been deleted, and its cell was the only pending one that held it.   *)
LEMMA ScanDeleteTidy ==
  ASSUME ListTypes, Tidy, NEW w \in Workers, ScanDelete(w)
  PROVE  Tidy'
<1> USE DEF Tidy, ListTypes
<1>0. PICK row \in Rows : row = tid[w]
  OBVIOUS
<1>1. PICK c0 \in Cells : c0 = at[w]
  BY DEF ScanDelete
<1>2. PICK n \in Entries \cup {Wild} : n = rlist[row][c0]
  BY <1>0, <1>1
<1>3. rcount[row] = 0 /\ seen[w] <= R + 1 /\ c0 < seen[w]
  BY <1>0, <1>1 DEF ScanDelete, Frame
<1>4. Alone' /\ RowsShort' /\ \A v \in Workers : Frame(v)'
  BY RowAssumption DEF ScanDelete, Alone, Inside, RowsShort, Frame, Steps
<1>5. Pending(row) = {c \in Cells : c0 <= c /\ c < seen[w]}
  <2>1. Inside(w) /\ step[w] = "delete"
    BY DEF ScanDelete, Inside
  <2>2. Pending(row) = {c \in Cells : \/ c < rcount[row]
                                      \/ step[w] \in {"count", "bump"} /\ c = rcount[row]
                                      \/ step[w] = "delete" /\ at[w] <= c /\ c < seen[w]}
    BY <1>0, <2>1, PendingOf
  <2> QED
    BY <1>1, <1>3, <2>1, <2>2 DEF Cells
<1>6. Pending(row)' = {c \in Cells : c0 + 1 <= c /\ c < seen[w]}
  <2>1. \A v \in Workers : v # w /\ tid[v] = row => step[v] = "out"
    BY <1>0 DEF ScanDelete, Alone, Inside
  <2> QED
    BY <1>0, <1>1, <1>3, <2>1 DEF ScanDelete, Pending, Cells
<1>7. c0 \in Pending(row) /\ Pending(row)' = Pending(row) \ {c0}
  BY <1>3, <1>5, <1>6 DEF Cells
<1>8. \A r \in Rows : r # row => Pending(r)' = Pending(r)
  BY <1>0 DEF ScanDelete, Pending, Steps
<1>9. n \in retired /\ deletes[n] = 0
  BY <1>2, <1>7 DEF PendingOwed
<1>10. n \in Entries /\ n # Wild
  BY <1>9, RowAssumption
<1>11. /\ deletes'[n] = 1
       /\ \A m \in Entries \cup {Wild} : m # n => deletes'[m] = deletes[m]
  BY <1>0, <1>1, <1>2, <1>9 DEF ScanDelete
<1>12. \A r \in Rows : \A c \in Pending(r)' : c \in Pending(r) /\ rlist[r][c] # n
  <2> SUFFICES ASSUME NEW r \in Rows, NEW c \in Pending(r)'
               PROVE  c \in Pending(r) /\ (r = row => c # c0)
    BY <1>2, <1>7 DEF PendingDistinct
  <2> QED
    BY <1>7, <1>8
<1>13. PendingOwed'
  BY <1>11, <1>12 DEF ScanDelete, PendingOwed
<1>14. PendingDistinct'
  BY <1>12 DEF ScanDelete, PendingDistinct
<1>15. \A v \in Workers : InHand(v) => node[v] # n
  BY <1>2, <1>7 DEF HandsFree
<1>16. HandsFree'
  BY <1>11, <1>12, <1>15 DEF ScanDelete, InHand, HandsFree
<1>17. DeletesOwed'
  BY <1>9, <1>10, <1>11 DEF ScanDelete, DeletesOwed
<1>18. NodesAccounted'
  <2> SUFFICES ASSUME NEW m \in retired, m # n
               PROVE  \/ deletes'[m] > 0
                      \/ \E r \in Rows : \E c \in Pending(r)' : rlist[r][c] = m
                      \/ \E v \in Workers : InHand(v) /\ node[v] = m
    BY <1>10, <1>11 DEF ScanDelete, NodesAccounted, InHand
  <2>1. CASE deletes[m] > 0
    BY <1>11, <2>1
  <2>2. CASE \E r \in Rows : \E c \in Pending(r) : rlist[r][c] = m
    BY <1>2, <1>7, <1>8, <2>2
  <2> QED
    BY <2>1, <2>2 DEF NodesAccounted, InHand
<1> QED
  BY <1>4, <1>13, <1>14, <1>16, <1>17, <1>18

-----------------------------------------------------------------------------
LEMMA InitTidy == ListsInit => IInv
<1> SUFFICES ASSUME ListsInit PROVE ListTypes /\ Tidy
  BY DEF IInv
<1> USE DEF ListsInit
<1>1. ListTypes
  BY DEF ListTypes, Steps
<1>2. \A r \in Rows : Pending(r) = {}
  BY DEF Pending, Cells
<1>3. Alone /\ RowsShort /\ \A w \in Workers : Frame(w)
  BY RowAssumption DEF Alone, RowsShort, Frame, Inside
<1>4. PendingOwed /\ PendingDistinct /\ HandsFree /\ DeletesOwed /\ NodesAccounted
  BY <1>2 DEF PendingOwed, PendingDistinct, HandsFree, InHand, DeletesOwed, NodesAccounted
<1> QED
  BY <1>1, <1>3, <1>4 DEF Tidy

LEMMA StutterTidy == ASSUME ListTypes, Tidy, UNCHANGED listVars PROVE Tidy'
BY DEF listVars, Tidy, Alone, RowsShort, Frame, PendingOwed, PendingDistinct, HandsFree, InHand,
   Inside, DeletesOwed, NodesAccounted, Pending

LEMMA StepKeeps == IInv /\ [ListsNext]_listVars => IInv'
<1> SUFFICES ASSUME IInv, [ListsNext]_listVars, ~raced' PROVE Tidy'
  BY TypesHold DEF IInv
<1> USE DEF IInv
<1>1. ASSUME NEW w \in Workers, NEW n \in Entries, Enter(w, n) PROVE Tidy'
  BY <1>1, EnterTidy DEF Enter, ListTypes
<1>2. ASSUME NEW w \in Workers, RetireStep(w) PROVE Tidy'
  <2>1. ~raced
    BY <1>2 DEF RetireStep, ReadIndex, Store, CountRead, CountBump, CheckFull, ScanCount,
       ScanReset, ScanDelete, ScanEnd
  <2> QED
    BY <1>2, <2>1, StoreTidy, QuietTidy, ScanDeleteTidy DEF RetireStep
<1>3. CASE UNCHANGED listVars
  BY <1>3, StutterTidy DEF listVars
<1> QED
  BY <1>1, <1>2, <1>3 DEF ListsNext

LEMMA AlwaysIInv == ListsSpec => []IInv
<1> QED
  BY InitTidy, StepKeeps, PTL DEF ListsSpec

(* Until two workers meet in retire_node of one row, a node is deleted at  *)
(* most once, only when it was retired, and nothing else is: whatever the  *)
(* other rows do, and whichever reads of rcount come from a register.      *)
THEOREM DeletesAreOwed == ListsSpec => []DeletedOnce
<1>1. IInv => DeletedOnce
  BY DEF IInv, Tidy, DeletedOnce
<1> QED
  BY <1>1, AlwaysIInv, PTL

(* Until then every retired node is deleted or stands where a scan of its  *)
(* row will find it.                                                       *)
THEOREM NoNodeForgotten == ListsSpec => []NothingForgotten
<1>1. IInv => NothingForgotten
  BY DEF IInv, Tidy, NothingForgotten
<1> QED
  BY <1>1, AlwaysIInv, PTL

-----------------------------------------------------------------------------
(* What the table asks of its callers.                                     *)
OwnRows == \A v, w \in Workers : tid[v] = tid[w] => v = w

LEMMA OwnRowsStay == OwnRows /\ [ListsNext]_listVars => OwnRows'
BY DEF OwnRows, ListsNext, listVars, Enter, RetireStep, ReadIndex, Store, CountRead, CountBump,
   CheckFull, ScanCount, ScanReset, ScanDelete, ScanEnd

(* Workers with rows of their own: every retired node is deleted once, none*)
(* is forgotten, and no row outgrows its MAX_BUF cells.                    *)
THEOREM OwnRowsReclaim ==
  ListsInit /\ OwnRows /\ [][ListsNext]_listVars =>
    [](DeletesOwed /\ NodesAccounted /\ RowsInBounds)
<1> DEFINE Apart == ListTypes /\ OwnRows /\ ~raced
<1>1. ListsInit /\ OwnRows => Apart
  BY InitTidy DEF ListsInit, IInv
<1>2. Apart /\ [ListsNext]_listVars => Apart'
  <2> SUFFICES ASSUME Apart, [ListsNext]_listVars PROVE raced' = FALSE
    BY TypesHold, OwnRowsStay
  <2>1. ASSUME NEW w \in Workers, NEW n \in Entries, Enter(w, n) PROVE raced' = FALSE
    BY <2>1 DEF Enter, OwnRows, Inside
  <2>2. ASSUME NEW w \in Workers, RetireStep(w) PROVE raced' = FALSE
    BY <2>2 DEF RetireStep, ReadIndex, Store, CountRead, CountBump, CheckFull, ScanCount,
       ScanReset, ScanDelete, ScanEnd
  <2>3. CASE UNCHANGED listVars
    BY <2>3 DEF listVars
  <2> QED
    BY <2>1, <2>2, <2>3 DEF ListsNext
<1>3. IInv /\ ~raced => DeletesOwed /\ NodesAccounted /\ RowsInBounds
  BY RowAssumption DEF IInv, Tidy, Frame, RowsInBounds, Cells, ListTypes
<1>4. IInv /\ Apart => DeletesOwed /\ NodesAccounted /\ RowsInBounds
  BY <1>3
<1> QED
  BY <1>1, <1>2, <1>4, InitTidy, StepKeeps, PTL

-----------------------------------------------------------------------------
(* Workers that do meet: whatever they read of each other's counts, no     *)
(* count exceeds the number of nodes that have been counted.               *)

InRetire(w) == step[w] \in {"index", "store", "count", "bump"}

Counted == {n \in retired : \A w \in Workers : InRetire(w) => node[w] # n}

NodesInHand == \A v, w \in Workers : InRetire(w) =>
  node[w] \in retired /\ (InRetire(v) /\ node[v] = node[w] => v = w)

CountsBounded ==
  /\ \A r \in Rows : rcount[r] <= Cardinality(Counted)
  /\ \A w \in Workers : seen[w] <= Cardinality(Counted)

CountInv == ListTypes /\ IsFiniteSet(retired) /\ NodesInHand /\ CountsBounded

LEMMA CountedFinite ==
  ASSUME IsFiniteSet(retired)
  PROVE  IsFiniteSet(Counted) /\ Cardinality(Counted) \in Nat
BY FS_Subset, FS_CardinalityType DEF Counted

(* It holds at the start.                                                  *)
LEMMA CountInit == ListsInit => CountInv
<1> SUFFICES ASSUME ListsInit PROVE CountInv
  OBVIOUS
<1>1. ListTypes
  BY InitTidy DEF IInv
<1>2. IsFiniteSet(retired) /\ Counted = {}
  BY FS_EmptySet DEF ListsInit, Counted
<1> QED
  BY <1>1, <1>2, FS_EmptySet DEF ListsInit, CountInv, NodesInHand, CountsBounded, InRetire

(* A step that counts nothing and reads only counts there have been.       *)
LEMMA SameCounted ==
  ASSUME CountInv, Counted' = Counted,
         \A r \in Rows : rcount'[r] <= Cardinality(Counted),
         \A w \in Workers : seen'[w] <= Cardinality(Counted)
  PROVE  CountsBounded'
BY DEF CountsBounded

(* No step breaks it.                                                      *)
LEMMA CountStep == CountInv /\ [ListsNext]_listVars => CountInv'
<1> SUFFICES ASSUME CountInv, [ListsNext]_listVars PROVE CountInv'
  OBVIOUS
<1> USE DEF CountInv
<1>1. ListTypes'
  BY TypesHold
<1>2. Cardinality(Counted) \in Nat
  BY CountedFinite
<1>3. ASSUME NEW w \in Workers, NEW n \in Entries, Enter(w, n) PROVE CountInv'
  <2>1. IsFiniteSet(retired')
    BY <1>3, FS_AddElement DEF Enter
  <2>2. NodesInHand'
    BY <1>3 DEF Enter, Goto, NodesInHand, InRetire, ListTypes
  <2>3. Counted' = Counted
    BY <1>3 DEF Enter, Goto, Counted, InRetire, ListTypes
  <2>4. CountsBounded'
    BY <1>3, <2>3, SameCounted DEF Enter, CountsBounded
  <2> QED
    BY <1>1, <2>1, <2>2, <2>4
<1>4. ASSUME NEW w \in Workers, ReadIndex(w) \/ Store(w) \/ CountRead(w) PROVE CountInv'
  <2>1. UNCHANGED <<tid, rcount, node, retired>> /\ \A v \in Workers : InRetire(v)' <=> InRetire(v)
    BY <1>4 DEF ReadIndex, Store, CountRead, Goto, InRetire, ListTypes
  <2>2. NodesInHand' /\ Counted' = Counted
    BY <2>1 DEF NodesInHand, Counted
  <2>3. \A v \in Workers : seen'[v] <= Cardinality(Counted)
    BY <1>4 DEF ReadIndex, Store, CountRead, Count, CountsBounded, ListTypes
  <2>4. CountsBounded'
    BY <2>1, <2>2, <2>3, SameCounted DEF CountsBounded
  <2> QED
    BY <1>1, <2>1, <2>2, <2>4
<1>5. ASSUME NEW w \in Workers, CountBump(w) PROVE CountInv'
  <2>1. /\ InRetire(w) /\ ~InRetire(w)' /\ UNCHANGED <<node, retired>>
        /\ \A v \in Workers \ {w} : InRetire(v)' <=> InRetire(v)
    BY <1>5 DEF CountBump, Goto, InRetire, ListTypes
  <2>2. NodesInHand'
    BY <2>1 DEF NodesInHand
  <2>3. Counted' = Counted \cup {node[w]} /\ node[w] \notin Counted
    BY <2>1 DEF Counted, NodesInHand
  <2>4. Cardinality(Counted') = Cardinality(Counted) + 1
    BY <2>3, CountedFinite, FS_AddElement
  <2>5. /\ \A r \in Rows : rcount'[r] = rcount[r] \/ rcount'[r] = seen[w] + 1
        /\ \A v \in Workers : seen'[v] = seen[v] \/ seen'[v] = seen[w] + 1
    BY <1>5 DEF CountBump, ListTypes
  <2>6. CountsBounded'
    <3>1. ASSUME NEW r \in Rows PROVE rcount'[r] <= Cardinality(Counted')
      BY <1>2, <2>4, <2>5 DEF CountsBounded, ListTypes
    <3>2. ASSUME NEW v \in Workers PROVE seen'[v] <= Cardinality(Counted')
      BY <1>2, <2>4, <2>5 DEF CountsBounded, ListTypes
    <3> QED
      BY <3>1, <3>2 DEF CountsBounded
  <2> QED
    BY <1>1, <2>1, <2>2, <2>6
<1>6. ASSUME NEW w \in Workers,
             CheckFull(w) \/ ScanCount(w) \/ ScanReset(w) \/ ScanDelete(w) \/ ScanEnd(w)
      PROVE  CountInv'
  <2>1. UNCHANGED <<node, retired>> /\ \A v \in Workers : InRetire(v)' <=> InRetire(v)
    BY <1>6 DEF CheckFull, ScanCount, ScanReset, ScanDelete, ScanEnd, Goto, InRetire, ListTypes
  <2>2. NodesInHand' /\ Counted' = Counted
    BY <2>1 DEF NodesInHand, Counted
  <2>3. \A v \in Workers : seen'[v] <= Cardinality(Counted)
    BY <1>6 DEF CheckFull, ScanCount, ScanReset, ScanDelete, ScanEnd, Count, CountsBounded, ListTypes
  <2>4. \A r \in Rows : rcount'[r] <= Cardinality(Counted)
    <3>1. ASSUME NEW r \in Rows PROVE rcount'[r] = rcount[r] \/ rcount'[r] = 0
      BY <1>6 DEF CheckFull, ScanCount, ScanReset, ScanDelete, ScanEnd, ListTypes
    <3> QED
      BY <1>2, <3>1 DEF CountsBounded
  <2>5. CountsBounded'
    BY <2>2, <2>3, <2>4, SameCounted
  <2> QED
    BY <1>1, <2>1, <2>2, <2>5
<1>7. CASE UNCHANGED listVars
  <2>1. NodesInHand' /\ Counted' = Counted
    BY <1>7 DEF listVars, NodesInHand, Counted, InRetire
  <2>2. CountsBounded'
    BY <1>7, <2>1, SameCounted DEF listVars, CountsBounded
  <2> QED
    BY <1>1, <1>7, <2>1, <2>2 DEF listVars
<1> QED
  BY <1>3, <1>4, <1>5, <1>6, <1>7 DEF ListsNext, RetireStep

LEMMA CountsHold == ListsSpec => []CountInv
BY CountInit, CountStep, PTL DEF ListsSpec

(* Where fewer nodes are in cells than a row has, it does not overflow.    *)
LEMMA FewStayInBounds == CountInv /\ Cardinality(retired) <= MAX_BUF => RowsInBounds
<1> SUFFICES ASSUME CountInv, Cardinality(retired) <= MAX_BUF, NEW w \in Workers
             PROVE  /\ step[w] = "store" => seen[w] \in Cells
                    /\ step[w] = "delete" => seen[w] <= MAX_BUF
  BY DEF RowsInBounds
<1>1. Cardinality(Counted) \in Nat /\ Cardinality(retired) \in Nat
  BY CountedFinite, FS_CardinalityType DEF CountInv
<1>2. Counted \subseteq retired
  BY DEF Counted
<1>3. Cardinality(Counted) <= Cardinality(retired)
      /\ (Cardinality(Counted) = Cardinality(retired) => Counted = retired)
  BY <1>2, FS_Subset DEF CountInv
<1>4. seen[w] \in Nat /\ seen[w] <= Cardinality(Counted)
  BY DEF CountInv, CountsBounded, ListTypes
<1>5. step[w] = "store" => Counted # retired
  BY DEF CountInv, Counted, NodesInHand, InRetire
<1> QED
  BY <1>1, <1>3, <1>4, <1>5, RowAssumption DEF Cells

(* No row overflows until more nodes have been retired than it has cells,  *)
(* however the workers that share it interleave (line 77).                 *)
THEOREM RowsHold == ListsSpec /\ [](Cardinality(retired) <= MAX_BUF) => []RowsInBounds
BY CountsHold, FewStayInBounds, PTL
=============================================================================
