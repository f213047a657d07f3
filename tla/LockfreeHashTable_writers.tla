---------------------- MODULE LockfreeHashTable_writers ----------------------
(***************************************************************************)
(* What inserts and removes may rely on.  If nobody else writes while an   *)
(* entry is being moved (MovesAlone), every node is in one place: in a     *)
(* slot, in the hands of one thread or retired, however writers race.  If, *)
(* moreover, no two calls that write the same key overlap (Orderly), then  *)
(* a key has one entry, and find says what is there.                       *)
(***************************************************************************)
EXTENDS LockfreeHashTable_slots

-----------------------------------------------------------------------------
(* Who writes.                                                             *)

(* Whoever is in no search writes.                                         *)
LEMMA WriterLabels ==
  ASSUME NEW t \in Threads, Role(t), pc[t] # "idle", pc[t] \notin SearchLabels
  PROVE  Writing(t)
BY DEF Role, Writing

(* A step of search is no write, and every other step of a call is one.    *)
LEMMA StepsWrite ==
  ASSUME NEW t \in Threads, Role(t)
  PROVE  /\ Search(t) => ~Writing(t) /\ pc[t] \in SearchLabels
         /\ Find(t) \/ Insert(t) \/ Remove(t) \/ Relocate(t) \/ Help(t) => Writing(t)
         /\ Find(t) \/ Insert(t) \/ Remove(t) \/ Relocate(t) => pc[t] \notin HelpLabels
         /\ Help(t) => pc[t] \in HelpLabels
<1> USE DEF SearchLabels, HelpLabels
<1>1. Search(t) => pc[t] \in SearchLabels
  BY DEF Search, SearchRead, SearchRetry, SearchCheck, SearchKey, SearchReread, SearchRecount
<1>2. Find(t) => pc[t] \in {"find.read", "find.check", "find.key", "find.next", "find.recount",
                            "del_dup", "del_dup.second", "del_dup.cas"}
  BY DEF Find, FindRead, FindRetry, FindHelp, FindCheck, FindKey, FindReread, FindRecount,
         DelDupCheck, DelDupCheckSecond, DelDup
<1>3. Insert(t) => pc[t] \in {"insert", "path.key"}
  BY DEF Insert, InsertUpdate, InsertRelocate, InsertDrop, InsertPlace
<1>4. Remove(t) => pc[t] \in {"remove", "remove.second", "retire"}
  BY DEF Remove, RemoveAbsent, RemoveRecheck, RemoveUnlink, Retire
<1>5. Relocate(t) => pc[t] \in {"path.read", "path.check", "path.key", "move.read",
                                "move.reread", "move.dest"}
  BY DEF Relocate, PathRead, PathCheck, PathKey, MoveDone, MoveRead, MoveReread, MoveDest
<1>6. Help(t) => pc[t] \in HelpLabels
  BY DEF Help, HelpRead, HelpCheck, HelpMark, HelpRemark, HelpRecheck, HelpDest,
         HelpCheckDest, HelpStable, HelpCopy, HelpClear, HelpUnmark
<1>7. QED BY <1>1, <1>2, <1>3, <1>4, <1>5, <1>6 DEF Role, Writing

(* While one thread moves an entry no other thread moves one or writes.    *)
LEMMA MoverAlone ==
  ASSUME NEW t \in Threads, pc[t] \in HelpLabels, MovesAlone, \A u \in Threads : Role(u)
  PROVE  \A u \in Threads \ {t} : pc[u] \notin HelpLabels /\ ~Writing(u)
BY WriterLabels DEF MovesAlone, HelpLabels, SearchLabels

(* A thread that writes and moves nothing finds nothing being moved.       *)
LEMMA NothingMoves ==
  ASSUME NEW t \in Threads, Writing(t), pc[t] \notin HelpLabels, MovesAlone,
         \A u \in Threads : Role(u)
  PROVE  \A u \in Threads : pc[u] \notin HelpLabels
BY DEF MovesAlone

(* Then nothing is marked, and a node stands in one slot at most.          *)
LEMMA NothingMarked ==
  ASSUME OwnerInv, \A u \in Threads : pc[u] \notin HelpLabels
  PROVE  /\ \A s \in Slots : ~table[s].mark
         /\ \A r, s \in Slots : (table[r].node # NULL /\ table[r].node = table[s].node) => r = s
<1>1. \A u \in Threads : pc[u] \notin Moving /\ pc[u] # "help.clear"
  BY DEF HelpLabels, Moving, Claiming
<1>2. QED BY <1>1 DEF OwnerInv, Marks, NodeOnce, Copied

(* A step of a call keeps each thread to its part.                         *)
LEMMA RoleStep ==
  ASSUME TypeInv, NEW t \in Threads, Step(t), \A u \in Threads : Role(u)
  PROVE  \A u \in Threads : Role(u)'
<1> USE DEF TypeInv, TypeOK, Goto
<1>0. /\ call[t].op \in {"search", "insert", "remove"} /\ hlp[t].ret \in ReturnLabels
      /\ side[t] \in {0, 1} /\ result[t] \in {"unset", "FIRST", "SECOND", "NIL"}
  BY DEF Call, HelpFrame
<1>1. /\ Elsewhere(t) /\ call' = call
      /\ \A u \in Threads \ {t} : pc'[u] = pc[u] /\ hlp'[u] = hlp[u] /\ result'[u] = result[u]
  BY LocalStep DEF Here, Elsewhere
<1>2. ASSUME NEW u \in Threads \ {t} PROVE Role(u)' BY <1>1 DEF Role
<1>3. Role(t)'
  <2> USE DEF Role, SearchLabels, PathLabels, MoveLabels, HelpLabels
  <2>1. CASE Search(t)
    <3>1. /\ pc[t] \in SearchLabels /\ pc'[t] \in SearchLabels \cup {"idle"}
          /\ result'[t] \in {result[t], "unset"}
      BY <2>1 DEF Search, SearchRead, SearchRetry, SearchCheck, SearchKey, SearchReread,
                  SearchRecount, Probe, Return, probe
    <3>2. QED BY <3>1, <1>1
  <2>2. CASE Find(t)
    <3>1. call[t].op # "search" /\ call[t].op \in {"insert", "remove"}
      BY <2>2, <1>0, StepsWrite DEF Writing
    <3>2. CASE FindHelp(t)
      <4>1. pc'[t] = "help.read" /\ hlp'[t].ret = "find.read"
        BY <3>2 DEF FindHelp, EnterHelp, NoHelp
      <4>2. QED BY <4>1, <3>1, <1>1
    <3>3. CASE ~FindHelp(t)
      <4>1. pc'[t] \in {"find.read", "find.check", "find.key", "find.next", "find.recount",
                        "del_dup", "del_dup.second", "del_dup.cas", "crashed", call[t].op}
        BY <2>2, <3>3 DEF Find, FindRead, FindRetry, FindCheck, FindKey, FindReread, FindRecount,
              DelDupCheck, DelDupCheckSecond, DelDup, RetryFind, LeaveFind, Probe, Crash
      <4>2. QED BY <4>1, <3>1, <1>1
    <3>4. QED BY <3>2, <3>3
  <2>3. CASE Insert(t)
    <3>1. call[t].op = "insert"
      BY <2>3 DEF Insert, InsertUpdate, InsertRelocate, InsertDrop, InsertPlace
    <3>2. /\ pc'[t] \in {"crashed", "idle", "find.read", "path.read"}
          /\ pc'[t] = "idle" => result'[t] = "unset"
      BY <2>3 DEF Insert, InsertUpdate, InsertRelocate, InsertDrop, InsertPlace, StartRelocate,
                  StartFind, Probe, Return, Crash
    <3>3. QED BY <3>1, <3>2, <1>1
  <2>4. CASE Remove(t)
    <3>1. call[t].op = "remove"
      BY <2>4 DEF Remove, RemoveAbsent, RemoveRecheck, RemoveUnlink, Retire
    <3>2. /\ pc'[t] \in {"idle", "find.read", "remove.second", "retire"}
          /\ pc'[t] = "remove.second" => result'[t] = "SECOND"
          /\ pc'[t] = "idle" => result'[t] = "unset"
      BY <2>4 DEF Remove, RemoveAbsent, RemoveRecheck, RemoveUnlink, Retire, StartFind,
                  Probe, Return, probe
    <3>3. QED BY <3>1, <3>2, <1>1
  <2>5. CASE Relocate(t)
    <3>1. call[t].op = "insert"
      BY <2>5 DEF Relocate, PathRead, PathCheck, PathKey, MoveDone, MoveRead, MoveReread, MoveDest
    <3>2. \/ pc'[t] \in {"find.read", "path.read", "path.check", "path.key", "move.read",
                          "move.reread", "move.dest"}
          \/ \E s, b : \E l \in {"path.read", "move.read", "move.reread"} : EnterHelp(t, s, b, l)
      BY <2>5 DEF Relocate, PathRead, PathCheck, PathKey, MoveDone, MoveRead, MoveReread,
                  MoveDest, StartRelocate, StartFind, Probe
    <3>3. ASSUME NEW s, NEW b, NEW l, EnterHelp(t, s, b, l)
          PROVE  pc'[t] = "help.read" /\ hlp'[t].ret = l
      BY <3>3 DEF EnterHelp, NoHelp
    <3>4. QED BY <3>1, <3>2, <3>3, <1>1
  <2>6. CASE Help(t)
    <3>1. call[t].op # "search" /\ pc[t] \in HelpLabels
      BY <2>6, <1>0, StepsWrite DEF Writing
    <3>2. CASE LeaveHelp(t)
      <4>1. pc'[t] = hlp[t].ret BY <3>2 DEF LeaveHelp
      <4>2. QED BY <4>1, <3>1, <1>0, <1>1 DEF ReturnLabels
    <3>3. CASE ~LeaveHelp(t)
      <4>1. /\ pc'[t] \in HelpLabels \cup {"crashed"} /\ hlp'[t].ret = hlp[t].ret
        BY <2>6, <3>3 DEF Help, HelpRead, HelpCheck, HelpMark, HelpRemark, HelpRecheck, HelpDest,
                  HelpCheckDest, HelpStable, HelpCopy, HelpClear, HelpUnmark, TestMark,
                  HelpRetry, Crash, HelpFrame
      <4>2. QED BY <4>1, <3>1, <1>1
    <3>4. QED BY <3>2, <3>3
  <2>7. QED BY <2>1, <2>2, <2>3, <2>4, <2>5, <2>6 DEF Step
<1>4. QED BY <1>2, <1>3

-----------------------------------------------------------------------------
(* What a step may do to the table.                                        *)

(* A CAS that finds what it expects exchanges the word, and else nothing   *)
(* happens.                                                                *)
LEMMA CASCases ==
  ASSUME NEW s \in Slots, NEW old, NEW w, CAS(s, old, w)
  PROVE  /\ table[s] = old => table' = [table EXCEPT ![s] = w]
         /\ table[s] # old => table' = table
BY DEF CAS

(* The word of slot s is replaced by an unmarked one of node n.            *)
Replaced(s, n) ==
  \E w \in TableWord : w.node = n /\ ~w.mark /\ table' = [table EXCEPT ![s] = w]

(* Which words make_pointer makes.                                         *)
LEMMA PointerWord ==
  ASSUME NEW n \in 0 .. MaxNodes, NEW c \in Nat, NEW s \in Slots,
         table' = [table EXCEPT ![s] = make_pointer(n, c)]
  PROVE  Replaced(s, n)
BY WordType DEF Replaced, make_pointer

(* The steps of help_relocate that matter: none changes a node, except the *)
(* copy and the clearing.                                                  *)
SameNodes == \A s \in Slots : table'[s].node = table[s].node

Copies(t) ==
  /\ pc[t] = "help.copy" /\ pc'[t] = "help.clear" /\ hlp' = hlp
  /\ table[hlp[t].slot].node # NULL /\ table[HelpDestSlot(t)].node = NULL
  /\ Replaced(HelpDestSlot(t), table[hlp[t].slot].node)

Clears(t) ==
  /\ pc[t] = "help.clear" /\ table[HelpDestSlot(t)].node = table[hlp[t].slot].node
  /\ pc'[t] \notin HelpLabels /\ Replaced(hlp[t].slot, NULL)

(* The frame of a helper, part by part.                                    *)
LEMMA HelperFrame ==
  ASSUME TypeInv, HomeInv, NEW t \in Threads
  PROVE  /\ hlp[t] \in HelpFrame /\ hlp[t].slot \in Slots /\ hlp[t].ret \in ReturnLabels
         /\ hlp[t].ptr1 \in TableWord /\ hlp[t].ptr2 \in TableWord
         /\ hlp[t].src \in 0 .. MaxNodes /\ table[hlp[t].slot] \in TableWord
         /\ hlp[t].src # NULL =>
              /\ HelpDestSlot(t) \in Slots /\ HelpDestSlot(t) # hlp[t].slot
              /\ table[HelpDestSlot(t)] \in TableWord
              /\ hlp[t].src \in 1 .. nalloc /\ hlp[t].src \in Nodes
<1>1. /\ hlp[t] \in HelpFrame /\ hlp[t].slot \in Slots /\ hlp[t].ret \in ReturnLabels
      /\ hlp[t].ptr1 \in TableWord /\ hlp[t].ptr2 \in TableWord
      /\ hlp[t].src \in 0 .. MaxNodes /\ table[hlp[t].slot] \in TableWord
  BY DEF TypeInv, TypeOK, HelpFrame
<1>2. ASSUME hlp[t].src # NULL
      PROVE  /\ HelpDestSlot(t) \in Slots /\ HelpDestSlot(t) # hlp[t].slot
             /\ table[HelpDestSlot(t)] \in TableWord
             /\ hlp[t].src \in 1 .. nalloc /\ hlp[t].src \in Nodes
  <2>1. hlp[t].src \in 1 .. nalloc /\ hlp[t].src \in Nodes
    BY <1>1, <1>2, SizeAssumption DEF HomeInv, FramesHome, Rightful, Nodes, NULL, TypeInv, TypeOK
  <2>2. heap[hlp[t].src].key \in Keys BY <2>1 DEF TypeInv, TypeOK
  <2>3. hlp[t].slot[1] \in {0, 1} /\ 1 - hlp[t].slot[1] \in {0, 1} BY <1>1, SlotSide
  <2>4. HelpDestSlot(t) \in Slots /\ HelpDestSlot(t)[1] = 1 - hlp[t].slot[1]
    BY <2>2, <2>3, HomeType DEF HelpDestSlot
  <2>5. HelpDestSlot(t) # hlp[t].slot BY <2>3, <2>4
  <2>6. QED BY <2>1, <2>4, <2>5 DEF TypeInv, TypeOK
<1>3. QED BY <1>1, <1>2

(* A mover stays informed, and its mark is the only one.                   *)
LEMMA MoverStep ==
  ASSUME TypeInv, TypeInv', HomeInv, OwnerInv, MovesAlone, NEW t \in Threads, Help(t)
  PROVE  /\ MoverKnows(t)'
         /\ \A s \in Slots : table'[s].mark => pc'[t] \in Moving /\ hlp'[t].slot = s
         /\ pc'[t] # "crashed"
         /\ \/ SameNodes /\ pc[t] # "help.clear" /\ pc'[t] # "retire"
            \/ Copies(t)
            \/ Clears(t)
<1> DEFINE now  == table[hlp[t].slot]
           next == table'[hlp'[t].slot]
           dest == HelpDestSlot(t)
           Goal == /\ MoverKnows(t)'
                   /\ \A s \in Slots : table'[s].mark => pc'[t] \in Moving /\ hlp'[t].slot = s
                   /\ pc'[t] # "crashed"
                   /\ \/ SameNodes /\ pc[t] # "help.clear" /\ pc'[t] # "retire"
                      \/ Copies(t)
                      \/ Clears(t)
<1> USE DEF get_pointer, get_marked
<1>1. pc \in [Threads -> Labels] /\ hlp \in [Threads -> HelpFrame] /\ table \in [Slots -> TableWord]
  BY DEF TypeInv, TypeOK
<1>2. /\ Role(t) /\ MoverKnows(t) /\ pc[t] \in HelpLabels
      /\ \A s \in Slots : table[s].mark => pc[t] \in Moving /\ hlp[t].slot = s
  <2>1. pc[t] \in HelpLabels /\ \A u \in Threads : Role(u) BY StepsWrite DEF OwnerInv
  <2>2. \A u \in Threads \ {t} : pc[u] \notin HelpLabels BY <2>1, MoverAlone
  <2>3. Moving \subseteq HelpLabels BY DEF Moving, Claiming, HelpLabels
  <2>4. QED BY <2>1, <2>2, <2>3 DEF OwnerInv, Marks
<1>3. /\ hlp[t] \in HelpFrame /\ hlp[t].slot \in Slots /\ hlp[t].ret \in ReturnLabels
      /\ hlp[t].ptr1 \in TableWord /\ hlp[t].ptr2 \in TableWord
      /\ hlp[t].src \in 0 .. MaxNodes /\ now \in TableWord
      /\ hlp[t].src # NULL =>
           /\ dest \in Slots /\ dest # hlp[t].slot /\ table[dest] \in TableWord
  BY HelperFrame
(* Leaving, with the table as it is or without its last mark.              *)
<1>a. ASSUME LeaveHelp(t) PROVE pc'[t] \notin HelpLabels /\ pc'[t] # "crashed" /\ pc'[t] # "retire"
  BY <1>a, <1>1, <1>3 DEF LeaveHelp, Goto, ReturnLabels, HelpLabels
<1>b. ASSUME pc'[t] \notin HelpLabels PROVE MoverKnows(t)'
  BY <1>b DEF MoverKnows, Moving, Claiming, HelpLabels
<1>4. CASE HelpRead(t)
  <2>1. /\ pc'[t] = "help.check" /\ hlp'[t].ptr1 = now /\ hlp'[t].src = now.node
        /\ hlp'[t].slot = hlp[t].slot /\ UNCHANGED table /\ pc[t] = "help.read"
    BY <1>4, <1>1, <1>3 DEF HelpRead, Goto, HelpFrame, shared
  <2>2. QED BY <2>1, <1>2 DEF MoverKnows, Moving, Claiming, SameNodes
<1>5. CASE HelpCheck(t)
  <2>1. /\ pc[t] = "help.check" /\ hlp[t].ptr1 = now /\ hlp[t].src = now.node /\ ~now.mark
        /\ UNCHANGED table
    BY <1>5, <1>2, <1>3 DEF HelpCheck, MoverKnows, Moving, Claiming, HelpLabels, shared
  <2>2. TestMark(t, hlp[t].src) BY <1>5, <2>1 DEF HelpCheck
  <2>3. CASE LeaveHelp(t)
    BY <2>1, <2>3, <1>a, <1>b, <1>2 DEF SameNodes, Moving, Claiming
  <2>4. CASE ~LeaveHelp(t)
    <3>1. /\ pc'[t] = "help.mark" /\ hlp'[t].ptr1 = now /\ hlp'[t].src = now.node
          /\ hlp'[t].slot = hlp[t].slot /\ now.node # NULL
      BY <2>1, <2>2, <2>4, <1>1, <1>3 DEF TestMark, Goto, HelpFrame
    <3>2. QED BY <2>1, <3>1, <1>2 DEF MoverKnows, Moving, Claiming, SameNodes
  <2>5. QED BY <2>3, <2>4
<1>6. CASE HelpMark(t)
  <2>1. /\ pc[t] = "help.mark" /\ hlp[t].ptr1 = now /\ hlp[t].src = now.node /\ now.node # NULL
        /\ pc'[t] = "help.remark" /\ UNCHANGED hlp
    BY <1>6, <1>2, <1>1 DEF HelpMark, Goto, MoverKnows, HelpLabels
  <2>2. table' = [table EXCEPT ![hlp[t].slot] = set_marked(now)]
    BY <1>6, <2>1, <1>3, CASCases DEF HelpMark
  <2>3. set_marked(now).node = now.node /\ set_marked(now).mark
    BY <1>3 DEF set_marked, TableWord
  <2>4. SameNodes /\ table'[hlp[t].slot].mark /\ table'[hlp[t].slot].node = now.node
    BY <2>2, <2>3, <1>1, <1>3 DEF SameNodes
  <2>5. \A s \in Slots : table'[s].mark => s = hlp[t].slot
    BY <2>1, <2>2, <1>1, <1>2 DEF Moving, Claiming
  <2>6. QED BY <2>1, <2>4, <2>5 DEF MoverKnows, Moving, Claiming
<1>7. CASE HelpRemark(t)
  <2>1. /\ pc[t] = "help.remark" /\ pc'[t] = "help.recheck" /\ hlp'[t].ptr1 = now
        /\ hlp'[t].src = hlp[t].src /\ hlp'[t].slot = hlp[t].slot /\ UNCHANGED table
        /\ now.mark /\ now.node # NULL /\ hlp[t].src = now.node
    BY <1>7, <1>1, <1>2, <1>3 DEF HelpRemark, Goto, HelpFrame, shared, MoverKnows, Moving, HelpLabels
  <2>2. QED BY <2>1, <1>2 DEF MoverKnows, Moving, Claiming, SameNodes
<1>8. CASE HelpRecheck(t)
  <2>1. /\ pc[t] = "help.recheck" /\ hlp[t].ptr1 = now /\ now.mark /\ now.node # NULL
        /\ UNCHANGED table
    BY <1>8, <1>2 DEF HelpRecheck, MoverKnows, Moving, HelpLabels, shared
  <2>2. TestMark(t, now.node) BY <1>8, <2>1 DEF HelpRecheck
  <2>3. /\ pc'[t] = "help.dest" /\ hlp'[t].ptr1 = now /\ hlp'[t].src = now.node
        /\ hlp'[t].slot = hlp[t].slot
    BY <2>1, <2>2, <1>1, <1>3 DEF TestMark, Goto, HelpFrame
  <2>4. QED BY <2>1, <2>3, <1>2 DEF MoverKnows, Moving, Claiming, SameNodes
<1>9. CASE HelpDest(t)
  <2>1. /\ pc[t] = "help.dest" /\ hlp[t].ptr1 = now /\ hlp[t].src = now.node /\ now.mark
        /\ now.node # NULL /\ UNCHANGED <<table, heap>>
    BY <1>9, <1>2 DEF HelpDest, MoverKnows, Moving, Claiming, HelpLabels, shared
  <2>2. /\ hlp' = [hlp EXCEPT ![t].ptr2 = table[dest]] /\ pc'[t] = "help.checkdest"
    BY <1>9, <2>1, <1>1 DEF HelpDest, Goto
  <2>3. /\ hlp'[t].ptr2 = table[dest] /\ hlp'[t].ptr1 = now /\ hlp'[t].src = hlp[t].src
        /\ hlp'[t].slot = hlp[t].slot
    <3> DEFINE w == table[dest]
    <3>1. hlp' = [hlp EXCEPT ![t].ptr2 = w] BY <2>2
    <3> HIDE DEF w
    <3>2. hlp'[t] = [hlp[t] EXCEPT !.ptr2 = w] BY <3>1, <1>1
    <3>3. /\ hlp'[t].ptr2 = w /\ hlp'[t].ptr1 = hlp[t].ptr1 /\ hlp'[t].src = hlp[t].src
          /\ hlp'[t].slot = hlp[t].slot
      BY <3>2, <1>3 DEF HelpFrame
    <3>4. QED BY <3>3, <2>1 DEF w
  <2>4. HelpDestSlot(t)' = dest BY <2>1, <2>3 DEF HelpDestSlot
  <2> HIDE DEF dest
  <2>5. QED BY <2>1, <2>2, <2>3, <2>4, <1>2 DEF MoverKnows, Moving, Claiming, SameNodes
<1>10. CASE HelpCheckDest(t)
  <2>1. /\ pc[t] = "help.checkdest" /\ hlp[t].ptr1 = now /\ hlp[t].src = now.node /\ now.mark
        /\ now.node # NULL /\ UNCHANGED <<table, heap>> /\ hlp[t].ptr2 = table[dest]
    BY <1>10, <1>2 DEF HelpCheckDest, MoverKnows, Moving, Claiming, HelpLabels, shared
  <2>2. /\ UNCHANGED hlp /\ pc'[t] \in {"help.stable", "help.clear", "help.unmark"}
        /\ pc'[t] = "help.stable" => table[dest].node = NULL
        /\ pc'[t] = "help.clear" => table[dest].node = hlp[t].src
    BY <1>10, <2>1, <1>1 DEF HelpCheckDest, Goto
  <2>3. HelpDestSlot(t)' = dest BY <2>1, <2>2 DEF HelpDestSlot
  <2> HIDE DEF dest
  <2>4. QED BY <2>1, <2>2, <2>3, <1>2 DEF MoverKnows, Moving, Claiming, SameNodes
<1>11. CASE HelpStable(t)
  <2>1. /\ pc[t] = "help.stable" /\ hlp[t].ptr1 = now /\ hlp[t].src = now.node /\ now.mark
        /\ now.node # NULL /\ UNCHANGED <<table, heap>> /\ hlp[t].ptr2 = table[dest]
        /\ hlp[t].ptr2.node = NULL
    BY <1>11, <1>2 DEF HelpStable, MoverKnows, Moving, Claiming, HelpLabels, shared
  <2>2. UNCHANGED hlp /\ pc'[t] = "help.copy"
    BY <1>11, <2>1, <1>1 DEF HelpStable, Goto
  <2>3. HelpDestSlot(t)' = dest BY <2>1, <2>2 DEF HelpDestSlot
  <2> HIDE DEF dest
  <2>4. QED BY <2>1, <2>2, <2>3, <1>2 DEF MoverKnows, Moving, Claiming, SameNodes
<1>12. CASE HelpCopy(t)
  <2> DEFINE ts1  == get_counter(hlp[t].ptr1)
             ts2  == get_counter(hlp[t].ptr2)
             nCnt == IF ts1 > ts2 THEN ts1 + 1 ELSE ts2 + 1
  <2>1. /\ pc[t] = "help.copy" /\ hlp[t].ptr1 = now /\ hlp[t].src = now.node /\ now.mark
        /\ now.node # NULL /\ hlp[t].ptr2 = table[dest] /\ hlp[t].ptr2.node = NULL
        /\ UNCHANGED <<hlp, heap>>
    BY <1>12, <1>2 DEF HelpCopy, MoverKnows, Moving, Claiming, HelpLabels
  <2>2. nCnt \in Nat BY <1>3, PartsType
  <2>3. /\ table' = [table EXCEPT ![dest] = make_pointer(hlp[t].src, nCnt)]
        /\ pc'[t] = "help.clear"
    BY <1>12, <2>1, <1>1, <1>3, CASCases DEF HelpCopy, Goto
  <2> HIDE DEF nCnt
  <2>4. Replaced(dest, hlp[t].src) BY <2>1, <2>2, <2>3, <1>3, PointerWord
  <2>5. table'[dest].node = hlp[t].src /\ table'[hlp[t].slot] = now /\ ~table'[dest].mark
        /\ \A s \in Slots \ {dest} : table'[s] = table[s]
    BY <2>1, <2>4, <1>1, <1>3 DEF Replaced
  <2>6. HelpDestSlot(t)' = dest BY <2>1 DEF HelpDestSlot
  <2>7. Copies(t) BY <2>1, <2>3, <2>4, <1>1 DEF Copies
  <2> HIDE DEF dest
  <2>8. QED BY <2>1, <2>3, <2>5, <2>6, <2>7, <1>2 DEF MoverKnows, Moving, Claiming
<1>13. CASE HelpClear(t)
  <2>1. /\ pc[t] = "help.clear" /\ hlp[t].ptr1 = now /\ table[dest].node = now.node
    BY <1>13, <1>2 DEF HelpClear, MoverKnows, Moving, Claiming, HelpLabels
  <2>2. table' = [table EXCEPT ![hlp[t].slot] = make_pointer(NULL, get_counter(now) + 1)]
    BY <1>13, <2>1, <1>3, CASCases DEF HelpClear
  <2>3. NULL \in 0 .. MaxNodes /\ get_counter(now) + 1 \in Nat
    BY <1>3, PartsType, SizeAssumption DEF NULL
  <2>4. Replaced(hlp[t].slot, NULL) BY <2>2, <2>3, <1>3, PointerWord
  <2>5. LeaveHelp(t) BY <1>13 DEF HelpClear
  <2>6. \A s \in Slots : ~table'[s].mark
    BY <2>4, <1>1, <1>2, <1>3 DEF Replaced
  <2>7. QED BY <2>1, <2>4, <2>5, <2>6, <1>a, <1>b DEF Clears
<1>14. CASE HelpUnmark(t)
  <2>1. /\ pc[t] = "help.unmark" /\ hlp[t].ptr1 = now /\ hlp[t].src = now.node
    BY <1>14, <1>2 DEF HelpUnmark, MoverKnows, HelpLabels
  <2>2. table' = [table EXCEPT ![hlp[t].slot] = make_pointer(hlp[t].src, get_counter(now) + 1)]
    BY <1>14, <2>1, <1>3, CASCases DEF HelpUnmark
  <2>3. get_counter(now) + 1 \in Nat BY <1>3, PartsType
  <2>4. Replaced(hlp[t].slot, hlp[t].src) BY <2>2, <2>3, <1>3, PointerWord
  <2>5. LeaveHelp(t) BY <1>14 DEF HelpUnmark
  <2>6. (\A s \in Slots : ~table'[s].mark) /\ SameNodes
    BY <2>1, <2>4, <1>1, <1>2, <1>3 DEF Replaced, SameNodes
  <2>7. QED BY <2>1, <2>5, <2>6, <1>a, <1>b
<1>15. QED BY <1>4, <1>5, <1>6, <1>7, <1>8, <1>9, <1>10, <1>11, <1>12, <1>13, <1>14 DEF Help

-----------------------------------------------------------------------------
(* The steps of writers that move nothing.                                 *)

(* insert puts its node into a home of its key that is empty.              *)
Places(t) ==
  /\ pc[t] = "insert" /\ result[t] = "NIL" /\ pc'[t] = "idle" /\ out'[t].kind = "stored"
  /\ UNCHANGED heap
  /\ \E w \in {0, 1} : /\ table[MyHome(t, w)].node = NULL
                       /\ Replaced(MyHome(t, w), new[t])

(* remove or del_dup takes out of a home of its key what it has read there.*)
Takes(t) ==
  /\ pc[t] \in {"remove", "remove.second", "del_dup.cas"} /\ UNCHANGED heap
  /\ pc[t] # "del_dup.cas" => pc'[t] = "retire" /\ result[t] \in {"FIRST", "SECOND"}
  /\ \E w \in {0, 1} : /\ pc[t] # "del_dup.cas" => w = (IF result[t] = "FIRST" THEN 0 ELSE 1)
                       /\ ptr[t][w] = table[MyHome(t, w)]
                       /\ Replaced(MyHome(t, w), NULL)
                       /\ pc'[t] = "retire" => RemovedNode(t)' = table[MyHome(t, w)].node

(* Outside help_relocate a step of a writer places, takes or leaves the    *)
(* table as it is, and moving begins at the beginning.                     *)
LEMMA WriteStep ==
  ASSUME TypeInv, NEW t \in Threads, Role(t), Find(t) \/ Insert(t) \/ Remove(t) \/ Relocate(t)
  PROVE  /\ pc'[t] \in HelpLabels => pc'[t] = "help.read"
         /\ \/ UNCHANGED table /\ pc'[t] # "retire"
            \/ Places(t)
            \/ Takes(t)
<1>h. \A w \in {0, 1} : /\ MyHome(t, w) \in Slots /\ ptr[t][w] \in TableWord
                        /\ get_counter(ptr[t][w]) \in Nat
  BY HomeWordType, PartsType DEF TypeInv
<1> USE DEF TypeInv, TypeOK, Goto
<1> DEFINE Goal == /\ pc'[t] \in HelpLabels => pc'[t] = "help.read"
                   /\ \/ UNCHANGED table /\ pc'[t] # "retire"
                      \/ Places(t)
                      \/ Takes(t)
<1>0. /\ call[t].op \in {"search", "insert", "remove"} /\ new[t] \in 0 .. MaxNodes
      /\ NULL \in 0 .. MaxNodes
      /\ \A w \in {0, 1} : /\ MyHome(t, w) \in Slots /\ ptr[t][w] \in TableWord
                           /\ get_counter(ptr[t][w]) \in Nat
  BY <1>h, SizeAssumption DEF Call, NULL
<1>a. ASSUME UNCHANGED table, pc'[t] \notin (HelpLabels \ {"help.read"}) \cup {"retire"} PROVE Goal
  BY <1>a
<1> SUFFICES Goal OBVIOUS
<1> HIDE DEF Goal
<1>1. CASE Find(t)
  <2>0. call[t].op \in {"insert", "remove"} BY <1>1, <1>0, StepsWrite DEF Writing
  <2>1. CASE FindHelp(t)
    <3>1. pc'[t] = "help.read" /\ UNCHANGED table
      BY <2>1 DEF FindHelp, EnterHelp, shared
    <3>2. QED BY <3>1, <1>a
  <2>2. CASE DelDup(t)
    <3>1. CASE UNCHANGED table
      <4>1. pc'[t] \in {"crashed", call[t].op} BY <2>2 DEF DelDup, Crash
      <4>2. QED BY <4>1, <3>1, <2>0, <1>a DEF HelpLabels
    <3>2. CASE table' # table
      <4>1. /\ CAS(MyHome(t, 1), ptr[t][1], make_pointer(NULL, get_counter(ptr[t][1])))
            /\ pc[t] = "del_dup.cas" /\ pc'[t] = call[t].op /\ UNCHANGED heap
        BY <2>2, <3>2 DEF DelDup
      <4>2. /\ ptr[t][1] = table[MyHome(t, 1)]
            /\ table' = [table EXCEPT ![MyHome(t, 1)] = make_pointer(NULL, get_counter(ptr[t][1]))]
        BY <4>1, <3>2, <1>0, CASCases
      <4>3. Replaced(MyHome(t, 1), NULL) BY <4>2, <1>0, PointerWord
      <4>4. pc'[t] # "retire" /\ pc'[t] \notin HelpLabels BY <4>1, <2>0 DEF HelpLabels
      <4>5. Takes(t) BY <4>1, <4>2, <4>3, <4>4 DEF Takes
      <4>6. QED BY <4>4, <4>5 DEF Goal
    <3>3. QED BY <3>1, <3>2
  <2>3. CASE ~FindHelp(t) /\ ~DelDup(t)
    <3>1. /\ UNCHANGED table
          /\ pc'[t] \in {"find.read", "find.check", "find.key", "find.next", "find.recount",
                        "del_dup", "del_dup.second", "del_dup.cas", call[t].op}
      BY <1>1, <2>3 DEF Find, FindRead, FindRetry, FindCheck, FindKey, FindReread, FindRecount,
            DelDupCheck, DelDupCheckSecond, RetryFind, LeaveFind, Probe, shared
    <3>2. QED BY <3>1, <2>0, <1>a DEF HelpLabels
  <2>4. QED BY <2>1, <2>2, <2>3
<1>2. CASE Insert(t)
  <2>1. ASSUME NEW w \in {0, 1}, InsertPlace(t, w) PROVE Goal
    <3>1. CASE table[MyHome(t, w)] = ptr[t][w]
      <4>1. /\ table' = [table EXCEPT ![MyHome(t, w)] = make_pointer(new[t], get_counter(ptr[t][w]))]
            /\ pc[t] = "insert" /\ result[t] = "NIL" /\ pc'[t] = "idle" /\ UNCHANGED heap
            /\ out' = [out EXCEPT ![t] = Outcome("stored", call[t].val)]
            /\ table[MyHome(t, w)].node = NULL
        BY <2>1, <3>1, <1>0, CASCases DEF InsertPlace, Return, Probe, get_pointer
      <4>2. Replaced(MyHome(t, w), new[t]) BY <4>1, <1>0, PointerWord
      <4>3. out'[t].kind = "stored" BY <4>1 DEF Outcome
      <4>4. Places(t) BY <4>1, <4>2, <4>3 DEF Places
      <4>5. QED BY <4>1, <4>4 DEF Goal, HelpLabels
    <3>2. CASE table[MyHome(t, w)] # ptr[t][w]
      <4>1. UNCHANGED table /\ pc'[t] = "find.read"
        BY <2>1, <3>2, <1>0, CASCases DEF InsertPlace, StartFind, Probe
      <4>2. QED BY <4>1, <1>a DEF HelpLabels
    <3>3. QED BY <3>1, <3>2
  <2>2. CASE InsertUpdate(t) \/ InsertRelocate(t) \/ InsertDrop(t)
    <3>1. UNCHANGED table /\ pc'[t] \in {"crashed", "idle", "path.read"}
      BY <2>2 DEF InsertUpdate, InsertRelocate, InsertDrop, StartRelocate, Return, Probe, Crash,
                  shared
    <3>2. QED BY <3>1, <1>a DEF HelpLabels
  <2>3. QED BY <1>2, <2>1, <2>2 DEF Insert
<1>3. CASE Remove(t)
  <2>1. ASSUME NEW w \in {0, 1}, RemoveUnlink(t, w) PROVE Goal
    <3>0. /\ pc[t] \in {"remove", "remove.second"} /\ UNCHANGED heap
          /\ w = (IF result[t] = "FIRST" THEN 0 ELSE 1) /\ result[t] \in {"FIRST", "SECOND"}
      BY <2>1 DEF RemoveUnlink, Role
    <3>1. CASE table[MyHome(t, w)] = ptr[t][w]
      <4>1. /\ table' = [table EXCEPT ![MyHome(t, w)] = make_pointer(NULL, get_counter(ptr[t][w]))]
            /\ pc'[t] = "retire" /\ UNCHANGED <<ptr, result>>
        BY <2>1, <3>1, <1>0, CASCases DEF RemoveUnlink, probe
      <4>2. Replaced(MyHome(t, w), NULL) BY <4>1, <1>0, PointerWord
      <4>3. RemovedNode(t)' = table[MyHome(t, w)].node
        BY <4>1, <3>0, <3>1 DEF RemovedNode, get_pointer
      <4>4. Takes(t) BY <3>0, <3>1, <4>1, <4>2, <4>3 DEF Takes
      <4>5. QED BY <4>1, <4>4 DEF Goal, HelpLabels
    <3>2. CASE table[MyHome(t, w)] # ptr[t][w]
      <4>1. UNCHANGED table /\ pc'[t] = "find.read"
        BY <2>1, <3>2, <1>0, CASCases DEF RemoveUnlink, StartFind, Probe
      <4>2. QED BY <4>1, <1>a DEF HelpLabels
    <3>3. QED BY <3>1, <3>2
  <2>2. CASE RemoveAbsent(t) \/ RemoveRecheck(t) \/ Retire(t)
    <3>1. UNCHANGED table /\ pc'[t] \in {"idle", "find.read", "remove.second"}
      BY <2>2 DEF RemoveAbsent, RemoveRecheck, Retire, StartFind, Return, Probe, probe, shared
    <3>2. QED BY <3>1, <1>a DEF HelpLabels
  <2>3. QED BY <1>3, <2>1, <2>2 DEF Remove
<1>4. CASE Relocate(t)
  <2>1. UNCHANGED table BY <1>4, LocalRelocate
  <2>2. \/ pc'[t] \in {"find.read", "path.read", "path.check", "path.key", "move.read",
                        "move.reread", "move.dest"}
        \/ \E s, b, l : EnterHelp(t, s, b, l)
    BY <1>4 DEF Relocate, PathRead, PathCheck, PathKey, MoveDone, MoveRead, MoveReread,
                MoveDest, StartRelocate, StartFind, Probe
  <2>3. ASSUME NEW s, NEW b, NEW l, EnterHelp(t, s, b, l) PROVE pc'[t] = "help.read"
    BY <2>3 DEF EnterHelp
  <2>4. QED BY <2>1, <2>2, <2>3, <1>a DEF HelpLabels
<1>5. QED BY <1>1, <1>2, <1>3, <1>4 DEF Goal

-----------------------------------------------------------------------------
(* Retiring.                                                               *)

(* retire_node adds one node to the retired ones, and scan none.           *)
LEMMA RetireStep ==
  ASSUME TypeInv, NEW t \in Threads, Retire(t)
  PROVE  \A n \in Nodes : n \in Retired' <=> (n \in Retired \/ n = RemovedNode(t))
<1> DEFINE old == rlist[t]
           seq == Append(old, RemovedNode(t))
           In(q, n) == \E i \in DOMAIN q : q[i] = n
<1>1. rlist \in [Threads -> Seq(0 .. MaxNodes)] /\ freed \subseteq Nodes BY DEF TypeInv, TypeOK
<1>2. RemovedNode(t) \in 0 .. MaxNodes
  BY DEF TypeInv, TypeOK, RemovedNode, get_pointer, TableWord
<1>3. /\ Len(seq) = Len(old) + 1 /\ DOMAIN seq = 1 .. Len(old) + 1 /\ DOMAIN old = 1 .. Len(old)
      /\ \A i \in 1 .. Len(old) : seq[i] = old[i]
      /\ seq[Len(old) + 1] = RemovedNode(t) /\ Len(old) \in Nat
  BY <1>1, <1>2
<1>4. \A n : In(seq, n) <=> (In(old, n) \/ n = RemovedNode(t))
  <2> HIDE DEF seq, old
  <2>1. QED BY <1>3
<1>5. \A u \in Threads \ {t} : rlist'[u] = rlist[u]
  BY <1>1 DEF Retire
<1>6. \/ rlist'[t] = seq /\ freed' = freed
      \/ /\ rlist'[t] = <<>>
         /\ freed' = freed \cup ({seq[i] : i \in 1 .. Len(seq)} \ {NULL})
  BY <1>1 DEF Retire
<1>7. /\ \A n : n \in Retired <=> n \in Nodes /\ (n \in freed \/ \E u \in Threads : In(rlist[u], n))
      /\ \A n : n \in Retired' <=> n \in Nodes /\ (n \in freed' \/ \E u \in Threads : In(rlist'[u], n))
  BY DEF Retired
<1>8. TAKE n \in Nodes
<1>9. n # NULL BY DEF Nodes, NULL
<1> DEFINE Other == \E u \in Threads \ {t} : In(rlist[u], n)
<1>10. n \in Retired <=> (n \in freed \/ In(old, n) \/ Other) BY <1>7, <1>8
<1>11. n \in Retired' <=> (n \in freed' \/ In(rlist'[t], n) \/ Other)
  BY <1>5, <1>7, <1>8
<1>12. CASE rlist'[t] = seq /\ freed' = freed
  <2> HIDE DEF In, Other, seq, old
  <2>1. QED BY <1>4, <1>10, <1>11, <1>12
<1>13. CASE rlist'[t] = <<>> /\ freed' = freed \cup ({seq[i] : i \in 1 .. Len(seq)} \ {NULL})
  <2>1. ~In(rlist'[t], n) BY <1>13
  <2>2. n \in freed' <=> (n \in freed \/ In(seq, n))
    <3> HIDE DEF seq, old
    <3>1. QED BY <1>3, <1>9, <1>13
  <2> HIDE DEF In, Other, seq, old
  <2>3. QED BY <1>4, <1>10, <1>11, <2>1, <2>2
<1>14. QED BY <1>6, <1>12, <1>13

(* Only retire_node retires.                                               *)
LEMMA RetiredKept ==
  ASSUME NEW t \in Threads, Step(t) \/ Invoke(t), ~Retire(t)
  PROVE  Retired' = Retired
<1>1. UNCHANGED gc
  <2>1. CASE Search(t)
    BY <2>1 DEF Search, SearchRead, SearchRetry, SearchCheck, SearchKey, SearchReread, SearchRecount
  <2>2. CASE Find(t)
    BY <2>2 DEF Find, FindRead, FindRetry, FindHelp, FindCheck, FindKey, FindReread, FindRecount,
                DelDupCheck, DelDupCheckSecond, DelDup
  <2>3. CASE Insert(t)
    BY <2>3 DEF Insert, InsertUpdate, InsertRelocate, InsertDrop, InsertPlace
  <2>4. CASE Remove(t)
    BY <2>4 DEF Remove, RemoveAbsent, RemoveRecheck, RemoveUnlink
  <2>5. CASE Relocate(t)
    BY <2>5 DEF Relocate, PathRead, PathCheck, PathKey, MoveDone, MoveRead, MoveReread, MoveDest
  <2>6. CASE Help(t)
    BY <2>6 DEF Help, HelpRead, HelpCheck, HelpMark, HelpRemark, HelpRecheck, HelpDest,
                HelpCheckDest, HelpStable, HelpCopy, HelpClear, HelpUnmark
  <2>7. CASE Invoke(t)
    BY <2>7 DEF Invoke, CallSearch, CallInsert, CallRemove, Begin
  <2>8. QED BY <2>1, <2>2, <2>3, <2>4, <2>5, <2>6, <2>7 DEF Step
<1>2. QED BY <1>1 DEF Retired, gc

-----------------------------------------------------------------------------
(* Nodes move between hands, slots and the retired ones.                   *)

(* Where a step of one thread can take the nodes in the slots from.        *)
LEMMA NodesStep ==
  ASSUME TypeInv, TypeInv', HomeInv, OwnerInv, MovesAlone, NEW t \in Threads, Step(t)
  PROVE  \/ SameNodes
         \/ Places(t) /\ \A u \in Threads : pc[u] \notin HelpLabels
         \/ Takes(t) /\ \A u \in Threads : pc[u] \notin HelpLabels
         \/ Copies(t)
         \/ Clears(t)
<1>1. Role(t) /\ \A u \in Threads : Role(u) BY DEF OwnerInv
<1>2. CASE Search(t) BY <1>2, LocalSearch DEF SameNodes
<1>3. CASE Find(t) \/ Insert(t) \/ Remove(t) \/ Relocate(t)
  <2>1. Writing(t) /\ pc[t] \notin HelpLabels BY <1>1, <1>3, StepsWrite
  <2>2. \A u \in Threads : pc[u] \notin HelpLabels BY <1>1, <2>1, NothingMoves
  <2>3. QED BY <1>1, <1>3, <2>2, WriteStep DEF SameNodes
<1>4. CASE Help(t) BY <1>4, MoverStep
<1>5. QED BY <1>2, <1>3, <1>4 DEF Step

(* What a step puts into or takes from hands.                              *)
LEMMA HandStep ==
  ASSUME TypeInv, TypeInv', HomeInv, OwnerInv, MovesAlone, NEW t \in Threads, Step(t)
  PROVE  /\ \A u \in Threads \ {t} : InHand(u)' = InHand(u)
         /\ \/ InHand(t)' = NULL
            \/ InHand(t)' = InHand(t) /\ ~Places(t) /\ ~Retire(t)
            \/ /\ Takes(t) /\ \A u \in Threads : pc[u] \notin HelpLabels
               /\ \E s \in Slots : InHand(t)' = table[s].node /\ Replaced(s, NULL)
         /\ Places(t) => InHand(t) = new[t]
         /\ Retire(t) => InHand(t) = RemovedNode(t)
<1>1. Role(t) /\ \A u \in Threads : Role(u) BY DEF OwnerInv
<1>2. Elsewhere(t) /\ Here(t) BY LocalStep
<1>3. \A u \in Threads \ {t} : InHand(u)' = InHand(u)
  BY <1>2 DEF Elsewhere, Here, InHand, RemovedNode
<1>4. Places(t) => InHand(t) = new[t]
  BY DEF Places, InHand, HomeInv, OwnNode
<1>5. Retire(t) => InHand(t) = RemovedNode(t)
  <2>1. Retire(t) => pc[t] = "retire" BY DEF Retire
  <2>2. pc[t] = "retire" => InHand(t) = RemovedNode(t) BY DEF InHand
  <2>3. QED BY <2>1, <2>2
<1>6. (Places(t) \/ Retire(t)) => pc'[t] = "idle"
  BY DEF Places, Retire, Return, Probe, Goto, TypeInv, TypeOK
<1>7. pc'[t] = "idle" => InHand(t)' = NULL BY DEF InHand
<1>8. pc'[t] = "retire" => /\ Takes(t) /\ \A u \in Threads : pc[u] \notin HelpLabels
                           /\ \E s \in Slots : InHand(t)' = table[s].node /\ Replaced(s, NULL)
  <2> SUFFICES ASSUME pc'[t] = "retire"
               PROVE  /\ Takes(t) /\ \A u \in Threads : pc[u] \notin HelpLabels
                      /\ \E s \in Slots : InHand(t)' = table[s].node /\ Replaced(s, NULL)
    OBVIOUS
  <2>1. ~Search(t)
    BY DEF Search, SearchRead, SearchRetry, SearchCheck, SearchKey, SearchReread,
           SearchRecount, Probe, Return, Goto, TypeInv, TypeOK
  <2>2. ~Help(t)
    <3>1. ASSUME Help(t) PROVE FALSE
      <4>1. Copies(t) \/ Clears(t) BY <3>1, MoverStep
      <4>2. hlp[t].ret \in ReturnLabels BY HelperFrame
      <4>3. Clears(t) => pc'[t] = hlp[t].ret
        BY <3>1 DEF Clears, Help, HelpRead, HelpCheck, HelpMark, HelpRemark, HelpRecheck, HelpDest,
           HelpCheckDest, HelpStable, HelpCopy, HelpClear, HelpUnmark, LeaveHelp, Goto, TypeInv, TypeOK
      <4>4. QED BY <4>1, <4>2, <4>3 DEF Copies, ReturnLabels
    <3>2. QED BY <3>1
  <2>3. Find(t) \/ Insert(t) \/ Remove(t) \/ Relocate(t) BY <2>1, <2>2 DEF Step
  <2>4. Writing(t) /\ pc[t] \notin HelpLabels BY <1>1, <2>3, StepsWrite
  <2>5. \A u \in Threads : pc[u] \notin HelpLabels BY <1>1, <2>4, NothingMoves
  <2>6. Takes(t) BY <1>1, <2>3, WriteStep DEF Places
  <2>7. InHand(t)' = RemovedNode(t)' BY DEF InHand
  <2>8. PICK w \in {0, 1} : /\ Replaced(MyHome(t, w), NULL)
                            /\ RemovedNode(t)' = table[MyHome(t, w)].node
    BY <2>6 DEF Takes
  <2>9. MyHome(t, w) \in Slots BY HomeWordType DEF TypeInv
  <2>10. QED BY <2>5, <2>6, <2>7, <2>8, <2>9
<1>9. pc[t] = "retire" => Retire(t)
  BY DEF Step, Search, SearchRead, SearchRetry, SearchCheck, SearchKey, SearchReread,
         SearchRecount, Find, FindRead, FindRetry, FindHelp, FindCheck, FindKey, FindReread, FindRecount,
         DelDupCheck, DelDupCheckSecond, DelDup, Insert, InsertUpdate, InsertRelocate, InsertDrop,
         InsertPlace, Remove, RemoveAbsent, RemoveRecheck, RemoveUnlink, Relocate, PathRead, PathCheck,
         PathKey, MoveDone, MoveRead, MoveReread, MoveDest, Help, HelpRead, HelpCheck, HelpMark,
         HelpRemark, HelpRecheck, HelpDest, HelpCheckDest, HelpStable, HelpCopy, HelpClear, HelpUnmark
<1>10. (pc'[t] # "idle" /\ pc'[t] # "retire") => InHand(t)' = InHand(t)
  BY <1>2, <1>6, <1>9 DEF Here, InHand
<1>11. QED BY <1>3, <1>4, <1>5, <1>6, <1>7, <1>8, <1>10

(* Writing one slot writes no other.                                       *)
LEMMA ReplacedWord ==
  ASSUME TypeInv, NEW s \in Slots, NEW n, Replaced(s, n)
  PROVE  /\ table'[s].node = n /\ ~table'[s].mark
         /\ \A r \in Slots \ {s} : table'[r] = table[r]
BY DEF Replaced, TypeInv, TypeOK

(* A node in a slot was in some slot before, or has just been placed.      *)
LEMMA TableSource ==
  ASSUME TypeInv, TypeInv', HomeInv, OwnerInv, MovesAlone, NEW t \in Threads, Step(t),
         NEW s \in Slots, table'[s].node # NULL
  PROVE  \/ \E r \in Slots : table[r].node = table'[s].node
         \/ Places(t) /\ table'[s].node = new[t]
<1>0. \A w \in {0, 1} : MyHome(t, w) \in Slots BY HomeWordType DEF TypeInv
<1>1. CASE SameNodes BY <1>1 DEF SameNodes
<1>2. CASE Places(t)
  <2>1. PICK w \in {0, 1} : Replaced(MyHome(t, w), new[t]) BY <1>2 DEF Places
  <2>2. QED BY <1>0, <1>2, <2>1, ReplacedWord
<1>3. CASE Takes(t)
  <2>1. PICK w \in {0, 1} : Replaced(MyHome(t, w), NULL) BY <1>3 DEF Takes
  <2>2. QED BY <1>0, <2>1, ReplacedWord
<1>4. CASE Copies(t)
  <2>1. hlp[t].slot \in Slots /\ HelpDestSlot(t) \in Slots
    <3>1. hlp[t].slot \in Slots /\ MoverKnows(t) BY HelperFrame DEF OwnerInv
    <3>2. hlp[t].src = table[hlp[t].slot].node
      BY <3>1, <1>4 DEF Copies, MoverKnows, HelpLabels
    <3>3. QED BY <3>1, <3>2, <1>4, HelperFrame DEF Copies
  <2>2. Replaced(HelpDestSlot(t), table[hlp[t].slot].node) BY <1>4 DEF Copies
  <2>3. QED BY <2>1, <2>2, ReplacedWord
<1>5. CASE Clears(t)
  <2>1. hlp[t].slot \in Slots /\ Replaced(hlp[t].slot, NULL) BY <1>5, HelperFrame DEF Clears
  <2>2. QED BY <2>1, ReplacedWord
<1>6. QED BY <1>1, <1>2, <1>3, <1>4, <1>5, NodesStep

(* Where the words of search and find come from.                           *)
LEMMA PtrStep ==
  ASSUME TypeInv, NEW t \in Threads, Step(t), NEW w \in {0, 1}
  PROVE  \/ ptr'[t][w] = ptr[t][w]
         \/ ptr'[t][w] = EmptyWord
         \/ ptr'[t][w] = table[MyHome(t, w)]
<1> USE DEF TypeInv, TypeOK
<1>a. ASSUME ptr' = [ptr EXCEPT ![t] = NoWords] PROVE ptr'[t][w] = EmptyWord
  BY <1>a DEF NoWords
<1>b. ASSUME NEW v \in {0, 1}, NEW x, ptr' = [ptr EXCEPT ![t][v] = x]
      PROVE  ptr'[t][w] = IF w = v THEN x ELSE ptr[t][w]
  BY <1>b
<1>c. ASSUME UNCHANGED ptr PROVE ptr'[t][w] = ptr[t][w] BY <1>c
<1>1. CASE Search(t)
  <2>1. \/ UNCHANGED ptr \/ ptr' = [ptr EXCEPT ![t] = NoWords]
        \/ \E v \in {0, 1} : ptr' = [ptr EXCEPT ![t][v] = table[MyHome(t, v)]]
    BY <1>1 DEF Search, SearchRead, SearchRetry, SearchCheck, SearchKey, SearchReread,
                SearchRecount, Probe, Return, probe
  <2>2. QED BY <2>1, <1>a, <1>b, <1>c
<1>2. CASE Find(t)
  <2>1. \/ UNCHANGED ptr \/ ptr' = [ptr EXCEPT ![t] = NoWords]
        \/ \E v \in {0, 1} : ptr' = [ptr EXCEPT ![t][v] = table[MyHome(t, v)]]
    BY <1>2 DEF Find, FindRead, FindRetry, FindHelp, FindCheck, FindKey, FindReread, FindRecount,
                DelDupCheck, DelDupCheckSecond, DelDup, RetryFind, Probe, probe
  <2>2. QED BY <2>1, <1>a, <1>b, <1>c
<1>3. CASE Insert(t) \/ Remove(t) \/ Relocate(t) \/ Help(t)
  <2>1. UNCHANGED ptr \/ ptr' = [ptr EXCEPT ![t] = NoWords]
    <3>1. CASE Insert(t) \/ Remove(t)
      BY <3>1 DEF Insert, InsertUpdate, InsertRelocate, InsertDrop, InsertPlace,
         Remove, RemoveAbsent, RemoveRecheck, RemoveUnlink, Retire, StartFind, Probe, Return, probe
    <3>2. CASE Relocate(t)
      BY <3>2 DEF Relocate, PathRead, PathCheck, PathKey, MoveDone, MoveRead, MoveReread, MoveDest,
         StartFind, Probe, probe
    <3>3. CASE Help(t)
      BY <3>3 DEF Help, HelpRead, HelpCheck, HelpMark, HelpRemark, HelpRecheck, HelpDest,
         HelpCheckDest, HelpStable, HelpCopy, HelpClear, HelpUnmark, probe
    <3>4. QED BY <1>3, <3>1, <3>2, <3>3
  <2>2. QED BY <2>1, <1>a, <1>c
<1>4. QED BY <1>1, <1>2, <1>3 DEF Step

(* The nodes that threads have read and retired have been allocated.       *)
LEMMA KnownStep ==
  ASSUME TypeInv, TypeInv', HomeInv, OwnerInv, MovesAlone, NEW t \in Threads, Step(t)
  PROVE  NodesKnown'
<1>0. nalloc \in Nat BY SizeAssumption DEF TypeInv, TypeOK
<1>1. Elsewhere(t) /\ KeysKept /\ nalloc \in Nat /\ NodesKnown /\ TypeOK /\ TypeOK'
  BY <1>0, LocalStep DEF TypeInv, OwnerInv
<1>2. Retired' \subseteq 1 .. nalloc
  <2>1. CASE Retire(t)
    <3>1. InHand(t) = RemovedNode(t) BY <2>1, HandStep
    <3>2. InHand(t) # NULL => InHand(t) \in 1 .. nalloc BY DEF OwnerInv, HandsApart
    <3>3. \A n \in Nodes : n \in Retired' => n \in Retired \/ n = RemovedNode(t)
      BY <2>1, RetireStep
    <3>4. Retired' \subseteq Nodes /\ NULL \notin Nodes BY DEF Retired, Nodes, NULL
    <3>5. QED BY <3>1, <3>2, <3>3, <3>4, <1>1 DEF NodesKnown
  <2>2. CASE ~Retire(t) BY <2>2, <1>1, RetiredKept DEF NodesKnown
  <2>3. QED BY <2>1, <2>2
<1>3. ASSUME NEW u \in Threads, NEW w \in {0, 1} PROVE ptr'[u][w].node \in 0 .. nalloc
  <2>1. ptr[u][w].node \in 0 .. nalloc BY <1>1 DEF NodesKnown
  <2>2. CASE u # t BY <2>1, <2>2, <1>1 DEF Elsewhere
  <2>3. CASE u = t
    <3>1. MyHome(t, w) \in Slots /\ table[MyHome(t, w)] \in TableWord BY <1>1, HomeWordType
    <3>2. table[MyHome(t, w)].node \in 0 .. nalloc
      BY <3>1, <1>1 DEF HomeInv, EntriesHome, Rightful, TableWord, NULL
    <3>3. EmptyWord.node \in 0 .. nalloc BY <1>1 DEF EmptyWord, make_pointer, NULL
    <3>4. QED BY <2>1, <2>3, <3>2, <3>3, PtrStep
  <2>4. QED BY <2>2, <2>3
<1>4. nalloc' \in Nat /\ nalloc <= nalloc' BY <1>1 DEF KeysKept
<1>5. 0 .. nalloc \subseteq 0 .. nalloc' /\ 1 .. nalloc \subseteq 1 .. nalloc' BY <1>1, <1>4
<1>6. QED BY <1>2, <1>3, <1>5 DEF NodesKnown

(* No retired node comes back into a slot.                                 *)
LEMMA StaysOutStep ==
  ASSUME TypeInv, TypeInv', HomeInv, OwnerInv, MovesAlone, NEW t \in Threads, Step(t)
  PROVE  RetiredStaysOut'
<1> SUFFICES ASSUME NEW s \in Slots, table'[s].node \in Retired' PROVE FALSE
  BY DEF RetiredStaysOut
<1> DEFINE n == table'[s].node
<1>1. n \in Nodes /\ n # NULL BY DEF Retired, Nodes, NULL
<1>2. n \in Retired \/ (Retire(t) /\ n = RemovedNode(t))
  BY <1>1, RetireStep, RetiredKept
<1>3. \/ \E r \in Slots : table[r].node = n
      \/ Places(t) /\ n = new[t]
  BY <1>1, TableSource
<1>4. /\ RetiredStaysOut
      /\ InHand(t) # NULL => InHand(t) \notin Retired /\ \A r \in Slots : table[r].node # InHand(t)
  BY DEF OwnerInv, HandsApart
<1>5. ~(Places(t) /\ Retire(t)) BY DEF Places, Retire
<1>6. QED BY <1>1, <1>2, <1>3, <1>4, <1>5, HandStep DEF RetiredStaysOut

(* What is in one thread's hands stays out of the table, of other hands and*)
(* of the retired nodes.                                                   *)
LEMMA HandsStep ==
  ASSUME TypeInv, TypeInv', HomeInv, OwnerInv, MovesAlone, NEW t \in Threads, Step(t)
  PROVE  HandsApart'
<1>0. nalloc \in Nat BY SizeAssumption DEF TypeInv, TypeOK
<1>1. KeysKept /\ nalloc' \in Nat /\ nalloc <= nalloc' BY LocalStep DEF KeysKept
<1>2. HandsApart /\ RetiredStaysOut BY DEF OwnerInv
(* A node that was in t's hands, or that t takes from a slot, is not in    *)
(* another thread's.                                                       *)
<1> DEFINE Hand == InHand(t)'
<1>3. Hand # NULL =>
        \/ Hand = InHand(t) /\ ~Places(t) /\ ~Retire(t)
        \/ /\ Takes(t) /\ \A u \in Threads : pc[u] \notin HelpLabels
           /\ \E s \in Slots : Hand = table[s].node /\ Replaced(s, NULL)
  BY HandStep
<1>4. Hand # NULL => /\ Hand \in 1 .. nalloc' /\ Hand \notin Retired'
                     /\ \A s \in Slots : table'[s].node # Hand
                     /\ \A u \in Threads \ {t} : InHand(u)' # Hand
  <2> SUFFICES ASSUME Hand # NULL
               PROVE  /\ Hand \in 1 .. nalloc' /\ Hand \notin Retired'
                      /\ \A s \in Slots : table'[s].node # Hand
                      /\ \A u \in Threads \ {t} : InHand(u)' # Hand
    OBVIOUS
  <2>1. CASE Hand = InHand(t) /\ ~Places(t) /\ ~Retire(t)
    <3>1. /\ Hand \in 1 .. nalloc /\ Hand \notin Retired /\ \A s \in Slots : table[s].node # Hand
          /\ \A u \in Threads \ {t} : InHand(u) # Hand
      BY <2>1, <1>2 DEF HandsApart
    <3>2. Hand \notin Retired' BY <2>1, <3>1, RetiredKept
    <3>3. \A s \in Slots : table'[s].node # Hand BY <2>1, <3>1, TableSource
    <3>4. \A u \in Threads \ {t} : InHand(u)' # Hand BY <3>1, HandStep
    <3>5. QED BY <3>1, <3>2, <3>3, <3>4, <1>0, <1>1
  <2>2. ASSUME Takes(t), \A u \in Threads : pc[u] \notin HelpLabels, NEW r \in Slots,
               Hand = table[r].node, Replaced(r, NULL)
        PROVE  /\ Hand \in 1 .. nalloc' /\ Hand \notin Retired'
               /\ \A s \in Slots : table'[s].node # Hand
               /\ \A u \in Threads \ {t} : InHand(u)' # Hand
    <3>1. Hand \in 1 .. nalloc'
      <4>1. Hand \in 0 .. MaxNodes BY <2>2, NodeRange
      <4>2. Hand <= nalloc BY <2>2 DEF HomeInv, EntriesHome, Rightful
      <4>3. QED BY <4>1, <4>2, <1>0, <1>1, SizeAssumption DEF NULL
    <3>2. Hand \notin Retired'
      <4>1. ~Retire(t) BY <2>2 DEF Takes, Retire
      <4>2. QED BY <4>1, <2>2, <1>2, RetiredKept DEF RetiredStaysOut
    <3>3. ASSUME NEW s \in Slots PROVE table'[s].node # Hand
      <4>1. CASE s = r BY <4>1, <2>2, ReplacedWord
      <4>2. CASE s # r
        <5>1. table'[s] = table[s] BY <4>2, <2>2, ReplacedWord
        <5>2. table[s].node # table[r].node BY <4>2, <2>2, NothingMarked
        <5>3. QED BY <5>1, <5>2, <2>2
      <4>3. QED BY <4>1, <4>2
    <3>4. \A u \in Threads \ {t} : InHand(u) # Hand BY <2>2, <1>2 DEF HandsApart
    <3>5. QED BY <3>1, <3>2, <3>3, <3>4, HandStep
  <2>3. QED BY <1>3, <2>1, <2>2
<1>5. ASSUME NEW u \in Threads \ {t}, InHand(u)' # NULL
      PROVE  /\ InHand(u)' \in 1 .. nalloc' /\ InHand(u)' \notin Retired'
             /\ \A s \in Slots : table'[s].node # InHand(u)'
             /\ \A v \in Threads \ {u} : InHand(v)' # InHand(u)'
  <2> DEFINE h == InHand(u)
  <2>1. InHand(u)' = h BY HandStep
  <2>2. /\ h \in 1 .. nalloc /\ h \notin Retired /\ \A s \in Slots : table[s].node # h
        /\ \A v \in Threads \ {u} : InHand(v) # h
    BY <1>2, <1>5, <2>1 DEF HandsApart
  <2>3. h \in 1 .. nalloc' BY <2>2, <1>0, <1>1
  <2>4. h \notin Retired'
    <3>1. CASE Retire(t)
      <4>1. InHand(t) = RemovedNode(t) BY <3>1, HandStep
      <4>2. h \in Retired' => h \in Nodes BY DEF Retired
      <4>3. InHand(t) # h BY <2>2
      <4>4. QED BY <3>1, <4>1, <4>2, <4>3, <2>2, RetireStep
    <3>2. CASE ~Retire(t) BY <3>2, <2>2, RetiredKept
    <3>3. QED BY <3>1, <3>2
  <2>5. ASSUME NEW s \in Slots PROVE table'[s].node # h
    <3>1. h # NULL BY <1>5, <2>1
    <3>2. Places(t) => InHand(t) = new[t] BY HandStep
    <3>3. InHand(t) # h BY <2>2
    <3>4. QED BY <3>1, <3>2, <3>3, <2>2, TableSource
  <2>6. ASSUME NEW v \in Threads \ {u} PROVE InHand(v)' # h
    <3>1. CASE v = t BY <3>1, <1>4, <1>5, <2>1
    <3>2. CASE v # t BY <3>2, <2>2, HandStep
    <3>3. QED BY <3>1, <3>2
  <2> HIDE DEF h
  <2>7. QED BY <2>1, <2>3, <2>4, <2>5, <2>6
<1>6. QED BY <1>4, <1>5 DEF HandsApart

(* The other home of what a helper has read stays where it is.             *)
LEMMA DestKept ==
  ASSUME TypeInv, HomeInv, KeysKept, NEW u \in Threads, hlp'[u] = hlp[u], hlp[u].src # NULL
  PROVE  HelpDestSlot(u)' = HelpDestSlot(u)
BY HelperFrame DEF HelpDestSlot, KeysKept

(* A mover knows the source of what it moves.                              *)
LEMMA MoverHolds ==
  ASSUME TypeInv, HomeInv, NEW t \in Threads, MoverKnows(t)
  PROVE  /\ pc[t] \in (Moving \ {"help.remark"}) \cup {"help.checkdest", "help.stable", "help.copy"}
              => hlp[t].src # NULL
         /\ pc[t] \in {"help.copy", "help.clear"} =>
              /\ hlp[t].src = table[hlp[t].slot].node /\ hlp[t].src # NULL
              /\ HelpDestSlot(t) \in Slots /\ HelpDestSlot(t) # hlp[t].slot
BY HelperFrame DEF MoverKnows, Moving, Claiming, HelpLabels

(* While others act, a mover's words stay as it has read them, provided    *)
(* that the table does.                                                    *)
LEMMA MoverKept ==
  ASSUME TypeInv, HomeInv, KeysKept, UNCHANGED table,
         NEW u \in Threads, hlp'[u] = hlp[u], pc'[u] = pc[u], MoverKnows(u)
  PROVE  MoverKnows(u)'
<1>1. CASE hlp[u].src # NULL
  <2>1. HelpDestSlot(u)' = HelpDestSlot(u) BY <1>1, DestKept
  <2>2. QED BY <2>1 DEF MoverKnows
<1>2. CASE hlp[u].src = NULL
  <2>1. pc[u] \notin {"help.checkdest", "help.stable", "help.copy", "help.clear"}
    BY <1>2 DEF MoverKnows, Moving, Claiming, HelpLabels
  <2>2. QED BY <2>1 DEF MoverKnows
<1>3. QED BY <1>1, <1>2

(* A step of one thread leaves the movers' knowledge, the marks and the    *)
(* copies of all as they should be.                                        *)
LEMMA MoversStep ==
  ASSUME TypeInv, TypeInv', HomeInv, OwnerInv, MovesAlone, NEW t \in Threads, Step(t)
  PROVE  (\A u \in Threads : MoverKnows(u)') /\ Marks' /\ NodeOnce'
<1>0. /\ \A u \in Threads : Role(u) /\ MoverKnows(u)
      /\ Marks /\ NodeOnce /\ HandsApart /\ Elsewhere(t) /\ KeysKept /\ Here(t)
  BY LocalStep DEF OwnerInv
<1>1. Moving \subseteq HelpLabels /\ {"help.copy", "help.clear"} \subseteq HelpLabels
  BY DEF Moving, Claiming, HelpLabels
<1>2. ASSUME pc'[t] \notin HelpLabels \ {"help.read"} PROVE MoverKnows(t)'
  BY <1>2 DEF MoverKnows, Moving, Claiming, HelpLabels
<1>3. CASE Search(t)
  <2>1. /\ UNCHANGED table /\ pc[t] \in SearchLabels
        /\ pc'[t] \in SearchLabels \cup {"idle"}
    BY <1>3, <1>0, LocalSearch, StepsWrite DEF Search, SearchRead, SearchRetry, SearchCheck, SearchKey,
       SearchReread, SearchRecount, Probe, Return, Goto, TypeInv, TypeOK, SearchLabels
  <2>2. pc[t] \notin HelpLabels /\ pc'[t] \notin HelpLabels
    BY <2>1 DEF SearchLabels, HelpLabels
  <2>3. ASSUME NEW u \in Threads PROVE MoverKnows(u)'
    <3>1. CASE u = t BY <3>1, <2>2, <1>2
    <3>2. CASE u # t BY <3>2, <2>1, <1>0, MoverKept DEF Elsewhere
    <3>3. QED BY <3>1, <3>2
  <2>4. Marks'
    <3> SUFFICES ASSUME NEW s \in Slots, table'[s].mark
                 PROVE  \E u \in Threads : pc'[u] \in Moving /\ hlp'[u].slot = s
      BY DEF Marks
    <3>1. PICK u \in Threads : pc[u] \in Moving /\ hlp[u].slot = s BY <2>1, <1>0 DEF Marks
    <3>2. u # t BY <3>1, <2>2, <1>1
    <3>3. QED BY <3>1, <3>2, <1>0 DEF Elsewhere
  <2>5. NodeOnce'
    <3> SUFFICES ASSUME NEW r \in Slots, NEW s \in Slots, table[r].node # NULL,
                        table[r].node = table[s].node, r # s
                 PROVE  Copied(r, s)'
      BY <2>1 DEF NodeOnce
    <3>1. PICK u \in Threads : /\ pc[u] = "help.clear"
                               /\ \/ r = hlp[u].slot /\ s = HelpDestSlot(u)
                                  \/ s = hlp[u].slot /\ r = HelpDestSlot(u)
      BY <1>0 DEF NodeOnce, Copied
    <3>2. u # t BY <3>1, <2>2, <1>1
    <3>3. pc'[u] = pc[u] /\ hlp'[u] = hlp[u] BY <3>2, <1>0 DEF Elsewhere
    <3>4. HelpDestSlot(u)' = HelpDestSlot(u) BY <3>1, <3>3, <1>0, MoverHolds, DestKept
    <3>5. QED BY <3>1, <3>3, <3>4 DEF Copied
  <2>6. QED BY <2>3, <2>4, <2>5
<1>4. CASE Find(t) \/ Insert(t) \/ Remove(t) \/ Relocate(t)
  <2>1. Writing(t) /\ pc[t] \notin HelpLabels BY <1>0, <1>4, StepsWrite
  <2>2. \A u \in Threads : pc[u] \notin HelpLabels BY <1>0, <2>1, NothingMoves
  <2>3. /\ \A s \in Slots : ~table[s].mark
        /\ \A r, s \in Slots : (table[r].node # NULL /\ table[r].node = table[s].node) => r = s
    BY <2>2, NothingMarked
  <2>4. pc'[t] \in HelpLabels => pc'[t] = "help.read" BY <1>0, <1>4, WriteStep
  <2>5. ASSUME NEW u \in Threads PROVE MoverKnows(u)'
    <3>1. CASE u = t BY <3>1, <2>4, <1>2
    <3>2. CASE u # t
      <4>1. pc'[u] \notin HelpLabels BY <3>2, <2>2, <1>0 DEF Elsewhere
      <4>2. QED BY <4>1 DEF MoverKnows, Moving, Claiming, HelpLabels
    <3>3. QED BY <3>1, <3>2
  <2>6. UNCHANGED table \/ Places(t) \/ Takes(t) BY <1>0, <1>4, WriteStep
  <2>7. \/ UNCHANGED table
        \/ \E s \in Slots : \E n : /\ Replaced(s, n)
                                   /\ n # NULL => \A r \in Slots : table[r].node # n
    <3>0. \A w \in {0, 1} : MyHome(t, w) \in Slots BY HomeWordType DEF TypeInv
    <3>1. CASE Places(t)
      <4>1. PICK w \in {0, 1} : Replaced(MyHome(t, w), new[t]) BY <3>1 DEF Places
      <4>2. InHand(t) = new[t] BY <3>1, HandStep
      <4>3. new[t] # NULL => \A r \in Slots : table[r].node # new[t]
        BY <4>2, <1>0 DEF HandsApart
      <4>4. QED BY <3>0, <4>1, <4>3
    <3>2. CASE Takes(t)
      <4>1. PICK w \in {0, 1} : Replaced(MyHome(t, w), NULL) BY <3>2 DEF Takes
      <4>2. QED BY <3>0, <4>1
    <3>3. QED BY <3>1, <3>2, <2>6
  <2>8. CASE UNCHANGED table BY <2>8, <2>3, <2>5 DEF Marks, NodeOnce
  <2>9. ASSUME NEW s0 \in Slots, NEW n, Replaced(s0, n),
               n # NULL => \A r \in Slots : table[r].node # n
        PROVE  Marks' /\ NodeOnce'
    <3>1. /\ table'[s0].node = n /\ ~table'[s0].mark
          /\ \A r \in Slots \ {s0} : table'[r] = table[r]
      BY <2>9, ReplacedWord
    <3>2. Marks' BY <3>1, <2>3 DEF Marks
    <3>3. \A r, s \in Slots : (table'[r].node # NULL /\ table'[r].node = table'[s].node) => r = s
      BY <3>1, <2>3, <2>9
    <3>4. QED BY <3>2, <3>3 DEF NodeOnce
  <2>10. QED BY <2>5, <2>7, <2>8, <2>9
<1>5. CASE Help(t)
  <2>1. pc[t] \in HelpLabels /\ \A u \in Threads \ {t} : pc[u] \notin HelpLabels
    BY <1>0, <1>5, StepsWrite, MoverAlone
  <2>2. /\ MoverKnows(t)'
        /\ \A s \in Slots : table'[s].mark => pc'[t] \in Moving /\ hlp'[t].slot = s
        /\ (SameNodes /\ pc[t] # "help.clear") \/ Copies(t) \/ Clears(t)
    BY <1>5, MoverStep
  <2>3. ASSUME NEW u \in Threads PROVE MoverKnows(u)'
    <3>1. CASE u = t BY <3>1, <2>2
    <3>2. CASE u # t
      <4>1. pc'[u] \notin HelpLabels BY <3>2, <2>1, <1>0 DEF Elsewhere
      <4>2. QED BY <4>1 DEF MoverKnows, Moving, Claiming, HelpLabels
    <3>3. QED BY <3>1, <3>2
  <2>4. Marks' BY <2>2 DEF Marks
  <2>5. ASSUME NEW r \in Slots, NEW s \in Slots, table[r].node # NULL,
               table[r].node = table[s].node, r # s
        PROVE  pc[t] = "help.clear" /\ (r = hlp[t].slot \/ s = hlp[t].slot)
    <3>1. PICK u \in Threads : pc[u] = "help.clear" /\ (r = hlp[u].slot \/ s = hlp[u].slot)
      BY <1>0, <2>5 DEF NodeOnce, Copied
    <3>2. u = t BY <3>1, <2>1, <1>1
    <3>3. QED BY <3>1, <3>2
  <2>6. CASE SameNodes /\ pc[t] # "help.clear" BY <2>3, <2>4, <2>5, <2>6 DEF NodeOnce, SameNodes
  <2>7. CASE Copies(t)
    <3>1. /\ pc[t] = "help.copy" /\ pc'[t] = "help.clear" /\ hlp' = hlp
          /\ Replaced(HelpDestSlot(t), table[hlp[t].slot].node)
      BY <2>7 DEF Copies
    <3>2. /\ hlp[t].src = table[hlp[t].slot].node /\ hlp[t].src # NULL
          /\ HelpDestSlot(t) \in Slots /\ HelpDestSlot(t) # hlp[t].slot /\ hlp[t].slot \in Slots
      BY <3>1, <1>0, MoverHolds, HelperFrame
    <3>3. HelpDestSlot(t)' = HelpDestSlot(t) BY <3>1, <3>2, <1>0, DestKept
    <3>4. /\ table'[HelpDestSlot(t)].node = table[hlp[t].slot].node
          /\ \A s \in Slots \ {HelpDestSlot(t)} : table'[s] = table[s]
      BY <3>1, <3>2, ReplacedWord
    <3> DEFINE a == hlp[t].slot
               b == HelpDestSlot(t)
    <3>6. \A r, s \in Slots : ((r = a /\ s = b) \/ (r = b /\ s = a)) => Copied(r, s)'
      BY <3>1, <3>3 DEF Copied
    <3> HIDE DEF a, b
    <3>7. ASSUME NEW r \in Slots, NEW s \in Slots, table'[r].node # NULL,
                 table'[r].node = table'[s].node, r # s
          PROVE  (r = a /\ s = b) \/ (r = b /\ s = a)
      <4>1. \A x, y \in Slots : (table[x].node # NULL /\ table[x].node = table[y].node) => x = y
        BY <2>5, <3>1
      <4>2. r = b \/ s = b BY <4>1, <3>4, <3>7 DEF a, b
      <4>3. r = b => s = a BY <4>1, <3>2, <3>4, <3>7 DEF a, b
      <4>4. s = b => r = a BY <4>1, <3>2, <3>4, <3>7 DEF a, b
      <4>5. QED BY <4>2, <4>3, <4>4
    <3>8. NodeOnce' BY <3>6, <3>7 DEF NodeOnce
    <3>9. QED BY <3>8, <2>3, <2>4
  <2>8. CASE Clears(t)
    <3>1. /\ pc[t] = "help.clear" /\ Replaced(hlp[t].slot, NULL) /\ hlp[t].slot \in Slots
      BY <2>8, HelperFrame DEF Clears
    <3>2. /\ table'[hlp[t].slot].node = NULL
          /\ \A s \in Slots \ {hlp[t].slot} : table'[s] = table[s]
      BY <3>1, ReplacedWord
    <3>3. \A r, s \in Slots : (table'[r].node # NULL /\ table'[r].node = table'[s].node) => r = s
      BY <3>2, <2>5
    <3>4. QED BY <3>3, <2>3, <2>4 DEF NodeOnce
  <2>9. QED BY <2>2, <2>6, <2>7, <2>8
<1>6. QED BY <1>3, <1>4, <1>5 DEF Step

(* A step of a call keeps OwnerInv.                                        *)
LEMMA OwnerStep ==
  ASSUME TypeInv, TypeInv', HomeInv, OwnerInv, MovesAlone, NEW t \in Threads, Step(t)
  PROVE  OwnerInv'
<1>1. \A u \in Threads : Role(u)' BY RoleStep DEF OwnerInv
<1>2. QED BY <1>1, MoversStep, HandsStep, KnownStep, StaysOutStep DEF OwnerInv

-----------------------------------------------------------------------------
(* Calls begin.                                                            *)

(* The start of a call changes nothing but the caller's own variables and  *)
(* the node it allocates.                                                  *)
LEMMA InvokeFrame ==
  ASSUME TypeInv, NEW t \in Threads, Invoke(t)
  PROVE  /\ UNCHANGED <<table, gc, side, ptr, result, hlp>> /\ KeysKept
         /\ pc[t] = "idle" /\ pc'[t] \in {"search.read", "find.read"}
         /\ pc'[t] = "search.read" <=> call'[t].op = "search"
         /\ call'[t] \in Calls[t] /\ out'[t].kind = "none"
         /\ \A u \in Threads \ {t} : /\ pc'[u] = pc[u] /\ call'[u] = call[u]
                                     /\ new'[u] = new[u] /\ out'[u] = out[u]
         /\ \A n \in 1 .. nalloc : heap'[n] = heap[n]
         /\ call'[t].op = "insert" =>
              /\ nalloc' = nalloc + 1 /\ new'[t] = nalloc + 1
              /\ heap'[nalloc + 1] = [key |-> call'[t].key, val |-> call'[t].val]
<1>1. PICK c \in Calls[t] : CallSearch(t, c) \/ CallInsert(t, c) \/ CallRemove(t, c)
  BY DEF Invoke
<1>2. /\ nalloc \in Nat /\ nalloc <= MaxNodes /\ call \in [Threads -> Call]
      /\ pc \in [Threads -> Labels] /\ new \in [Threads -> 0 .. MaxNodes]
      /\ heap \in [Nodes -> [key : Keys, val : Vals]]
      /\ out \in [Threads -> [kind : OutcomeKinds, val : Vals]]
  BY SizeAssumption DEF TypeInv, TypeOK
<1>3. PICK l \in {"search.read", "find.read"} :
        Begin(t, c, l) /\ (l = "search.read" <=> c.op = "search")
  BY <1>1 DEF CallSearch, CallInsert, CallRemove
<1>4. /\ UNCHANGED <<table, gc, side, ptr, result, hlp>>
      /\ pc[t] = "idle" /\ pc'[t] = l /\ call'[t] = c /\ out'[t].kind = "none"
      /\ \A u \in Threads \ {t} : pc'[u] = pc[u] /\ call'[u] = call[u] /\ out'[u] = out[u]
  BY <1>2, <1>3 DEF Begin, Goto, probe, Outcome
<1>5. CASE CallInsert(t, c)
  <2>1. /\ nalloc' = nalloc + 1 /\ nalloc + 1 \in Nodes
        /\ heap' = [heap EXCEPT ![nalloc + 1] = [key |-> c.key, val |-> c.val]]
        /\ new' = [new EXCEPT ![t] = nalloc + 1]
    BY <1>2, <1>5, SizeAssumption DEF CallInsert, Nodes
  <2>2. /\ \A n \in 1 .. nalloc : heap'[n] = heap[n]
        /\ heap'[nalloc + 1] = [key |-> c.key, val |-> c.val]
        /\ new'[t] = nalloc + 1 /\ \A u \in Threads \ {t} : new'[u] = new[u]
    BY <2>1, <1>2
  <2>3. KeysKept BY <2>1, <2>2, <1>2 DEF KeysKept
  <2>4. QED BY <1>3, <1>4, <2>1, <2>2, <2>3
<1>6. CASE c.op # "insert" /\ UNCHANGED <<heap, nalloc, new>>
  <2>1. KeysKept BY <1>2, <1>6 DEF KeysKept
  <2>2. QED BY <1>3, <1>4, <1>6, <2>1
<1>7. QED BY <1>1, <1>5, <1>6 DEF CallSearch, CallInsert, CallRemove

(* So much of it any start of a call has in common, whoever starts it.     *)
Begins(t) ==
  /\ UNCHANGED <<table, gc, side, ptr, result, hlp>> /\ KeysKept
  /\ pc[t] = "idle" /\ pc'[t] \in {"search.read", "find.read"}
  /\ pc'[t] = "search.read" <=> call'[t].op = "search"
  /\ \A u \in Threads \ {t} : pc'[u] = pc[u] /\ call'[u] = call[u] /\ new'[u] = new[u]
  /\ \A n \in 1 .. nalloc : heap'[n] = heap[n]
  /\ call'[t].op = "insert" =>
       /\ nalloc' = nalloc + 1 /\ new'[t] = nalloc + 1
       /\ heap'[nalloc + 1] = [key |-> call'[t].key, val |-> call'[t].val]

LEMMA InvokeBegins ==
  ASSUME TypeInv, NEW t \in Threads, Invoke(t)
  PROVE  Begins(t)
BY InvokeFrame DEF Begins

(* The node of a new insert is new, and a caller moves nothing yet.        *)
LEMMA OwnerBegin ==
  ASSUME TypeInv, HomeInv, OwnerInv, NEW t \in Threads, Begins(t)
  PROVE  OwnerInv'
<1>a. KeysKept BY DEF Begins
<1>b. nalloc \in Nat BY SizeAssumption DEF TypeInv, TypeOK
<1>0. nalloc \in Nat /\ nalloc' \in Nat /\ nalloc <= nalloc' /\ KeysKept
  BY <1>a, <1>b DEF KeysKept
<1>1. /\ UNCHANGED <<table, gc, ptr, result, hlp>>
      /\ pc[t] = "idle" /\ pc'[t] \in {"search.read", "find.read"}
      /\ pc'[t] = "search.read" <=> call'[t].op = "search"
      /\ \A u \in Threads \ {t} : pc'[u] = pc[u] /\ call'[u] = call[u] /\ new'[u] = new[u]
      /\ call'[t].op = "insert" => nalloc' = nalloc + 1 /\ new'[t] = nalloc + 1
  BY DEF Begins
<1>2. /\ \A u \in Threads : Role(u) /\ MoverKnows(u)
      /\ Marks /\ NodeOnce /\ HandsApart /\ NodesKnown /\ RetiredStaysOut
  BY DEF OwnerInv
<1>3. Retired' = Retired BY <1>1 DEF Retired, gc
<1>4. ASSUME NEW u \in Threads PROVE Role(u)' /\ MoverKnows(u)'
  <2>1. CASE u = t
    BY <2>1, <1>1, <1>2 DEF Role, MoverKnows, Moving, Claiming, HelpLabels, SearchLabels, PathLabels,
                      MoveLabels
  <2>2. CASE u # t
    <3>1. Role(u)' BY <2>2, <1>1, <1>2 DEF Role
    <3>2. MoverKnows(u)' BY <2>2, <1>0, <1>1, <1>2, MoverKept
    <3>3. QED BY <3>1, <3>2
  <2>3. QED BY <2>1, <2>2
<1>5. Marks'
  <2> SUFFICES ASSUME NEW s \in Slots, table'[s].mark
               PROVE  \E u \in Threads : pc'[u] \in Moving /\ hlp'[u].slot = s
    BY DEF Marks
  <2>1. PICK u \in Threads : pc[u] \in Moving /\ hlp[u].slot = s BY <1>1, <1>2 DEF Marks
  <2>2. u # t BY <2>1, <1>1 DEF Moving, Claiming
  <2>3. QED BY <2>1, <2>2, <1>1
<1>6. NodeOnce'
  <2> SUFFICES ASSUME NEW r \in Slots, NEW s \in Slots, table[r].node # NULL,
                      table[r].node = table[s].node, r # s
               PROVE  Copied(r, s)'
    BY <1>1 DEF NodeOnce
  <2>1. PICK u \in Threads : /\ pc[u] = "help.clear"
                             /\ \/ r = hlp[u].slot /\ s = HelpDestSlot(u)
                                \/ s = hlp[u].slot /\ r = HelpDestSlot(u)
    BY <1>2 DEF NodeOnce, Copied
  <2>2. u # t BY <2>1, <1>1
  <2>3. pc'[u] = pc[u] /\ hlp'[u] = hlp[u] BY <2>2, <1>1
  <2>4. HelpDestSlot(u)' = HelpDestSlot(u) BY <2>1, <2>3, <1>0, <1>2, MoverHolds, DestKept
  <2>5. QED BY <2>1, <2>3, <2>4 DEF Copied
<1>7. HandsApart'
  <2>1. \A u \in Threads \ {t} : InHand(u)' = InHand(u)
    BY <1>1 DEF InHand, RemovedNode
  <2>2. InHand(t)' = NULL \/ (InHand(t)' = nalloc + 1 /\ nalloc' = nalloc + 1)
    BY <1>1 DEF InHand
  <2>3. InHand(t) = NULL BY <1>1 DEF InHand
  <2>4. \A u \in Threads : InHand(u) # nalloc + 1
    BY <1>0, <1>2 DEF HandsApart, NULL
  <2>5. nalloc + 1 \notin Retired BY <1>0, <1>2 DEF NodesKnown
  <2>6. \A s \in Slots : table[s].node # nalloc + 1
    <3> SUFFICES ASSUME NEW s \in Slots, table[s].node = nalloc + 1 PROVE FALSE OBVIOUS
    <3>1. table[s].node # NULL BY <1>0 DEF NULL
    <3>2. table[s].node <= nalloc BY <3>1 DEF HomeInv, EntriesHome, Rightful
    <3>3. QED BY <3>2, <1>0
  <2>7. ASSUME NEW u \in Threads, InHand(u)' # NULL
        PROVE  /\ InHand(u)' \in 1 .. nalloc' /\ InHand(u)' \notin Retired'
               /\ \A s \in Slots : table'[s].node # InHand(u)'
               /\ \A v \in Threads \ {u} : InHand(v)' # InHand(u)'
    <3>1. CASE u = t
      <4>1. InHand(u)' = nalloc + 1 /\ nalloc' = nalloc + 1 BY <3>1, <2>2, <2>7
      <4>2. InHand(u)' \in 1 .. nalloc' BY <4>1, <1>0
      <4>3. QED BY <4>1, <4>2, <3>1, <2>1, <2>4, <2>5, <2>6, <1>1, <1>3
    <3>2. CASE u # t
      <4>1. InHand(u)' = InHand(u) BY <3>2, <2>1
      <4>2. /\ InHand(u) \in 1 .. nalloc /\ InHand(u) \notin Retired
            /\ \A s \in Slots : table[s].node # InHand(u)
            /\ \A v \in Threads \ {u} : InHand(v) # InHand(u)
        BY <4>1, <2>7, <1>2 DEF HandsApart
      <4>3. InHand(u) \in 1 .. nalloc' BY <4>2, <1>0
      <4>4. \A v \in Threads \ {u} : InHand(v)' # InHand(u)
        BY <4>1, <4>2, <2>1, <2>2, <2>4, <2>7
      <4>5. QED BY <4>1, <4>2, <4>3, <4>4, <1>1, <1>3
    <3>3. QED BY <3>1, <3>2
  <2>8. QED BY <2>7 DEF HandsApart
<1>8. NodesKnown' BY <1>0, <1>1, <1>2, <1>3 DEF NodesKnown
<1>9. RetiredStaysOut' BY <1>1, <1>2, <1>3 DEF RetiredStaysOut
<1>10. QED BY <1>4, <1>5, <1>6, <1>7, <1>8, <1>9 DEF OwnerInv

(* At the start a node stands where it was preloaded.                      *)
LEMMA PreloadNode ==
  ASSUME Init, NEW s \in Slots
  PROVE  /\ ~table[s].mark
         /\ table[s].node # NULL =>
              /\ table[s].node \in 1 .. Len(Preload) /\ Preload[table[s].node].slot = s
              /\ heap[table[s].node] = [key |-> Preload[table[s].node].key,
                                        val |-> Preload[table[s].node].val]
<1>1. CASE \E i \in 1 .. Len(Preload) : Preload[i].slot = s
  <2> DEFINE n == CHOOSE i \in 1 .. Len(Preload) : Preload[i].slot = s
  <2>1. n \in 1 .. Len(Preload) /\ Preload[n].slot = s BY <1>1
  <2>2. table[s].node = n /\ ~table[s].mark BY <1>1 DEF Init, make_pointer
  <2> HIDE DEF n
  <2>3. n \in Nodes /\ n <= Len(Preload)
    BY <2>1, PreloadAssumption, LenProperties, SizeAssumption DEF Nodes
  <2>4. heap[n] = [key |-> Preload[n].key, val |-> Preload[n].val] BY <2>3 DEF Init
  <2>5. QED BY <2>1, <2>2, <2>4
<1>2. CASE ~\E i \in 1 .. Len(Preload) : Preload[i].slot = s
  BY <1>2 DEF Init, EmptyWord, make_pointer
<1>3. QED BY <1>1, <1>2

(* At the start all hands are empty.                                       *)
LEMMA OwnerInit == Init => OwnerInv
<1> SUFFICES ASSUME Init PROVE OwnerInv OBVIOUS
<1>1. \A t \in Threads : /\ pc[t] = "idle" /\ ptr[t] = NoWords /\ rlist[t] = <<>>
                         /\ hlp[t] = NoHelp /\ result[t] = "unset"
  BY DEF Init
<1>2. \A t \in Threads : Role(t) /\ MoverKnows(t)
  BY <1>1 DEF Role, MoverKnows, Moving, Claiming, HelpLabels, SearchLabels, PathLabels, MoveLabels
<1>3. Marks BY PreloadNode DEF Marks
<1>4. NodeOnce
  <2> SUFFICES ASSUME NEW r \in Slots, NEW s \in Slots, table[r].node # NULL,
                      table[r].node = table[s].node
               PROVE  r = s
    BY DEF NodeOnce
  <2>1. Preload[table[r].node].slot = r /\ Preload[table[s].node].slot = s BY PreloadNode
  <2>2. QED BY <2>1
<1>5. HandsApart BY <1>1 DEF HandsApart, InHand
<1>6. Retired = {}
  <2>1. freed = {} BY DEF Init
  <2>2. QED BY <1>1, <2>1 DEF Retired
<1>7. nalloc \in Nat BY PreloadAssumption, LenProperties DEF Init
<1>8. NodesKnown BY <1>1, <1>6, <1>7 DEF NodesKnown, NoWords, EmptyWord, make_pointer, NULL
<1>9. RetiredStaysOut BY <1>6 DEF RetiredStaysOut
<1>10. QED BY <1>2, <1>3, <1>4, <1>5, <1>8, <1>9 DEF OwnerInv

(* OwnerInv is inductive as long as moves are alone.                       *)
LEMMA OwnerNext ==
  TypeInv /\ TypeInv' /\ HomeInv /\ OwnerInv /\ MovesAlone /\ [Next]_vars => OwnerInv'
<1> SUFFICES ASSUME TypeInv, TypeInv', HomeInv, OwnerInv, MovesAlone, [Next]_vars
             PROVE  OwnerInv'
  OBVIOUS
<1>1. ASSUME NEW t \in Threads, Step(t) PROVE OwnerInv' BY <1>1, OwnerStep
<1>2. ASSUME NEW t \in Threads, Invoke(t) PROVE OwnerInv' BY <1>2, InvokeBegins, OwnerBegin
<1>3. CASE UNCHANGED vars
  BY <1>3 DEF OwnerInv, Role, MoverKnows, Marks, NodeOnce, Copied, HandsApart, InHand, RemovedNode,
              NodesKnown, RetiredStaysOut, Retired, HelpDestSlot, vars, shared, gc, client, probe
<1>4. QED BY <1>1, <1>2, <1>3 DEF Next, Stopped

(* No node is in two hands, or in a hand and retired.                      *)
LEMMA OwnersRetireOnce == OwnerInv => RetiredOnce
<1> SUFFICES ASSUME OwnerInv, NEW t \in Threads, NEW u \in Threads,
                    pc[t] = "retire", RemovedNode(t) # NULL
             PROVE  /\ RemovedNode(t) \notin Retired
                    /\ (u # t /\ pc[u] = "retire") => RemovedNode(u) # RemovedNode(t)
  BY DEF RetiredOnce
<1>1. InHand(t) = RemovedNode(t) BY DEF InHand
<1>2. pc[u] = "retire" => InHand(u) = RemovedNode(u) BY DEF InHand
<1>3. QED BY <1>1, <1>2 DEF OwnerInv, HandsApart

(* Until somebody else writes while an entry is being moved, every node has*)
(* one owner: a slot, a thread or a retired list.                          *)
THEOREM OwnersKnown == Spec /\ []MovesAlone => [](TypeInv /\ HomeInv /\ OwnerInv)
BY TypeInit, TypeStep, HomeInit, HomeStep, OwnerInit, OwnerNext, PTL DEF Spec

(* However inserts and removes race with each other and with searches, a   *)
(* node is retired once, and so deleted once by scan (lines 70-115), until *)
(* somebody else writes while an entry is being moved.                     *)
THEOREM NodesRetiredOnce == Spec /\ []MovesAlone => []RetiredOnce
BY OwnersKnown, OwnersRetireOnce, PTL

(* Nor is a retired node in a slot: the only thread that copies nodes is   *)
(* the one that moves an entry while nobody else writes.                   *)
LEMMA RetiredNodesStayOut == Spec /\ []MovesAlone => []RetiredStaysOut
<1>1. OwnerInv => RetiredStaysOut BY DEF OwnerInv
<1>2. QED BY <1>1, OwnersKnown, PTL

-----------------------------------------------------------------------------
(* Keys: what a step leaves of a key in its two homes.                     *)

KeyStill(k) == \A w \in {0, 1} :
  /\ Holds(Home(w, k), k)' <=> Holds(Home(w, k), k)
  /\ Holds(Home(w, k), k) => table'[Home(w, k)] = table[Home(w, k)]

(* A slot with the same node holds the same key.                           *)
LEMMA HoldsKept ==
  ASSUME TypeInv, HomeInv, KeysKept, NEW s \in Slots, NEW k, table'[s].node = table[s].node
  PROVE  Holds(s, k)' <=> Holds(s, k)
<1>1. table[s].node \in 0 .. MaxNodes /\ nalloc \in Nat
  BY NodeRange, SizeAssumption DEF TypeInv, TypeOK
<1>2. table[s].node # NULL => table[s].node \in 1 .. nalloc
  BY <1>1 DEF HomeInv, EntriesHome, Rightful, NULL
<1>3. QED BY <1>2 DEF Holds, KeysKept

(* While the table stays as it is, so do all keys.                         *)
LEMMA StillTable ==
  ASSUME TypeInv, HomeInv, KeysKept, UNCHANGED table, NEW k \in Keys
  PROVE  KeyStill(k)
BY HoldsKept, HomeType DEF KeyStill

(* A writer takes the entry of its own key, which it then retires.         *)
LEMMA TakesOwn ==
  ASSUME TypeInv, KeyInv, NEW t \in Threads, Role(t), Writing(t), Takes(t)
  PROVE  \E w \in {0, 1} :
            /\ There(t, w) /\ (w = 1 => ~There(t, 0))
            /\ ptr[t][w] = table[MyHome(t, w)] /\ Replaced(MyHome(t, w), NULL)
            /\ pc'[t] = "retire" /\ RemovedNode(t)' = table[MyHome(t, w)].node
<1>1. pc[t] \in {"remove", "remove.second"} /\ result[t] \in {"FIRST", "SECOND"}
  BY DEF KeyInv, FindKnows, Takes
<1>2. PICK w \in {0, 1} : /\ w = (IF result[t] = "FIRST" THEN 0 ELSE 1)
                          /\ ptr[t][w] = table[MyHome(t, w)] /\ Replaced(MyHome(t, w), NULL)
                          /\ pc'[t] = "retire" /\ RemovedNode(t)' = table[MyHome(t, w)].node
  BY <1>1 DEF Takes
<1>3. There(t, w) /\ (w = 1 => ~There(t, 0)) BY <1>1, <1>2 DEF KeyInv, CallerKnows
<1>4. QED BY <1>2, <1>3

(* A writer places its node where its key is in neither home.              *)
LEMMA PlacesOwn ==
  ASSUME TypeInv, HomeInv, KeyInv, NEW t \in Threads, Writing(t), Places(t)
  PROVE  /\ ~There(t, 0) /\ ~There(t, 1)
         /\ heap[new[t]].key = call[t].key /\ heap' = heap
         /\ \E w \in {0, 1} : /\ table[MyHome(t, w)].node = NULL
                              /\ Replaced(MyHome(t, w), new[t])
BY DEF KeyInv, CallerKnows, Places, HomeInv, OwnNode

(* Moving an entry makes no other key appear.                              *)
LEMMA MoveKeeps ==
  ASSUME TypeInv, TypeInv', HomeInv, OwnerInv, KeysKept, NEW t \in Threads, NEW k \in Keys,
         SameNodes \/ Copies(t) \/ Clears(t),
         ~Holds(Home(0, k), k), ~Holds(Home(1, k), k), NEW w \in {0, 1}
  PROVE  ~Holds(Home(w, k), k)'
<1> DEFINE s == Home(w, k)
<1>1. s \in Slots BY HomeType
<1>2. CASE table'[s].node = table[s].node BY <1>1, <1>2, HoldsKept
<1>3. CASE Copies(t) /\ table'[s].node # table[s].node
  <2> DEFINE a == hlp[t].slot
             n == table[a].node
  <2>1. MoverKnows(t) /\ pc[t] = "help.copy" /\ Replaced(HelpDestSlot(t), n) /\ n # NULL
    BY <1>3 DEF OwnerInv, Copies
  <2>2. a \in Slots /\ HelpDestSlot(t) \in Slots BY <2>1, MoverHolds, HelperFrame
  <2>3. s = HelpDestSlot(t) /\ table'[s].node = n BY <1>1, <1>3, <2>1, <2>2, ReplacedWord
  <2>4. a = Home(a[1], heap[n].key) /\ a[1] \in {0, 1}
    BY <2>1, <2>2, SlotSide DEF HomeInv, EntriesHome, Rightful
  <2>5. n \in 1 .. nalloc
    <3>1. n \in 0 .. MaxNodes /\ n <= nalloc
      BY <2>1, <2>2, NodeRange DEF HomeInv, EntriesHome, Rightful
    <3>2. nalloc \in Nat BY SizeAssumption DEF TypeInv, TypeOK
    <3>3. QED BY <2>1, <3>1, <3>2 DEF NULL
  <2>6. heap[n].key # k
    <3>1. SUFFICES ASSUME heap[n].key = k PROVE FALSE OBVIOUS
    <3>2. Holds(a, k) BY <2>1, <3>1 DEF Holds
    <3>3. QED BY <2>4, <3>1, <3>2
  <2>7. heap'[n].key # k BY <2>5, <2>6 DEF KeysKept
  <2>8. QED BY <2>3, <2>7 DEF Holds
<1>4. CASE Clears(t) /\ table'[s].node # table[s].node
  <2>1. hlp[t].slot \in Slots /\ Replaced(hlp[t].slot, NULL) BY <1>4, HelperFrame DEF Clears
  <2>2. table'[s].node = NULL BY <1>1, <1>4, <2>1, ReplacedWord
  <2>3. QED BY <2>2 DEF Holds
<1>5. CASE SameNodes BY <1>1, <1>2, <1>5 DEF SameNodes
<1>6. QED BY <1>2, <1>3, <1>4, <1>5

(* Another writer leaves this writer's key alone.                          *)
LEMMA OthersStill ==
  ASSUME TypeInv, TypeInv', HomeInv, OwnerInv, KeyInv, Orderly,
         NEW t \in Threads, Step(t), NEW u \in Threads \ {t}, Writing(u),
         NEW k \in Keys, k = call[u].key
  PROVE  KeyStill(k)
<1>0. /\ \A v \in Threads : Role(v)
      /\ MovesAlone /\ WritesApart /\ KeysKept
  BY LocalStep DEF OwnerInv, Orderly
<1>a. \A w \in {0, 1} : Home(w, k) \in Slots /\ MyHome(t, w) \in Slots
  BY <1>0, HomeType, HomeWordType DEF TypeInv
<1>1. CASE Search(t) BY <1>0, <1>1, LocalSearch, StillTable
<1>2. CASE Help(t) BY <1>0, <1>2, StepsWrite DEF MovesAlone
<1>3. CASE Find(t) \/ Insert(t) \/ Remove(t) \/ Relocate(t)
  <2>1. Writing(t) BY <1>0, <1>3, StepsWrite
  <2>2. call[t].key # k BY <1>0, <2>1 DEF WritesApart
  <2>3. CASE UNCHANGED table BY <1>0, <2>3, StillTable
  <2>4. ASSUME NEW r \in Slots, NEW n, Replaced(r, n),
               table[r].node = NULL \/ heap[table[r].node].key # k,
               n = NULL \/ (n \in Nodes /\ heap'[n].key # k)
        PROVE  KeyStill(k)
    <3>1. /\ table'[r].node = n
          /\ \A s \in Slots \ {r} : table'[s] = table[s]
      BY <2>4, ReplacedWord
    <3>2. ~Holds(r, k) /\ ~Holds(r, k)' BY <2>4, <3>1 DEF Holds
    <3>3. \A s \in Slots \ {r} : Holds(s, k)' <=> Holds(s, k) BY <3>1, <1>0, HoldsKept
    <3>4. QED BY <1>a, <3>1, <3>2, <3>3 DEF KeyStill
  <2>5. CASE Places(t)
    <3>1. PICK w \in {0, 1} : /\ table[MyHome(t, w)].node = NULL
                              /\ Replaced(MyHome(t, w), new[t])
      BY <2>5 DEF Places
    <3>2. heap'[new[t]].key # k BY <2>1, <2>2, <2>5, PlacesOwn
    <3>3. new[t] = NULL \/ new[t] \in Nodes
      <4>1. new[t] \in 0 .. MaxNodes BY DEF TypeInv, TypeOK
      <4>2. QED BY <4>1, SizeAssumption DEF Nodes, NULL
    <3>4. QED BY <1>a, <2>4, <3>1, <3>2, <3>3
  <2>6. CASE Takes(t)
    <3>1. PICK w \in {0, 1} : There(t, w) /\ Replaced(MyHome(t, w), NULL)
      BY <1>0, <2>1, <2>6, TakesOwn
    <3>2. heap[table[MyHome(t, w)].node].key # k BY <2>2, <3>1 DEF There, Holds
    <3>3. QED BY <1>a, <2>4, <3>1, <3>2
  <2>7. QED BY <1>0, <1>3, <2>3, <2>5, <2>6, WriteStep
<1>4. QED BY <1>1, <1>2, <1>3 DEF Step

(* What a writer knows stays true as long as its key is left alone.        *)
LEMMA KnowsKept ==
  ASSUME TypeInv, OwnerInv, KeysKept, NEW u \in Threads,
         NEW k \in Keys, k = call[u].key, KeyStill(k), pc'[u] = pc[u], call'[u] = call[u], ptr'[u] = ptr[u], side'[u] = side[u],
         result'[u] = result[u], hlp'[u] = hlp[u],
         FindKnows(u), CallerKnows(u), RelocateKnows(u)
  PROVE  FindKnows(u)' /\ CallerKnows(u)' /\ RelocateKnows(u)'
<1>1. ASSUME NEW w \in {0, 1}
      PROVE  /\ There(u, w)' <=> There(u, w)
             /\ Matched(u, w)' <=> Matched(u, w)
             /\ Sees(u, w) => Sees(u, w)'
  <2>1. There(u, w)' <=> There(u, w) BY DEF There, MyHome, KeyStill
  <2>2. There(u, w) => table'[MyHome(u, w)] = table[MyHome(u, w)] /\ MyHome(u, w)' = MyHome(u, w)
    BY DEF There, MyHome, KeyStill
  <2>3. ptr[u][w].node \in 0 .. nalloc BY DEF OwnerInv, NodesKnown
  <2>4. nalloc \in Nat BY SizeAssumption DEF TypeInv, TypeOK
  <2>5. ptr[u][w].node # NULL => ptr[u][w].node \in 1 .. nalloc BY <2>3, <2>4 DEF NULL
  <2>6. Matched(u, w)' <=> Matched(u, w) BY <2>5 DEF Matched, get_pointer, KeysKept
  <2>7. QED BY <2>1, <2>2, <2>6 DEF Sees
<1>2. side[u] \in {0, 1} BY DEF TypeInv, TypeOK
<1>3. FindKnows(u)' BY <1>1, <1>2 DEF FindKnows
<1>4. CallerKnows(u)' BY <1>1 DEF CallerKnows
<1>5. RelocateKnows(u)' BY <1>1 DEF RelocateKnows
<1>6. QED BY <1>3, <1>4, <1>5

-----------------------------------------------------------------------------
(* What a writer learns with each of its own steps.                        *)

Knows(t) == FindKnows(t) /\ CallerKnows(t) /\ RelocateKnows(t)

(* A node that a key is in is in one home only, while nothing moves.       *)
LEMMA OneHome ==
  ASSUME TypeInv, OwnerInv, KeyInv, \A u \in Threads : pc[u] \notin HelpLabels, NEW t \in Threads,
         There(t, 0)
  PROVE  ~There(t, 1)
<1>1. call[t].key \in Keys /\ MyHome(t, 0) \in Slots /\ MyHome(t, 1) \in Slots
  BY HomeWordType DEF TypeInv
<1>2. MyHome(t, 0) # MyHome(t, 1) BY DEF MyHome, Home
<1>3. \A r, s \in Slots : (table[r].node # NULL /\ table[r].node = table[s].node) => r = s
  BY NothingMarked
<1> SUFFICES ASSUME There(t, 1) PROVE FALSE OBVIOUS
<1>4. table[MyHome(t, 0)].node = table[MyHome(t, 1)].node
  BY <1>1 DEF KeyInv, OneEntryPerKey, There, MyHome
<1>5. table[MyHome(t, 0)].node # NULL BY DEF There, Holds
<1>6. QED BY <1>1, <1>2, <1>3, <1>4, <1>5

(* While the table stays, what t has read and keeps is as it was, and what *)
(* it reads now is so.                                                     *)
LEMMA OwnReads ==
  ASSUME TypeInv, HomeInv, OwnerInv, KeysKept, UNCHANGED table, NEW t \in Threads, call'[t] = call[t],
         NEW w \in {0, 1}
  PROVE  /\ There(t, w)' <=> There(t, w)
         /\ ptr'[t][w] = ptr[t][w] =>
              /\ Matched(t, w)' <=> Matched(t, w)
              /\ Sees(t, w)' <=> Sees(t, w)
         /\ ptr'[t][w] = table[MyHome(t, w)] =>
              /\ Matched(t, w)' <=> There(t, w)
              /\ Sees(t, w)'
<1>1. MyHome(t, w) \in Slots /\ MyHome(t, w)' = MyHome(t, w) /\ nalloc \in Nat
  <2>1. MyHome(t, w) \in Slots BY HomeWordType DEF TypeInv
  <2>2. QED BY <2>1, SizeAssumption DEF TypeInv, TypeOK, MyHome
<1>2. There(t, w)' <=> There(t, w)
  <2>1. \A k : Holds(MyHome(t, w), k)' <=> Holds(MyHome(t, w), k)
    <3> DEFINE s == MyHome(t, w)
    <3>1. s' = s BY <1>1
    <3>2. table[s].node # NULL => table[s].node \in 1 .. nalloc
      BY <1>1, NodeRange DEF HomeInv, EntriesHome, Rightful, NULL
    <3>3. QED BY <1>1, <3>2 DEF Holds, KeysKept
  <2>2. QED BY <2>1 DEF There
<1>3. ptr[t][w].node # NULL => ptr[t][w].node \in 1 .. nalloc
  BY <1>1 DEF OwnerInv, NodesKnown, NULL
<1>4. ptr'[t][w] = ptr[t][w] => (Matched(t, w)' <=> Matched(t, w))
  BY <1>3 DEF Matched, get_pointer, KeysKept
<1>5. ptr'[t][w] = table[MyHome(t, w)] => (Matched(t, w)' <=> There(t, w)')
  BY <1>1 DEF Matched, There, Holds, get_pointer
<1>6. QED BY <1>1, <1>2, <1>4, <1>5 DEF Sees

(* find, as long as nobody else writes its key.                            *)
LEMMA KnowsFind ==
  ASSUME TypeInv, HomeInv, OwnerInv, KeyInv, \A u \in Threads : pc[u] \notin HelpLabels,
         NEW t \in Threads, Find(t), Writing(t)
  PROVE  Knows(t)' /\ pc'[t] # "crashed" /\ pc'[t] # "retire" /\ UNCHANGED table
<1> DEFINE Goal == Knows(t)' /\ pc'[t] # "crashed" /\ pc'[t] # "retire"
<1>0. Knows(t) /\ Role(t) BY DEF KeyInv, Knows, OwnerInv
<1>1. /\ pc[t] \in {"find.read", "find.check", "find.key", "find.next", "find.recount"}
      /\ ~DelDupCheck(t) /\ ~DelDupCheckSecond(t) /\ ~DelDup(t)
  BY <1>0 DEF Knows, FindKnows, DelDupCheck, DelDupCheckSecond, DelDup, Find, FindRead, FindRetry,
              FindHelp, FindCheck, FindKey, FindReread, FindRecount
<1>2. /\ UNCHANGED table /\ KeysKept /\ call' = call
      /\ call[t].op \in {"insert", "remove"} /\ side[t] \in {0, 1}
      /\ \A w \in {0, 1} : MyHome(t, w) \in Slots
  <2>1. KeysKept /\ Here(t) BY LocalFind
  <2>2. \A w \in {0, 1} : MyHome(t, w) \in Slots BY HomeWordType DEF TypeInv
  <2>3. call[t].op \in {"insert", "remove"} /\ side[t] \in {0, 1}
    BY DEF Writing, TypeInv, TypeOK, Call
  <2>4. UNCHANGED table
    BY <1>1 DEF Find, FindRead, FindRetry, FindHelp, FindCheck, FindKey, FindReread, FindRecount, shared
  <2>5. QED BY <2>1, <2>2, <2>3, <2>4 DEF Here
<1>3. \A w \in {0, 1} :
        /\ There(t, w)' <=> There(t, w)
        /\ ptr'[t][w] = ptr[t][w] =>
             /\ Matched(t, w)' <=> Matched(t, w)
             /\ Sees(t, w)' <=> Sees(t, w)
        /\ ptr'[t][w] = table[MyHome(t, w)] => (Matched(t, w)' <=> There(t, w)) /\ Sees(t, w)'
  BY <1>2, OwnReads
<1>4. \A s \in Slots : ~table[s].mark BY NothingMarked
<1>5. /\ pc \in [Threads -> Labels] /\ side \in [Threads -> {0, 1}]
      /\ ptr \in [Threads -> [{0, 1} -> TableWord]]
      /\ result \in [Threads -> {"unset", "FIRST", "SECOND", "NIL"}]
  BY DEF TypeInv, TypeOK
<1> USE DEF Knows, FindKnows, CallerKnows, RelocateKnows, Comparing, FindLabels, PathLabels, MoveLabels,
            HelpLabels
<1>6. ASSUME pc'[t] = "find.read", result'[t] = result[t] PROVE Goal
  BY <1>0, <1>1, <1>3, <1>6
<1>7. ASSUME NEW w \in {0, 1}, FindRead(t, w) PROVE Goal
  <2>1. /\ pc'[t] = "find.check" /\ side'[t] = w /\ ptr'[t][w] = table[MyHome(t, w)]
        /\ ptr'[t][1 - w] = ptr[t][1 - w] /\ result'[t] = result[t]
        /\ IF w = 0 THEN pc[t] = "find.read" ELSE pc[t] = "find.next" /\ side[t] = 0
    BY <1>5, <1>7 DEF FindRead, Goto
  <2>2. ~get_marked(ptr'[t][w]) BY <1>2, <1>4, <2>1 DEF get_marked
  <2>3. CASE w = 0 BY <2>1, <2>2, <2>3, <1>0, <1>1, <1>3
  <2>4. CASE w = 1
    <3>1. Sees(t, 1)' /\ Sees(t, 0)' /\ (There(t, 0)' => result'[t] = "FIRST")
      BY <2>1, <2>4, <1>0, <1>3
    <3>2. QED BY <2>1, <2>2, <2>4, <3>1, <1>0, <1>1, <1>3
  <2>5. QED BY <2>3, <2>4
<1>8. CASE FindRetry(t)
  BY <1>2, <1>5, <1>6, <1>8 DEF FindRetry, RetryFind, Probe, Goto
<1>9. CASE FindHelp(t)
  BY <1>0, <1>9 DEF FindHelp
<1>10. CASE FindCheck(t)
  <2>1. /\ pc[t] = "find.check" /\ ptr'[t] = ptr[t] /\ side'[t] = side[t] /\ result'[t] = result[t]
        /\ \/ pc'[t] = "find.next" /\ get_pointer(ptr[t][side[t]]) = NULL
           \/ pc'[t] = "find.key" /\ get_pointer(ptr[t][side[t]]) # NULL
    BY <1>5, <1>10 DEF FindCheck, Goto, probe
  <2>2. \A w \in {0, 1} : Sees(t, w)' <=> Sees(t, w) BY <2>1, <1>3
  <2>3. pc'[t] = "find.next" => ~There(t, side[t])
    BY <2>1, <1>0 DEF Sees, Matched
  <2>4. QED BY <2>1, <2>2, <2>3, <1>0, <1>1, <1>2, <1>3
<1>11. CASE FindKey(t)
  <2>1. /\ pc[t] = "find.key" /\ ptr'[t] = ptr[t] /\ side'[t] = side[t]
        /\ get_pointer(ptr[t][side[t]]) # NULL
        /\ \/ /\ ~Matched(t, side[t])
              /\ pc'[t] = "find.next" /\ result'[t] = result[t]
           \/ /\ Matched(t, side[t]) /\ side[t] = 0
              /\ pc'[t] = "find.next" /\ result'[t] = "FIRST"
           \/ /\ Matched(t, side[t]) /\ side[t] = 1 /\ result[t] = "FIRST"
           \/ /\ Matched(t, side[t]) /\ side[t] = 1 /\ result[t] # "FIRST"
              /\ pc'[t] = call[t].op /\ result'[t] = "SECOND"
    BY <1>0, <1>2, <1>5, <1>11 DEF FindKey, Goto, LeaveFind, Matched
  <2>2. \A w \in {0, 1} : Sees(t, w)' <=> Sees(t, w) BY <2>1, <1>3
  <2>3. Matched(t, side[t]) <=> There(t, side[t]) BY <2>1, <1>0 DEF Sees
  <2>4. ~(There(t, 0) /\ There(t, 1)) BY OneHome
  <2>5. side[t] = 1 => (There(t, 0) <=> result[t] = "FIRST") BY <2>1, <1>0
  <2>6. QED BY <2>1, <2>2, <2>3, <2>4, <2>5, <1>0, <1>1, <1>2, <1>3
<1>12. CASE FindReread(t)
  <2>1. /\ pc[t] = "find.next" /\ side[t] = 1 /\ side'[t] = 1 /\ result'[t] = result[t]
        /\ \/ result[t] = "FIRST" /\ pc'[t] = call[t].op /\ ptr'[t] = ptr[t]
           \/ result[t] # "FIRST" /\ pc'[t] = "find.recount" /\ ptr'[t][0] = table[MyHome(t, 0)]
    BY <1>5, <1>12 DEF FindReread, Goto
  <2>2. Sees(t, 0) /\ Sees(t, 1) /\ ~There(t, 1) /\ (There(t, 0) <=> result[t] = "FIRST")
    BY <2>1, <1>0
  <2>3. QED BY <2>1, <2>2, <1>0, <1>1, <1>2, <1>3
<1>13. CASE FindRecount(t)
  <2>1. CASE RetryFind(t) BY <1>2, <1>5, <1>6, <2>1 DEF RetryFind, Probe, Goto
  <2>2. CASE ~RetryFind(t)
    <3>1. /\ pc[t] = "find.recount" /\ pc'[t] = call[t].op /\ result'[t] = "NIL"
          /\ ptr'[t][0] = ptr[t][0] /\ ptr'[t][1] = table[MyHome(t, 1)]
      BY <1>5, <1>13, <2>2 DEF FindRecount, LeaveFind, Goto
    <3>2. ~There(t, 0)' /\ ~There(t, 1)' /\ Sees(t, 0)' /\ Sees(t, 1)'
      BY <3>1, <1>0, <1>3 DEF Sees
    <3>3. QED BY <3>1, <3>2, <1>0, <1>1, <1>2, <1>3
  <2>3. QED BY <2>1, <2>2
<1>14. QED BY <1>1, <1>2, <1>7, <1>8, <1>9, <1>10, <1>11, <1>12, <1>13 DEF Find

(* insert, remove and relocate.                                            *)
LEMMA KnowsCallers ==
  ASSUME TypeInv, HomeInv, OwnerInv, KeyInv, \A u \in Threads : pc[u] \notin HelpLabels,
         NEW t \in Threads, Insert(t) \/ Remove(t) \/ Relocate(t), Writing(t)
  PROVE  Writing(t)' => Knows(t)' /\ pc'[t] # "crashed"
<1> DEFINE Goal == Writing(t)' => Knows(t)' /\ pc'[t] # "crashed"
<1>0. Knows(t) /\ Role(t) /\ KeysKept /\ call' = call
  BY LocalInsert, LocalRemove, LocalRelocate DEF KeyInv, Knows, OwnerInv, Here
<1>1. /\ pc \in [Threads -> Labels] /\ side \in [Threads -> {0, 1}]
      /\ ptr \in [Threads -> [{0, 1} -> TableWord]]
      /\ result \in [Threads -> {"unset", "FIRST", "SECOND", "NIL"}]
      /\ hlp \in [Threads -> HelpFrame]
      /\ \A w \in {0, 1} : MyHome(t, w) \in Slots
  <2>1. \A w \in {0, 1} : MyHome(t, w) \in Slots BY HomeWordType DEF TypeInv
  <2>2. QED BY <2>1 DEF TypeInv, TypeOK
<1> USE DEF Knows, FindKnows, CallerKnows, RelocateKnows, Comparing, FindLabels, PathLabels, MoveLabels,
            HelpLabels
(* Ends, new rounds of find, and steps on the way through relocate.        *)
<1>a. ASSUME pc'[t] = "idle" PROVE Goal BY <1>a DEF Writing
<1>b. ASSUME pc'[t] = "find.read", result'[t] = "unset" PROVE Goal BY <1>b
<1>c. ASSUME UNCHANGED table, call[t].op = "insert", ~There(t, 0), ~There(t, 1), result'[t] = result[t],
             result[t] # "FIRST",
             \/ pc'[t] \in PathLabels \cup MoveLabels
             \/ pc'[t] = "help.read" /\ hlp'[t].ret # "find.read"
      PROVE  Goal
  <2>1. ~There(t, 0)' /\ ~There(t, 1)' BY <1>0, <1>c, OwnReads
  <2>2. QED BY <2>1, <1>0, <1>c
<1>2. CASE Insert(t)
  <2>1. CASE InsertUpdate(t)
    <3> DEFINE w == IF result[t] = "FIRST" THEN 0 ELSE 1
    <3>1. pc[t] = "insert" /\ result[t] \in {"FIRST", "SECOND"} /\ w \in {0, 1}
      BY <2>1 DEF InsertUpdate
    <3>2. There(t, w) /\ Sees(t, w) BY <3>1, <1>0
    <3>3. get_pointer(ptr[t][w]) # NULL BY <3>2 DEF Sees, Matched
    <3>4. pc'[t] = "idle" BY <2>1, <3>3, <1>1 DEF InsertUpdate, Return, Probe, Goto
    <3>5. QED BY <3>4, <1>a
  <2>2. CASE InsertRelocate(t)
    <3>1. /\ pc[t] = "insert" /\ result[t] = "NIL" /\ pc'[t] = "path.read" /\ result'[t] = result[t]
          /\ UNCHANGED table
      BY <2>2, <1>1 DEF InsertRelocate, StartRelocate, Goto, shared, probe
    <3>2. call[t].op = "insert" /\ ~There(t, 0) /\ ~There(t, 1) BY <3>1, <1>0 DEF Role
    <3>3. QED BY <3>1, <3>2, <1>c
  <2>3. CASE InsertDrop(t)
    BY <2>3, <1>1, <1>a DEF InsertDrop, Return, Probe, Goto
  <2>4. ASSUME NEW w \in {0, 1}, InsertPlace(t, w) PROVE Goal
    <3>1. pc'[t] = "idle" \/ (pc'[t] = "find.read" /\ result'[t] = "unset")
      BY <2>4, <1>1 DEF InsertPlace, Return, StartFind, Probe, Goto
    <3>2. QED BY <3>1, <1>a, <1>b
  <2>5. QED BY <1>2, <2>1, <2>2, <2>3, <2>4 DEF Insert
<1>3. CASE Remove(t)
  <2>1. CASE RemoveAbsent(t) \/ Retire(t)
    BY <2>1, <1>1, <1>a DEF RemoveAbsent, Retire, Return, Probe, Goto
  <2>2. CASE RemoveRecheck(t)
    <3>1. CASE StartFind(t) BY <3>1, <1>1, <1>b DEF StartFind, Probe, Goto
    <3>2. CASE ~StartFind(t)
      <4>1. /\ pc[t] = "remove" /\ result[t] = "SECOND" /\ pc'[t] = "remove.second"
            /\ result'[t] = result[t] /\ ptr'[t] = ptr[t] /\ UNCHANGED table
        BY <2>2, <3>2, <1>1 DEF RemoveRecheck, Goto, shared, probe
      <4>2. \A w \in {0, 1} : (There(t, w)' <=> There(t, w)) /\ (Sees(t, w)' <=> Sees(t, w))
        BY <4>1, <1>0, OwnReads
      <4>3. QED BY <4>1, <4>2, <1>0
    <3>3. QED BY <3>1, <3>2
  <2>3. ASSUME NEW w \in {0, 1}, RemoveUnlink(t, w) PROVE Goal
    <3>1. pc'[t] = "retire" \/ (pc'[t] = "find.read" /\ result'[t] = "unset")
      BY <2>3, <1>1 DEF RemoveUnlink, StartFind, Probe, Goto
    <3>2. QED BY <3>1, <1>b
  <2>4. QED BY <1>3, <2>1, <2>2, <2>3 DEF Remove
<1>4. CASE Relocate(t)
  <2>1. UNCHANGED table BY <1>4, LocalRelocate
  <2>2. pc[t] \in PathLabels \cup MoveLabels
    BY <1>4 DEF Relocate, PathRead, PathCheck, PathKey, MoveDone, MoveRead, MoveReread, MoveDest
  <2>3. call[t].op = "insert" /\ ~There(t, 0) /\ ~There(t, 1) /\ result[t] # "FIRST"
    BY <2>2, <1>0
  <2>4. CASE MoveDone(t) BY <2>4, <1>1, <1>b DEF MoveDone, StartFind, Probe, Goto
  <2>5. CASE ~MoveDone(t)
    <3>1. /\ UNCHANGED probe
          /\ \/ pc' = [pc EXCEPT ![t] = "path.read"] \/ pc' = [pc EXCEPT ![t] = "path.check"]
             \/ pc' = [pc EXCEPT ![t] = "path.key"] \/ pc' = [pc EXCEPT ![t] = "move.read"]
             \/ pc' = [pc EXCEPT ![t] = "move.reread"] \/ pc' = [pc EXCEPT ![t] = "move.dest"]
             \/ \E s, b : \E l \in {"path.read", "move.read", "move.reread"} : EnterHelp(t, s, b, l)
      BY <1>4, <2>5 DEF Relocate, PathRead, PathCheck, PathKey, MoveRead, MoveReread,
                  MoveDest, StartRelocate, Goto
    <3>2. ASSUME NEW s, NEW b, NEW l \in {"path.read", "move.read", "move.reread"},
                 EnterHelp(t, s, b, l)
          PROVE  pc'[t] = "help.read" /\ hlp'[t].ret # "find.read"
      BY <3>2, <1>1 DEF EnterHelp, NoHelp, Goto
    <3>3. \/ pc'[t] \in PathLabels \cup MoveLabels
          \/ pc'[t] = "help.read" /\ hlp'[t].ret # "find.read"
      BY <3>1, <3>2, <1>1
    <3>4. result'[t] = result[t] BY <3>1 DEF probe
    <3>5. QED BY <2>1, <2>3, <3>3, <3>4, <1>c
  <2>6. QED BY <2>4, <2>5
<1>5. QED BY <1>2, <1>3, <1>4

(* help_relocate moves other keys than the one for which it makes room.    *)
LEMMA KnowsHelp ==
  ASSUME TypeInv, TypeInv', HomeInv, OwnerInv, KeyInv, MovesAlone,
         NEW t \in Threads, Help(t), Writing(t)
  PROVE  Knows(t)' /\ pc'[t] # "crashed"
<1>1. /\ Knows(t) /\ Role(t) /\ KeysKept /\ call' = call
      /\ pc[t] \in HelpLabels /\ hlp[t].ret \in ReturnLabels
      /\ MyHome(t, 0)' = MyHome(t, 0) /\ MyHome(t, 1)' = MyHome(t, 1)
  BY LocalHelp, StepsWrite, HelperFrame DEF KeyInv, Knows, OwnerInv, Here, MyHome
<1>2. pc'[t] # "crashed" /\ (SameNodes \/ Copies(t) \/ Clears(t)) BY MoverStep
<1>3. call[t].op = "insert" /\ ~There(t, 0) /\ ~There(t, 1) /\ hlp[t].ret # "find.read"
  BY <1>1 DEF Knows, RelocateKnows
<1>4. call[t].key \in Keys BY HomeWordType DEF TypeInv
<1>5. ~There(t, 0)' /\ ~There(t, 1)'
  <2>1. \A k \in Keys : (~Holds(Home(0, k), k) /\ ~Holds(Home(1, k), k)) =>
           ~Holds(Home(0, k), k)' /\ ~Holds(Home(1, k), k)'
    BY <1>1, <1>2, MoveKeeps
  <2> DEFINE k == call[t].key
  <2>2. PICK j \in Keys : j = k /\ j = call'[t].key BY <1>1, <1>4
  <2>3. ~Holds(Home(0, j), j)' /\ ~Holds(Home(1, j), j)'
    BY <2>1, <2>2, <1>3 DEF There, MyHome
  <2>4. QED BY <2>2, <2>3 DEF There, MyHome
<1>6. UNCHANGED result
  BY DEF Help, HelpRead, HelpCheck, HelpMark, HelpRemark, HelpRecheck, HelpDest,
         HelpCheckDest, HelpStable, HelpCopy, HelpClear, HelpUnmark, probe
<1>7. \/ pc'[t] \in {"path.read", "move.read", "move.reread"}
      \/ pc'[t] \in HelpLabels /\ hlp'[t].ret # "find.read"
  <2>0. pc \in [Threads -> Labels] /\ hlp \in [Threads -> HelpFrame] BY DEF TypeInv, TypeOK
  <2>1. CASE LeaveHelp(t)
    BY <2>0, <2>1, <1>1, <1>3 DEF LeaveHelp, Goto, ReturnLabels, Role
  <2>2. CASE ~LeaveHelp(t)
    <3>1. pc'[t] \in HelpLabels \cup {"crashed"} /\ hlp'[t].ret = hlp[t].ret
      BY <2>0, <2>2 DEF Help, HelpRead, HelpCheck, HelpMark, HelpRemark, HelpRecheck, HelpDest,
         HelpCheckDest, HelpStable, HelpCopy, HelpClear, HelpUnmark, TestMark, HelpRetry, Crash,
         HelpFrame, Goto, HelpLabels
    <3>2. QED BY <3>1, <1>2, <1>3
  <2>3. QED BY <2>1, <2>2
<1>8. result[t] # "FIRST" BY <1>1, <1>3 DEF Knows, FindKnows, HelpLabels
<1>9. pc'[t] \in PathLabels \cup MoveLabels \cup HelpLabels BY <1>7 DEF PathLabels, MoveLabels
<1>10. FindKnows(t)' BY <1>5, <1>6, <1>8, <1>9 DEF FindKnows, Comparing, FindLabels, PathLabels,
                                                   MoveLabels, HelpLabels
<1>11. CallerKnows(t)' BY <1>9 DEF CallerKnows, PathLabels, MoveLabels, HelpLabels
<1>12. RelocateKnows(t)' BY <1>1, <1>3, <1>5, <1>7 DEF RelocateKnows, HelpLabels
<1>13. QED BY <1>2, <1>10, <1>11, <1>12 DEF Knows

-----------------------------------------------------------------------------
(* KeyInv is inductive.                                                    *)

(* No step gives a key a second entry.                                     *)
LEMMA OneEntryStep ==
  ASSUME TypeInv, TypeInv', HomeInv, OwnerInv, KeyInv, MovesAlone, NEW t \in Threads, Step(t)
  PROVE  OneEntryPerKey'
<1> SUFFICES ASSUME NEW k \in Keys, Holds(Home(0, k), k)', Holds(Home(1, k), k)'
             PROVE  table'[Home(0, k)].node = table'[Home(1, k)].node
  BY DEF OneEntryPerKey
<1> DEFINE h(w) == Home(w, k)
<1>1. /\ h(0) \in Slots /\ h(1) \in Slots /\ h(0)[1] = 0 /\ h(1)[1] = 1 /\ h(0) # h(1)
      /\ table'[h(0)].node # NULL /\ table'[h(1)].node # NULL
      /\ heap'[table'[h(0)].node].key = k /\ heap'[table'[h(1)].node].key = k
  BY HomeType DEF Holds, Home
<1>2. KeysKept /\ Role(t) /\ OneEntryPerKey BY LocalStep DEF OwnerInv, KeyInv
<1>3. \A w \in {0, 1} : MyHome(t, w) \in Slots BY HomeWordType DEF TypeInv
<1>4. CASE table'[h(0)].node = table[h(0)].node /\ table'[h(1)].node = table[h(1)].node
  <2>1. Holds(h(0), k) /\ Holds(h(1), k) BY <1>1, <1>2, <1>4, HoldsKept
  <2>2. QED BY <2>1, <1>2, <1>4 DEF OneEntryPerKey
<1>5. CASE SameNodes BY <1>1, <1>4, <1>5 DEF SameNodes
<1>6. CASE Takes(t)
  <2>1. PICK w \in {0, 1} : Replaced(MyHome(t, w), NULL) BY <1>6 DEF Takes
  <2>2. \A s \in Slots : table'[s].node # NULL => table'[s] = table[s]
    BY <2>1, <1>3, ReplacedWord
  <2>3. QED BY <2>2, <1>1, <1>4
<1>7. CASE Clears(t)
  <2>1. hlp[t].slot \in Slots /\ Replaced(hlp[t].slot, NULL) BY <1>7, HelperFrame DEF Clears
  <2>2. \A s \in Slots : table'[s].node # NULL => table'[s] = table[s]
    BY <2>1, ReplacedWord
  <2>3. QED BY <2>2, <1>1, <1>4
<1>8. CASE Places(t)
  <2>1. Writing(t) BY <1>8 DEF Places, Writing, HomeInv, OwnNode
  <2>2. /\ ~There(t, 0) /\ ~There(t, 1)
        /\ heap[new[t]].key = call[t].key /\ heap' = heap
    BY <2>1, <1>8, PlacesOwn
  <2>3. PICK w \in {0, 1} : Replaced(MyHome(t, w), new[t]) BY <1>8 DEF Places
  <2>4. /\ table'[MyHome(t, w)].node = new[t]
        /\ \A s \in Slots \ {MyHome(t, w)} : table'[s] = table[s]
    BY <2>3, <1>3, ReplacedWord
  <2>5. CASE k = call[t].key
    <3>1. MyHome(t, 0) = h(0) /\ MyHome(t, 1) = h(1) BY <2>5 DEF MyHome
    <3>2. ~Holds(h(0), k) /\ ~Holds(h(1), k) BY <2>2, <2>5, <3>1 DEF There
    <3>3. \A s \in {h(0), h(1)} : table'[s] = table[s] => Holds(s, k) BY <1>1, <1>2, HoldsKept
    <3>4. QED BY <1>1, <2>4, <3>1, <3>2, <3>3
  <2>6. CASE k # call[t].key
    <3>1. MyHome(t, w) # h(0) /\ MyHome(t, w) # h(1) BY <1>1, <2>2, <2>4, <2>6
    <3>2. QED BY <1>1, <1>4, <2>4, <3>1
  <2>7. QED BY <2>5, <2>6
<1>9. CASE Copies(t)
  <2> DEFINE a == hlp[t].slot
             b == HelpDestSlot(t)
             n == table[a].node
  <2>1. MoverKnows(t) /\ pc[t] = "help.copy" /\ Replaced(b, n) /\ n # NULL
    BY <1>9 DEF OwnerInv, Copies
  <2>2. a \in Slots /\ b \in Slots /\ a # b /\ hlp[t].src = n BY <2>1, MoverHolds, HelperFrame
  <2>3. /\ table'[b].node = n /\ \A s \in Slots \ {b} : table'[s] = table[s]
    BY <2>1, <2>2, ReplacedWord
  <2>4. a = Home(a[1], heap[n].key) /\ n <= nalloc
    BY <2>1, <2>2 DEF HomeInv, EntriesHome, Rightful
  <2>5. heap'[n].key = heap[n].key
    <3>1. n \in 0 .. MaxNodes BY <2>2, NodeRange
    <3>2. nalloc \in Nat BY SizeAssumption DEF TypeInv, TypeOK
    <3>3. n \in 1 .. nalloc BY <2>1, <2>4, <3>1, <3>2 DEF NULL
    <3>4. QED BY <3>3, <1>2 DEF KeysKept
  <2>6. a[1] \in {0, 1} BY <2>2, SlotSide
  <2>7. b = Home(1 - a[1], heap[n].key) BY <2>2 DEF HelpDestSlot
  <2>8. b \in {h(0), h(1)} => heap[n].key = k BY <1>1, <2>3, <2>5
  <2>9. b \in {h(0), h(1)} => {a, b} = {h(0), h(1)}
    <3> SUFFICES ASSUME heap[n].key = k PROVE {a, b} = {h(0), h(1)} BY <2>8
    <3>1. a = h(a[1]) /\ b = h(1 - a[1]) BY <2>4, <2>7
    <3>2. CASE a[1] = 0 BY <3>1, <3>2
    <3>3. CASE a[1] = 1 BY <3>1, <3>3
    <3>4. QED BY <2>6, <3>2, <3>3
  <2>10. CASE b \in {h(0), h(1)}
    <3>1. table'[a].node = table'[b].node BY <2>2, <2>3
    <3>2. (a = h(0) /\ b = h(1)) \/ (a = h(1) /\ b = h(0)) BY <2>2, <2>9, <2>10
    <3>3. QED BY <3>1, <3>2
  <2>11. CASE b \notin {h(0), h(1)} BY <2>3, <2>11, <1>1, <1>4
  <2>12. QED BY <2>10, <2>11
<1>10. QED BY <1>5, <1>6, <1>7, <1>8, <1>9, NodesStep

(* A step of a call keeps KeyInv as long as writes are orderly.            *)
LEMMA KeyStep ==
  ASSUME TypeInv, TypeInv', HomeInv, OwnerInv, KeyInv, Orderly, NEW t \in Threads, Step(t)
  PROVE  KeyInv'
<1>1. /\ \A u \in Threads : Role(u)
      /\ MovesAlone /\ Elsewhere(t) /\ Here(t) /\ KeysKept /\ ~Crashed
  BY LocalStep DEF OwnerInv, Orderly, Step
<1>2. Writing(t)' => Writing(t) BY <1>1 DEF Writing, Here
<1>3. Find(t) \/ Insert(t) \/ Remove(t) \/ Relocate(t) =>
        Writing(t) /\ \A u \in Threads : pc[u] \notin HelpLabels
  BY <1>1, StepsWrite, NothingMoves
<1>4. (Writing(t)' => Knows(t)') /\ pc'[t] # "crashed"
  <2>1. CASE Search(t)
    <3>1. ~Writing(t)' BY <1>1, <1>2, <2>1, StepsWrite
    <3>2. pc'[t] # "crashed"
      BY <2>1 DEF Search, SearchRead, SearchRetry, SearchCheck, SearchKey, SearchReread,
         SearchRecount, Probe, Return, Goto, TypeInv, TypeOK
    <3>3. QED BY <3>1, <3>2
  <2>2. CASE Find(t) BY <1>3, <2>2, KnowsFind
  <2>3. CASE Insert(t) \/ Remove(t) \/ Relocate(t)
    <3>1. Writing(t)' => Knows(t)' /\ pc'[t] # "crashed" BY <1>3, <2>3, KnowsCallers
    <3>2. pc'[t] = "crashed" => Writing(t)' BY <1>1, <1>3, <2>3 DEF Writing, Here
    <3>3. QED BY <3>1, <3>2
  <2>4. CASE Help(t)
    <3>1. Writing(t) BY <1>1, <2>4, StepsWrite
    <3>2. QED BY <1>1, <2>4, <3>1, KnowsHelp
  <2>5. QED BY <2>1, <2>2, <2>3, <2>4 DEF Step
<1>5. ASSUME NEW u \in Threads \ {t}, Writing(u)' PROVE Knows(u)'
  <2>1. Writing(u) /\ Knows(u) BY <1>1, <1>5 DEF Writing, Elsewhere, Here, KeyInv, Knows
  <2>2. PICK k \in Keys : k = call[u].key BY HomeWordType DEF TypeInv
  <2>3. KeyStill(k) BY <2>1, <2>2, OthersStill
  <2>4. QED BY <2>1, <2>2, <2>3, <1>1, KnowsKept DEF Knows, Elsewhere, Here
<1>6. NoNullDereference' BY <1>1, <1>4 DEF NoNullDereference, Crashed, Elsewhere
<1>7. RemovesOwnKey'
  <2> SUFFICES ASSUME NEW u \in Threads, pc'[u] = "retire"
               PROVE  RemovedNode(u)' # NULL /\ heap'[RemovedNode(u)'].key = call'[u].key
    BY DEF RemovesOwnKey
  <2>1. CASE u # t
    <3>1. pc[u] = "retire" /\ RemovedNode(u)' = RemovedNode(u) /\ call'[u] = call[u]
      BY <1>1, <2>1 DEF Elsewhere, Here, RemovedNode
    <3>2. RemovedNode(u) # NULL /\ heap[RemovedNode(u)].key = call[u].key
      BY <3>1 DEF KeyInv, RemovesOwnKey
    <3>3. RemovedNode(u) \in 0 .. nalloc BY DEF OwnerInv, NodesKnown, RemovedNode, get_pointer
    <3>4. nalloc \in Nat BY SizeAssumption DEF TypeInv, TypeOK
    <3>5. RemovedNode(u) \in 1 .. nalloc BY <3>2, <3>3, <3>4 DEF NULL
    <3>6. QED BY <3>1, <3>2, <3>5, <1>1 DEF KeysKept
  <2>2. CASE u = t
    <3>1. Find(t) \/ Insert(t) \/ Remove(t) \/ Relocate(t)
      <4>1. ~Search(t)
        BY <2>2 DEF Search, SearchRead, SearchRetry, SearchCheck, SearchKey, SearchReread,
           SearchRecount, Probe, Return, Goto, TypeInv, TypeOK
      <4>2. ~Help(t)
        <5>1. ASSUME Help(t) PROVE FALSE
          <6>1. /\ pc \in [Threads -> Labels] /\ hlp[t].ret \in ReturnLabels
            BY HelperFrame DEF TypeInv, TypeOK
          <6>2. pc'[t] \in HelpLabels \cup {"crashed", hlp[t].ret}
            BY <5>1, <6>1 DEF Help, HelpRead, HelpCheck, HelpMark, HelpRemark, HelpRecheck, HelpDest,
               HelpCheckDest, HelpStable, HelpCopy, HelpClear, HelpUnmark, TestMark, HelpRetry,
               LeaveHelp, Crash, Goto, HelpLabels
          <6>3. QED BY <6>1, <6>2, <2>2 DEF HelpLabels, ReturnLabels
        <5>2. QED BY <5>1
      <4>3. QED BY <4>1, <4>2 DEF Step
    <3>2. Takes(t) BY <1>1, <2>2, <3>1, WriteStep DEF Places
    <3>3. PICK w \in {0, 1} : There(t, w) /\ RemovedNode(t)' = table[MyHome(t, w)].node
      BY <1>1, <1>3, <3>1, <3>2, TakesOwn
    <3>4. /\ table[MyHome(t, w)].node # NULL
          /\ heap[table[MyHome(t, w)].node].key = call[t].key
      BY <3>3 DEF There, Holds
    <3>5. heap' = heap /\ call' = call BY <1>1, <3>2 DEF Takes, Here
    <3>6. QED BY <2>2, <3>3, <3>4, <3>5
  <2>3. QED BY <2>1, <2>2
<1>8. OneEntryPerKey' BY <1>1, OneEntryStep
<1>9. QED BY <1>4, <1>5, <1>6, <1>7, <1>8 DEF KeyInv, Knows

(* The start of a call: nothing is known, nothing is lost.                 *)
LEMMA KeyBegin ==
  ASSUME TypeInv, HomeInv, OwnerInv, KeyInv, ~Crashed, NEW t \in Threads, Begins(t)
  PROVE  KeyInv'
<1>1. /\ UNCHANGED <<table, ptr, side, result, hlp>> /\ KeysKept
      /\ pc[t] = "idle" /\ pc'[t] \in {"search.read", "find.read"}
      /\ \A u \in Threads \ {t} : pc'[u] = pc[u] /\ call'[u] = call[u]
  BY DEF Begins
<1>a. nalloc \in Nat BY SizeAssumption DEF TypeInv, TypeOK
<1>2. OneEntryPerKey'
  <2> SUFFICES ASSUME NEW k \in Keys, Holds(Home(0, k), k)', Holds(Home(1, k), k)'
               PROVE  table'[Home(0, k)].node = table'[Home(1, k)].node
    BY DEF OneEntryPerKey
  <2>1. KeyStill(k) BY <1>1, StillTable
  <2>2. Holds(Home(0, k), k) /\ Holds(Home(1, k), k) BY <2>1 DEF KeyStill
  <2>3. QED BY <2>2, <1>1 DEF KeyInv, OneEntryPerKey
<1>3. RemovesOwnKey'
  <2> SUFFICES ASSUME NEW u \in Threads, pc'[u] = "retire"
               PROVE  RemovedNode(u)' # NULL /\ heap'[RemovedNode(u)'].key = call'[u].key
    BY DEF RemovesOwnKey
  <2>1. u # t BY <1>1
  <2>2. pc[u] = "retire" /\ RemovedNode(u)' = RemovedNode(u) /\ call'[u] = call[u]
    BY <1>1, <2>1 DEF RemovedNode
  <2>3. RemovedNode(u) # NULL /\ heap[RemovedNode(u)].key = call[u].key
    BY <2>2 DEF KeyInv, RemovesOwnKey
  <2>4. RemovedNode(u) \in 0 .. nalloc BY DEF OwnerInv, NodesKnown, RemovedNode, get_pointer
  <2>5. RemovedNode(u) \in 1 .. nalloc BY <1>a, <2>3, <2>4 DEF NULL
  <2>6. QED BY <2>2, <2>3, <2>5, <1>1 DEF KeysKept
<1>4. NoNullDereference' BY <1>1 DEF NoNullDereference, Crashed
<1>5. ASSUME NEW u \in Threads, Writing(u)' PROVE Knows(u)'
  <2>1. CASE u = t
    <3>1. pc'[t] = "find.read" \/ pc'[t] = "search.read" BY <1>1
    <3>2. result'[t] = "unset" BY <1>1 DEF OwnerInv, Role
    <3>3. FindKnows(t)' BY <3>1, <3>2 DEF FindKnows, Comparing, FindLabels
    <3>4. CallerKnows(t)' BY <3>1 DEF CallerKnows
    <3>5. RelocateKnows(t)' BY <3>1 DEF RelocateKnows, PathLabels, MoveLabels, HelpLabels
    <3>6. QED BY <2>1, <3>3, <3>4, <3>5 DEF Knows
  <2>2. CASE u # t
    <3>1. Writing(u) /\ Knows(u) BY <1>1, <1>5, <2>2 DEF Writing, KeyInv, Knows
    <3>2. PICK k \in Keys : k = call[u].key BY HomeWordType DEF TypeInv
    <3>3. KeyStill(k) BY <1>1, StillTable
    <3>4. QED BY <1>1, <2>2, <3>1, <3>2, <3>3, KnowsKept DEF Knows
  <2>3. QED BY <2>1, <2>2
<1>6. QED BY <1>2, <1>3, <1>4, <1>5 DEF KeyInv, Knows

(* Preloaded entries have different keys.                                  *)
LEMMA KeyInit == Init => KeyInv
<1> SUFFICES ASSUME Init PROVE KeyInv OBVIOUS
<1>1. \A t \in Threads : pc[t] = "idle" BY DEF Init
<1>2. OneEntryPerKey
  <2> SUFFICES ASSUME NEW k \in Keys, Holds(Home(0, k), k), Holds(Home(1, k), k)
               PROVE  table[Home(0, k)].node = table[Home(1, k)].node
    BY DEF OneEntryPerKey
  <2>1. \A w \in {0, 1} : /\ table[Home(w, k)].node \in 1 .. Len(Preload)
                          /\ Preload[table[Home(w, k)].node].key = k
    <3> SUFFICES ASSUME NEW w \in {0, 1}
                 PROVE  /\ table[Home(w, k)].node \in 1 .. Len(Preload)
                        /\ Preload[table[Home(w, k)].node].key = k
      OBVIOUS
    <3>1. /\ Home(w, k) \in Slots /\ table[Home(w, k)].node # NULL
          /\ heap[table[Home(w, k)].node].key = k
      BY HomeType DEF Holds
    <3> DEFINE n == table[Home(w, k)].node
    <3>2. /\ n \in 1 .. Len(Preload)
          /\ heap[n] = [key |-> Preload[n].key, val |-> Preload[n].val]
      BY <3>1, PreloadNode
    <3>3. heap[n].key = Preload[n].key BY <3>2
    <3>4. QED BY <3>1, <3>2, <3>3
  <2>2. QED BY <2>1, PreloadAssumption
<1>3. QED BY <1>1, <1>2 DEF KeyInv, RemovesOwnKey, NoNullDereference, Crashed, Writing

(* KeyInv is inductive as long as writes are orderly.                      *)
LEMMA KeyNext ==
  TypeInv /\ TypeInv' /\ HomeInv /\ OwnerInv /\ KeyInv /\ Orderly /\ [Next]_vars => KeyInv'
<1> SUFFICES ASSUME TypeInv, TypeInv', HomeInv, OwnerInv, KeyInv, Orderly, [Next]_vars
             PROVE  KeyInv'
  OBVIOUS
<1>1. ASSUME NEW t \in Threads, Step(t) PROVE KeyInv' BY <1>1, KeyStep
<1>2. ASSUME NEW t \in Threads, Invoke(t), ~Crashed PROVE KeyInv' BY <1>2, InvokeBegins, KeyBegin
<1>3. CASE UNCHANGED vars
  <2>1. OneEntryPerKey' /\ RemovesOwnKey' /\ NoNullDereference'
    BY <1>3 DEF KeyInv, OneEntryPerKey, RemovesOwnKey, NoNullDereference, Crashed, RemovedNode,
                Holds, vars, shared, client, probe
  <2>2. ASSUME NEW t \in Threads PROVE Writing(t)' => Knows(t)'
    <3>1. /\ Writing(t)' <=> Writing(t)
          /\ \A w : (There(t, w)' <=> There(t, w)) /\ (Sees(t, w)' <=> Sees(t, w))
                    /\ (Matched(t, w)' <=> Matched(t, w))
      BY <1>3 DEF Writing, There, Sees, Matched, Holds, MyHome, vars, shared, client, probe
    <3>2. Knows(t)' <=> Knows(t)
      BY <1>3, <3>1 DEF Knows, FindKnows, CallerKnows, RelocateKnows, vars, client, probe
    <3>3. QED BY <3>1, <3>2 DEF KeyInv, Knows
  <2>3. QED BY <2>1, <2>2 DEF KeyInv, Knows
<1>4. QED BY <1>1, <1>2, <1>3 DEF Next, Stopped

(* Until two writes of a key overlap, or somebody writes while an entry is *)
(* being moved, find says what is there (lines 140-225).                   *)
THEOREM KeysKnown == Spec /\ []Orderly => [](TypeInv /\ HomeInv /\ OwnerInv /\ KeyInv)
<1>1. Orderly => MovesAlone BY DEF Orderly
<1>2. QED BY <1>1, OwnersKnown, KeyInit, KeyNext, PTL DEF Spec

(* Then a key has one entry, the one being moved apart (lines 140-225,     *)
(* 345, 442-461),                                                          *)
THEOREM KeysHaveOneEntry == Spec /\ []Orderly => []OneEntryPerKey
<1>1. KeyInv => OneEntryPerKey BY DEF KeyInv
<1>2. QED BY <1>1, KeysKnown, PTL

(* remove retires an entry of its own key (lines 466-498),                 *)
THEOREM KeysRemovedAreOwn == Spec /\ []Orderly => []RemovesOwnKey
<1>1. KeyInv => RemovesOwnKey BY DEF KeyInv
<1>2. QED BY <1>1, KeysKnown, PTL

(* and no call dereferences a null pointer (lines 327, 372, 440).          *)
THEOREM NothingNullDereferenced == Spec /\ []Orderly => []NoNullDereference
<1>1. KeyInv => NoNullDereference BY DEF KeyInv
<1>2. QED BY <1>1, KeysKnown, PTL

-----------------------------------------------------------------------------
(* Entries: what a search for a key would find.                            *)

(* Node n is an entry of key k.                                            *)
Stands(k, n) == n # NULL /\ heap[n].key = k /\ \E w \in {0, 1} : table[Home(w, k)].node = n

(* As long as a key has one entry, that is the one.                        *)
LEMMA EntryIs ==
  ASSUME NEW k \in Keys
  PROVE  /\ OneEntryPerKey => \A n : Stands(k, n) <=> n # NULL /\ EntryOf(k) = n
         /\ OneEntryPerKey' => \A n : Stands(k, n)' <=> n # NULL /\ EntryOf(k)' = n
<1>1. ASSUME OneEntryPerKey, NEW n PROVE Stands(k, n) <=> n # NULL /\ EntryOf(k) = n
  BY <1>1 DEF OneEntryPerKey, Stands, EntryOf, Holds
<1>2. ASSUME OneEntryPerKey', NEW n PROVE Stands(k, n)' <=> n # NULL /\ EntryOf(k)' = n
  BY <1>2 DEF OneEntryPerKey, Stands, EntryOf, Holds
<1>3. QED BY <1>1, <1>2

(* A key keeps its entry, and the entry its value.                         *)
SameEntry(k) ==
  /\ EntryOf(k)' = EntryOf(k)
  /\ EntryOf(k) # NULL => heap'[EntryOf(k)].val = heap[EntryOf(k)].val

LEMMA SameStands ==
  ASSUME OneEntryPerKey, OneEntryPerKey', NEW k \in Keys,
         \A n : Stands(k, n)' <=> Stands(k, n),
         \A n : Stands(k, n) => heap'[n].val = heap[n].val
  PROVE  SameEntry(k)
<1>1. \A n : n # NULL => (EntryOf(k)' = n <=> EntryOf(k) = n) BY EntryIs
<1>2. EntryOf(k)' = EntryOf(k) BY <1>1
<1>3. EntryOf(k) # NULL => heap'[EntryOf(k)].val = heap[EntryOf(k)].val BY EntryIs
<1>4. QED BY <1>2, <1>3 DEF SameEntry

(* An entry that is moved stays the entry of its key.                      *)
LEMMA MoveEntry ==
  ASSUME TypeInv, TypeInv', HomeInv, OwnerInv, OneEntryPerKey, OneEntryPerKey', UNCHANGED heap,
         NEW t \in Threads, SameNodes \/ Copies(t) \/ Clears(t), NEW k \in Keys
  PROVE  SameEntry(k)
<1> DEFINE a == hlp[t].slot
           b == HelpDestSlot(t)
           n == table[a].node
<1>1. Home(0, k) \in Slots /\ Home(1, k) \in Slots BY HomeType
<1>2. CASE SameNodes
  <2>1. \A m : Stands(k, m)' <=> Stands(k, m) BY <1>1, <1>2 DEF SameNodes, Stands
  <2>2. QED BY <2>1, SameStands
<1>3. CASE Copies(t) \/ Clears(t)
  <2>1. /\ MoverKnows(t) /\ pc[t] \in {"help.copy", "help.clear"}
    BY <1>3 DEF Copies, Clears, OwnerInv
  <2>2. a \in Slots /\ b \in Slots /\ a # b /\ hlp[t].src = n /\ n # NULL
    BY <2>1, MoverHolds, HelperFrame
  <2>3. a = Home(a[1], heap[n].key) /\ b = Home(1 - a[1], heap[n].key)
    BY <2>2 DEF HomeInv, EntriesHome, Rightful, HelpDestSlot
  <2>4. a[1] \in {0, 1} /\ 1 - a[1] \in {0, 1} BY <2>2, SlotSide
  <2>5. CASE Copies(t)
    <3>1. table[b].node = NULL /\ Replaced(b, n) BY <2>5 DEF Copies
    <3>2. table'[b].node = n /\ \A s \in Slots \ {b} : table'[s] = table[s]
      BY <2>2, <3>1, ReplacedWord
    <3>3. ASSUME NEW m, Stands(k, m) PROVE Stands(k, m)'
      BY <1>1, <3>1, <3>2, <3>3 DEF Stands
    <3>4. ASSUME NEW m, Stands(k, m)' PROVE Stands(k, m)
      <4>1. PICK w \in {0, 1} : table'[Home(w, k)].node = m BY <3>4 DEF Stands
      <4>2. m # NULL /\ heap[m].key = k BY <3>4 DEF Stands
      <4>3. CASE Home(w, k) = b
        <5>1. m = n BY <4>1, <4>3, <3>2
        <5>2. a = Home(a[1], k) BY <2>3, <4>2, <5>1
        <5>3. QED BY <2>4, <4>2, <5>1, <5>2 DEF Stands
      <4>4. CASE Home(w, k) # b BY <1>1, <3>2, <4>1, <4>2, <4>4 DEF Stands
      <4>5. QED BY <4>3, <4>4
    <3>5. QED BY <3>3, <3>4, SameStands
  <2>6. CASE Clears(t)
    <3>1. table[b].node = n /\ Replaced(a, NULL) BY <2>6 DEF Clears
    <3>2. table'[a].node = NULL /\ \A s \in Slots \ {a} : table'[s] = table[s]
      BY <2>2, <3>1, ReplacedWord
    <3>3. ASSUME NEW m, Stands(k, m)' PROVE Stands(k, m)
      BY <1>1, <3>1, <3>2, <3>3 DEF Stands
    <3>4. ASSUME NEW m, Stands(k, m) PROVE Stands(k, m)'
      <4>1. PICK w \in {0, 1} : table[Home(w, k)].node = m BY <3>4 DEF Stands
      <4>2. m # NULL /\ heap[m].key = k BY <3>4 DEF Stands
      <4>3. CASE Home(w, k) = a
        <5>1. m = n BY <4>1, <4>3
        <5>2. b = Home(1 - a[1], k) BY <2>3, <4>2, <5>1
        <5>3. table'[b].node = m BY <2>2, <3>1, <3>2, <5>1
        <5>4. QED BY <2>4, <4>2, <5>2, <5>3 DEF Stands
      <4>4. CASE Home(w, k) # a BY <1>1, <3>2, <4>1, <4>2, <4>4 DEF Stands
      <4>5. QED BY <4>3, <4>4
    <3>5. QED BY <3>3, <3>4, SameStands
  <2>7. QED BY <1>3, <2>5, <2>6
<1>4. QED BY <1>2, <1>3

(* A step of a call answers when it returns, and "stored" only from insert.*)
LEMMA AnswerStep ==
  ASSUME TypeInv, NEW t \in Threads, Step(t), Role(t)
  PROVE  /\ \A u \in Threads \ {t} : out'[u] = out[u]
         /\ (pc'[t] = "idle" /\ out'[t].kind = "stored") =>
              pc[t] = "insert" /\ (InsertUpdate(t) \/ \E w \in {0, 1} : InsertPlace(t, w))
<1> USE DEF Return, Probe, Goto, Outcome
<1>0. /\ out \in [Threads -> [kind : OutcomeKinds, val : Vals]] /\ pc \in [Threads -> Labels]
      /\ call[t].op \in {"search", "insert", "remove"} /\ hlp[t].ret \in ReturnLabels
  BY DEF TypeInv, TypeOK, Call, HelpFrame
<1>1. CASE Search(t)
  BY <1>0, <1>1 DEF Search, SearchRead, SearchRetry, SearchCheck, SearchKey, SearchReread,
     SearchRecount, client
<1>2. CASE Find(t)
  <2>1. UNCHANGED out /\ pc'[t] # "idle"
    BY <1>0, <1>2 DEF Find, FindRead, FindRetry, FindHelp, FindCheck, FindKey, FindReread,
       FindRecount, DelDupCheck, DelDupCheckSecond, DelDup, RetryFind, LeaveFind, EnterHelp, Crash,
       client
  <2>2. QED BY <2>1
<1>3. CASE InsertUpdate(t) BY <1>0, <1>3 DEF InsertUpdate, client, Crash
<1>4. ASSUME NEW w \in {0, 1}, InsertPlace(t, w)
      PROVE  /\ pc[t] = "insert" /\ \A u \in Threads \ {t} : out'[u] = out[u]
  BY <1>0, <1>4 DEF InsertPlace, client
<1>5. CASE InsertRelocate(t) \/ InsertDrop(t)
  BY <1>0, <1>5 DEF InsertRelocate, InsertDrop, StartRelocate, client
<1>6. CASE Remove(t)
  BY <1>0, <1>6 DEF Remove, RemoveAbsent, RemoveRecheck, RemoveUnlink, Retire, StartFind, client
<1>7. CASE Relocate(t)
  <2>1. UNCHANGED out /\ pc'[t] # "idle"
    BY <1>0, <1>7 DEF Relocate, PathRead, PathCheck, PathKey, MoveDone, MoveRead, MoveReread,
       MoveDest, StartRelocate, StartFind, EnterHelp, client
  <2>2. QED BY <2>1
<1>8. CASE Help(t)
  <2>1. UNCHANGED out
    BY <1>8 DEF Help, HelpRead, HelpCheck, HelpMark, HelpRemark, HelpRecheck, HelpDest,
       HelpCheckDest, HelpStable, HelpCopy, HelpClear, HelpUnmark, client
  <2>2. pc'[t] # "idle"
    <3>1. pc[t] \in HelpLabels BY <1>8, StepsWrite
    <3>2. hlp[t].ret # "idle" BY <3>1 DEF Role
    <3>3. pc'[t] \in HelpLabels \cup {"crashed", hlp[t].ret}
      BY <1>0, <1>8 DEF Help, HelpRead, HelpCheck, HelpMark, HelpRemark, HelpRecheck, HelpDest,
         HelpCheckDest, HelpStable, HelpCopy, HelpClear, HelpUnmark, TestMark, HelpRetry,
         LeaveHelp, Crash, HelpLabels
    <3>4. QED BY <3>2, <3>3 DEF HelpLabels
  <2>3. QED BY <2>1, <2>2
<1>9. QED BY <1>1, <1>2, <1>3, <1>4, <1>5, <1>6, <1>7, <1>8 DEF Step, Insert

(* The three kinds of steps: the one that stores, the one that unlinks and *)
(* the others.                                                             *)
Stores(t) ==
  /\ pc[t] = "insert" /\ pc'[t] = "idle" /\ out'[t] = Outcome("stored", call[t].val)
  /\ \A k \in Keys :
       IF k = call[t].key
       THEN EntryOf(k)' # NULL /\ heap'[EntryOf(k)'].val = call[t].val
       ELSE SameEntry(k)

Unlinks(t) ==
  /\ pc[t] \in {"remove", "remove.second"} /\ pc'[t] = "retire"
  /\ \A k \in Keys :
       IF k = call[t].key THEN EntryOf(k) # NULL /\ EntryOf(k)' = NULL ELSE SameEntry(k)

Keeps(t) ==
  /\ pc'[t] # "retire" /\ ~(pc'[t] = "idle" /\ out'[t].kind = "stored")
  /\ \A k \in Keys : SameEntry(k)

(* While table and heap stay, so do the entries.                           *)
LEMMA EntriesStay ==
  ASSUME UNCHANGED <<table, heap>>
  PROVE  \A k \in Keys : SameEntry(k)
BY DEF SameEntry, EntryOf, Holds

(* insert finds its key and writes the value into its entry.               *)
LEMMA UpdateStores ==
  ASSUME TypeInv, KeyInv, OneEntryPerKey', NEW t \in Threads, Writing(t), InsertUpdate(t)
  PROVE  Stores(t)
<1> DEFINE w == IF result[t] = "FIRST" THEN 0 ELSE 1
<1>1. pc[t] = "insert" /\ result[t] \in {"FIRST", "SECOND"} /\ w \in {0, 1}
  BY DEF InsertUpdate
<1>a. PICK n : n = table[MyHome(t, w)].node OBVIOUS
<1>2. There(t, w) /\ ptr[t][w] = table[MyHome(t, w)] BY <1>1 DEF KeyInv, CallerKnows, Sees
<1>3. n # NULL /\ heap[n].key = call[t].key BY <1>a, <1>2 DEF There, Holds
<1>4. n \in Nodes
  <2>1. MyHome(t, w) \in Slots BY <1>1, HomeWordType DEF TypeInv
  <2>2. table[MyHome(t, w)].node \in 0 .. MaxNodes BY <2>1, NodeRange
  <2>3. QED BY <2>2, <1>a, <1>3, SizeAssumption DEF Nodes, NULL
<1>5. /\ heap' = [heap EXCEPT ![n].val = call[t].val] /\ table' = table
      /\ Return(t, Outcome("stored", call[t].val))
  BY <1>1, <1>a, <1>2, <1>3 DEF InsertUpdate, get_pointer
<1>6. /\ heap'[n].val = call[t].val /\ \A m \in Nodes : m # n => heap'[m] = heap[m]
      /\ \A m \in Nodes : heap'[m].key = heap[m].key
  <2>1. heap \in [Nodes -> [key : Keys, val : Vals]] BY DEF TypeInv, TypeOK
  <2>2. QED BY <1>4, <1>5, <2>1
<1>7. pc'[t] = "idle" /\ out'[t] = Outcome("stored", call[t].val)
  BY <1>5 DEF Return, Probe, Goto, TypeInv, TypeOK
<1>8. ASSUME NEW k \in Keys, NEW m
      PROVE  (Stands(k, m) => m \in Nodes) /\ (Stands(k, m)' <=> Stands(k, m))
  <2>1. \A v \in {0, 1} : table[Home(v, k)].node \in Nodes \cup {NULL}
    BY NodeRange, HomeType, SizeAssumption DEF Nodes, NULL
  <2>2. m \in Nodes => (Stands(k, m)' <=> Stands(k, m)) BY <1>5, <1>6 DEF Stands
  <2>3. QED BY <2>1, <2>2, <1>5 DEF Stands
<1>9. ASSUME NEW k \in Keys, k # call[t].key PROVE SameEntry(k)
  <2>1. \A m : Stands(k, m) => m # n /\ m \in Nodes BY <1>3, <1>8, <1>9 DEF Stands
  <2>2. QED BY <2>1, <1>6, <1>8, SameStands DEF KeyInv
<1>10. ASSUME NEW k \in Keys, k = call[t].key
       PROVE  EntryOf(k)' # NULL /\ heap'[EntryOf(k)'].val = call[t].val
  <2>1. Stands(k, n) BY <1>1, <1>a, <1>3, <1>10 DEF Stands, MyHome
  <2>2. Stands(k, n)' BY <2>1, <1>8
  <2>3. EntryOf(k)' = n BY <2>2, EntryIs
  <2>4. QED BY <2>3, <1>3, <1>6
<1>11. QED BY <1>1, <1>7, <1>9, <1>10 DEF Stores

(* insert finds its key absent and places its node.                        *)
LEMMA PlacingStores ==
  ASSUME TypeInv, HomeInv, OwnerInv, KeyInv, OwnValue, OneEntryPerKey', NEW t \in Threads,
         Writing(t), NEW w \in {0, 1}, InsertPlace(t, w), pc'[t] = "idle", Places(t)
  PROVE  Stores(t)
<1>a. PICK n : n = new[t] OBVIOUS
<1>1. /\ ~There(t, 0) /\ ~There(t, 1) /\ heap[n].key = call[t].key /\ heap' = heap
  BY <1>a, PlacesOwn
<1>2. PICK v \in {0, 1} : table[MyHome(t, v)].node = NULL /\ Replaced(MyHome(t, v), n)
  BY <1>a DEF Places
<1>3. \A u \in {0, 1} : MyHome(t, u) \in Slots BY HomeWordType DEF TypeInv
<1>4. /\ table'[MyHome(t, v)].node = n
      /\ \A s \in Slots \ {MyHome(t, v)} : table'[s] = table[s]
  BY <1>2, <1>3, ReplacedWord
<1>5. call[t].op = "insert" /\ pc[t] = "insert" BY DEF Places, OwnerInv, Role
<1>6. n # NULL /\ heap[n].val = call[t].val
  <2>1. n \in 1 .. nalloc BY <1>a, <1>5 DEF HomeInv, OwnNode
  <2>2. QED BY <2>1, <1>a, <1>5 DEF NULL, OwnValue
<1>7. out'[t] = Outcome("stored", call[t].val)
  BY DEF InsertPlace, StartFind, Return, Probe, Goto, TypeInv, TypeOK
<1>8. \A k \in Keys : Home(0, k) \in Slots /\ Home(1, k) \in Slots BY HomeType
<1>9. ASSUME NEW k \in Keys, k # call[t].key PROVE SameEntry(k)
  <2>1. \A m : Stands(k, m) => m # n BY <1>1, <1>9 DEF Stands
  <2>2. \A m : Stands(k, m)' => m # n BY <1>1, <1>9 DEF Stands
  <2>3. \A m : Stands(k, m)' <=> Stands(k, m)
    BY <2>1, <2>2, <1>1, <1>2, <1>4, <1>8 DEF Stands
  <2>4. QED BY <2>3, <1>1, SameStands DEF KeyInv
<1>10. ASSUME NEW k \in Keys, k = call[t].key
       PROVE  EntryOf(k)' # NULL /\ heap'[EntryOf(k)'].val = call[t].val
  <2>1. Stands(k, n)'
    <3>1. MyHome(t, v) = Home(v, k) BY <1>10 DEF MyHome
    <3>2. QED BY <3>1, <1>1, <1>4, <1>6, <1>10 DEF Stands, Places
  <2>2. EntryOf(k)' = n BY <2>1, EntryIs
  <2>3. QED BY <2>2, <1>1, <1>6
<1>11. QED BY <1>5, <1>7, <1>9, <1>10 DEF Stores

(* remove takes the entry of its key.                                      *)
LEMMA TakingUnlinks ==
  ASSUME TypeInv, HomeInv, OwnerInv, KeyInv, OneEntryPerKey', NEW t \in Threads,
         \A u \in Threads : pc[u] \notin HelpLabels, Writing(t), Takes(t)
  PROVE  Unlinks(t)
<1>1. PICK w \in {0, 1} : /\ There(t, w) /\ (w = 1 => ~There(t, 0))
                          /\ Replaced(MyHome(t, w), NULL) /\ pc'[t] = "retire"
  BY TakesOwn DEF OwnerInv
<1>2. \A v \in {0, 1} : v # w => ~There(t, v) BY <1>1, OneHome
<1>3. \A u \in {0, 1} : MyHome(t, u) \in Slots BY HomeWordType DEF TypeInv
<1>4. /\ table'[MyHome(t, w)].node = NULL
      /\ \A s \in Slots \ {MyHome(t, w)} : table'[s] = table[s]
  BY <1>1, <1>3, ReplacedWord
<1>5. heap' = heap /\ pc[t] \in {"remove", "remove.second"} BY DEF Takes, KeyInv, FindKnows
<1>6. \A k \in Keys : Home(0, k) \in Slots /\ Home(1, k) \in Slots BY HomeType
<1>7. ASSUME NEW k \in Keys, k # call[t].key PROVE SameEntry(k)
  <2>1. ~Holds(MyHome(t, w), k) BY <1>1, <1>7 DEF There, Holds
  <2>2. \A m : Stands(k, m)' <=> Stands(k, m)
    BY <2>1, <1>3, <1>4, <1>5, <1>6 DEF Stands, Holds
  <2>3. QED BY <2>2, <1>5, SameStands DEF KeyInv
<1>8. ASSUME NEW k \in Keys, k = call[t].key PROVE EntryOf(k) # NULL /\ EntryOf(k)' = NULL
  <2>1. \A v \in {0, 1} : MyHome(t, v) = Home(v, k) BY <1>8 DEF MyHome
  <2>2. Stands(k, table[Home(w, k)].node) BY <1>1, <1>8, <2>1 DEF There, Holds, Stands
  <2>3. EntryOf(k) # NULL BY <2>2, EntryIs DEF KeyInv
  <2>4. ~Holds(Home(0, k), k)' /\ ~Holds(Home(1, k), k)'
    <3> SUFFICES ASSUME NEW v \in {0, 1} PROVE ~Holds(Home(v, k), k)' OBVIOUS
    <3>1. CASE v = w BY <3>1, <1>4, <2>1 DEF Holds
    <3>2. CASE v # w
      <4>1. ~Holds(Home(v, k), k) BY <3>2, <1>2, <1>8, <2>1 DEF There
      <4>2. Home(v, k) # Home(w, k) BY <3>2 DEF Home
      <4>3. table'[Home(v, k)] = table[Home(v, k)] BY <4>2, <1>3, <1>4, <2>1
      <4>4. QED BY <4>1, <4>3, <1>5 DEF Holds
    <3>3. QED BY <3>1, <3>2
  <2>5. EntryOf(k)' = NULL BY <2>4 DEF EntryOf
  <2>6. QED BY <2>3, <2>5
<1>9. QED BY <1>1, <1>5, <1>7, <1>8 DEF Unlinks

(* Every step of a call is of one of the three kinds, and if it writes to a*)
(* node, then to one that stands in the table and stays there.             *)
LEMMA EntryStep ==
  ASSUME TypeInv, TypeInv', HomeInv, OwnerInv, KeyInv, KeyInv', OwnValue, Orderly,
         NEW t \in Threads, Step(t)
  PROVE  /\ Stores(t) \/ Unlinks(t) \/ Keeps(t)
         /\ \/ heap' = heap
            \/ /\ table' = table
               /\ \E s \in Slots : \A m \in Nodes : m # table[s].node => heap'[m] = heap[m]
<1> DEFINE Goal == /\ Stores(t) \/ Unlinks(t) \/ Keeps(t)
                   /\ \/ heap' = heap
                      \/ /\ table' = table
                         /\ \E s \in Slots :
                              \A m \in Nodes : m # table[s].node => heap'[m] = heap[m]
<1>1. /\ \A u \in Threads : Role(u)
      /\ MovesAlone /\ OneEntryPerKey /\ OneEntryPerKey'
  BY DEF OwnerInv, Orderly, KeyInv
<1>2. Find(t) \/ Insert(t) \/ Remove(t) \/ Relocate(t) =>
        Writing(t) /\ \A u \in Threads : pc[u] \notin HelpLabels
  BY <1>1, StepsWrite, NothingMoves
<1>3. ASSUME UNCHANGED <<table, heap>>, pc'[t] # "retire",
             pc'[t] = "idle" => out'[t].kind # "stored"
      PROVE  Goal
  BY <1>3, EntriesStay, SomeSlot DEF Keeps
<1>4. (pc'[t] = "idle" /\ out'[t].kind = "stored") =>
         InsertUpdate(t) \/ \E w \in {0, 1} : InsertPlace(t, w)
  BY <1>1, AnswerStep
<1>5. CASE Search(t)
  <2>1. UNCHANGED <<table, heap>>
    BY <1>5 DEF Search, SearchRead, SearchRetry, SearchCheck, SearchKey, SearchReread,
       SearchRecount, shared
  <2>2. pc[t] \in SearchLabels /\ pc'[t] # "retire"
    BY <1>5 DEF Search, SearchRead, SearchRetry, SearchCheck, SearchKey, SearchReread,
       SearchRecount, Probe, Return, Goto, TypeInv, TypeOK, SearchLabels
  <2>3. ~InsertUpdate(t) /\ ~\E w \in {0, 1} : InsertPlace(t, w)
    BY <2>2 DEF InsertUpdate, InsertPlace, SearchLabels
  <2>4. QED BY <2>1, <2>2, <2>3, <1>3, <1>4
<1>6. CASE Find(t)
  <2>1. UNCHANGED table /\ pc'[t] # "retire" BY <1>2, <1>6, KnowsFind
  <2>2. UNCHANGED heap
    BY <1>6 DEF Find, FindRead, FindRetry, FindHelp, FindCheck, FindKey, FindReread, FindRecount,
       DelDupCheck, DelDupCheckSecond, DelDup, shared
  <2>3. pc[t] \in FindLabels
    BY <1>6 DEF Find, FindRead, FindRetry, FindHelp, FindCheck, FindKey, FindReread, FindRecount,
       DelDupCheck, DelDupCheckSecond, DelDup, FindLabels
  <2>4. ~InsertUpdate(t) /\ ~\E w \in {0, 1} : InsertPlace(t, w)
    BY <2>3 DEF InsertUpdate, InsertPlace, FindLabels
  <2>5. QED BY <2>1, <2>2, <2>4, <1>3, <1>4
<1>7. CASE InsertUpdate(t)
  <2>1. Stores(t) BY <1>1, <1>2, <1>7, UpdateStores DEF Insert
  <2> DEFINE w == IF result[t] = "FIRST" THEN 0 ELSE 1
  <2>2. pc[t] = "insert" /\ result[t] \in {"FIRST", "SECOND"} /\ w \in {0, 1}
    BY <1>7 DEF InsertUpdate
  <2>3. Writing(t) BY <1>2, <1>7 DEF Insert
  <2>4. ptr[t][w] = table[MyHome(t, w)] BY <2>2, <2>3 DEF KeyInv, CallerKnows, Sees
  <2>5. MyHome(t, w) \in Slots BY <2>2, HomeWordType DEF TypeInv
  <2>6. \A m \in Nodes : m # table[MyHome(t, w)].node => heap'[m] = heap[m]
    <3>1. PICK n : n = table[MyHome(t, w)].node OBVIOUS
    <3>2. heap' = heap \/ heap' = [heap EXCEPT ![n].val = call[t].val]
      BY <1>7, <2>2, <2>4, <3>1 DEF InsertUpdate, get_pointer
    <3>3. heap \in [Nodes -> [key : Keys, val : Vals]] BY DEF TypeInv, TypeOK
    <3>4. \A m \in Nodes : m # n => heap'[m] = heap[m] BY <3>2, <3>3
    <3>5. QED BY <3>1, <3>4
  <2>7. table' = table BY <1>7 DEF InsertUpdate
  <2>8. QED BY <2>1, <2>5, <2>6, <2>7
<1>8. ASSUME NEW w \in {0, 1}, InsertPlace(t, w) PROVE Goal
  <2>1. heap' = heap /\ pc[t] = "insert" /\ pc'[t] # "retire"
    BY <1>8 DEF InsertPlace, StartFind, Return, Probe, Goto, TypeInv, TypeOK
  <2>2. CASE Places(t)
    <3>1. pc'[t] = "idle" BY <2>2 DEF Places
    <3>2. Stores(t) BY <1>1, <1>2, <1>8, <2>2, <3>1, PlacingStores DEF Insert
    <3>3. QED BY <3>2, <2>1, SomeSlot
  <2>3. CASE ~Places(t)
    <3>1. UNCHANGED table BY <1>1, <1>8, <2>1, <2>3, WriteStep DEF Insert, Takes
    <3>2. pc'[t] # "idle"
      <4> SUFFICES ASSUME pc'[t] = "idle" PROVE Places(t) BY <2>3
      <4>1. /\ result[t] = "NIL" /\ table[MyHome(t, w)] = ptr[t][w]
            /\ table[MyHome(t, w)].node = NULL /\ out'[t].kind = "stored"
            /\ table' = [table EXCEPT ![MyHome(t, w)] =
                            make_pointer(new[t], get_counter(ptr[t][w]))]
        BY <1>8 DEF InsertPlace, StartFind, Return, Probe, Goto, TypeInv, TypeOK, CAS, get_pointer,
           Outcome
      <4>2. /\ MyHome(t, w) \in Slots /\ get_counter(ptr[t][w]) \in Nat
        BY HomeWordType, PartsType DEF TypeInv
      <4>3. new[t] \in 0 .. MaxNodes BY DEF TypeInv, TypeOK
      <4>4. Replaced(MyHome(t, w), new[t]) BY <4>1, <4>2, <4>3, PointerWord
      <4>5. QED BY <2>1, <4>1, <4>4 DEF Places
    <3>3. QED BY <2>1, <3>1, <3>2, <1>3
  <2>4. QED BY <2>2, <2>3
<1>9. CASE InsertRelocate(t) \/ InsertDrop(t)
  <2>1. UNCHANGED <<table, heap>> /\ pc'[t] # "retire"
    BY <1>9 DEF InsertRelocate, InsertDrop, StartRelocate, Return, Probe, Goto, TypeInv, TypeOK,
       shared
  <2>2. pc'[t] = "idle" => out'[t].kind # "stored"
    BY <1>9 DEF InsertRelocate, InsertDrop, StartRelocate, Return, Probe, Goto, TypeInv, TypeOK,
       Outcome
  <2>3. QED BY <2>1, <2>2, <1>3
<1>10. CASE Remove(t)
  <2>1. heap' = heap
    BY <1>10 DEF Remove, RemoveAbsent, RemoveRecheck, RemoveUnlink, Retire, shared
  <2>2. CASE Takes(t)
    <3>1. Unlinks(t) BY <1>1, <1>2, <1>10, <2>2, TakingUnlinks
    <3>2. QED BY <3>1, <2>1, SomeSlot
  <2>3. CASE ~Takes(t)
    <3>1. pc[t] # "insert"
      BY <1>10 DEF Remove, RemoveAbsent, RemoveRecheck, RemoveUnlink, Retire
    <3>2. UNCHANGED table /\ pc'[t] # "retire" BY <1>1, <1>10, <2>3, <3>1, WriteStep DEF Places
    <3>3. ~InsertUpdate(t) /\ ~\E w \in {0, 1} : InsertPlace(t, w)
      BY <3>1 DEF InsertUpdate, InsertPlace
    <3>4. QED BY <2>1, <3>2, <3>3, <1>3, <1>4
  <2>4. QED BY <2>2, <2>3
<1>11. CASE Relocate(t)
  <2>1. UNCHANGED table BY <1>11, LocalRelocate
  <2>2. pc[t] \in PathLabels \cup MoveLabels /\ heap' = heap
    BY <1>11 DEF Relocate, PathRead, PathCheck, PathKey, MoveDone, MoveRead, MoveReread, MoveDest,
       PathLabels, MoveLabels, shared
  <2>3. ~InsertUpdate(t) /\ ~\E w \in {0, 1} : InsertPlace(t, w)
    BY <2>2 DEF InsertUpdate, InsertPlace, PathLabels, MoveLabels
  <2>4. ~Takes(t) /\ ~Places(t) BY <2>2 DEF Takes, Places, PathLabels, MoveLabels
  <2>5. pc'[t] # "retire" BY <1>1, <1>11, <2>4, WriteStep
  <2>6. QED BY <2>1, <2>2, <2>3, <2>5, <1>3, <1>4
<1>12. CASE Help(t)
  <2>1. pc[t] \in HelpLabels /\ Role(t) BY <1>1, <1>12, StepsWrite
  <2>2. SameNodes \/ Copies(t) \/ Clears(t) BY <1>1, <1>12, MoverStep
  <2>3. heap' = heap
    BY <1>12 DEF Help, HelpRead, HelpCheck, HelpMark, HelpRemark, HelpRecheck, HelpDest,
       HelpCheckDest, HelpStable, HelpCopy, HelpClear, HelpUnmark, shared
  <2>4. pc'[t] # "retire"
    <3>1. /\ pc \in [Threads -> Labels] /\ hlp[t].ret \in ReturnLabels
      BY HelperFrame DEF TypeInv, TypeOK
    <3>2. pc'[t] \in HelpLabels \cup {"crashed", hlp[t].ret}
      BY <1>12, <3>1 DEF Help, HelpRead, HelpCheck, HelpMark, HelpRemark, HelpRecheck, HelpDest,
         HelpCheckDest, HelpStable, HelpCopy, HelpClear, HelpUnmark, TestMark, HelpRetry,
         LeaveHelp, Crash, Goto, HelpLabels
    <3>3. QED BY <3>1, <3>2 DEF HelpLabels, ReturnLabels
  <2>5. ~InsertUpdate(t) /\ ~\E w \in {0, 1} : InsertPlace(t, w)
    BY <2>1 DEF InsertUpdate, InsertPlace, HelpLabels
  <2>6. \A k \in Keys : SameEntry(k) BY <1>1, <2>2, <2>3, MoveEntry
  <2>7. Keeps(t) BY <2>4, <2>5, <2>6, <1>4 DEF Keeps
  <2>8. QED BY <2>3, <2>7, SomeSlot
<1>13. QED BY <1>5, <1>6, <1>7, <1>8, <1>9, <1>10, <1>11, <1>12 DEF Step, Insert

(* Nobody else writes to the node that an insert has yet to place.         *)
LEMMA OwnValueStep ==
  ASSUME TypeInv, TypeInv', HomeInv, OwnerInv, KeyInv, KeyInv', OwnValue, Orderly,
         NEW t \in Threads, Step(t)
  PROVE  OwnValue'
<1>1. /\ Elsewhere(t) /\ Here(t) /\ \A u \in Threads : Role(u)
  BY LocalStep DEF OwnerInv
<1>2. \A u \in Threads : pc'[u] # "idle" => pc[u] # "idle" /\ new'[u] = new[u]
  BY <1>1 DEF Elsewhere, Here
<1>3. call' = call BY <1>1 DEF Here
<1>4. ASSUME NEW u \in Threads, pc'[u] # "idle", call'[u].op = "insert"
      PROVE  heap'[new'[u]].val = call'[u].val
  <2>1. /\ pc[u] # "idle" /\ new'[u] = new[u] /\ call[u].op = "insert"
        /\ heap[new[u]].val = call[u].val
    BY <1>2, <1>3, <1>4 DEF OwnValue
  <2>2. pc[u] # "retire" BY <1>1, <2>1 DEF Role
  <2>3. InHand(u) = new[u] /\ new[u] # NULL BY <2>1, <2>2 DEF InHand, HomeInv, OwnNode, NULL
  <2>4. \A s \in Slots : table[s].node # new[u] BY <2>3 DEF OwnerInv, HandsApart
  <2>5. new[u] \in Nodes
    <3>1. new[u] \in 0 .. MaxNodes BY DEF TypeInv, TypeOK
    <3>2. QED BY <2>3, <3>1, SizeAssumption DEF Nodes, NULL
  <2>6. heap'[new[u]] = heap[new[u]] BY <2>4, <2>5, EntryStep
  <2>7. QED BY <1>3, <2>1, <2>6
<1>5. QED BY <1>4 DEF OwnValue

LEMMA OwnValueBegin ==
  ASSUME TypeInv, HomeInv, OwnValue, NEW t \in Threads, Begins(t)
  PROVE  OwnValue'
<1> SUFFICES ASSUME NEW u \in Threads, pc'[u] # "idle", call'[u].op = "insert"
             PROVE  heap'[new'[u]].val = call'[u].val
  BY DEF OwnValue
<1>1. CASE u = t
  <2>1. new'[t] = nalloc + 1 /\ heap'[nalloc + 1] = [key |-> call'[t].key, val |-> call'[t].val]
    BY <1>1 DEF Begins
  <2>2. QED BY <1>1, <2>1
<1>2. CASE u # t
  <2>1. /\ pc[u] # "idle" /\ call[u].op = "insert" /\ new'[u] = new[u] /\ call'[u] = call[u]
        /\ \A n \in 1 .. nalloc : heap'[n] = heap[n]
    BY <1>2 DEF Begins
  <2>2. new[u] \in 1 .. nalloc BY <2>1 DEF HomeInv, OwnNode
  <2>3. QED BY <2>1, <2>2 DEF OwnValue
<1>3. QED BY <1>1, <1>2

(* A step of a call keeps EffectInv.                                       *)
LEMMA EffectStep ==
  ASSUME TypeInv, TypeInv', HomeInv, OwnerInv, KeyInv, KeyInv', EffectInv, Orderly,
         NEW t \in Threads, Step(t)
  PROVE  EffectInv'
<1>0. OwnValue BY DEF EffectInv
<1>1. /\ Elsewhere(t) /\ Here(t) /\ \A u \in Threads : Role(u)
  BY LocalStep DEF OwnerInv
<1>2. \A u \in Threads : pc'[u] # "idle" => pc[u] # "idle" /\ new'[u] = new[u]
  BY <1>1 DEF Elsewhere, Here
<1>3. call' = call BY <1>1 DEF Here
<1>4. Stores(t) \/ Unlinks(t) \/ Keeps(t) BY <1>0, EntryStep
<1>5. ASSUME NEW u \in Threads, pc'[u] # "idle" PROVE call'[u] \in Calls[u]
  BY <1>2, <1>3, <1>5 DEF EffectInv
<1>6. OwnValue' BY <1>0, OwnValueStep
<1>7. ASSUME NEW u \in Threads, pc'[u] = "idle", out'[u].kind = "stored",
             NEW k \in Keys, k = call[u].key, Writers(k) = {u}
      PROVE  EntryOf(k)' # NULL /\ heap'[EntryOf(k)'].val = out'[u].val
  <2>1. CASE u = t
    <3>1. pc[t] = "insert" BY <1>1, <1>7, <2>1, AnswerStep
    <3>2. Stores(t) BY <1>4, <1>7, <2>1, <3>1 DEF Keeps, Unlinks
    <3>3. QED BY <3>2, <2>1, <1>7 DEF Stores, Outcome
  <2>2. CASE u # t
    <3>1. pc[u] = "idle" /\ out'[u] = out[u] BY <1>1, <1>7, <2>2, AnswerStep DEF Elsewhere
    <3>2. EntryOf(k) # NULL /\ heap[EntryOf(k)].val = out[u].val BY <1>7, <3>1 DEF EffectInv
    <3>3. Stores(t) \/ Unlinks(t) => call[t].op \in {"insert", "remove"} /\ pc[t] # "idle"
      BY <1>1 DEF Stores, Unlinks, Role
    <3>4. Stores(t) \/ Unlinks(t) => t \in Writers(call[t].key)
      BY <3>3 DEF EffectInv, Writers
    <3>5. Stores(t) \/ Unlinks(t) => call[t].key # k BY <3>4, <1>7, <2>2
    <3>6. SameEntry(k) BY <1>4, <3>5 DEF Stores, Unlinks, Keeps
    <3>7. QED BY <3>1, <3>2, <3>6 DEF SameEntry
  <2>3. QED BY <2>1, <2>2
<1>8. \A u \in Threads : call[u].key \in Keys BY HomeWordType DEF TypeInv
<1>9. ASSUME NEW u \in Threads, pc'[u] = "idle", out'[u].kind = "stored",
             Writers(call'[u].key) = {u}
      PROVE  EntryOf(call[u].key)' # NULL /\ heap'[EntryOf(call[u].key)'].val = out'[u].val
  <2>1. PICK k \in Keys : k = call[u].key /\ k = call'[u].key BY <1>3, <1>8
  <2>2. EntryOf(k)' # NULL /\ heap'[EntryOf(k)'].val = out'[u].val BY <1>7, <1>9, <2>1
  <2>3. EntryOf(k)' = EntryOf(call[u].key)' BY <2>1
  <2>4. QED BY <2>2, <2>3
<1>10. QED BY <1>5, <1>6, <1>9 DEF EffectInv, Writers

(* The start of a call leaves all entries as they are.                     *)
LEMMA BeginSame ==
  ASSUME TypeInv, HomeInv, NEW t \in Threads, Begins(t), NEW k \in Keys
  PROVE  SameEntry(k)
<1>1. UNCHANGED table /\ KeysKept /\ \A n \in 1 .. nalloc : heap'[n] = heap[n]
  BY DEF Begins
<1>2. nalloc \in Nat BY SizeAssumption DEF TypeInv, TypeOK
<1>3. KeyStill(k) BY <1>1, StillTable
<1>4. EntryOf(k)' = EntryOf(k) BY <1>1, <1>3 DEF EntryOf, KeyStill
<1>5. EntryOf(k) # NULL => EntryOf(k) \in 1 .. nalloc
  <2> SUFFICES ASSUME EntryOf(k) # NULL PROVE EntryOf(k) \in 1 .. nalloc OBVIOUS
  <2>1. PICK w \in {0, 1} : table[Home(w, k)].node = EntryOf(k) BY DEF EntryOf
  <2>2. Home(w, k) \in Slots BY HomeType
  <2>3. EntryOf(k) \in 0 .. MaxNodes /\ EntryOf(k) <= nalloc
    BY <2>1, <2>2, NodeRange DEF HomeInv, EntriesHome, Rightful
  <2>4. QED BY <1>2, <2>3 DEF NULL
<1>6. QED BY <1>1, <1>4, <1>5 DEF SameEntry

(* The start of a call keeps EffectInv.                                    *)
LEMMA EffectInvoke ==
  ASSUME TypeInv, HomeInv, OwnerInv, OneEntryPerKey, EffectInv, NEW t \in Threads, Invoke(t)
  PROVE  EffectInv'
<1>1. /\ UNCHANGED table /\ KeysKept /\ pc[t] = "idle" /\ pc'[t] # "idle"
      /\ call'[t] \in Calls[t]
      /\ \A u \in Threads \ {t} : /\ pc'[u] = pc[u] /\ call'[u] = call[u]
                                  /\ new'[u] = new[u] /\ out'[u] = out[u]
      /\ \A n \in 1 .. nalloc : heap'[n] = heap[n]
      /\ call'[t].op = "insert" =>
           new'[t] = nalloc + 1
           /\ heap'[nalloc + 1] = [key |-> call'[t].key, val |-> call'[t].val]
  BY InvokeFrame
<1>2. nalloc \in Nat BY SizeAssumption DEF TypeInv, TypeOK
<1>3. ASSUME NEW u \in Threads, pc'[u] # "idle" PROVE call'[u] \in Calls[u]
  BY <1>1, <1>3 DEF EffectInv
<1>4. OwnValue' BY InvokeBegins, OwnValueBegin DEF EffectInv
<1>5. \A k \in Keys : SameEntry(k) BY InvokeBegins, BeginSame
<1>6. \A u \in Threads : call[u].key \in Keys BY HomeWordType DEF TypeInv
<1>7. ASSUME NEW u \in Threads, pc'[u] = "idle", out'[u].kind = "stored",
             Writers(call'[u].key) = {u}
      PROVE  EntryOf(call[u].key)' # NULL /\ heap'[EntryOf(call[u].key)'].val = out'[u].val
  <2>1. u # t BY <1>1, <1>7
  <2>2. PICK k \in Keys : k = call[u].key /\ k = call'[u].key BY <1>1, <1>6, <2>1
  <2>3. EntryOf(k) # NULL /\ heap[EntryOf(k)].val = out[u].val
    BY <1>1, <1>7, <2>1, <2>2 DEF EffectInv
  <2>4. EntryOf(k)' # NULL /\ heap'[EntryOf(k)'].val = out'[u].val
    BY <1>1, <1>5, <2>1, <2>3 DEF SameEntry
  <2>5. EntryOf(k)' = EntryOf(call[u].key)' BY <2>2
  <2>6. QED BY <2>4, <2>5
<1>8. QED BY <1>3, <1>4, <1>7 DEF EffectInv, Writers

(* EffectInv is inductive as long as writes are orderly.                   *)
LEMMA EffectInit == Init => EffectInv
BY DEF Init, EffectInv, OwnValue, Outcome

LEMMA EffectNext ==
  /\ TypeInv /\ TypeInv' /\ HomeInv /\ OwnerInv /\ KeyInv /\ KeyInv'
  /\ EffectInv /\ Orderly /\ [Next]_vars
  => EffectInv'
<1> SUFFICES ASSUME TypeInv, TypeInv', HomeInv, OwnerInv, KeyInv, KeyInv', EffectInv, Orderly,
                    [Next]_vars
             PROVE  EffectInv'
  OBVIOUS
<1>1. ASSUME NEW t \in Threads, Step(t) PROVE EffectInv' BY <1>1, EffectStep
<1>2. ASSUME NEW t \in Threads, Invoke(t) PROVE EffectInv' BY <1>2, EffectInvoke DEF KeyInv
<1>3. CASE UNCHANGED vars
  BY <1>3 DEF EffectInv, OwnValue, EntryOf, Holds, Writers, vars, shared, client
<1>4. QED BY <1>1, <1>2, <1>3 DEF Next, Stopped

(* insert has taken effect when it returns: a search that comes after it   *)
(* finds the value in the first home it looks at that has the key, as long *)
(* as nobody else writes that key (lines 437-461).                         *)
LEMMA EffectIsEntry == EffectInv => InsertTakesEffect
BY DEF EffectInv, InsertTakesEffect, EntryOf

THEOREM InsertsTakeEffect == Spec /\ []Orderly => []InsertTakesEffect
BY KeysKnown, EffectInit, EffectNext, EffectIsEntry, PTL DEF Spec

-----------------------------------------------------------------------------
(* Workloads for which writes are orderly in every execution: those of one *)
(* thread that inserts and removes while the others search.                *)

RoleInv == \A t \in Threads : Role(t) /\ (pc[t] # "idle" => call[t] \in Calls[t])

(* A caller takes up its role.                                             *)
LEMMA RoleBegin ==
  ASSUME NEW t \in Threads, Begins(t), \A u \in Threads : Role(u)
  PROVE  \A u \in Threads : Role(u)'
<1>1. /\ UNCHANGED <<result, hlp>> /\ pc[t] = "idle" /\ pc'[t] \in {"search.read", "find.read"}
      /\ pc'[t] = "search.read" <=> call'[t].op = "search"
      /\ \A u \in Threads \ {t} : pc'[u] = pc[u] /\ call'[u] = call[u]
  BY DEF Begins
<1>2. ASSUME NEW u \in Threads, u # t PROVE Role(u)' BY <1>1, <1>2 DEF Role
<1>3. Role(t)' BY <1>1 DEF Role, SearchLabels, PathLabels, MoveLabels, HelpLabels
<1>4. QED BY <1>2, <1>3

LEMMA RoleInit == Init => RoleInv
BY DEF Init, RoleInv, Role, NoHelp, SearchLabels, PathLabels, MoveLabels, HelpLabels

LEMMA RoleNext == TypeInv /\ RoleInv /\ [Next]_vars => RoleInv'
<1> SUFFICES ASSUME TypeInv, RoleInv, [Next]_vars PROVE RoleInv' OBVIOUS
<1>1. ASSUME NEW t \in Threads, Step(t) PROVE RoleInv'
  <2>1. \A u \in Threads : Role(u)' BY <1>1, RoleStep DEF RoleInv
  <2>2. call' = call /\ \A u \in Threads : pc'[u] # "idle" => pc[u] # "idle"
    BY <1>1, LocalStep DEF Elsewhere, Here
  <2>3. QED BY <2>1, <2>2 DEF RoleInv
<1>2. ASSUME NEW t \in Threads, Invoke(t) PROVE RoleInv'
  <2>1. call'[t] \in Calls[t] /\ \A u \in Threads \ {t} : pc'[u] = pc[u] /\ call'[u] = call[u]
    BY <1>2, InvokeFrame
  <2>2. \A u \in Threads : Role(u)' BY <1>2, InvokeBegins, RoleBegin DEF RoleInv
  <2>3. QED BY <2>1, <2>2 DEF RoleInv
<1>3. CASE UNCHANGED vars BY <1>3 DEF RoleInv, Role, vars, client, probe
<1>4. QED BY <1>1, <1>2, <1>3 DEF Next, Stopped

LEMMA OneWriterOrderly ==
  ASSUME OneWriter
  PROVE  Spec => []Orderly
<1>1. TypeInv /\ RoleInv => Orderly
  <2> SUFFICES ASSUME TypeInv, RoleInv PROVE Orderly OBVIOUS
  <2>1. \A t \in Threads : call[t].key \in Keys BY HomeWordType DEF TypeInv
  <2>2. \A t \in Threads : Writing(t) => t \in Writers(call[t].key)
    BY DEF RoleInv, Writing, Writers
  <2>3. \A t, u \in Threads : Writing(t) /\ Writing(u) => t = u
    BY <2>1, <2>2 DEF OneWriter
  <2>4. \A t \in Threads : pc[t] \in HelpLabels => Writing(t)
    BY WriterLabels DEF RoleInv, HelpLabels, SearchLabels
  <2>5. QED BY <2>3, <2>4 DEF Orderly, MovesAlone, WritesApart
<1>2. QED BY <1>1, TypeInit, TypeStep, RoleInit, RoleNext, PTL DEF Spec

(* If one thread inserts and removes, and any number of threads search, no *)
(* condition is left: a key has one entry, remove takes its own, insert    *)
(* takes effect, a node is retired once and stays out, and nothing reads   *)
(* through a null pointer (lines 140-225, 345, 372, 437-498).              *)
THEOREM OneWriterIsSafe ==
  ASSUME OneWriter
  PROVE  Spec => [](/\ OneEntryPerKey /\ RemovesOwnKey /\ InsertTakesEffect
                    /\ RetiredOnce /\ RetiredStaysOut /\ NoNullDereference)
<1>1. Spec => []Orderly BY OneWriterOrderly
<1>2. Orderly => MovesAlone BY DEF Orderly
<1>3. Spec => [](OneEntryPerKey /\ RemovesOwnKey /\ InsertTakesEffect)
  BY <1>1, KeysHaveOneEntry, KeysRemovedAreOwn, InsertsTakeEffect, PTL
<1>4. Spec => [](RetiredOnce /\ RetiredStaysOut /\ NoNullDereference)
  BY <1>1, <1>2, NodesRetiredOnce, RetiredNodesStayOut, NothingNullDereferenced, PTL
<1>5. QED BY <1>3, <1>4, PTL

-----------------------------------------------------------------------------
(* Workloads in which nothing ever moves, so that any threads may remove.  *)

(* Nothing is marked and no insert needs room: no step leads to relocate   *)
(* or help_relocate.                                                       *)
LEMMA NoMoveStep ==
  ASSUME TypeInv, RoleInv, StillInv, NEW t \in Threads, Step(t)
  PROVE  /\ pc'[t] \notin PathLabels \cup MoveLabels \cup HelpLabels
         /\ Search(t) \/ Find(t) \/ InsertUpdate(t) \/ Remove(t)
              \/ \E w \in {0, 1} : InsertPlace(t, w)
<1> USE DEF TypeInv, TypeOK, Goto, PathLabels, MoveLabels, HelpLabels
<1>1. /\ call[t].op \in {"search", "insert", "remove"} /\ side[t] \in {0, 1}
      /\ Role(t) /\ pc[t] \notin PathLabels \cup MoveLabels \cup HelpLabels
      /\ pc[t] = "find.check" => ~ptr[t][side[t]].mark
      /\ Missed(t) => ptr[t][0].node = NULL
  BY DEF StillInv, RoleInv, Call
<1>2. CASE Search(t)
  BY <1>2 DEF Search, SearchRead, SearchRetry, SearchCheck, SearchKey, SearchReread, SearchRecount,
              Probe, Return
<1>3. CASE Find(t)
  <2>1. ~FindHelp(t) BY <1>1 DEF FindHelp, get_marked
  <2>2. CASE FindRead(t, 0) \/ FindRead(t, 1) BY <1>3, <2>2 DEF FindRead
  <2>3. CASE FindRetry(t) \/ FindCheck(t) BY <1>3, <2>3 DEF FindRetry, FindCheck, RetryFind, Probe
  <2>4. CASE FindKey(t) \/ FindReread(t) \/ FindRecount(t)
    BY <1>1, <1>3, <2>4 DEF FindKey, FindReread, FindRecount, RetryFind, LeaveFind, Probe
  <2>5. CASE DelDupCheck(t) \/ DelDupCheckSecond(t) \/ DelDup(t)
    BY <1>1, <1>3, <2>5 DEF DelDupCheck, DelDupCheckSecond, DelDup, Crash
  <2>6. QED BY <1>3, <2>1, <2>2, <2>3, <2>4, <2>5 DEF Find
<1>4. CASE Insert(t)
  <2>1. ~InsertRelocate(t)
    BY <1>1 DEF InsertRelocate, Missed, Role, get_pointer
  <2>2. ~InsertDrop(t) BY <1>1 DEF InsertDrop
  <2>3. QED BY <1>4, <2>1, <2>2 DEF Insert, InsertUpdate, InsertPlace, Return, Probe, Crash, StartFind
<1>5. CASE Remove(t)
  BY <1>5 DEF Remove, RemoveAbsent, RemoveRecheck, RemoveUnlink, Retire, Return, Probe, StartFind
<1>6. ~Relocate(t) /\ ~Help(t)
  BY <1>1 DEF Relocate, PathRead, PathCheck, PathKey, MoveDone, MoveRead, MoveReread, MoveDest,
              Help, HelpRead, HelpCheck, HelpMark, HelpRemark, HelpRecheck, HelpDest,
              HelpCheckDest, HelpStable, HelpCopy, HelpClear, HelpUnmark
<1>7. QED BY <1>2, <1>3, <1>4, <1>5, <1>6 DEF Step

(* The one who fills the first home of a key that is inserted inserts it.  *)
LEMMA OwnHomeFilled ==
  ASSUME TypeInv, RoleInv, StillInv, FirstHomesOwn, NEW t \in Threads, Step(t),
         NEW u \in Threads, pc[u] # "idle", call[u].op = "insert",
         table[MyHome(u, 0)].node = NULL, table'[MyHome(u, 0)].node # NULL
  PROVE  t = u /\ pc'[t] = "idle"
<1>0. \A w \in {0, 1} : MyHome(t, w) \in Slots /\ MyHome(u, w) \in Slots
  BY HomeWordType DEF TypeInv
<1>1. Places(t) \/ Takes(t)
  <2>1. Role(t) BY DEF RoleInv
  <2>2. ~UNCHANGED table OBVIOUS
  <2>3. CASE Search(t) BY <2>2, <2>3, LocalSearch
  <2>4. CASE Find(t) \/ Insert(t) \/ Remove(t) BY <2>1, <2>2, <2>4, WriteStep
  <2>5. QED BY <2>3, <2>4, NoMoveStep DEF Insert
<1>2. ~Takes(t)
  <2> SUFFICES ASSUME Takes(t) PROVE FALSE OBVIOUS
  <2>1. PICK w \in {0, 1} : Replaced(MyHome(t, w), NULL) BY DEF Takes
  <2>2. QED BY <2>1, <1>0, ReplacedWord
<1>3. PICK w \in {0, 1} : Replaced(MyHome(t, w), new[t]) BY <1>1, <1>2 DEF Places
<1>4. MyHome(t, w) = MyHome(u, 0) BY <1>0, <1>3, ReplacedWord
<1>5. w = 0 /\ hash1[call[t].key] = hash1[call[u].key] BY <1>4 DEF MyHome, Home
<1>6. /\ pc[t] = "insert" /\ pc'[t] = "idle" /\ call[t].op = "insert"
      /\ call[t] \in Calls[t] /\ call[u] \in Calls[u] /\ call[t].key \in Keys
  BY <1>1, <1>2, HomeWordType DEF Places, RoleInv, Role, TypeInv
<1>7. call[t].key \in EntryKeys BY <1>6 DEF EntryKeys
<1>8. call[t].key = call[u].key BY <1>5, <1>6, <1>7 DEF FirstHomesOwn
<1>9. QED BY <1>6, <1>8 DEF FirstHomesOwn

(* What find has seen of the first home, as find goes on.                  *)
LEMMA MissedStep ==
  ASSUME TypeInv, HomeInv, RoleInv, StillInv, FirstHomesOwn, NEW t \in Threads, Step(t)
  PROVE  /\ pc'[t] = "find.check" => ~ptr'[t][side'[t]].mark
         /\ pc'[t] \in {"del_dup", "del_dup.second", "del_dup.cas"} => result'[t] = "FIRST"
         /\ pc'[t] = "find.key" => ptr'[t][side'[t]].node # NULL
         /\ (pc'[t] \in {"find.check", "find.key"} /\ side'[t] = 0) =>
               Rightful(ptr'[t][0].node, MyHome(t, 0))
         /\ Missed(t)' => table[MyHome(t, 0)].node = NULL /\ ptr'[t][0].node = NULL
<1> USE DEF TypeInv, TypeOK, Goto
<1> DEFINE Goal == /\ pc'[t] = "find.check" => ~ptr'[t][side'[t]].mark
                   /\ pc'[t] \in {"del_dup", "del_dup.second", "del_dup.cas"} => result'[t] = "FIRST"
                   /\ pc'[t] = "find.key" => ptr'[t][side'[t]].node # NULL
                   /\ (pc'[t] \in {"find.check", "find.key"} /\ side'[t] = 0) =>
                         Rightful(ptr'[t][0].node, MyHome(t, 0))
                   /\ Missed(t)' => table[MyHome(t, 0)].node = NULL /\ ptr'[t][0].node = NULL
<1>0. /\ \A w \in {0, 1} : MyHome(t, w) \in Slots
      /\ \A s \in Slots : ~table[s].mark /\ Rightful(table[s].node, s)
      /\ side[t] \in {0, 1} /\ call' = call
  BY HomeWordType, LocalStep DEF Here, StillInv, HomeInv, EntriesHome
<1>1. /\ pc[t] = "find.check" => ~ptr[t][side[t]].mark
      /\ pc[t] \in {"del_dup", "del_dup.second", "del_dup.cas"} => result[t] = "FIRST"
      /\ pc[t] = "find.key" => ptr[t][side[t]].node # NULL
      /\ (pc[t] \in {"find.check", "find.key"} /\ side[t] = 0) =>
            Rightful(ptr[t][0].node, MyHome(t, 0))
      /\ Missed(t) => table[MyHome(t, 0)].node = NULL /\ ptr[t][0].node = NULL
      /\ \A n \in 1 .. nalloc : heap[n].key \in EntryKeys
      /\ Role(t) /\ call[t] \in Calls[t] /\ call[t].op \in {"search", "insert", "remove"}
  BY NoMoveStep, LocalStep DEF StillInv, RoleInv, Call, Here
<1>a. ASSUME pc'[t] \notin {"find.check", "find.key", "find.next", "find.recount",
                            "del_dup", "del_dup.second", "del_dup.cas"},
             pc'[t] = "insert" => result'[t] # "NIL"
      PROVE  Goal
  BY <1>a DEF Missed
<1>2. ASSUME NEW w \in {0, 1}, FindRead(t, w) PROVE Goal
  <2>1. /\ pc'[t] = "find.check" /\ side'[t] = w /\ ptr'[t][w] = table[MyHome(t, w)]
        /\ ptr'[t][1 - w] = ptr[t][1 - w] /\ UNCHANGED result
    BY <1>2 DEF FindRead
  <2>2. w = 1 => pc[t] = "find.next" BY <1>2 DEF FindRead
  <2>3. QED BY <2>1, <2>2, <1>0, <1>1 DEF Missed
<1>3. CASE FindCheck(t)
  <2>1. /\ UNCHANGED <<side, ptr, result>> /\ pc[t] = "find.check"
        /\ ptr[t][side[t]].node = table[MyHome(t, side[t])].node
        /\ IF ptr[t][side[t]].node = NULL THEN pc'[t] = "find.next" ELSE pc'[t] = "find.key"
    BY <1>3 DEF FindCheck, probe, get_pointer
  <2>2. QED BY <2>1, <1>0, <1>1 DEF Missed
<1>4. CASE FindKey(t)
  <2>1. /\ UNCHANGED <<side, ptr>> /\ pc[t] = "find.key"
        /\ pc'[t] \in {"find.next", "del_dup", call[t].op}
        /\ pc'[t] = "del_dup" => result'[t] = "FIRST"
        /\ pc'[t] = call[t].op => result'[t] = "SECOND"
        /\ side[t] = 1 /\ pc'[t] = "find.next" => UNCHANGED result
        /\ side[t] = 0 => \/ result'[t] = "FIRST"
                          \/ heap[ptr[t][0].node].key # call[t].key
    BY <1>4, <1>1 DEF FindKey, LeaveFind, get_pointer
  <2>2. ASSUME side[t] = 0, call[t].op = "insert", heap[ptr[t][0].node].key # call[t].key
        PROVE  FALSE
    <3> DEFINE n == ptr[t][0].node
    <3>1. n # NULL /\ Rightful(n, MyHome(t, 0)) BY <2>1, <2>2, <1>1
    <3>2. n \in 1 .. nalloc
      <4>1. ptr[t][0].node \in 0 .. MaxNodes BY DEF TableWord
      <4>2. QED BY <3>1, <4>1, SizeAssumption DEF Rightful, NULL
    <3>3. heap[n].key \in EntryKeys /\ hash1[heap[n].key] = hash1[call[t].key]
      BY <3>1, <3>2, <1>1 DEF Rightful, MyHome, Home
    <3>4. QED BY <3>3, <2>2, <1>1 DEF FirstHomesOwn
  <2>3. QED BY <2>1, <2>2, <1>0, <1>1 DEF Missed
<1>5. CASE FindReread(t)
  <2>1. /\ UNCHANGED <<side, result>> /\ pc[t] = "find.next"
        /\ \/ result[t] = "FIRST" /\ pc'[t] = call[t].op
           \/ /\ result[t] # "FIRST" /\ pc'[t] = "find.recount"
              /\ ptr'[t][0] = table[MyHome(t, 0)]
    BY <1>5 DEF FindReread
  <2>2. QED BY <2>1, <1>0, <1>1 DEF Missed
<1>6. CASE FindRecount(t)
  <2>1. pc[t] = "find.recount" BY <1>6 DEF FindRecount
  <2>2. CASE RetryFind(t) BY <2>2, <1>a DEF RetryFind, Probe
  <2>3. CASE LeaveFind(t, "NIL") /\ \E x : ptr' = [ptr EXCEPT ![t][1] = x]
    <3>1. pc'[t] = call[t].op /\ ptr'[t][0] = ptr[t][0] BY <2>3 DEF LeaveFind
    <3>2. call[t].op = "insert" => Missed(t) BY <2>1 DEF Missed
    <3>3. QED BY <3>1, <3>2, <1>0, <1>1 DEF Missed
  <2>4. QED BY <1>6, <2>2, <2>3 DEF FindRecount
<1>7. CASE FindRetry(t) \/ FindHelp(t)
  BY <1>7, <1>a DEF FindRetry, FindHelp, RetryFind, Probe, EnterHelp
<1>b. CASE DelDupCheck(t) \/ DelDupCheckSecond(t) \/ DelDup(t)
  <2>1. /\ pc[t] \in {"del_dup", "del_dup.second", "del_dup.cas"} /\ UNCHANGED result
        /\ pc'[t] \in {"del_dup.second", "del_dup.cas", "crashed", call[t].op}
    BY <1>b DEF DelDupCheck, DelDupCheckSecond, DelDup, Crash, probe
  <2>2. QED BY <2>1, <1>1 DEF Missed
<1>8. CASE Search(t) \/ InsertUpdate(t) \/ Remove(t) \/ \E w \in {0, 1} : InsertPlace(t, w)
  BY <1>8, <1>a DEF Search, SearchRead, SearchRetry, SearchCheck, SearchKey, SearchReread, SearchRecount,
      InsertUpdate, InsertPlace, Remove, RemoveAbsent, RemoveRecheck, RemoveUnlink, Retire,
      Probe, Return, StartFind, Crash
<1>9. QED BY <1>2, <1>3, <1>4, <1>5, <1>6, <1>7, <1>8, <1>b, NoMoveStep DEF Find

(* The workload keeps the table still.                                     *)
LEMMA StillStep ==
  ASSUME TypeInv, TypeInv', HomeInv, RoleInv, StillInv, FirstHomesOwn, NEW t \in Threads, Step(t)
  PROVE  StillInv'
<1>0. Elsewhere(t) /\ Here(t) /\ KeysKept BY LocalStep
<1>a. \A u \in Threads : \A w \in {0, 1} : MyHome(u, w) \in Slots
  BY HomeWordType DEF TypeInv
<1>1. ASSUME NEW s \in Slots PROVE ~table'[s].mark
  <2>1. UNCHANGED table \/ Places(t) \/ Takes(t)
    <3>1. Role(t) BY DEF RoleInv
    <3>2. CASE Search(t) BY <3>2, LocalSearch
    <3>3. CASE Find(t) \/ Insert(t) \/ Remove(t) BY <3>1, <3>3, WriteStep
    <3>4. QED BY <3>2, <3>3, NoMoveStep DEF Insert
  <2>2. ASSUME NEW w \in {0, 1}, NEW n, Replaced(MyHome(t, w), n) PROVE ~table'[s].mark
    BY <2>2, <1>a, ReplacedWord DEF StillInv
  <2>3. QED BY <2>1, <2>2 DEF Places, Takes, StillInv
<1>2. nalloc' = nalloc
  BY NoMoveStep DEF Search, SearchRead, SearchRetry, SearchCheck, SearchKey, SearchReread, SearchRecount,
     Find, FindRead, FindRetry, FindHelp, FindCheck, FindKey, FindReread, FindRecount,
     DelDupCheck, DelDupCheckSecond, DelDup, InsertUpdate, InsertPlace,
     Remove, RemoveAbsent, RemoveRecheck, RemoveUnlink, Retire, shared
<1>3. \A n \in 1 .. nalloc' : heap'[n].key \in EntryKeys
  BY <1>0, <1>2 DEF KeysKept, StillInv
<1> DEFINE Sound(u) ==
       /\ pc[u] \notin PathLabels \cup MoveLabels \cup HelpLabels
       /\ pc[u] = "find.check" => ~ptr[u][side[u]].mark
       /\ pc[u] = "find.key" => ptr[u][side[u]].node # NULL
       /\ pc[u] \in {"del_dup", "del_dup.second", "del_dup.cas"} => result[u] = "FIRST"
       /\ (pc[u] \in {"find.check", "find.key"} /\ side[u] = 0) =>
             Rightful(ptr[u][0].node, MyHome(u, 0))
       /\ Missed(u) => table[MyHome(u, 0)].node = NULL /\ ptr[u][0].node = NULL
<1>4. ASSUME NEW u \in Threads, Missed(u)', table[MyHome(u, 0)].node = NULL
      PROVE  table'[MyHome(u, 0)].node = NULL
  <2>1. pc'[u] \in {"find.check", "find.key", "find.next", "find.recount", "insert"}
    BY <1>4 DEF Missed
  <2>2. call' = call /\ call[u].op = "insert" /\ pc[u] # "idle"
    BY <1>0, <1>4, <2>1 DEF Here, Elsewhere, Missed
  <2>3. t = u => pc'[t] # "idle" BY <2>1
  <2>4. QED BY <1>4, <2>2, <2>3, OwnHomeFilled
<1>5. ASSUME NEW u \in Threads PROVE Sound(u)'
  <2>1. MyHome(u, 0)' = MyHome(u, 0) /\ call' = call BY <1>0 DEF MyHome, Here
  <2>2. /\ pc'[u] \notin PathLabels \cup MoveLabels \cup HelpLabels
        /\ pc'[u] = "find.check" => ~ptr'[u][side'[u]].mark
        /\ pc'[u] = "find.key" => ptr'[u][side'[u]].node # NULL
        /\ pc'[u] \in {"del_dup", "del_dup.second", "del_dup.cas"} => result'[u] = "FIRST"
        /\ (pc'[u] \in {"find.check", "find.key"} /\ side'[u] = 0) =>
              Rightful(ptr'[u][0].node, MyHome(u, 0))
        /\ Missed(u)' => table[MyHome(u, 0)].node = NULL /\ ptr'[u][0].node = NULL
    <3>1. CASE u = t BY <3>1, NoMoveStep, MissedStep
    <3>2. CASE u # t
      <4>1. Sound(u) BY DEF StillInv
      <4>2. pc'[u] = pc[u] /\ ptr'[u] = ptr[u] /\ side'[u] = side[u] /\ result'[u] = result[u]
        BY <1>0, <3>2 DEF Elsewhere
      <4>3. Missed(u)' <=> Missed(u) BY <4>2, <2>1 DEF Missed
      <4>4. QED BY <4>1, <4>2, <4>3
    <3>3. QED BY <3>1, <3>2
  <2>3. Missed(u)' => table'[MyHome(u, 0)].node = NULL BY <2>2, <1>4
  <2>4. Rightful(ptr'[u][0].node, MyHome(u, 0)) => Rightful(ptr[u][0].node, MyHome(u, 0))'
    <3>1. PICK n \in 0 .. MaxNodes : n = ptr'[u][0].node
      <4>1. ptr'[u][0] \in TableWord BY DEF TypeInv, TypeOK
      <4>2. QED BY <4>1 DEF TableWord
    <3>2. PICK s \in Slots : s = MyHome(u, 0) BY <1>a
    <3>3. Rightful(n, s) => Rightful(n, s)' BY <1>0, RightfulKept
    <3>4. QED BY <3>1, <3>2, <3>3, <2>1 DEF Rightful
  <2>5. QED BY <2>1, <2>2, <2>3, <2>4
<1>6. QED BY <1>1, <1>3, <1>5 DEF StillInv

(* A call that begins has missed nothing yet.                              *)
LEMMA StillInvoke ==
  ASSUME TypeInv, TypeInv', RoleInv, StillInv, NEW t \in Threads, Invoke(t)
  PROVE  StillInv'
<1>1. /\ UNCHANGED <<table, side, ptr, result>> /\ KeysKept
      /\ pc[t] = "idle" /\ pc'[t] \in {"search.read", "find.read"}
      /\ call'[t] \in Calls[t]
      /\ \A u \in Threads \ {t} : pc'[u] = pc[u] /\ call'[u] = call[u]
      /\ \A n \in 1 .. nalloc : heap'[n] = heap[n]
      /\ call'[t].op = "insert" =>
           nalloc' = nalloc + 1 /\ heap'[nalloc + 1] = [key |-> call'[t].key, val |-> call'[t].val]
      /\ call'[t].op # "insert" => nalloc' = nalloc
  <2>1. call'[t].op # "insert" => nalloc' = nalloc
    BY DEF Invoke, CallSearch, CallInsert, CallRemove, Begin, TypeInv, TypeOK
  <2>2. QED BY <2>1, InvokeFrame
<1>2. ASSUME NEW n \in 1 .. nalloc' PROVE heap'[n].key \in EntryKeys
  <2>1. nalloc \in Nat BY SizeAssumption DEF TypeInv, TypeOK
  <2>2. CASE n \in 1 .. nalloc BY <2>2, <1>1 DEF StillInv
  <2>3. CASE n \notin 1 .. nalloc
    <3>1. call'[t].op = "insert" /\ n = nalloc + 1 BY <2>1, <2>3, <1>1
    <3>2. call'[t].key \in Keys BY DEF TypeInv, TypeOK, Call
    <3>3. QED BY <3>1, <3>2, <1>1 DEF EntryKeys
  <2>4. QED BY <2>2, <2>3
<1>3. ASSUME NEW u \in Threads
      PROVE  /\ pc'[u] \notin PathLabels \cup MoveLabels \cup HelpLabels
             /\ pc'[u] = "find.check" => ~ptr'[u][side'[u]].mark
             /\ pc'[u] = "find.key" => ptr'[u][side'[u]].node # NULL
             /\ pc'[u] \in {"del_dup", "del_dup.second", "del_dup.cas"} => result'[u] = "FIRST"
             /\ (pc'[u] \in {"find.check", "find.key"} /\ side'[u] = 0) =>
                   Rightful(ptr[u][0].node, MyHome(u, 0))'
             /\ Missed(u)' => table'[MyHome(u, 0)'].node = NULL /\ ptr'[u][0].node = NULL
  <2>1. CASE u = t BY <2>1, <1>1 DEF Missed, PathLabels, MoveLabels, HelpLabels
  <2>2. CASE u # t
    <3>1. pc'[u] = pc[u] /\ call'[u] = call[u] BY <2>2, <1>1
    <3>2. Missed(u)' <=> Missed(u) BY <3>1, <1>1 DEF Missed
    <3>3. MyHome(u, 0)' = MyHome(u, 0) BY <3>1 DEF MyHome
    <3>4. Rightful(ptr[u][0].node, MyHome(u, 0)) => Rightful(ptr[u][0].node, MyHome(u, 0))'
      <4>1. PICK n \in 0 .. MaxNodes : n = ptr[u][0].node
        <5>1. ptr[u][0] \in TableWord BY DEF TypeInv, TypeOK
        <5>2. QED BY <5>1 DEF TableWord
      <4>2. PICK s \in Slots : s = MyHome(u, 0) BY HomeWordType DEF TypeInv
      <4>3. Rightful(n, s) => Rightful(n, s)' BY <1>1, RightfulKept
      <4>4. QED BY <4>1, <4>2, <4>3, <3>3, <1>1 DEF Rightful
    <3>5. QED BY <3>1, <3>2, <3>3, <3>4, <1>1 DEF StillInv
  <2>3. QED BY <2>1, <2>2
<1>4. QED BY <1>1, <1>2, <1>3 DEF StillInv

LEMMA StillInit == Init => StillInv
<1> SUFFICES ASSUME Init PROVE StillInv OBVIOUS
<1>1. \A s \in Slots : ~table[s].mark BY PreloadNode
<1>2. ASSUME NEW n \in 1 .. nalloc PROVE heap[n].key \in EntryKeys
  <2>1. nalloc = Len(Preload) /\ n \in 1 .. Len(Preload) BY DEF Init
  <2>2. n \in Nodes /\ n <= Len(Preload)
    BY <2>1, PreloadAssumption, LenProperties, SizeAssumption DEF Nodes
  <2>3. heap[n].key = Preload[n].key BY <2>2 DEF Init
  <2>4. QED BY <2>1, <2>3 DEF EntryKeys, Preloaded
<1>3. QED
  BY <1>1, <1>2 DEF StillInv, Init, Missed, PathLabels, MoveLabels, HelpLabels

LEMMA StillNext ==
  ASSUME FirstHomesOwn
  PROVE  TypeInv /\ TypeInv' /\ HomeInv /\ RoleInv /\ StillInv /\ [Next]_vars => StillInv'
<1> SUFFICES ASSUME TypeInv, TypeInv', HomeInv, RoleInv, StillInv, [Next]_vars PROVE StillInv'
  OBVIOUS
<1>1. ASSUME NEW t \in Threads, Step(t) PROVE StillInv' BY <1>1, StillStep
<1>2. ASSUME NEW t \in Threads, Invoke(t) PROVE StillInv' BY <1>2, StillInvoke
<1>3. CASE UNCHANGED vars
  BY <1>3 DEF StillInv, Missed, MyHome, Home, Rightful, vars, shared, client, probe
<1>4. QED BY <1>1, <1>2, <1>3 DEF Next, Stopped

(* Any threads may remove any keys, and search, and one of them may insert *)
(* a key that shares its first home with no other, as in the benchmarks of *)
(* insert, remove and search: nothing is ever moved, a node is retired once*)
(* and stays out (lines 75-118, 442-498).                                  *)
THEOREM RemoversAreSafe ==
  ASSUME FirstHomesOwn
  PROVE  Spec => [](RetiredOnce /\ RetiredStaysOut)
<1>1. Spec => []MovesAlone
  <2>1. StillInv => MovesAlone BY DEF StillInv, MovesAlone
  <2>2. QED BY <2>1, TypeInit, TypeStep, HomeInit, HomeStep, RoleInit, RoleNext, StillInit, StillNext,
               PTL DEF Spec
<1>2. QED BY <1>1, NodesRetiredOnce, RetiredNodesStayOut, PTL

=============================================================================
