---------------------- MODULE LockfreeHashTable_slots ----------------------
(***************************************************************************)
(* What may stand in a slot, and how a step may change it.                 *)
(*                                                                         *)
(* Entries stay at home.  HomeSlot is not inductive by itself: a helper    *)
(* writes pointers it read earlier to slots it computed from them.         *)
(* HomeInv adds that whatever a helper holds belongs to the slot it works  *)
(* on, and that insert holds a node with its own key.                      *)
(*                                                                         *)
(* Claimed words belong to their helpers.  As long as no counter wraps     *)
(* (NoWrap), no step overwrites an entry by another one and a claimed      *)
(* word is changed only to end its relocation.  The argument is about      *)
(* words read long before they are used: ClaimInv says what each thread    *)
(* still knows of them.  WordStep says how any step may change a word.     *)
(***************************************************************************)
EXTENDS LockfreeHashTable_types

(* What a CAS may do to each slot: nothing, or the exchange it asks for.   *)
LEMMA CASWord ==
  ASSUME table \in [Slots -> TableWord], NEW s0 \in Slots, NEW old, NEW w,
         CAS(s0, old, w)
  PROVE  \A s \in Slots : \/ table'[s] = table[s]
                          \/ s = s0 /\ table[s0] = old /\ table'[s0] = w
BY DEF CAS

-----------------------------------------------------------------------------
(* What a step of one thread leaves alone.                                 *)

Elsewhere(t) == \A u \in Threads \ {t} :
  /\ pc'[u] = pc[u] /\ new'[u] = new[u] /\ hlp'[u] = hlp[u]
  /\ ptr'[u] = ptr[u] /\ side'[u] = side[u] /\ result'[u] = result[u]

Here(t) ==
  /\ call' = call /\ pc[t] # "idle"
  /\ pc'[t] = "idle" \/ new' = new
  /\ pc'[t] = "insert" => call[t].op = "insert"

KeysKept ==
  /\ nalloc' \in Nat /\ nalloc <= nalloc'
  /\ \A n \in 1 .. nalloc : heap'[n].key = heap[n].key

(* search works on its own variables and reads the table.                  *)
LEMMA LocalSearch ==
  ASSUME TypeInv, NEW t \in Threads, Search(t)
  PROVE  Elsewhere(t) /\ Here(t) /\ KeysKept /\ UNCHANGED <<table, hlp>>
<1> USE DEF TypeInv, TypeOK, Elsewhere, Here, KeysKept, Goto, Probe, Return, shared, gc, client,
            probe
<1>1. ASSUME NEW w \in {0, 1}, SearchRead(t, w) PROVE Elsewhere(t) /\ Here(t)
  BY <1>1 DEF SearchRead
<1>2. CASE SearchRetry(t) BY <1>2 DEF SearchRetry
<1>3. CASE SearchCheck(t) BY <1>3 DEF SearchCheck
<1>4. CASE SearchKey(t) BY <1>4 DEF SearchKey
<1>5. CASE SearchReread(t) BY <1>5 DEF SearchReread
<1>6. CASE SearchRecount(t) BY <1>6 DEF SearchRecount
<1>7. UNCHANGED <<shared, hlp>>
  BY DEF Search, SearchRead, SearchRetry, SearchCheck, SearchKey, SearchReread, SearchRecount
<1>8. QED BY <1>1, <1>2, <1>3, <1>4, <1>5, <1>6, <1>7 DEF Search

(* find writes no variable of another thread, and no key.                  *)
LEMMA LocalFind ==
  ASSUME TypeInv, NEW t \in Threads, Find(t)
  PROVE  Elsewhere(t) /\ Here(t) /\ KeysKept
<1> USE DEF TypeInv, TypeOK, Elsewhere, Here, KeysKept, Goto, Probe, RetryFind, LeaveFind, Crash,
            EnterHelp, shared, gc, client, probe
<1>1. ASSUME NEW w \in {0, 1}, FindRead(t, w) PROVE Elsewhere(t) /\ Here(t)
  BY <1>1 DEF FindRead
<1>2. CASE FindRetry(t) BY <1>2 DEF FindRetry
<1>3. CASE FindHelp(t) BY <1>3 DEF FindHelp
<1>4. CASE FindCheck(t) BY <1>4 DEF FindCheck
<1>5. CASE FindKey(t) BY <1>5 DEF FindKey
<1>6. CASE FindReread(t) BY <1>6 DEF FindReread
<1>7. CASE FindRecount(t) BY <1>7 DEF FindRecount
<1>8. CASE DelDupCheck(t) BY <1>8 DEF DelDupCheck
<1>9. CASE DelDupCheckSecond(t) BY <1>9 DEF DelDupCheckSecond
<1>10. CASE DelDup(t) BY <1>10 DEF DelDup
<1>11. UNCHANGED <<heap, nalloc>>
  BY DEF Find, FindRead, FindRetry, FindHelp, FindCheck, FindKey, FindReread, FindRecount,
         DelDupCheck, DelDupCheckSecond, DelDup
<1>12. QED
  BY <1>1, <1>2, <1>3, <1>4, <1>5, <1>6, <1>7, <1>8, <1>9, <1>10, <1>11 DEF Find

(* insert writes no variable of another thread; its update writes a        *)
(* value, never a key.                                                     *)
LEMMA LocalInsert ==
  ASSUME TypeInv, NEW t \in Threads, Insert(t)
  PROVE  Elsewhere(t) /\ Here(t) /\ KeysKept /\ UNCHANGED hlp
<1> USE DEF TypeInv, TypeOK, Elsewhere, Here, Goto, Probe, Return, StartFind, Crash,
            StartRelocate, shared, gc, client, probe
<1>1. CASE InsertUpdate(t)
  <2> DEFINE n == get_pointer(ptr[t][IF result[t] = "FIRST" THEN 0 ELSE 1])
  <2>1. CASE n = NULL
    <3>1. Goto(t, "crashed") /\ UNCHANGED <<shared, client, probe, hlp>> /\ pc[t] = "insert"
      BY <1>1, <2>1 DEF InsertUpdate
    <3>2. QED BY <3>1 DEF KeysKept
  <2>2. CASE n # NULL
    <3>1. /\ Return(t, Outcome("stored", call[t].val)) /\ UNCHANGED <<nalloc, hlp>>
          /\ heap' = [heap EXCEPT ![n].val = call[t].val] /\ pc[t] = "insert"
      BY <1>1, <2>2 DEF InsertUpdate
    <3> HIDE DEF n
    <3>2. \A m \in Nodes : heap'[m].key = heap[m].key BY <3>1
    <3>3. Elsewhere(t) /\ Here(t) BY <3>1
    <3>4. KeysKept BY <3>1, <3>2 DEF KeysKept, Nodes
    <3>5. QED BY <3>1, <3>3, <3>4
  <2>3. QED BY <2>1, <2>2
<1>2. CASE InsertRelocate(t) BY <1>2 DEF InsertRelocate, KeysKept
<1>3. CASE InsertDrop(t) BY <1>3 DEF InsertDrop, KeysKept
<1>4. ASSUME NEW w \in {0, 1}, InsertPlace(t, w)
      PROVE  Elsewhere(t) /\ Here(t) /\ KeysKept /\ UNCHANGED hlp
  BY <1>4 DEF InsertPlace, KeysKept
<1>5. QED BY <1>1, <1>2, <1>3, <1>4 DEF Insert

(* remove writes no variable of another thread, and no key.                *)
LEMMA LocalRemove ==
  ASSUME TypeInv, NEW t \in Threads, Remove(t)
  PROVE  Elsewhere(t) /\ Here(t) /\ KeysKept /\ UNCHANGED hlp
<1> USE DEF TypeInv, TypeOK, Elsewhere, Here, KeysKept, Goto, Probe, Return, StartFind,
            shared, gc, client, probe
<1>1. CASE RemoveAbsent(t) BY <1>1 DEF RemoveAbsent
<1>2. CASE RemoveRecheck(t) BY <1>2 DEF RemoveRecheck
<1>3. CASE Retire(t) BY <1>3 DEF Retire
<1>4. ASSUME NEW w \in {0, 1}, RemoveUnlink(t, w)
      PROVE  Elsewhere(t) /\ Here(t) /\ KeysKept /\ UNCHANGED hlp
  BY <1>4 DEF RemoveUnlink
<1>5. QED BY <1>1, <1>2, <1>3, <1>4 DEF Remove

(* relocate by itself never writes the table.                              *)
LEMMA LocalRelocate ==
  ASSUME TypeInv, NEW t \in Threads, Relocate(t)
  PROVE  Elsewhere(t) /\ Here(t) /\ KeysKept /\ UNCHANGED table
<1> USE DEF TypeInv, TypeOK, Elsewhere, Here, KeysKept, Goto, Probe, StartFind, StartRelocate,
            EnterHelp, shared, gc, client, probe
<1>1. CASE PathRead(t) BY <1>1 DEF PathRead
<1>2. CASE PathCheck(t) BY <1>2 DEF PathCheck
<1>3. CASE PathKey(t) BY <1>3 DEF PathKey
<1>4. CASE MoveDone(t) BY <1>4 DEF MoveDone
<1>5. CASE MoveRead(t) BY <1>5 DEF MoveRead
<1>6. CASE MoveReread(t) BY <1>6 DEF MoveReread
<1>7. CASE MoveDest(t) BY <1>7 DEF MoveDest
<1>8. QED BY <1>1, <1>2, <1>3, <1>4, <1>5, <1>6, <1>7 DEF Relocate

(* help_relocate writes no variable of another thread, and no key.         *)
LEMMA LocalHelp ==
  ASSUME TypeInv, NEW t \in Threads, Help(t)
  PROVE  Elsewhere(t) /\ Here(t) /\ KeysKept
<1> USE DEF TypeInv, TypeOK, Elsewhere, Here, KeysKept, Goto, Crash, HelpRetry, shared, gc,
            client, probe
<1>0. hlp[t].ret \in ReturnLabels BY DEF HelpFrame
<1>a. ASSUME LeaveHelp(t), UNCHANGED <<heap, nalloc, client, probe>>, pc[t] # "idle"
      PROVE  Elsewhere(t) /\ Here(t) /\ KeysKept
  BY <1>a, <1>0 DEF LeaveHelp, ReturnLabels
<1>b. ASSUME NEW src, TestMark(t, src), UNCHANGED <<heap, nalloc, client, probe>>, pc[t] # "idle"
      PROVE  Elsewhere(t) /\ Here(t) /\ KeysKept
  BY <1>a, <1>b DEF TestMark
<1>1. CASE HelpRead(t) BY <1>1 DEF HelpRead
<1>2. CASE HelpCheck(t) BY <1>2, <1>b DEF HelpCheck
<1>3. CASE HelpMark(t) BY <1>3 DEF HelpMark
<1>4. CASE HelpRemark(t) BY <1>4 DEF HelpRemark
<1>5. CASE HelpRecheck(t) BY <1>5, <1>b DEF HelpRecheck
<1>6. CASE HelpDest(t) BY <1>6 DEF HelpDest
<1>7. CASE HelpCheckDest(t) BY <1>7 DEF HelpCheckDest
<1>8. CASE HelpStable(t) BY <1>8 DEF HelpStable
<1>9. CASE HelpCopy(t) BY <1>9 DEF HelpCopy
<1>10. CASE HelpClear(t) BY <1>10, <1>a DEF HelpClear
<1>11. CASE HelpUnmark(t) BY <1>11, <1>a DEF HelpUnmark
<1>12. QED
  BY <1>1, <1>2, <1>3, <1>4, <1>5, <1>6, <1>7, <1>8, <1>9, <1>10, <1>11 DEF Help

(* A step of a call leaves the other threads and all keys alone.           *)
LEMMA LocalStep ==
  ASSUME TypeInv, NEW t \in Threads, Step(t)
  PROVE  Elsewhere(t) /\ Here(t) /\ KeysKept
BY LocalSearch, LocalFind, LocalInsert, LocalRemove, LocalRelocate, LocalHelp DEF Step

-----------------------------------------------------------------------------
(* Who stays at home.                                                      *)

(* A node at home stays at home as long as keys are kept.                  *)
LEMMA RightfulKept ==
  ASSUME TypeInv, KeysKept
  PROVE  \A n \in 0 .. MaxNodes : \A s \in Slots : Rightful(n, s) => Rightful(n, s)'
<1>1. nalloc \in Nat BY SizeAssumption DEF TypeInv, TypeOK
<1>2. QED
  <2> SUFFICES ASSUME NEW n \in 0 .. MaxNodes, NEW s \in Slots, Rightful(n, s), n # NULL
               PROVE  n <= nalloc' /\ s = Home(s[1], heap'[n].key)
    BY DEF Rightful
  <2>1. n <= nalloc /\ s = Home(s[1], heap[n].key) BY DEF Rightful
  <2>2. nalloc' \in Nat /\ n \in 1 .. nalloc BY <2>1, <1>1 DEF NULL, KeysKept
  <2>3. QED BY <2>1, <2>2, <1>1 DEF KeysKept

(* Which nodes, slots and words the table and the helpers can hold.        *)
LEMMA NodeRange ==
  ASSUME TypeInv
  PROVE  /\ \A s \in Slots : table[s].node \in 0 .. MaxNodes
         /\ \A t \in Threads : /\ hlp[t].slot \in Slots /\ hlp[t].src \in 0 .. MaxNodes
                               /\ hlp[t].ptr1 \in TableWord /\ hlp[t].ptr2 \in TableWord
                               /\ hlp[t].ptr1.node \in 0 .. MaxNodes
BY DEF TypeInv, TypeOK, TableWord, HelpFrame

(* A CAS that installs a rightful node, or none, leaves entries at home.   *)
LEMMA CASHome ==
  ASSUME TypeInv, EntriesHome, KeysKept, NEW s0 \in Slots, NEW old, NEW w \in TableWord,
         CAS(s0, old, w),
         table[s0] = old => Rightful(w.node, s0)
  PROVE  EntriesHome'
<1> SUFFICES ASSUME NEW s \in Slots PROVE Rightful(table[s].node, s)'
  BY DEF EntriesHome, Rightful
<1>0. table \in [Slots -> TableWord] BY DEF TypeInv, TypeOK
<1>1. CASE table'[s] = table[s]
  <2>1. table[s].node \in 0 .. MaxNodes /\ Rightful(table[s].node, s)
    BY NodeRange DEF EntriesHome
  <2>2. QED BY <2>1, <1>1, RightfulKept DEF Rightful
<1>2. CASE s = s0 /\ table[s0] = old /\ table'[s0] = w
  <2>1. w.node \in 0 .. MaxNodes BY DEF TableWord
  <2>2. QED BY <2>1, <1>2, RightfulKept DEF Rightful
<1>3. QED BY <1>0, <1>1, <1>2, CASWord

(* Entries stay at home while the table is not written.                    *)
LEMMA SameTableHome ==
  ASSUME TypeInv, EntriesHome, KeysKept, UNCHANGED table
  PROVE  EntriesHome'
BY NodeRange, RightfulKept DEF EntriesHome, Rightful

(* Every step of a call leaves entries at home: insert places its own      *)
(* node in a home of its key, a copy goes to the other home of the node    *)
(* that is copied, and a cancelled relocation restores a node that had     *)
(* its home here.                                                          *)
LEMMA EntriesStep ==
  ASSUME TypeInv, HomeInv, NEW t \in Threads, Step(t)
  PROVE  EntriesHome'
<1>0. /\ KeysKept /\ TypeOK /\ EntriesHome
      /\ \A w \in {0, 1} : /\ MyHome(t, w) \in Slots /\ ptr[t][w] \in TableWord
                           /\ get_counter(ptr[t][w]) \in Nat
  BY LocalStep, HomeWordType, PartsType DEF TypeInv, HomeInv
<1>a. NULL \in 0 .. MaxNodes BY SizeAssumption DEF NULL
<1>b. ASSUME NEW s0 \in Slots, NEW old, NEW c \in Nat, CAS(s0, old, make_pointer(NULL, c))
      PROVE  EntriesHome'
  <2>1. make_pointer(NULL, c) \in TableWord BY <1>a, WordType
  <2>2. Rightful(make_pointer(NULL, c).node, s0) BY DEF make_pointer, Rightful
  <2>3. QED BY <2>1, <2>2, <1>b, <1>0, CASHome
<1>1. CASE Search(t) \/ Relocate(t)
  BY <1>1, <1>0, LocalSearch, LocalRelocate, SameTableHome
<1>2. CASE Find(t)
  <2>1. CASE DelDup(t)
    <3>1. \/ UNCHANGED table
          \/ CAS(MyHome(t, 1), ptr[t][1], make_pointer(NULL, get_counter(ptr[t][1])))
      BY <2>1 DEF DelDup
    <3>2. QED BY <3>1, <1>0, <1>b, SameTableHome
  <2>2. CASE ~DelDup(t)
    <3>1. UNCHANGED table
      BY <1>2, <2>2 DEF Find, FindRead, FindRetry, FindHelp, FindCheck, FindKey, FindReread,
                       FindRecount, DelDupCheck, DelDupCheckSecond, shared
    <3>2. QED BY <3>1, <1>0, SameTableHome
  <2>3. QED BY <2>1, <2>2
<1>3. CASE Insert(t)
  <2>1. ASSUME NEW w \in {0, 1}, InsertPlace(t, w) PROVE EntriesHome'
    <3> DEFINE word == make_pointer(new[t], get_counter(ptr[t][w]))
    <3>1. CAS(MyHome(t, w), ptr[t][w], word) /\ pc[t] = "insert" BY <2>1 DEF InsertPlace
    <3>2. new[t] \in 1 .. nalloc /\ heap[new[t]].key = call[t].key
      BY <3>1 DEF HomeInv, OwnNode
    <3>3. word \in TableWord BY <1>0, WordType DEF TypeOK
    <3>4. MyHome(t, w)[1] = w BY HomeType, <1>0, HomeWordType DEF MyHome
    <3>5. Rightful(word.node, MyHome(t, w))
      BY <3>2, <3>4 DEF Rightful, make_pointer, MyHome, TypeInv, TypeOK
    <3> HIDE DEF word
    <3>6. QED BY <3>1, <3>3, <3>5, <1>0, CASHome
  <2>2. CASE InsertUpdate(t) \/ InsertRelocate(t) \/ InsertDrop(t)
    <3>1. UNCHANGED table BY <2>2 DEF InsertUpdate, InsertRelocate, InsertDrop, shared
    <3>2. QED BY <3>1, <1>0, SameTableHome
  <2>3. QED BY <1>3, <2>1, <2>2 DEF Insert
<1>4. CASE Remove(t)
  <2>1. ASSUME NEW w \in {0, 1}, RemoveUnlink(t, w) PROVE EntriesHome'
    BY <2>1, <1>0, <1>b DEF RemoveUnlink
  <2>2. CASE RemoveAbsent(t) \/ RemoveRecheck(t) \/ Retire(t)
    <3>1. UNCHANGED table BY <2>2 DEF RemoveAbsent, RemoveRecheck, Retire, shared
    <3>2. QED BY <3>1, <1>0, SameTableHome
  <2>3. QED BY <1>4, <2>1, <2>2 DEF Remove
<1>5. CASE Help(t)
  <2>0. /\ hlp[t].slot \in Slots /\ hlp[t].ptr1 \in TableWord /\ hlp[t].src \in 0 .. MaxNodes
        /\ hlp[t].slot[1] \in {0, 1} /\ 1 - hlp[t].slot[1] \in {0, 1}
        /\ get_counter(hlp[t].ptr1) \in Nat /\ get_counter(hlp[t].ptr1) + 1 \in Nat
        /\ get_counter(hlp[t].ptr2) \in Nat /\ get_counter(hlp[t].ptr2) + 1 \in Nat
        /\ Rightful(hlp[t].ptr1.node, hlp[t].slot) /\ Rightful(hlp[t].src, hlp[t].slot)
    BY <1>0, HelpFrameParts DEF HomeInv, FramesHome
  <2>1. CASE HelpMark(t)
    <3>1. CAS(hlp[t].slot, hlp[t].ptr1, set_marked(hlp[t].ptr1)) BY <2>1 DEF HelpMark
    <3>2. set_marked(hlp[t].ptr1) \in TableWord BY <2>0, MarkedType
    <3>3. set_marked(hlp[t].ptr1).node = hlp[t].ptr1.node BY <2>0 DEF set_marked, TableWord
    <3>4. QED BY <3>1, <3>2, <3>3, <2>0, <1>0, CASHome
  <2>2. CASE HelpCopy(t)
    <3> DEFINE c1 == get_counter(hlp[t].ptr1)
               c2 == get_counter(hlp[t].ptr2)
               w  == make_pointer(hlp[t].src, IF c1 > c2 THEN c1 + 1 ELSE c2 + 1)
               d  == HelpDestSlot(t)
    <3>1. CAS(d, hlp[t].ptr2, w) BY <2>2 DEF HelpCopy
    <3>2. w \in TableWord /\ w.node = hlp[t].src BY <2>0, WordType DEF make_pointer
    <3> HIDE DEF w
    <3>3. CASE hlp[t].src = NULL
      <4>2. CASE d \in Slots BY <3>1, <3>2, <3>3, <4>2, <1>0, CASHome DEF Rightful
      <4>3. CASE d \notin Slots
        <5>1. UNCHANGED table BY <3>1, <4>3 DEF CAS, TypeInv, TypeOK
        <5>2. QED BY <5>1, <1>0, SameTableHome
      <4>4. QED BY <4>2, <4>3
    <3>4. CASE hlp[t].src # NULL
      <4>1. hlp[t].src \in Nodes BY <3>4, <2>0, SizeAssumption DEF Nodes, NULL
      <4>2. d \in Slots /\ d[1] = 1 - hlp[t].slot[1]
        BY <4>1, <2>0, HomeType DEF HelpDestSlot, TypeInv, TypeOK
      <4>3. d = Home(d[1], heap[hlp[t].src].key) BY <4>2 DEF HelpDestSlot
      <4>4. Rightful(w.node, d) BY <4>3, <3>2, <2>0 DEF Rightful
      <4> HIDE DEF d
      <4>5. QED BY <3>1, <3>2, <4>2, <4>4, <1>0, CASHome
    <3>5. QED BY <3>3, <3>4
  <2>3. CASE HelpClear(t)
    <3>1. CAS(hlp[t].slot, hlp[t].ptr1, make_pointer(NULL, get_counter(hlp[t].ptr1) + 1))
      BY <2>3 DEF HelpClear
    <3>2. QED BY <3>1, <2>0, <1>b
  <2>4. CASE HelpUnmark(t)
    <3> DEFINE w == make_pointer(hlp[t].src, get_counter(hlp[t].ptr1) + 1)
    <3>1. CAS(hlp[t].slot, hlp[t].ptr1, w) BY <2>4 DEF HelpUnmark
    <3>2. w \in TableWord /\ w.node = hlp[t].src BY <2>0, WordType DEF make_pointer
    <3> HIDE DEF w
    <3>3. QED BY <3>1, <3>2, <2>0, <1>0, CASHome
  <2>5. CASE ~HelpMark(t) /\ ~HelpCopy(t) /\ ~HelpClear(t) /\ ~HelpUnmark(t)
    <3>1. UNCHANGED table
      BY <1>5, <2>5 DEF Help, HelpRead, HelpCheck, HelpRemark, HelpRecheck, HelpDest,
                       HelpCheckDest, HelpStable, shared
    <3>2. QED BY <3>1, <1>0, SameTableHome
  <2>6. QED BY <2>1, <2>2, <2>3, <2>4, <2>5
<1>6. QED BY <1>1, <1>2, <1>3, <1>4, <1>5 DEF Step

(* Helpers that do not move keep what is at home at home.                  *)
LEMMA FramesKept ==
  ASSUME TypeInv, FramesHome, KeysKept, UNCHANGED hlp
  PROVE  FramesHome'
BY NodeRange, RightfulKept DEF FramesHome, Rightful

(* What a step may put into the frame of the helper that takes it.         *)
LEMMA HelperStep ==
  ASSUME TypeInv, NEW t \in Threads, Step(t)
  PROVE  \/ hlp'[t].ptr1.node = NULL /\ hlp'[t].src = NULL
         \/ /\ hlp'[t].slot = hlp[t].slot
            /\ hlp'[t].ptr1.node \in {hlp[t].ptr1.node, table[hlp[t].slot].node}
            /\ hlp'[t].src \in {hlp[t].src, hlp[t].ptr1.node, table[hlp[t].slot].node}
<1> USE DEF TypeInv, TypeOK, HelpFrame, get_pointer
<1>a. NoHelp.ptr1.node = NULL /\ NoHelp.src = NULL BY DEF NoHelp, EmptyWord, make_pointer
<1>b. ASSUME LeaveHelp(t) PROVE hlp'[t] = NoHelp BY <1>b DEF LeaveHelp
<1>1. CASE UNCHANGED hlp BY <1>1
<1>2. CASE LeaveHelp(t) BY <1>2, <1>a, <1>b
<1>3. ASSUME NEW s, NEW b, NEW l, EnterHelp(t, s, b, l)
      PROVE  hlp'[t].ptr1.node = NULL /\ hlp'[t].src = NULL
  BY <1>3, <1>a DEF EnterHelp, NoHelp
<1>4. ASSUME NEW src \in {hlp[t].src, hlp[t].ptr1.node}, TestMark(t, src)
      PROVE  \/ hlp'[t] = NoHelp
             \/ /\ hlp'[t].slot = hlp[t].slot /\ hlp'[t].ptr1 = hlp[t].ptr1
                /\ hlp'[t].src = src
  BY <1>4, <1>b DEF TestMark
<1>5. CASE Search(t) \/ Insert(t) \/ Remove(t)
  BY <1>1, <1>5, LocalSearch, LocalInsert, LocalRemove
<1>6. CASE Find(t)
  <2>1. CASE FindHelp(t) BY <2>1, <1>3 DEF FindHelp
  <2>2. CASE ~FindHelp(t)
    BY <1>1, <1>6, <2>2 DEF Find, FindRead, FindRetry, FindCheck, FindKey, FindReread,
                           FindRecount, DelDupCheck, DelDupCheckSecond, DelDup
  <2>3. QED BY <2>1, <2>2
<1>7. CASE Relocate(t)
  <2>1. UNCHANGED hlp \/ \E s, b, l : EnterHelp(t, s, b, l)
    BY <1>7 DEF Relocate, PathRead, PathCheck, PathKey, MoveDone, MoveRead, MoveReread, MoveDest
  <2>2. QED BY <2>1, <1>1, <1>3
<1>8. CASE Help(t)
  <2>1. CASE HelpRead(t) BY <2>1 DEF HelpRead
  <2>2. CASE HelpRemark(t) BY <2>2 DEF HelpRemark
  <2>3. CASE HelpCheck(t) BY <2>3, <1>1, <1>4, <1>a DEF HelpCheck, HelpRetry
  <2>4. CASE HelpRecheck(t) BY <2>4, <1>4, <1>a DEF HelpRecheck
  <2>5. CASE HelpDest(t)
    <3>1. \/ UNCHANGED hlp
          \/ hlp' = [hlp EXCEPT ![t].ptr2 = table[HelpDestSlot(t)]]
      BY <2>5 DEF HelpDest
    <3>2. CASE hlp' = [hlp EXCEPT ![t].ptr2 = table[HelpDestSlot(t)]] BY <3>2
    <3>3. QED BY <3>1, <3>2, <1>1
  <2>6. CASE HelpMark(t) \/ HelpCheckDest(t) \/ HelpStable(t) \/ HelpCopy(t)
    BY <2>6, <1>1 DEF HelpMark, HelpCheckDest, HelpStable, HelpCopy, HelpRetry
  <2>7. CASE HelpClear(t) \/ HelpUnmark(t) BY <2>7, <1>2 DEF HelpClear, HelpUnmark
  <2>8. QED BY <1>8, <2>1, <2>2, <2>3, <2>4, <2>5, <2>6, <2>7 DEF Help
<1>9. QED BY <1>5, <1>6, <1>7, <1>8 DEF Step

(* The words and the src of every helper stay at home in its slot.         *)
LEMMA FramesStep ==
  ASSUME TypeInv, HomeInv, NEW t \in Threads, Step(t)
  PROVE  FramesHome'
<1> DEFINE InFrame(n) == n \in 0 .. MaxNodes /\ Rightful(n, hlp[t].slot)
<1>0. Elsewhere(t) /\ KeysKept /\ FramesHome /\ EntriesHome BY LocalStep DEF HomeInv
<1>1. \A u \in Threads : hlp[u].slot \in Slots BY NodeRange
<1>2. \A n \in 0 .. MaxNodes : \A s \in Slots : Rightful(n, s) => Rightful(n, s)'
  BY <1>0, RightfulKept
<1>3. /\ Rightful(table[hlp[t].slot].node, hlp[t].slot)
      /\ Rightful(hlp[t].ptr1.node, hlp[t].slot) /\ Rightful(hlp[t].src, hlp[t].slot)
      /\ {table[hlp[t].slot].node, hlp[t].ptr1.node, hlp[t].src} \subseteq 0 .. MaxNodes
  BY <1>0, <1>1, NodeRange DEF FramesHome, EntriesHome
<1> SUFFICES ASSUME NEW u \in Threads
             PROVE  (Rightful(hlp[u].ptr1.node, hlp[u].slot) /\ Rightful(hlp[u].src, hlp[u].slot))'
  BY DEF FramesHome, Rightful
<1>4. CASE u # t
  <2>1. hlp'[u] = hlp[u] BY <1>4, <1>0 DEF Elsewhere
  <2>2. /\ hlp[u].ptr1.node \in 0 .. MaxNodes /\ hlp[u].src \in 0 .. MaxNodes
        /\ Rightful(hlp[u].ptr1.node, hlp[u].slot) /\ Rightful(hlp[u].src, hlp[u].slot)
    BY <1>0, NodeRange DEF FramesHome
  <2>3. QED BY <2>1, <2>2, <1>1, <1>2 DEF Rightful
<1>5. CASE u = t /\ hlp'[t].ptr1.node = NULL /\ hlp'[t].src = NULL
  BY <1>5 DEF Rightful
<1>6. CASE /\ u = t /\ hlp'[t].slot = hlp[t].slot
           /\ hlp'[t].ptr1.node \in {hlp[t].ptr1.node, table[hlp[t].slot].node}
           /\ hlp'[t].src \in {hlp[t].src, hlp[t].ptr1.node, table[hlp[t].slot].node}
  BY <1>6, <1>1, <1>2, <1>3 DEF Rightful
<1>7. QED BY <1>4, <1>5, <1>6, HelperStep

(* insert keeps the node it allocated, with its key.                       *)
LEMMA OwnNodeStep ==
  ASSUME TypeInv, HomeInv, NEW t \in Threads, Step(t)
  PROVE  OwnNode'
<1>0. Elsewhere(t) /\ Here(t) /\ KeysKept /\ OwnNode BY LocalStep DEF HomeInv
<1>1. nalloc \in Nat BY SizeAssumption DEF TypeInv, TypeOK
<1>2. \A n \in 1 .. nalloc : n \in 1 .. nalloc' /\ heap'[n].key = heap[n].key
  BY <1>0, <1>1 DEF KeysKept
<1> SUFFICES ASSUME NEW u \in Threads
             PROVE  /\ pc'[u] = "insert" => call'[u].op = "insert"
                    /\ (pc'[u] # "idle" /\ call'[u].op = "insert") =>
                          new'[u] \in 1 .. nalloc' /\ heap'[new'[u]].key = call'[u].key
  BY DEF OwnNode
<1>3. CASE u # t BY <1>0, <1>2, <1>3 DEF Elsewhere, Here, OwnNode
<1>4. CASE u = t BY <1>0, <1>2, <1>4 DEF Here, OwnNode
<1>5. QED BY <1>3, <1>4

(* The start of a call, with the allocation of insert, leaves all at       *)
(* home.                                                                   *)
LEMMA HomeInvoke ==
  ASSUME TypeInv, HomeInv, NEW t \in Threads, Invoke(t)
  PROVE  HomeInv'
<1>1. PICK c \in Calls[t] : CallSearch(t, c) \/ CallInsert(t, c) \/ CallRemove(t, c)
  BY DEF Invoke
<1>2. PICK l \in {"search.read", "find.read"} : Begin(t, c, l)
  BY <1>1 DEF CallSearch, CallInsert, CallRemove
<1>3. /\ call' = [call EXCEPT ![t] = c] /\ pc' = [pc EXCEPT ![t] = l] /\ pc[t] = "idle"
      /\ UNCHANGED <<table, hlp>>
  BY <1>2 DEF Begin, Goto
<1>4. /\ nalloc \in Nat /\ nalloc <= MaxNodes /\ call \in [Threads -> Call]
      /\ pc \in [Threads -> Labels] /\ new \in [Threads -> 0 .. MaxNodes]
      /\ heap \in [Nodes -> [key : Keys, val : Vals]]
  BY SizeAssumption DEF TypeInv, TypeOK
<1>5. CASE c.op = "insert" /\ CallInsert(t, c)
  <2>1. /\ nalloc' = nalloc + 1 /\ nalloc + 1 \in Nodes
        /\ heap' = [heap EXCEPT ![nalloc + 1] = [key |-> c.key, val |-> c.val]]
        /\ new' = [new EXCEPT ![t] = nalloc + 1]
    BY <1>4, <1>5, SizeAssumption DEF CallInsert, Nodes
  <2>2. \A n \in 1 .. nalloc : heap'[n] = heap[n] BY <2>1, <1>4
  <2>3. KeysKept BY <2>1, <2>2, <1>4 DEF KeysKept
  <2>4. heap'[nalloc + 1].key = c.key BY <2>1, <1>4
  <2>5. OwnNode'
    BY <1>3, <1>4, <1>5, <2>1, <2>2, <2>4 DEF OwnNode, HomeInv
  <2>6. QED BY <1>3, <2>3, <2>5, SameTableHome, FramesKept DEF HomeInv
<1>6. CASE c.op # "insert" /\ UNCHANGED <<heap, nalloc, new>>
  <2>1. KeysKept BY <1>4, <1>6 DEF KeysKept
  <2>2. OwnNode' BY <1>3, <1>4, <1>6 DEF OwnNode, HomeInv
  <2>3. QED BY <1>3, <2>1, <2>2, SameTableHome, FramesKept DEF HomeInv
<1>7. QED BY <1>1, <1>5, <1>6 DEF CallSearch, CallInsert, CallRemove

(* The preloaded entries are at home.                                      *)
LEMMA HomeInit == Init => HomeInv
<1> SUFFICES ASSUME Init PROVE HomeInv OBVIOUS
<1>1. TypeInv BY TypeInit
<1>2. /\ Len(Preload) \in Nat /\ Len(Preload) <= MaxNodes
      /\ \A i \in 1 .. Len(Preload) :
            Preload[i].slot = Home(Preload[i].slot[1], Preload[i].key)
  BY PreloadAssumption, LenProperties
<1>3. EntriesHome
  <2> SUFFICES ASSUME NEW s \in Slots PROVE Rightful(table[s].node, s) BY DEF EntriesHome
  <2>1. CASE \E i \in 1 .. Len(Preload) : Preload[i].slot = s
    <3> DEFINE n == CHOOSE i \in 1 .. Len(Preload) : Preload[i].slot = s
    <3>1. n \in 1 .. Len(Preload) /\ Preload[n].slot = s BY <2>1
    <3>2. table[s].node = n BY <2>1 DEF Init, make_pointer
    <3> HIDE DEF n
    <3>3. n \in Nodes /\ n <= Len(Preload) BY <3>1, <1>2, SizeAssumption DEF Nodes
    <3>4. heap[n].key = Preload[n].key BY <3>3 DEF Init
    <3>5. nalloc = Len(Preload) BY DEF Init
    <3>6. s = Home(s[1], heap[n].key) BY <3>1, <3>4, <1>2
    <3>7. QED BY <3>2, <3>3, <3>5, <3>6 DEF Rightful
  <2>2. CASE ~\E i \in 1 .. Len(Preload) : Preload[i].slot = s
    <3>1. table[s].node = NULL BY <2>2 DEF Init, EmptyWord, make_pointer
    <3>2. QED BY <3>1 DEF Rightful
  <2>3. QED BY <2>1, <2>2
<1>4. FramesHome BY DEF Init, FramesHome, NoHelp, EmptyWord, make_pointer, Rightful
<1>5. OwnNode BY DEF Init, OwnNode, NoCall
<1>6. QED BY <1>3, <1>4, <1>5 DEF HomeInv

(* HomeInv is inductive, given the types.                                  *)
LEMMA HomeStep == TypeInv /\ HomeInv /\ [Next]_vars => HomeInv'
<1> SUFFICES ASSUME TypeInv, HomeInv, [Next]_vars PROVE HomeInv' OBVIOUS
<1>1. ASSUME NEW t \in Threads, Step(t) PROVE HomeInv'
  BY <1>1, EntriesStep, FramesStep, OwnNodeStep DEF HomeInv
<1>2. ASSUME NEW t \in Threads, Invoke(t) PROVE HomeInv' BY <1>2, HomeInvoke
<1>3. CASE UNCHANGED vars
  BY <1>3 DEF HomeInv, EntriesHome, FramesHome, OwnNode, Rightful, vars, shared, client
<1>4. QED BY <1>1, <1>2, <1>3 DEF Next, Stopped

(* What the inductive invariant says about entries.                        *)
LEMMA HomeInvImpliesHomeSlot == HomeInv => HomeSlot
BY DEF HomeInv, EntriesHome, Rightful, HomeSlot

(* The inductive invariant of this module holds in every execution.        *)
THEOREM HomeInvCorrect == Spec => [](TypeInv /\ HomeInv)
BY TypeInit, TypeStep, HomeInit, HomeStep, PTL DEF Spec

(* Whatever the interleaving of inserts, removes, relocations and          *)
(* helpers, and even when counters wrap, an entry is only ever in a slot   *)
(* where search(key) looks for it (lines 281, 327, 345, 360, 442-461).     *)
THEOREM EntriesAtHome == Spec => []HomeSlot
BY HomeInvCorrect, HomeInvImpliesHomeSlot, PTL

-----------------------------------------------------------------------------
(* Claimed words.                                                          *)


(* How a step may change a word: not at all, or with its counter kept or   *)
(* advanced, no entry replaced by another one, and a claimed word only to  *)
(* end the claim.                                                          *)
WordStep(s) ==
  \/ table'[s] = table[s]
  \/ /\ table[s].cnt <= table'[s].cnt
     /\ table[s].node # NULL => table'[s].node \in {NULL, table[s].node}
     /\ Claimed(table[s]) => ~table'[s].mark /\ table'[s].cnt = table[s].cnt + 1

(* A CAS steps each word as WordStep says if the exchange it asks for      *)
(* does.                                                                   *)
LEMMA CASWordStep ==
  ASSUME table \in [Slots -> TableWord], NEW s0, NEW old, NEW w, CAS(s0, old, w),
         (s0 \in Slots /\ table[s0] = old) =>
            /\ old.cnt <= w.cnt
            /\ old.node # NULL => w.node \in {NULL, old.node}
            /\ Claimed(old) => ~w.mark /\ w.cnt = old.cnt + 1
  PROVE  \A s \in Slots : WordStep(s)
<1>1. CASE s0 \in Slots BY <1>1, CASWord DEF WordStep
<1>2. CASE s0 \notin Slots
  <2>1. table' = table BY <1>2 DEF CAS
  <2>2. QED BY <2>1 DEF WordStep
<1>3. QED BY <1>1, <1>2

(* A counter that has not wrapped is not truncated.                        *)
LEMMA SmallMod == ASSUME NEW c \in 0 .. CounterMod - 1 PROVE c % CounterMod = c
BY CounterModAssumption

(* The parts of a new word whose counter has not wrapped.                  *)
LEMMA PointerParts ==
  ASSUME NEW n, NEW c \in 0 .. CounterMod - 1
  PROVE  /\ make_pointer(n, c).node = n /\ make_pointer(n, c).cnt = c
         /\ ~make_pointer(n, c).mark
BY SmallMod DEF make_pointer

(* Each CAS of the code, in turn: what it expects decides what it can      *)
(* change.                                                                 *)
LEMMA WordsStep ==
  ASSUME TypeInv, ClaimInv, NoWrap, NEW t \in Threads, Step(t)
  PROVE  \A s \in Slots : WordStep(s)
<1> USE DEF get_counter, get_pointer
<1>0. /\ table \in [Slots -> TableWord] /\ CounterMod \in Nat
      /\ \A w \in {0, 1} : ptr[t][w] \in TableWord /\ ptr[t][w].cnt \in 0 .. CounterMod - 1
      /\ hlp[t].slot \in Slots /\ hlp[t].ptr1 \in TableWord /\ hlp[t].ptr2 \in TableWord
      /\ hlp[t].ptr1.cnt \in 0 .. CounterMod - 1 /\ hlp[t].ptr2.cnt \in 0 .. CounterMod - 1
  BY HomeWordType, NodeRange, CounterModAssumption DEF TypeInv, TypeOK, TableWord
<1>a. ASSUME UNCHANGED table PROVE \A s \in Slots : WordStep(s) BY <1>a DEF WordStep
(* find, insert and remove write only over words that were not claimed.    *)
<1>b. ASSUME NEW w \in {0, 1}, Clean(ptr[t][w]), NEW s0, NEW n,
             n = NULL \/ ptr[t][w].node = NULL,
             CAS(s0, ptr[t][w], make_pointer(n, ptr[t][w].cnt))
      PROVE  \A s \in Slots : WordStep(s)
  <2> DEFINE old == ptr[t][w]
             new_word == make_pointer(n, old.cnt)
  <2>1. new_word.node = n /\ new_word.cnt = old.cnt BY <1>0, PointerParts
  <2>2. /\ old.cnt <= new_word.cnt
        /\ old.node # NULL => new_word.node \in {NULL, old.node}
        /\ ~Claimed(old)
    BY <2>1, <1>0, <1>b DEF Clean
  <2> HIDE DEF old, new_word
  <2>3. CAS(s0, old, new_word) BY <1>b DEF old, new_word
  <2>4. QED BY <2>2, <2>3, <1>0, CASWordStep
<1>1. CASE Search(t) \/ Relocate(t)
  BY <1>1, <1>a, LocalSearch, LocalRelocate
<1>2. CASE Find(t)
  <2>1. CASE DelDup(t)
    <3>1. Clean(ptr[t][1]) BY <2>1 DEF DelDup, ClaimInv, CleanFind
    <3>2. \/ UNCHANGED table
          \/ CAS(MyHome(t, 1), ptr[t][1], make_pointer(NULL, ptr[t][1].cnt))
      BY <2>1 DEF DelDup
    <3>3. QED BY <3>1, <3>2, <1>a, <1>b
  <2>2. CASE ~DelDup(t)
    <3>1. UNCHANGED table
      BY <1>2, <2>2 DEF Find, FindRead, FindRetry, FindHelp, FindCheck, FindKey, FindReread,
                       FindRecount, DelDupCheck, DelDupCheckSecond, shared
    <3>2. QED BY <3>1, <1>a
  <2>3. QED BY <2>1, <2>2
<1>3. CASE Insert(t)
  <2>1. ASSUME NEW w \in {0, 1}, InsertPlace(t, w) PROVE \A s \in Slots : WordStep(s)
    <3>1. /\ ptr[t][w].node = NULL
          /\ CAS(MyHome(t, w), ptr[t][w], make_pointer(new[t], ptr[t][w].cnt))
      BY <2>1 DEF InsertPlace
    <3>2. Clean(ptr[t][w]) BY <3>1 DEF Clean, Claimed
    <3>3. QED BY <3>1, <3>2, <1>b
  <2>2. CASE InsertUpdate(t) \/ InsertRelocate(t) \/ InsertDrop(t)
    <3>1. UNCHANGED table BY <2>2 DEF InsertUpdate, InsertRelocate, InsertDrop, shared
    <3>2. QED BY <3>1, <1>a
  <2>3. QED BY <1>3, <2>1, <2>2 DEF Insert
<1>4. CASE Remove(t)
  <2>1. ASSUME NEW w \in {0, 1}, RemoveUnlink(t, w) PROVE \A s \in Slots : WordStep(s)
    <3>1. Clean(ptr[t][w]) BY <2>1 DEF RemoveUnlink, ClaimInv, CleanFind
    <3>2. CAS(MyHome(t, w), ptr[t][w], make_pointer(NULL, ptr[t][w].cnt))
      BY <2>1 DEF RemoveUnlink
    <3>3. QED BY <3>1, <3>2, <1>b
  <2>2. CASE RemoveAbsent(t) \/ RemoveRecheck(t) \/ Retire(t)
    <3>1. UNCHANGED table BY <2>2 DEF RemoveAbsent, RemoveRecheck, Retire, shared
    <3>2. QED BY <3>1, <1>a
  <2>3. QED BY <1>4, <2>1, <2>2 DEF Remove
<1>5. CASE Help(t)
  <2> DEFINE was == hlp[t].ptr1
             now == table[hlp[t].slot]
             w1(n) == make_pointer(n, was.cnt + 1)
  <2>0. /\ was.cnt <= now.cnt /\ now.cnt < CounterMod - 1 /\ now.cnt \in Nat
        /\ was.cnt + 1 \in 0 .. CounterMod - 1
    BY <1>0 DEF ClaimInv, SlotMovedOn, NoWrap, TableWord
  <2>a. \A n : w1(n).node = n /\ w1(n).cnt = was.cnt + 1 /\ ~w1(n).mark
    BY <2>0, PointerParts
  <2>1. CASE HelpMark(t)
    <3> DEFINE w == set_marked(was)
    <3>1. CAS(hlp[t].slot, was, w) /\ ~was.mark
      BY <2>1 DEF HelpMark, ClaimInv, HelperKnows
    <3>2. w.node = was.node /\ w.cnt = was.cnt BY <1>0 DEF set_marked, TableWord
    <3>3. was.cnt <= w.cnt /\ ~Claimed(was) BY <3>1, <3>2, <1>0 DEF Claimed
    <3> HIDE DEF w
    <3>4. QED BY <3>1, <3>2, <3>3, <1>0, CASWordStep
  <2>2. CASE HelpCopy(t)
    <3> DEFINE old == hlp[t].ptr2
               c   == IF was.cnt > old.cnt THEN was.cnt + 1 ELSE old.cnt + 1
               w   == make_pointer(hlp[t].src, c)
               d   == HelpDestSlot(t)
    <3>1. CAS(d, old, w) /\ old.node = NULL
      BY <2>2 DEF HelpCopy, ClaimInv, HelperKnows
    <3>2. ASSUME d \in Slots /\ table[d] = old PROVE old.cnt <= w.cnt
      <4>1. old.cnt < CounterMod - 1 BY <3>2 DEF NoWrap
      <4>2. c \in 0 .. CounterMod - 1 /\ old.cnt <= c BY <4>1, <2>0, <1>0
      <4> HIDE DEF c
      <4>3. QED BY <4>2, PointerParts
    <3>3. ~Claimed(old) BY <3>1 DEF Claimed
    <3> HIDE DEF w, d
    <3>4. QED BY <3>1, <3>2, <3>3, <1>0, CASWordStep
  <2>3. CASE HelpClear(t)
    <3>1. CAS(hlp[t].slot, was, w1(NULL)) BY <2>3 DEF HelpClear
    <3>2. was.cnt <= w1(NULL).cnt BY <2>a, <1>0
    <3> HIDE DEF w1, was
    <3>3. QED BY <3>1, <3>2, <2>a, <1>0, CASWordStep
  <2>4. CASE HelpUnmark(t)
    <3>1. CAS(hlp[t].slot, was, w1(hlp[t].src)) BY <2>4 DEF HelpUnmark
    <3>2. was.cnt <= w1(hlp[t].src).cnt BY <2>a, <1>0
    <3>3. (now = was /\ was.node # NULL) => hlp[t].src = was.node
      BY <2>4, <1>0 DEF HelpUnmark, ClaimInv, SlotMovedOn, Claiming, TableWord
    <3> HIDE DEF w1, was
    <3>4. QED BY <3>1, <3>2, <3>3, <2>a, <1>0, CASWordStep
  <2>5. CASE ~HelpMark(t) /\ ~HelpCopy(t) /\ ~HelpClear(t) /\ ~HelpUnmark(t)
    <3>1. UNCHANGED table
      BY <1>5, <2>5 DEF Help, HelpRead, HelpCheck, HelpRemark, HelpRecheck, HelpDest,
                       HelpCheckDest, HelpStable, shared
    <3>2. QED BY <3>1, <1>a
  <2>6. QED BY <2>1, <2>2, <2>3, <2>4, <2>5
<1>6. QED BY <1>1, <1>2, <1>3, <1>4, <1>5 DEF Step

-----------------------------------------------------------------------------
(* What find hands on stays unclaimed.                                     *)

Handing == {"find.check", "find.key", "find.next", "del_dup", "del_dup.second", "del_dup.cas",
            "remove", "remove.second"}

(* What find hands on was not claimed when it was read.                    *)
LEMMA CleanHere ==
  ASSUME TypeInv, NEW t \in Threads, CleanFind(t), Step(t)
  PROVE  CleanFind(t)'
<1> USE DEF TypeInv, TypeOK, Goto, get_pointer, get_marked
<1>0. call[t].op \in {"search", "insert", "remove"} /\ hlp[t].ret \in ReturnLabels
      /\ side[t] \in {0, 1}
  BY DEF Call, HelpFrame
<1>a. CASE pc'[t] \notin Handing BY <1>a DEF Handing, CleanFind
<1>1. CASE Search(t)
  <2>1. pc'[t] \notin Handing
    BY <1>1 DEF Search, SearchRead, SearchRetry, SearchCheck, SearchKey, SearchReread,
                SearchRecount, Probe, Return, Handing
  <2>2. QED BY <2>1, <1>a
<1>2. CASE Find(t)
  <2>1. ASSUME NEW w \in {0, 1}, FindRead(t, w) PROVE CleanFind(t)'
    <3>1. /\ pc'[t] = "find.check" /\ side'[t] = w
          /\ w = 1 => ptr'[t][0] = ptr[t][0] /\ pc[t] = "find.next" /\ side[t] = 0
      BY <2>1 DEF FindRead
    <3>2. QED BY <3>1 DEF CleanFind
  <2>2. CASE FindRetry(t)
    <3>1. pc'[t] \notin Handing BY <2>2 DEF FindRetry, RetryFind, Probe, Handing
    <3>2. QED BY <3>1, <1>a
  <2>3. CASE FindHelp(t)
    <3>1. pc'[t] \notin Handing BY <2>3 DEF FindHelp, EnterHelp, Handing
    <3>2. QED BY <3>1, <1>a
  <2>4. CASE FindCheck(t)
    <3>1. /\ UNCHANGED <<ptr, side>> /\ pc[t] = "find.check"
          /\ pc'[t] \in {"find.next", "find.key"} /\ Clean(ptr[t][side[t]])
      BY <2>4 DEF FindCheck, probe, Clean, Claimed
    <3>2. QED BY <3>1 DEF CleanFind
  <2>5. CASE FindKey(t)
    <3>1. /\ UNCHANGED <<ptr, side>> /\ pc[t] = "find.key"
          /\ \/ pc'[t] = "find.next"
             \/ pc'[t] \in {"del_dup", call[t].op} /\ side[t] = 1
      BY <2>5, <1>0 DEF FindKey, LeaveFind
    <3>2. QED BY <3>1, <1>0 DEF CleanFind
  <2>6. CASE FindReread(t)
    <3>1. /\ pc[t] = "find.next" /\ side[t] = 1 /\ UNCHANGED <<side, result>>
          /\ \/ pc'[t] = call[t].op /\ UNCHANGED ptr
             \/ pc'[t] = "find.recount"
      BY <2>6 DEF FindReread
    <3>2. QED BY <3>1, <1>0 DEF CleanFind
  <2>7. CASE FindRecount(t)
    <3>1. \/ pc'[t] = "find.read"
          \/ pc'[t] = call[t].op /\ result'[t] = "NIL"
      BY <2>7 DEF FindRecount, RetryFind, Probe, LeaveFind
    <3>2. QED BY <3>1, <1>0 DEF CleanFind
  <2>8. CASE DelDupCheck(t) \/ DelDupCheckSecond(t) \/ DelDup(t)
    <3>1. /\ pc[t] \in {"del_dup", "del_dup.second", "del_dup.cas"}
          /\ pc'[t] \in {"del_dup.second", "del_dup.cas", call[t].op, "crashed"}
          /\ UNCHANGED <<ptr, side, result>>
      BY <2>8 DEF DelDupCheck, DelDupCheckSecond, DelDup, probe, Crash
    <3>2. QED BY <3>1, <1>0 DEF CleanFind
  <2>9. QED BY <1>2, <2>1, <2>2, <2>3, <2>4, <2>5, <2>6, <2>7, <2>8 DEF Find
<1>3. CASE Insert(t)
  <2>1. pc'[t] \notin Handing
    BY <1>3 DEF Insert, InsertUpdate, InsertRelocate, InsertDrop, InsertPlace, StartRelocate,
                StartFind, Probe, Return, Crash, Handing
  <2>2. QED BY <2>1, <1>a
<1>4. CASE Remove(t)
  <2>1. CASE pc'[t] = "remove.second"
    <3>1. /\ pc[t] = "remove" /\ result[t] = "SECOND" /\ UNCHANGED <<ptr, side, result>>
      BY <1>4, <2>1 DEF Remove, RemoveAbsent, RemoveRecheck, RemoveUnlink, Retire, StartFind,
                        Probe, Return, probe
    <3>2. QED BY <2>1, <3>1 DEF CleanFind
  <2>2. CASE pc'[t] # "remove.second"
    <3>1. pc'[t] \notin Handing
      BY <1>4, <2>2 DEF Remove, RemoveAbsent, RemoveRecheck, RemoveUnlink, Retire, StartFind,
                        Probe, Return, Handing
    <3>2. QED BY <3>1, <1>a
  <2>3. QED BY <2>1, <2>2
<1>5. CASE Relocate(t)
  <2>1. pc'[t] \notin Handing
    BY <1>5 DEF Relocate, PathRead, PathCheck, PathKey, MoveDone, MoveRead, MoveReread,
                MoveDest, EnterHelp, StartRelocate, StartFind, Probe, Handing
  <2>2. QED BY <2>1, <1>a
<1>6. CASE Help(t)
  <2>1. pc'[t] \notin Handing
    BY <1>6, <1>0 DEF Help, HelpRead, HelpCheck, HelpMark, HelpRemark, HelpRecheck, HelpDest,
                HelpCheckDest, HelpStable, HelpCopy, HelpClear, HelpUnmark, TestMark,
                HelpRetry, LeaveHelp, Crash, Handing, ReturnLabels
  <2>2. QED BY <2>1, <1>a
<1>7. QED BY <1>1, <1>2, <1>3, <1>4, <1>5, <1>6 DEF Step

-----------------------------------------------------------------------------
(* What a helper knows.                                                    *)

(* Only a call of help_relocate makes a frame of it, an empty one.         *)
LEMMA OutsideHelp ==
  ASSUME TypeInv, NEW t \in Threads, Step(t), ~Help(t)
  PROVE  \/ UNCHANGED hlp /\ pc'[t] \notin HelpLabels
         \/ hlp'[t].ptr1 = EmptyWord /\ pc'[t] = "help.read"
<1> USE DEF TypeInv, TypeOK, Goto
<1>0. call[t].op \in {"search", "insert", "remove"} BY DEF Call
<1>1. ASSUME NEW s, NEW b, NEW l, EnterHelp(t, s, b, l)
      PROVE  hlp'[t].ptr1 = EmptyWord /\ pc'[t] = "help.read"
  BY <1>1 DEF EnterHelp, NoHelp
<1>2. CASE Search(t)
  <2>1. pc'[t] \notin HelpLabels
    BY <1>2 DEF Search, SearchRead, SearchRetry, SearchCheck, SearchKey, SearchReread,
                SearchRecount, Probe, Return, HelpLabels
  <2>2. QED BY <2>1, <1>2, LocalSearch
<1>3. CASE Find(t)
  <2>1. CASE FindHelp(t) BY <2>1, <1>1 DEF FindHelp
  <2>2. CASE ~FindHelp(t)
    <3>1. UNCHANGED hlp /\ pc'[t] \notin HelpLabels
      BY <1>0, <1>3, <2>2
         DEF Find, FindRead, FindRetry, FindCheck, FindKey, FindReread, FindRecount,
             DelDupCheck, DelDupCheckSecond, DelDup, RetryFind, LeaveFind, Probe, Crash,
             HelpLabels
    <3>2. QED BY <3>1
  <2>3. QED BY <2>1, <2>2
<1>4. CASE Insert(t)
  <2>1. pc'[t] \notin HelpLabels
    BY <1>4 DEF Insert, InsertUpdate, InsertRelocate, InsertDrop, InsertPlace, StartRelocate,
                StartFind, Probe, Return, Crash, HelpLabels
  <2>2. QED BY <2>1, <1>4, LocalInsert
<1>5. CASE Remove(t)
  <2>1. pc'[t] \notin HelpLabels
    BY <1>5 DEF Remove, RemoveAbsent, RemoveRecheck, RemoveUnlink, Retire, StartFind, Probe,
                Return, HelpLabels
  <2>2. QED BY <2>1, <1>5, LocalRemove
<1>6. CASE Relocate(t)
  <2>1. \/ UNCHANGED hlp /\ pc'[t] \notin HelpLabels
        \/ \E s, b, l : EnterHelp(t, s, b, l)
    BY <1>6 DEF Relocate, PathRead, PathCheck, PathKey, MoveDone, MoveRead, MoveReread,
                MoveDest, StartRelocate, StartFind, Probe, HelpLabels
  <2>2. QED BY <2>1, <1>1
<1>7. QED BY <1>2, <1>3, <1>4, <1>5, <1>6 DEF Step

(* The slot of a helper as any step leaves it.                             *)
LEMMA SlotKept ==
  ASSUME TypeInv, NEW u \in Threads, SlotMovedOn(u), \A s \in Slots : WordStep(s),
         table' \in [Slots -> TableWord]
  PROVE  LET was == hlp[u].ptr1
             now == table[hlp[u].slot]
             next == table'[hlp[u].slot] IN
         /\ was.cnt <= next.cnt
         /\ Claimed(was) => next = was \/ was.cnt < next.cnt
         /\ was.cnt < now.cnt => was.cnt < next.cnt
<1>1. /\ hlp[u].slot \in Slots
      /\ hlp[u].ptr1.cnt \in Int /\ table[hlp[u].slot].cnt \in Int
      /\ table'[hlp[u].slot].cnt \in Int
  <2>1. hlp[u].slot \in Slots /\ hlp[u].ptr1 \in TableWord BY NodeRange
  <2>2. table[hlp[u].slot] \in TableWord /\ table'[hlp[u].slot] \in TableWord
    BY <2>1 DEF TypeInv, TypeOK
  <2>3. QED BY <2>1, <2>2 DEF TableWord
<1>2. QED BY <1>1 DEF WordStep, SlotMovedOn, Claimed

(* A step of one thread refutes nothing that another thread knows.         *)
LEMMA HelperElsewhere ==
  ASSUME TypeInv, NEW t \in Threads, NEW u \in Threads \ {t}, Elsewhere(t),
         CleanFind(u), HelperKnows(u), SlotMovedOn(u), \A s \in Slots : WordStep(s),
         table' \in [Slots -> TableWord]
  PROVE  CleanFind(u)' /\ HelperKnows(u)' /\ SlotMovedOn(u)'
<1>1. CleanFind(u)' /\ HelperKnows(u)' BY DEF CleanFind, HelperKnows, Elsewhere
<1>2. SlotMovedOn(u)' BY SlotKept DEF SlotMovedOn, Elsewhere
<1>3. QED BY <1>1, <1>2

(* A step of a thread leaves it knowing what the invariant says: its src   *)
(* can differ from the node of its word only when the slot has moved on.   *)
LEMMA HelperHere ==
  ASSUME TypeInv, TypeInv', NEW t \in Threads, Step(t), HelperKnows(t), SlotMovedOn(t),
         \A s \in Slots : WordStep(s)
  PROVE  HelperKnows(t)' /\ SlotMovedOn(t)'
<1> DEFINE was == hlp[t].ptr1
           now == table[hlp[t].slot]
           Good == HelperKnows(t)' /\ SlotMovedOn(t)'
<1>0. /\ table \in [Slots -> TableWord] /\ table' \in [Slots -> TableWord]
      /\ hlp'[t].slot \in Slots /\ table'[hlp'[t].slot].cnt \in Nat
      /\ hlp[t].ret \in ReturnLabels /\ hlp[t].slot \in Slots
      /\ hlp \in [Threads -> HelpFrame] /\ pc \in [Threads -> Labels]
      /\ hlp[t] \in HelpFrame
  <2>1. hlp[t] \in HelpFrame /\ hlp'[t] \in HelpFrame BY DEF TypeInv, TypeOK
  <2>2. hlp[t].slot \in Slots /\ hlp'[t].slot \in Slots /\ hlp[t].ret \in ReturnLabels
    BY <2>1 DEF HelpFrame
  <2>3. table'[hlp'[t].slot] \in TableWord BY <2>2 DEF TypeInv, TypeOK
  <2>4. table'[hlp'[t].slot].cnt \in Nat BY <2>3 DEF TableWord
  <2>5. QED BY <2>1, <2>2, <2>4 DEF TypeInv, TypeOK
<1>1. /\ was.cnt <= table'[hlp[t].slot].cnt
      /\ Claimed(was) => table'[hlp[t].slot] = was \/ was.cnt < table'[hlp[t].slot].cnt
      /\ was.cnt < now.cnt => was.cnt < table'[hlp[t].slot].cnt
  BY <1>0, SlotKept
(* An empty frame knows nothing.                                           *)
<1>a. ASSUME hlp'[t].ptr1 = EmptyWord, pc'[t] \notin Claiming \cup {"help.mark", "help.check"}
      PROVE  Good
  <2>1. /\ hlp'[t].ptr1.cnt = 0 /\ ~Claimed(hlp'[t].ptr1)
    BY <1>a, CounterModAssumption DEF EmptyWord, make_pointer, Claimed
  <2>2. HelperKnows(t)' BY <1>a DEF HelperKnows, Claiming
  <2>3. SlotMovedOn(t)' BY <1>a, <2>1, <1>0 DEF SlotMovedOn
  <2>4. QED BY <2>2, <2>3
<1>b. ASSUME LeaveHelp(t) PROVE Good
  <2>1. hlp'[t].ptr1 = EmptyWord /\ pc'[t] \in ReturnLabels
    BY <1>b, <1>0 DEF LeaveHelp, Goto, NoHelp
  <2>2. QED BY <2>1, <1>a DEF ReturnLabels, Claiming
(* A frame that keeps its word keeps what it knows of the slot.            *)
<1>c. ASSUME hlp'[t].ptr1 = was, hlp'[t].slot = hlp[t].slot, HelperKnows(t)',
             pc'[t] # "help.check",
             pc'[t] \in Claiming => \/ was.node = NULL \/ hlp'[t].src = was.node
                                    \/ was.cnt < now.cnt
      PROVE  Good
  BY <1>c, <1>1 DEF SlotMovedOn
<1>d. ASSUME pc[t] \in Claiming, UNCHANGED hlp, HelperKnows(t)', pc'[t] # "help.check"
      PROVE  Good
  BY <1>c, <1>d DEF SlotMovedOn
<1>e. ASSUME NEW src, TestMark(t, src),
             \/ ~was.mark \/ was.node = NULL \/ src = was.node \/ was.cnt < now.cnt
      PROVE  Good
  <2>1. CASE LeaveHelp(t) BY <2>1, <1>b
  <2>2. CASE ~LeaveHelp(t)
    <3>1. /\ pc'[t] = IF was.mark THEN "help.dest" ELSE "help.mark"
          /\ hlp'[t].ptr1 = was /\ hlp'[t].slot = hlp[t].slot /\ hlp'[t].src = src
      BY <1>e, <2>2, <1>0 DEF TestMark, Goto, get_marked, HelpFrame
    <3>2. HelperKnows(t)' BY <3>1 DEF HelperKnows, Claiming
    <3>3. QED BY <3>1, <3>2, <1>c, <1>e DEF Claiming
  <2>3. QED BY <2>1, <2>2
<1>2. CASE ~Help(t)
  <2>1. CASE UNCHANGED hlp /\ pc'[t] \notin HelpLabels
    <3>1. HelperKnows(t)' BY <2>1 DEF HelperKnows, Claiming, HelpLabels
    <3>2. QED BY <2>1, <3>1, <1>c DEF Claiming, HelpLabels
  <2>2. CASE hlp'[t].ptr1 = EmptyWord /\ pc'[t] = "help.read"
    BY <2>2, <1>a DEF Claiming
  <2>3. QED BY <2>1, <2>2, <1>2, OutsideHelp
<1>3. CASE Help(t)
  <2>1. CASE HelpRead(t)
    <3>1. /\ pc'[t] = "help.check" /\ hlp'[t].ptr1 = now /\ hlp'[t].src = now.node
          /\ hlp'[t].slot = hlp[t].slot /\ UNCHANGED table
      BY <2>1, <1>0 DEF HelpRead, Goto, get_pointer, HelpFrame, shared
    <3>2. QED BY <3>1, <1>0 DEF HelperKnows, SlotMovedOn, Claiming, TableWord
  <2>2. CASE HelpCheck(t)
    <3>1. CASE HelpRetry(t)
      <4>1. pc'[t] = "help.read" /\ UNCHANGED hlp BY <3>1, <1>0 DEF HelpRetry, Goto
      <4>2. HelperKnows(t)' BY <4>1 DEF HelperKnows, Claiming
      <4>3. QED BY <4>1, <4>2, <1>c DEF Claiming
    <3>2. CASE TestMark(t, hlp[t].src)
      <4>1. hlp[t].src = was.node BY <2>2 DEF HelpCheck, SlotMovedOn
      <4>2. QED BY <3>2, <4>1, <1>e
    <3>3. QED BY <2>2, <3>1, <3>2 DEF HelpCheck
  <2>3. CASE HelpMark(t)
    <3>1. pc'[t] = "help.remark" /\ UNCHANGED hlp BY <2>3, <1>0 DEF HelpMark, Goto
    <3>2. HelperKnows(t)' BY <3>1 DEF HelperKnows, Claiming
    <3>3. QED BY <3>1, <3>2, <1>c DEF Claiming
  <2>4. CASE HelpRemark(t)
    <3>1. /\ pc'[t] = "help.recheck" /\ hlp'[t].ptr1 = now
          /\ hlp'[t].slot = hlp[t].slot /\ UNCHANGED table
      BY <2>4, <1>0 DEF HelpRemark, Goto, HelpFrame, shared
    <3>2. QED BY <3>1, <1>0 DEF HelperKnows, SlotMovedOn, Claiming, TableWord
  <2>5. CASE HelpRecheck(t)
    <3>1. CASE was = now
      <4>1. TestMark(t, was.node) BY <2>5, <3>1 DEF HelpRecheck, get_pointer
      <4>2. QED BY <4>1, <1>e
    <3>2. CASE was # now
      <4>1. TestMark(t, hlp[t].src) BY <2>5, <3>2 DEF HelpRecheck
      <4>2. ~was.mark \/ was.node = NULL \/ was.cnt < now.cnt
        BY <3>2 DEF SlotMovedOn, Claimed
      <4>3. QED BY <4>1, <4>2, <1>e
    <3>3. QED BY <3>1, <3>2
  <2>6. CASE HelpDest(t)
    <3>1. /\ pc[t] = "help.dest" /\ pc'[t] \in {"crashed", "help.checkdest"}
          /\ hlp'[t].ptr1 = was /\ hlp'[t].slot = hlp[t].slot /\ hlp'[t].src = hlp[t].src
      BY <2>6, <1>0 DEF HelpDest, Crash, Goto, HelpFrame
    <3>2. HelperKnows(t)' BY <3>1 DEF HelperKnows, Claiming
    <3>3. QED BY <3>1, <3>2, <1>c DEF SlotMovedOn, Claiming
  <2>7. CASE HelpCheckDest(t)
    <3>1. /\ pc[t] = "help.checkdest" /\ UNCHANGED hlp
          /\ pc'[t] \in {"help.read", "help.stable", "help.clear", "help.unmark"}
          /\ pc'[t] = "help.stable" => hlp[t].ptr2.node = NULL
      BY <2>7, <1>0 DEF HelpCheckDest, HelpRetry, Goto, get_pointer
    <3>2. HelperKnows(t)' BY <3>1 DEF HelperKnows, Claiming
    <3>3. QED BY <3>1, <3>2, <1>d DEF Claiming
  <2>8. CASE HelpStable(t) \/ HelpCopy(t)
    <3>1. /\ pc[t] \in {"help.stable", "help.copy"} /\ UNCHANGED hlp
          /\ pc'[t] \in {"help.read", "help.copy", "help.clear", "help.unmark"}
      BY <2>8, <1>0 DEF HelpStable, HelpCopy, HelpRetry, Goto
    <3>2. HelperKnows(t)' BY <3>1 DEF HelperKnows, Claiming
    <3>3. QED BY <3>1, <3>2, <1>d DEF Claiming
  <2>9. CASE HelpClear(t) \/ HelpUnmark(t) BY <2>9, <1>b DEF HelpClear, HelpUnmark
  <2>10. QED BY <1>3, <2>1, <2>2, <2>3, <2>4, <2>5, <2>6, <2>7, <2>8, <2>9 DEF Help
<1>4. QED BY <1>2, <1>3

(* A step of a call keeps ClaimInv.                                        *)
LEMMA ClaimStep ==
  ASSUME TypeInv, TypeInv', ClaimInv, NoWrap, NEW t \in Threads, Step(t)
  PROVE  ClaimInv'
<1>1. \A s \in Slots : WordStep(s) BY WordsStep
<1>2. Elsewhere(t) /\ table' \in [Slots -> TableWord] BY LocalStep DEF TypeInv, TypeOK
<1>3. CleanFind(t) /\ HelperKnows(t) /\ SlotMovedOn(t) BY DEF ClaimInv
<1>4. CleanFind(t)' /\ HelperKnows(t)' /\ SlotMovedOn(t)'
  BY <1>1, <1>3, CleanHere, HelperHere
<1>5. ASSUME NEW u \in Threads \ {t}
      PROVE  CleanFind(u)' /\ HelperKnows(u)' /\ SlotMovedOn(u)'
  BY <1>1, <1>2, HelperElsewhere DEF ClaimInv
<1>6. QED BY <1>4, <1>5 DEF ClaimInv

(* The start of a call keeps ClaimInv.                                     *)
LEMMA ClaimInvoke ==
  ASSUME TypeInv, ClaimInv, NEW t \in Threads, Invoke(t)
  PROVE  ClaimInv' /\ UNCHANGED table
<1>1. PICK c \in Calls[t], l \in {"search.read", "find.read"} : Begin(t, c, l)
  BY DEF Invoke, CallSearch, CallInsert, CallRemove
<1>2. /\ UNCHANGED <<table, ptr, side, result, hlp>>
      /\ \A u \in Threads : pc'[u] = pc[u] \/ pc'[u] \in {"search.read", "find.read"}
  BY <1>1 DEF Begin, Goto, probe, TypeInv, TypeOK
<1>3. ASSUME NEW u \in Threads
      PROVE  CleanFind(u)' /\ HelperKnows(u)' /\ SlotMovedOn(u)'
  <2>1. CleanFind(u) /\ HelperKnows(u) /\ SlotMovedOn(u) BY DEF ClaimInv
  <2>2. QED BY <1>2, <2>1 DEF CleanFind, HelperKnows, SlotMovedOn, Claiming
<1>4. QED BY <1>2, <1>3 DEF ClaimInv

(* No word is held, and none is claimed, at the start.                     *)
LEMMA ClaimInit == Init => ClaimInv
<1> SUFFICES ASSUME Init, NEW t \in Threads
             PROVE  CleanFind(t) /\ HelperKnows(t) /\ SlotMovedOn(t)
  BY DEF ClaimInv
<1>1. pc[t] = "idle" /\ hlp[t].ptr1 = EmptyWord BY DEF Init, NoHelp
<1>2. EmptyWord.cnt = 0 /\ ~Claimed(EmptyWord)
  BY CounterModAssumption DEF EmptyWord, make_pointer, Claimed
<1>3. table[hlp[t].slot].cnt \in Nat
  <2>1. TypeInv BY TypeInit
  <2>2. hlp[t].slot \in Slots BY <2>1, NodeRange
  <2>3. QED BY <2>1, <2>2 DEF TypeInv, TypeOK, TableWord
<1>4. QED BY <1>1, <1>2, <1>3 DEF CleanFind, HelperKnows, SlotMovedOn, Claiming

(* ClaimInv is inductive as long as no counter wraps, and under it every   *)
(* word steps as WordStep says.                                            *)
LEMMA ClaimNext ==
  TypeInv /\ TypeInv' /\ ClaimInv /\ NoWrap /\ [Next]_vars =>
    ClaimInv' /\ \A s \in Slots : WordStep(s)
<1> SUFFICES ASSUME TypeInv, TypeInv', ClaimInv, NoWrap, [Next]_vars
             PROVE  ClaimInv' /\ \A s \in Slots : WordStep(s)
  OBVIOUS
<1>1. ASSUME NEW t \in Threads, Step(t) PROVE ClaimInv' /\ \A s \in Slots : WordStep(s)
  BY <1>1, ClaimStep, WordsStep
<1>2. ASSUME NEW t \in Threads, Invoke(t) PROVE ClaimInv' /\ \A s \in Slots : WordStep(s)
  BY <1>2, ClaimInvoke DEF WordStep
<1>3. CASE UNCHANGED vars
  BY <1>3 DEF ClaimInv, CleanFind, HelperKnows, SlotMovedOn, WordStep, vars, shared, probe
<1>4. QED BY <1>1, <1>2, <1>3 DEF Next, Stopped

(* What WordStep says about overwriting and about claims.                  *)
LEMMA WordStepKeeps ==
  ASSUME TypeInv, NoWrap, NEW s \in Slots, WordStep(s)
  PROVE  /\ table[s].node # NULL => table'[s].node \in {NULL, table[s].node}
         /\ (table[s].node # NULL /\ table[s].mark /\ table'[s] # table[s]) =>
               ~table'[s].mark /\ table'[s].cnt = (table[s].cnt + 1) % CounterMod
<1>1. table[s].cnt + 1 \in 0 .. CounterMod - 1
  BY CounterModAssumption DEF NoWrap, TypeInv, TypeOK, TableWord
<1>2. (table[s].cnt + 1) % CounterMod = table[s].cnt + 1 BY <1>1, SmallMod
<1>3. QED BY <1>2 DEF WordStep, Claimed

(* Until a counter wraps, what a thread knows of the words it has read     *)
(* stays true: find hands no claimed word to insert, remove and del_dup,   *)
(* and the slot of a helper with a stale src has moved on (lines 140-364). *)
THEOREM ClaimsKnown == Spec /\ []NoWrap => []ClaimInv
<1>1. TypeInv /\ TypeInv' /\ ClaimInv /\ NoWrap /\ [Next]_vars => ClaimInv'
  BY ClaimNext
<1>2. QED BY <1>1, TypeInit, TypeStep, ClaimInit, PTL DEF Spec

(* Until a counter wraps, no CAS of the code replaces an entry by another  *)
(* one: an insert, a copy or a cancelled relocation never loses an entry   *)
(* by writing over it (lines 345, 360, 442-461).                           *)
THEOREM SlotsNotOverwritten == Spec /\ []NoWrap => NoOverwrite
<1> DEFINE A == \A s \in Slots :
              table[s].node # NULL => table'[s].node \in {NULL, table[s].node}
<1>1. TypeInv /\ TypeInv' /\ ClaimInv /\ NoWrap /\ [Next]_vars => [A]_vars
  BY ClaimNext, WordStepKeeps
<1>2. TypeInv /\ TypeInv' /\ ClaimInv /\ NoWrap /\ [Next]_vars => ClaimInv'
  BY ClaimNext
<1> HIDE DEF A
<1>3. Spec /\ []NoWrap => [][A]_vars
  BY <1>1, <1>2, TypeInit, TypeStep, ClaimInit, PTL DEF Spec
<1>4. QED BY <1>3 DEF A, NoOverwrite

(* Until a counter wraps, a claimed entry is changed only by the helpers   *)
(* of that relocation, which clear the slot or the mark and advance its    *)
(* counter (lines 351, 360); find, insert, remove and del_dup never touch  *)
(* it.                                                                     *)
THEOREM ClaimsHonoured == Spec /\ []NoWrap => ClaimIsHonoured
<1> DEFINE A == \A s \in Slots :
              (table[s].node # NULL /\ table[s].mark /\ table'[s] # table[s]) =>
                 /\ ~table'[s].mark
                 /\ table'[s].cnt = (table[s].cnt + 1) % CounterMod
<1>1. TypeInv /\ TypeInv' /\ ClaimInv /\ NoWrap /\ [Next]_vars => [A]_vars
  BY ClaimNext, WordStepKeeps
<1>2. TypeInv /\ TypeInv' /\ ClaimInv /\ NoWrap /\ [Next]_vars => ClaimInv'
  BY ClaimNext
<1> HIDE DEF A
<1>3. Spec /\ []NoWrap => [][A]_vars
  BY <1>1, <1>2, TypeInit, TypeStep, ClaimInit, PTL DEF Spec
<1>4. QED BY <1>3 DEF A, ClaimIsHonoured
=============================================================================
