---------------------- MODULE HashTableLifetime_proofs ----------------------
(***************************************************************************)
(* The table as its user sees it.  The destructor deletes each node once,  *)
(* and every node that was linked (LifetimeSpec); and the table implements *)
(* the map of ConcurrentMap (HistorySpec): each step maps to a step of the *)
(* map or to a stutter.  Both rest on what LockfreeHashTable_writers says  *)
(* of the table itself and on its hypotheses.                              *)
(***************************************************************************)
EXTENDS HashTableLifetime, LockfreeHashTable_writers, FiniteSetTheorems

-----------------------------------------------------------------------------
(* The destructor.                                                         *)

(* A history adds nothing to what the table does.                          *)
LEMMA HistoryIsSpec == HistorySpec => Spec
<1>1. HistoryInit => Init BY DEF HistoryInit
<1>2. [HistoryNext]_<<vars, window>> => [Next]_vars BY DEF HistoryNext
<1>3. QED BY <1>1, <1>2, PTL DEF HistorySpec, Spec

LEMMA LifetimeIsSpec == LifetimeSpec => Spec
<1>1. LifetimeInit => Init BY DEF LifetimeInit, HistoryInit
<1>2. [LifetimeNext]_lifeVars => [Next]_vars
  BY DEF LifetimeNext, Use, Destroy, HistoryNext, lifeVars
<1>3. QED BY <1>1, <1>2, PTL DEF LifetimeSpec, Spec

(* When no call is under way, a node stands in one slot at most.           *)
LEMMA StandsOnce ==
  ASSUME OwnerInv, Quiescent, NEW n \in Nodes
  PROVE  Cardinality(SlotsOf(n)) = IF n \in Standing THEN 1 ELSE 0
<1>1. \A u \in Threads : pc[u] \notin HelpLabels BY DEF Quiescent, HelpLabels
<1>2. \A r, s \in SlotsOf(n) : r = s
  BY <1>1, NothingMarked DEF SlotsOf, Nodes, NULL, get_pointer
<1>3. CASE SlotsOf(n) = {} BY <1>3, FS_EmptySet DEF Standing
<1>4. CASE SlotsOf(n) # {}
  <2>1. PICK s : SlotsOf(n) = {s} BY <1>2, <1>4
  <2>2. QED BY <2>1, <1>4, FS_Singleton DEF Standing
<1>5. QED BY <1>3, <1>4

LEMMA DestroyNext ==
  OwnerInv /\ DestroyInv /\ [LifetimeNext]_lifeVars => DestroyInv'
<1> SUFFICES ASSUME OwnerInv, DestroyInv, [LifetimeNext]_lifeVars PROVE DestroyInv' OBVIOUS
<1>1. CASE Use BY <1>1 DEF Use, DestroyInv
<1>2. CASE Destroy
  <2>1. /\ destroyed' = TRUE /\ Quiescent /\ UNCHANGED vars
        /\ deletes' = [n \in Nodes |-> Cardinality(SlotsOf(n))]
    BY <1>2 DEF Destroy
  <2>2. \A n \in Nodes : deletes'[n] = IF n \in Standing THEN 1 ELSE 0 BY <2>1, StandsOnce
  <2>3. Standing' = Standing /\ Quiescent'
    BY <2>1 DEF Standing, SlotsOf, Quiescent, vars, shared
  <2>4. QED BY <2>1, <2>2, <2>3 DEF DestroyInv
<1>3. CASE UNCHANGED lifeVars
  BY <1>3 DEF DestroyInv, Quiescent, Standing, SlotsOf, lifeVars, vars, shared
<1>4. QED BY <1>1, <1>2, <1>3 DEF LifetimeNext

(* No node is deleted twice, by the destructor alone or by scan and the    *)
(* destructor (lines 52-69, 88-115), unless somebody has written while an  *)
(* entry was being moved.                                                  *)
THEOREM NodesDestroyedOnce == LifetimeSpec /\ []MovesAlone => []DestroyedOnce
<1>1. LifetimeInit => DestroyInv BY DEF LifetimeInit, DestroyInv
<1>2. OwnerInv /\ DestroyInv => DestroyedOnce
  <2> SUFFICES ASSUME OwnerInv, DestroyInv, destroyed, NEW n \in Nodes
               PROVE  deletes[n] + (IF n \in freed THEN 1 ELSE 0) <= 1
    BY DEF DestroyedOnce
  <2>1. deletes[n] = IF n \in Standing THEN 1 ELSE 0 BY DEF DestroyInv
  <2>2. n \in freed => n \notin Standing
    BY DEF OwnerInv, RetiredStaysOut, Retired, Standing, SlotsOf, get_pointer
  <2>3. QED BY <2>1, <2>2
<1>3. QED BY <1>1, <1>2, DestroyNext, LifetimeIsSpec, OwnersKnown, PTL DEF LifetimeSpec

(* A thread that has unlinked a node retires it and returns.               *)
LEMMA RetireOnly ==
  ASSUME TypeInv, NEW t \in Threads, Step(t), Role(t), pc[t] = "retire"
  PROVE  Retire(t)
<1>1. ~Search(t) /\ ~Help(t) BY StepsWrite DEF SearchLabels, HelpLabels
<1>2. ~Find(t)
  BY DEF Find, FindRead, FindRetry, FindHelp, FindCheck, FindKey, FindReread,
     FindRecount, DelDupCheck, DelDupCheckSecond, DelDup
<1>3. ~Insert(t) /\ ~Relocate(t)
  BY DEF Insert, InsertUpdate, InsertRelocate, InsertDrop, InsertPlace, Relocate,
     PathRead, PathCheck, PathKey, MoveDone, MoveRead, MoveReread, MoveDest
<1>4. QED BY <1>1, <1>2, <1>3 DEF Step, Remove, RemoveAbsent, RemoveRecheck, RemoveUnlink

(* A node leaves the table for a hand that retires it.                     *)
LEMMA LinkedStep ==
  ASSUME TypeInv, TypeInv', HomeInv, OwnerInv, KeyInv, Orderly, LinkedInv,
         NEW t \in Threads, Step(t), NEW n \in Nodes,
         \/ n \in Standing \/ n \in Retired
         \/ \E u \in Threads : pc[u] = "retire" /\ RemovedNode(u) = n
  PROVE  \/ n \in Standing' \/ n \in Retired'
         \/ \E u \in Threads : pc'[u] = "retire" /\ RemovedNode(u)' = n
<1>1. MovesAlone /\ Elsewhere(t) /\ Role(t) /\ n # NULL
  BY LocalStep DEF Orderly, OwnerInv, Nodes, NULL
<1>2. CASE n \in Retired BY <1>2, RetireStep, RetiredKept
<1>3. ASSUME NEW u \in Threads, pc[u] = "retire", RemovedNode(u) = n
      PROVE  n \in Retired' \/ (pc'[u] = "retire" /\ RemovedNode(u)' = n)
  <2>1. CASE u # t BY <2>1, <1>1, <1>3 DEF Elsewhere, RemovedNode
  <2>2. CASE u = t
    <3>1. Retire(t) BY <1>1, <1>3, <2>2, RetireOnly
    <3>2. QED BY <3>1, <2>2, <1>3, RetireStep
  <2>3. QED BY <2>1, <2>2
<1>4. ASSUME NEW s \in Slots, table[s].node = n
      PROVE  n \in Standing' \/ (pc'[t] = "retire" /\ RemovedNode(t)' = n)
  <2>1. ASSUME NEW r \in Slots, table'[r].node = n PROVE n \in Standing'
    BY <2>1 DEF Standing, SlotsOf, get_pointer
  <2>2. CASE SameNodes BY <1>4, <2>1, <2>2 DEF SameNodes
  <2>3. CASE Places(t)
    <3>1. PICK w \in {0, 1} : table[MyHome(t, w)].node = NULL /\ Replaced(MyHome(t, w), new[t])
      BY <2>3 DEF Places
    <3>2. MyHome(t, w) \in Slots BY HomeWordType DEF TypeInv
    <3>3. table'[s] = table[s] BY <1>1, <1>4, <3>1, <3>2, ReplacedWord
    <3>4. QED BY <1>4, <2>1, <3>3
  <2>4. CASE Takes(t)
    <3>1. Writing(t) BY <1>1, <2>4, WriterLabels DEF Takes, SearchLabels
    <3>2. PICK w \in {0, 1} : /\ Replaced(MyHome(t, w), NULL) /\ pc'[t] = "retire"
                              /\ RemovedNode(t)' = table[MyHome(t, w)].node
      BY <1>1, <2>4, <3>1, TakesOwn
    <3>3. MyHome(t, w) \in Slots BY HomeWordType DEF TypeInv
    <3>4. CASE s = MyHome(t, w) BY <1>4, <3>2, <3>4
    <3>5. CASE s # MyHome(t, w)
      <4>1. table'[s] = table[s] BY <3>2, <3>3, <3>5, ReplacedWord
      <4>2. QED BY <1>4, <2>1, <4>1
    <3>6. QED BY <3>4, <3>5
  <2>5. CASE Copies(t) \/ Clears(t)
    <3> DEFINE a == hlp[t].slot
               b == HelpDestSlot(t)
    <3>1. MoverKnows(t) /\ pc[t] \in {"help.copy", "help.clear"}
      BY <2>5 DEF Copies, Clears, OwnerInv
    <3>2. a \in Slots /\ b \in Slots /\ a # b BY <3>1, MoverHolds, HelperFrame
    <3>3. CASE Copies(t)
      <4>1. table[b].node = NULL /\ Replaced(b, table[a].node) BY <3>3 DEF Copies
      <4>2. table'[s] = table[s] BY <1>1, <1>4, <3>2, <4>1, ReplacedWord
      <4>3. QED BY <1>4, <2>1, <4>2
    <3>4. CASE Clears(t)
      <4>1. table[b].node = table[a].node /\ Replaced(a, NULL) BY <3>4 DEF Clears
      <4>2. \A r \in Slots \ {a} : table'[r] = table[r] BY <3>2, <4>1, ReplacedWord
      <4>3. CASE s = a BY <1>4, <2>1, <3>2, <4>1, <4>2, <4>3
      <4>4. CASE s # a BY <1>4, <2>1, <4>2, <4>4
      <4>5. QED BY <4>3, <4>4
    <3>5. QED BY <2>5, <3>3, <3>4
  <2>6. QED BY <1>1, <2>2, <2>3, <2>4, <2>5, NodesStep
<1>5. QED BY <1>2, <1>3, <1>4 DEF Standing, SlotsOf, get_pointer

LEMMA LinkedNext ==
  /\ TypeInv /\ TypeInv' /\ HomeInv /\ OwnerInv /\ KeyInv /\ Orderly /\ LinkedInv
  /\ [LifetimeNext]_lifeVars
  => LinkedInv'
<1> SUFFICES ASSUME TypeInv, TypeInv', HomeInv, OwnerInv, KeyInv, Orderly, LinkedInv,
                    [LifetimeNext]_lifeVars
             PROVE  LinkedInv'
  OBVIOUS
<1> DEFINE Kept(n) == \/ n \in Standing \/ n \in Retired
                      \/ \E t \in Threads : pc[t] = "retire" /\ RemovedNode(t) = n
<1>1. ASSUME \A n \in Nodes : Kept(n) => Kept(n)', linked' = linked \cup Standing'
      PROVE  LinkedInv'
  BY <1>1 DEF LinkedInv, Standing
<1>2. ASSUME UNCHANGED vars PROVE \A n : Kept(n) <=> Kept(n)'
  BY <1>2 DEF Standing, SlotsOf, Retired, RemovedNode, vars, shared, gc, probe
<1>3. CASE Use
  <2>1. linked' = linked \cup Standing' /\ Next BY <1>3 DEF Use, HistoryNext
  <2>2. CASE UNCHANGED vars BY <1>1, <1>2, <2>1, <2>2
  <2>3. ASSUME NEW t \in Threads, Step(t) PROVE LinkedInv'
    <3>1. \A n \in Nodes : Kept(n) => Kept(n)' BY <2>3, LinkedStep
    <3>2. QED BY <3>1, <1>1, <2>1
  <2>4. ASSUME NEW t \in Threads, Invoke(t) PROVE LinkedInv'
    <3>1. /\ UNCHANGED <<table, ptr, result>>
          /\ pc[t] = "idle" /\ \A u \in Threads \ {t} : pc'[u] = pc[u]
      BY <2>4, InvokeFrame
    <3>2. Retired' = Retired BY <2>4, <3>1, RetiredKept DEF Retire
    <3>3. \A n \in Nodes : Kept(n) => Kept(n)'
      BY <3>1, <3>2 DEF Standing, SlotsOf, RemovedNode
    <3>4. QED BY <3>3, <1>1, <2>1
  <2>5. QED BY <2>1, <2>2, <2>3, <2>4 DEF Next, Stopped
<1>4. CASE Destroy \/ UNCHANGED lifeVars
  <2>1. UNCHANGED vars /\ linked' = linked BY <1>4 DEF Destroy, lifeVars
  <2>2. Standing' = Standing BY <2>1 DEF Standing, SlotsOf, vars, shared
  <2>3. QED BY <1>1, <1>2, <2>1, <2>2 DEF LinkedInv
<1>5. QED BY <1>3, <1>4 DEF LifetimeNext

(* The destructor deletes every node that ever stood in the table, but for *)
(* those in a retired list (lines 52-69), unless two writes of a key have  *)
(* overlapped or somebody has written while an entry was being moved.      *)
THEOREM LinkedNodesDeleted == LifetimeSpec /\ []Orderly => []LinkedDeleted
<1>1. LifetimeInit => DestroyInv /\ LinkedInv
  BY DEF LifetimeInit, DestroyInv, LinkedInv, Standing
<1>2. DestroyInv /\ LinkedInv => LinkedDeleted
  <2> SUFFICES ASSUME DestroyInv, LinkedInv, destroyed, NEW n \in linked
               PROVE  deletes[n] > 0 \/ n \in Retired
    BY DEF LinkedDeleted
  <2>1. n \in Nodes /\ (n \in Standing \/ n \in Retired)
    BY DEF DestroyInv, LinkedInv, Quiescent
  <2>2. QED BY <2>1 DEF DestroyInv
<1>3. QED BY <1>1, <1>2, DestroyNext, LinkedNext, LifetimeIsSpec, KeysKnown, PTL
      DEF LifetimeSpec

-----------------------------------------------------------------------------
(* The map.  What the table holds for a key is the value in the key's      *)
(* entry, which every step but those that write the key leaves alone.      *)

LEMMA ViewIs ==
  ASSUME NEW k \in Keys
  PROVE  /\ View(k) = IF EntryOf(k) # NULL THEN heap[EntryOf(k)].val ELSE None
         /\ View(k)' = IF EntryOf(k)' # NULL THEN heap'[EntryOf(k)'].val ELSE None
BY DEF View, EntryOf, Holds

LEMMA ViewSame ==
  ASSUME NEW k \in Keys, SameEntry(k)
  PROVE  View(k)' = View(k)
BY ViewIs DEF SameEntry

LEMMA ViewType ==
  ASSUME NEW k \in Keys
  PROVE  /\ TypeInv => /\ View(k) \in Vals \cup {None}
                       /\ EntryOf(k) # NULL <=> View(k) # None
         /\ TypeInv' => View(k)' \in Vals \cup {None}
<1> DEFINE Typed == /\ View(k) \in Vals \cup {None}
                    /\ EntryOf(k) # NULL <=> View(k) # None
<1>1. TypeInv => Typed
  <2> SUFFICES ASSUME TypeInv PROVE Typed OBVIOUS
  <2>1. table \in [Slots -> TableWord] /\ heap \in [Nodes -> [key : Keys, val : Vals]]
    BY DEF TypeInv, TypeOK
  <2>2. Home(0, k) \in Slots /\ Home(1, k) \in Slots BY HomeType
  <2>3. EntryOf(k) \in 0 .. MaxNodes BY <2>1, <2>2, SizeAssumption DEF EntryOf, TableWord, NULL
  <2>4. EntryOf(k) # NULL => EntryOf(k) \in Nodes
    BY <2>3, SizeAssumption DEF Nodes, NULL
  <2>5. EntryOf(k) # NULL => heap[EntryOf(k)].val \in Vals BY <2>1, <2>4
  <2>6. QED BY <2>5, ViewIs, NoneAssumption
<1>2. (TypeInv => Typed)' BY <1>1, PTL
<1>3. QED BY <1>1, <1>2

(* Only a helper that clears the second home of an entry takes a key out of*)
(* it that stays present.                                                  *)
LEMMA LeavesSecond ==
  ASSUME TypeInv, TypeInv', HomeInv, OwnerInv, KeyInv, MovesAlone,
         NEW t \in Threads, Step(t), NEW k \in Keys, LeavesSecondHome(k)
  PROVE  Clears(t) /\ k = heap[table[hlp[t].slot].node].key /\ EntryOf(k) # NULL
<1> DEFINE s == Home(1, k)
<1>1. /\ KeysKept /\ Role(t) /\ s \in Slots /\ Home(0, k) \in Slots
      /\ MyHome(t, 0) \in Slots /\ MyHome(t, 1) \in Slots
  BY LocalStep, HomeType, HomeWordType DEF OwnerInv, TypeInv
<1>2. Holds(s, k) /\ ~Holds(s, k)' /\ Present(k)' /\ table[s].node # NULL
  BY DEF LeavesSecondHome, Holds
<1>3. EntryOf(k) # NULL BY <1>2 DEF EntryOf, Holds
<1>4. table'[s].node # table[s].node BY <1>1, <1>2, HoldsKept
<1>5. ~SameNodes BY <1>1, <1>4 DEF SameNodes
<1>6. CASE Places(t)
  <2>1. PICK w \in {0, 1} : table[MyHome(t, w)].node = NULL /\ Replaced(MyHome(t, w), new[t])
    BY <1>6 DEF Places
  <2>2. MyHome(t, w) \in Slots /\ MyHome(t, w) # s BY <1>1, <1>2, <2>1
  <2>3. QED BY <1>1, <1>4, <2>1, <2>2, ReplacedWord
<1>7. CASE Takes(t)
  <2>1. Writing(t) BY <1>1, <1>7, WriterLabels DEF Takes, SearchLabels
  <2>2. PICK w \in {0, 1} : /\ There(t, w) /\ (w = 1 => ~There(t, 0))
                            /\ Replaced(MyHome(t, w), NULL)
    BY <1>1, <1>7, <2>1, TakesOwn
  <2>3. MyHome(t, w) \in Slots BY <1>1
  <2>4. /\ table'[MyHome(t, w)].node = NULL
        /\ \A r \in Slots \ {MyHome(t, w)} : table'[r] = table[r]
    BY <2>2, <2>3, ReplacedWord
  <2>5. s = MyHome(t, w) BY <1>1, <1>4, <2>4
  <2>6. w = 1 /\ call[t].key = k BY <1>2, <2>2, <2>5 DEF MyHome, Home, There, Holds
  <2>7. Home(0, k) # s BY DEF Home
  <2>8. ~Holds(Home(0, k), k) BY <2>2, <2>6 DEF There, MyHome
  <2>9. ~Holds(Home(0, k), k)' BY <1>1, <2>4, <2>5, <2>7, <2>8, HoldsKept
  <2>10. QED BY <1>2, <2>9 DEF Present
<1>8. CASE Copies(t)
  <2>1. /\ MoverKnows(t) /\ pc[t] = "help.copy" /\ table[HelpDestSlot(t)].node = NULL
        /\ Replaced(HelpDestSlot(t), table[hlp[t].slot].node)
    BY <1>8 DEF OwnerInv, Copies
  <2>2. HelpDestSlot(t) \in Slots /\ HelpDestSlot(t) # s BY <1>2, <2>1, MoverHolds
  <2>3. QED BY <1>1, <1>4, <2>1, <2>2, ReplacedWord
<1>9. CASE Clears(t)
  <2>1. hlp[t].slot \in Slots /\ Replaced(hlp[t].slot, NULL) BY <1>9, HelperFrame DEF Clears
  <2>2. s = hlp[t].slot BY <1>1, <1>4, <2>1, ReplacedWord
  <2>3. QED BY <1>2, <1>3, <1>9, <2>2 DEF Holds
<1>10. QED BY <1>5, <1>6, <1>7, <1>8, <1>9, NodesStep

-----------------------------------------------------------------------------
(* What a call may answer.                                                 *)

(* A step of a call adds to the window of each call under way what the     *)
(* table now holds for its key, and nothing else but a moment of absence.  *)
LEMMA WindowStep ==
  ASSUME TypeInv, NEW t \in Threads, Step(t), HistoryNext, NEW u \in Threads,
         NEW k \in Keys, k = call[u].key
  PROVE  /\ pc'[u] = "idle" => window'[u] = {}
         /\ pc'[u] # "idle" =>
              /\ pc[u] # "idle"
              /\ window'[u] = window[u] \cup {View(k)'}
                                \cup (IF LeavesSecondHome(k) THEN {None} ELSE {})
<1>1. call' = call /\ (pc'[u] # "idle" => pc[u] # "idle")
  BY LocalStep DEF Elsewhere, Here
<1>2. pc'[u] = "idle" => window'[u] = {} BY DEF HistoryNext
<1>3. ASSUME pc'[u] # "idle"
      PROVE  window'[u] = window[u] \cup {View(call[u].key)'}
                 \cup {None : i \in {j \in {call[u].key} : LeavesSecondHome(j)}}
  BY <1>1, <1>3 DEF HistoryNext
<1>4. View(call[u].key)' = View(k)' BY <1>1
<1>5. {None : i \in {j \in {k} : LeavesSecondHome(j)}}
        = IF LeavesSecondHome(k) THEN {None} ELSE {}
  OBVIOUS
<1>6. QED BY <1>1, <1>2, <1>3, <1>4, <1>5

(* What a search has read and keeps stays a witness, as long as its window *)
(* grows with what happens to its key.                                     *)
LEMMA WitnessLasts ==
  ASSUME TypeInv, OwnerInv, KeysKept, NEW u \in Threads, NEW k \in Keys, k = call[u].key,
         pc'[u] = pc[u], call'[u] = call[u], ptr'[u] = ptr[u], side'[u] = side[u],
         SearchWitness(u), window[u] \subseteq window'[u],
         Holds(Home(1, k), k) => Holds(Home(1, k), k)' \/ None \in window'[u],
         \A n \in 1 .. nalloc : heap[n].key = k =>
            heap'[n].val = heap[n].val \/ heap'[n].val \in window'[u]
  PROVE  SearchWitness(u)'
<1>1. nalloc \in Nat BY SizeAssumption DEF TypeInv, TypeOK
<1>2. ASSUME NEW w \in {0, 1}
      PROVE  /\ Matched(u, w)' <=> Matched(u, w)
             /\ (Matched(u, w) /\ heap[get_pointer(ptr[u][w])].val \in window[u]) =>
                   heap'[get_pointer(ptr[u][w])].val \in window'[u]
  <2>1. ptr[u][w].node \in 0 .. nalloc BY DEF OwnerInv, NodesKnown
  <2>2. ptr[u][w].node # NULL => ptr[u][w].node \in 1 .. nalloc BY <1>1, <2>1 DEF NULL
  <2>3. QED BY <2>2 DEF Matched, get_pointer, KeysKept
<1>3. There(u, 1) => There(u, 1)' \/ None \in window'[u]
  <2>1. There(u, 1)' <=> Holds(Home(1, k), k)' BY DEF There, MyHome
  <2>2. QED BY <2>1 DEF There, MyHome
<1>4. side[u] \in {0, 1} BY DEF TypeInv, TypeOK
<1>5. QED BY <1>2, <1>3, <1>4 DEF SearchWitness

LEMMA OthersWitness ==
  ASSUME TypeInv, TypeInv', HomeInv, OwnerInv, KeyInv, KeyInv', EffectInv, WindowInv, Orderly,
         NEW t \in Threads, Step(t), HistoryNext, NEW u \in Threads \ {t}, pc[u] # "idle"
  PROVE  SearchWitness(u)'
<1>1. /\ Elsewhere(t) /\ Here(t) /\ KeysKept BY LocalStep
<1>2. PICK k \in Keys : k = call[u].key BY HomeWordType DEF TypeInv
<1>3. /\ pc'[u] = pc[u] /\ call'[u] = call[u] /\ ptr'[u] = ptr[u] /\ side'[u] = side[u]
  BY <1>1 DEF Elsewhere, Here
<1>4. window'[u] = window[u] \cup {View(k)'} \cup (IF LeavesSecondHome(k) THEN {None} ELSE {})
  BY <1>2, <1>3, WindowStep
<1>5. Holds(Home(1, k), k) => Holds(Home(1, k), k)' \/ None \in window'[u]
  <2>1. ~Present(k)' => View(k)' = None BY DEF Present, View
  <2>2. QED BY <1>4, <2>1 DEF LeavesSecondHome
<1>6. ASSUME NEW n \in 1 .. nalloc, heap[n].key = k
      PROVE  heap'[n].val = heap[n].val \/ heap'[n].val \in window'[u]
  <2>1. n \in Nodes
    <3>1. nalloc \in 0 .. MaxNodes BY DEF TypeInv, TypeOK
    <3>2. QED BY <3>1, SizeAssumption DEF Nodes
  <2>2. CASE heap' = heap BY <2>2
  <2>3. ASSUME table' = table, NEW s \in Slots, \A m \in Nodes : m # table[s].node => heap'[m] = heap[m],
               n = table[s].node
        PROVE  heap'[n].val \in window'[u]
    <3>1. n # NULL /\ heap'[n].key = k BY <1>1, <1>6 DEF KeysKept, NULL
    <3>2. s = Home(s[1], k) /\ s[1] \in {0, 1}
      BY <1>6, <2>3, <3>1, SlotSide DEF HomeInv, EntriesHome, Rightful
    <3>3. Stands(k, n)' BY <2>3, <3>1, <3>2 DEF Stands
    <3>4. EntryOf(k)' = n BY <3>3, EntryIs DEF KeyInv
    <3>5. View(k)' = heap'[n].val BY <3>1, <3>4, ViewIs
    <3>6. QED BY <1>4, <3>5
  <2>4. QED BY <2>1, <2>2, <2>3, EntryStep DEF EffectInv
<1>7. SearchWitness(u) BY DEF WindowInv
<1>8. QED BY <1>1, <1>2, <1>3, <1>4, <1>5, <1>6, <1>7, WitnessLasts

(* What a search learns with each of its own steps.                        *)
LEMMA OwnWitness ==
  ASSUME TypeInv, HomeInv, OwnerInv, KeyInv, WindowInv, NEW t \in Threads, Search(t),
         window[t] \subseteq window'[t], pc'[t] # "idle"
  PROVE  SearchWitness(t)'
<1>1. /\ KeysKept /\ UNCHANGED <<table, heap, call>> /\ pc[t] # "idle"
      /\ pc \in [Threads -> Labels] /\ side \in [Threads -> {0, 1}]
      /\ ptr \in [Threads -> [{0, 1} -> TableWord]]
  <2>1. UNCHANGED heap
    BY DEF Search, SearchRead, SearchRetry, SearchCheck, SearchKey, SearchReread,
           SearchRecount, shared
  <2>2. QED BY <2>1, LocalSearch DEF TypeInv, TypeOK, Here
<1>2. PICK k \in Keys : k = call[t].key BY HomeWordType DEF TypeInv
<1>3. View(k) \in window[t] /\ SearchWitness(t) BY <1>1, <1>2 DEF WindowInv
<1>4. ASSUME NEW w \in {0, 1}
      PROVE  /\ There(t, w)' <=> There(t, w)
             /\ ptr'[t][w] = ptr[t][w] => (Matched(t, w)' <=> Matched(t, w))
             /\ ptr'[t][w] = table[MyHome(t, w)] => (Matched(t, w)' <=> There(t, w))
  BY <1>1, OwnReads
<1>5. ASSUME NEW w \in {0, 1}, There(t, w)
      PROVE  heap[table[MyHome(t, w)].node].val \in window[t]
  <2> DEFINE n == table[MyHome(t, w)].node
  <2>1. Stands(k, n) BY <1>2, <1>5 DEF There, Holds, MyHome, Stands
  <2>2. n # NULL /\ EntryOf(k) = n BY <2>1, EntryIs DEF KeyInv
  <2>3. QED BY <1>3, <2>2, ViewIs
<1>6. ~There(t, 0) /\ ~There(t, 1) => None \in window[t]
  BY <1>2, <1>3 DEF There, MyHome, View
<1>7. ASSUME NEW w \in {0, 1}, SearchRead(t, w) PROVE SearchWitness(t)'
  <2>1. /\ pc'[t] = "search.check" /\ side'[t] = w /\ ptr'[t][w] = table[MyHome(t, w)]
        /\ w = 1 => pc[t] = "search.next" /\ side[t] = 0
    BY <1>1, <1>7 DEF SearchRead, Goto
  <2>2. Matched(t, w)' <=> There(t, w) BY <2>1, <1>4
  <2>3. Matched(t, side[t])' <=> There(t, w) BY <2>1, <2>2
  <2>4. There(t, w) => heap'[get_pointer(ptr'[t][side'[t]])].val \in window'[t]
    BY <1>1, <1>5, <2>1 DEF get_pointer
  <2>5. ~There(t, w) => None \in window'[t] \/ (w = 0 /\ There(t, 1)')
    <3>1. CASE w = 0 BY <3>1, <1>4, <1>6
    <3>2. CASE w = 1 BY <3>2, <1>3, <2>1 DEF SearchWitness
    <3>3. QED BY <3>1, <3>2
  <2>6. QED BY <2>1, <2>3, <2>4, <2>5 DEF SearchWitness
<1>8. CASE SearchRetry(t)
  <2>1. pc'[t] = "search.read" BY <1>1, <1>8 DEF SearchRetry, Probe, Goto
  <2>2. QED BY <2>1 DEF SearchWitness
<1>9. CASE SearchCheck(t) \/ SearchKey(t)
  <2>1. /\ pc[t] \in {"search.check", "search.key"} /\ pc'[t] \in {"search.key", "search.next"}
        /\ ptr' = ptr /\ side' = side
        /\ pc'[t] = "search.next" => ~Matched(t, side[t])
    BY <1>1, <1>9 DEF SearchCheck, SearchKey, Goto, Return, Probe, probe, Matched
  <2>2. side[t] \in {0, 1} BY <1>1
  <2>3. Matched(t, side[t])' <=> Matched(t, side[t]) BY <1>4, <2>1, <2>2
  <2>4. There(t, 1)' <=> There(t, 1) BY <1>4
  <2>5. QED BY <1>1, <1>3, <2>1, <2>3, <2>4 DEF SearchWitness
<1>10. CASE SearchReread(t)
  <2>1. pc[t] = "search.next" /\ side[t] = 1 /\ pc'[t] = "search.recount"
    BY <1>1, <1>10 DEF SearchReread, Goto
  <2>2. QED BY <1>3, <2>1 DEF SearchWitness
<1>11. CASE SearchRecount(t)
  <2>1. pc'[t] = "search.read" BY <1>1, <1>11 DEF SearchRecount, Probe, Goto, Return
  <2>2. QED BY <2>1 DEF SearchWitness
<1>12. QED BY <1>7, <1>8, <1>9, <1>10, <1>11 DEF Search

(* WindowInv is inductive as long as writes are orderly.                   *)
LEMMA WindowKept ==
  ASSUME TypeInv, TypeInv', HomeInv, OwnerInv, OwnerInv', KeyInv, KeyInv', EffectInv,
         WindowInv, Orderly, NEW t \in Threads, Step(t), HistoryNext
  PROVE  WindowInv'
<1>1. /\ Elsewhere(t) /\ Here(t) BY LocalStep
<1>2. \A u \in Threads : pc'[u] # "idle" => pc[u] # "idle" /\ call'[u] = call[u]
  BY <1>1 DEF Elsewhere, Here
<1>3. \A u \in Threads : call[u].key \in Keys BY HomeWordType DEF TypeInv
<1>4. ASSUME NEW u \in Threads
      PROVE  /\ window'[u] \in SUBSET (Vals \cup {None})
             /\ pc'[u] = "idle" => window'[u] = {}
             /\ pc'[u] # "idle" => window[u] \subseteq window'[u]
                                     /\ View(call[u].key)' \in window'[u]
  <2>1. PICK k \in Keys : k = call[u].key BY <1>3
  <2>2. View(k)' \in Vals \cup {None} BY ViewType
  <2>3. window[u] \in SUBSET (Vals \cup {None}) BY DEF WindowInv
  <2>4. pc'[u] # "idle" => View(call[u].key)' = View(k)'
    <3> SUFFICES ASSUME pc'[u] # "idle" PROVE View(call[u].key)' = View(k)' OBVIOUS
    <3>1. k = call'[u].key BY <1>2, <2>1
    <3>2. QED BY <3>1
  <2>5. QED BY <2>1, <2>2, <2>3, <2>4, WindowStep
<1>5. ASSUME NEW u \in Threads, pc'[u] # "idle" PROVE SearchWitness(u)'
  <2>1. CASE u # t BY <1>2, <1>5, <2>1, OthersWitness
  <2>2. CASE u = t
    <3>1. CASE Search(t) BY <1>4, <1>5, <2>2, <3>1, OwnWitness
    <3>2. CASE ~Search(t)
      <4>1. Writing(t) /\ Role(t)' /\ call' = call
        BY <1>1, <3>2, StepsWrite DEF OwnerInv, Step, Here
      <4>2. pc'[t] \notin SearchLabels BY <4>1 DEF Role, Writing
      <4>3. QED BY <2>2, <4>2 DEF SearchWitness, SearchLabels
    <3>3. QED BY <3>1, <3>2
  <2>3. QED BY <2>1, <2>2
<1>6. window' \in [Threads -> SUBSET (Vals \cup {None})] BY <1>4 DEF HistoryNext
<1>7. QED BY <1>4, <1>5, <1>6 DEF WindowInv

LEMMA WindowInvoke ==
  ASSUME TypeInv, TypeInv', HomeInv, OwnerInv, KeyInv, WindowInv,
         NEW t \in Threads, Invoke(t), HistoryNext
  PROVE  /\ WindowInv'
         /\ \A k \in Keys : SameEntry(k)
         /\ window' = [window EXCEPT ![t] = {View(call'[t].key)}]
<1>1. /\ UNCHANGED <<table, ptr, side>> /\ KeysKept
      /\ pc[t] = "idle" /\ pc'[t] \in {"search.read", "find.read"}
      /\ \A u \in Threads \ {t} : pc'[u] = pc[u] /\ call'[u] = call[u]
      /\ \A n \in 1 .. nalloc : heap'[n] = heap[n]
  BY InvokeFrame
<1>2. \A k \in Keys : SameEntry(k) BY InvokeBegins, BeginSame
<1>3. \A k \in Keys : Holds(Home(1, k), k)' <=> Holds(Home(1, k), k)
  BY <1>1, StillTable DEF KeyStill
<1>4. \A k \in Keys : ~LeavesSecondHome(k) BY <1>3 DEF LeavesSecondHome
<1>5. window'[t] = {View(call'[t].key)} BY <1>1 DEF HistoryNext
<1>6. ASSUME NEW u \in Threads \ {t} PROVE window'[u] = window[u]
  <2>1. CASE pc[u] = "idle" BY <1>1, <1>6, <2>1 DEF HistoryNext, WindowInv
  <2>2. CASE pc[u] # "idle"
    <3>1. PICK k \in Keys : k = call[u].key /\ k = call'[u].key
      BY <1>1, HomeWordType DEF TypeInv
    <3>2. window'[u] = window[u] \cup {View(call[u].key)'}
                 \cup {None : i \in {j \in {call[u].key} : LeavesSecondHome(j)}}
      BY <1>1, <1>6, <2>2 DEF HistoryNext
    <3>3. View(call[u].key)' = View(k)' BY <3>1
    <3>4. View(k)' \in window[u] BY <1>2, <2>2, <3>1, ViewSame DEF WindowInv
    <3>5. {j \in {k} : LeavesSecondHome(j)} = {} BY <1>4
    <3>6. QED BY <3>1, <3>2, <3>3, <3>4, <3>5
  <2>3. QED BY <2>1, <2>2
<1>7. window \in [Threads -> SUBSET (Vals \cup {None})] BY DEF WindowInv
<1>8. window' = [window EXCEPT ![t] = {View(call'[t].key)}]
  <2>1. window' = [u \in Threads |-> window'[u]] BY DEF HistoryNext
  <2>2. QED BY <1>5, <1>6, <1>7, <2>1
<1>9. PICK k \in Keys : k = call'[t].key
  BY DEF TypeInv, TypeOK, Call
<1>10. View(call[t].key)' = View(k)' /\ View(k)' = View(k) /\ View(k) \in Vals \cup {None}
  BY <1>2, <1>9, ViewSame, ViewType
<1>11. window' \in [Threads -> SUBSET (Vals \cup {None})] BY <1>7, <1>8, <1>9, <1>10
<1>12. ASSUME NEW u \in Threads, pc'[u] = "idle" PROVE window'[u] = {}
  BY <1>12 DEF HistoryNext
<1>13. ASSUME NEW u \in Threads, pc'[u] # "idle"
       PROVE  View(call[u].key)' \in window'[u] /\ SearchWitness(u)'
  <2>1. CASE u = t
    <3>1. View(call[t].key)' \in window'[t] BY <1>5, <1>9, <1>10
    <3>2. SearchWitness(t)' BY <1>1 DEF SearchWitness
    <3>3. QED BY <2>1, <3>1, <3>2
  <2>2. CASE u # t
    <3>1. PICK j \in Keys : j = call[u].key /\ j = call'[u].key
      BY <1>1, <2>2, HomeWordType DEF TypeInv
    <3>2. View(call[u].key)' = View(j)' /\ View(j)' = View(j) BY <1>2, <3>1, ViewSame
    <3>3. /\ pc'[u] = pc[u] /\ window'[u] = window[u] BY <1>1, <1>6, <2>2
    <3>4. View(j) \in window[u] /\ SearchWitness(u) BY <1>13, <3>1, <3>3 DEF WindowInv
    <3>5. SearchWitness(u)' BY <1>1, <1>3, <2>2, <3>1, <3>3, <3>4, WitnessLasts
    <3>6. QED BY <3>2, <3>3, <3>4, <3>5
  <2>3. QED BY <2>1, <2>2
<1>14. WindowInv' BY <1>11, <1>12, <1>13 DEF WindowInv
<1>15. QED BY <1>2, <1>8, <1>14

LEMMA WindowStill ==
  ASSUME WindowInv, TypeInv, UNCHANGED vars, HistoryNext
  PROVE  UNCHANGED window
<1>1. pc' = pc /\ call' = call /\ table' = table /\ heap' = heap
  BY DEF vars, shared, client
<1>2. ASSUME NEW u \in Threads PROVE window'[u] = window[u]
  <2>1. CASE pc[u] = "idle" BY <1>1, <2>1 DEF HistoryNext, WindowInv
  <2>2. CASE pc[u] # "idle"
    <3>1. PICK k \in Keys : k = call[u].key /\ k = call'[u].key
      BY <1>1, HomeWordType DEF TypeInv
    <3>2. window'[u] = window[u] \cup {View(call[u].key)'}
                 \cup {None : i \in {j \in {call[u].key} : LeavesSecondHome(j)}}
      BY <1>1, <2>2 DEF HistoryNext
    <3>3. View(call[u].key)' = View(k)' /\ View(k)' = View(k)
      BY <1>1, <3>1 DEF View, Holds
    <3>4. View(k) \in window[u] BY <2>2, <3>1 DEF WindowInv
    <3>5. \A j : ~LeavesSecondHome(j) BY <1>1 DEF LeavesSecondHome, Holds
    <3>6. QED BY <3>1, <3>2, <3>3, <3>4, <3>5
  <2>3. QED BY <2>1, <2>2
<1>3. window = [u \in Threads |-> window[u]] BY DEF WindowInv
<1>4. window' = [u \in Threads |-> window'[u]] BY DEF HistoryNext
<1>5. QED BY <1>2, <1>3, <1>4

LEMMA WindowNext ==
  /\ TypeInv /\ TypeInv' /\ HomeInv /\ OwnerInv /\ OwnerInv' /\ KeyInv /\ KeyInv'
  /\ EffectInv /\ WindowInv /\ Orderly /\ [HistoryNext]_<<vars, window>>
  => WindowInv'
<1> SUFFICES ASSUME TypeInv, TypeInv', HomeInv, OwnerInv, OwnerInv', KeyInv, KeyInv',
                    EffectInv, WindowInv, Orderly, [HistoryNext]_<<vars, window>>
             PROVE  WindowInv'
  OBVIOUS
<1>1. ASSUME HistoryNext, NEW t \in Threads, Step(t) PROVE WindowInv' BY <1>1, WindowKept
<1>2. ASSUME HistoryNext, NEW t \in Threads, Invoke(t) PROVE WindowInv'
  BY <1>2, WindowInvoke
<1>3. CASE UNCHANGED <<vars, window>>
  BY <1>3
     DEF WindowInv, SearchWitness, Matched, There, MyHome, View, Holds, vars, shared, client, probe
<1>4. HistoryNext => Next BY DEF HistoryNext
<1>5. HistoryNext /\ UNCHANGED vars => UNCHANGED <<vars, window>> BY WindowStill
<1>6. QED BY <1>1, <1>2, <1>3, <1>4, <1>5 DEF Next, Stopped

(* Nothing that a search has read and trusts was not so at some moment of  *)
(* its call, but for the absence that a move across its back feigns: the   *)
(* invariant behind the refinement (lines 386-435), as long as no two      *)
(* writes of a key overlap and nobody writes while an entry is being moved.*)
THEOREM AnswersWitnessed == HistorySpec /\ []Orderly => []OrderlyInv
<1>1. HistoryInit => WindowInv BY DEF HistoryInit, WindowInv, Init
<1>2. HistoryInit => EffectInv BY EffectInit DEF HistoryInit
<1>3. [HistoryNext]_<<vars, window>> => [Next]_vars BY DEF HistoryNext
<1>4. QED BY <1>1, <1>2, <1>3, HistoryIsSpec, KeysKnown, EffectNext, WindowNext, PTL
      DEF HistorySpec, OrderlyInv

-----------------------------------------------------------------------------
(* The refinement: what each step of a call is to the caller.              *)

Answered(t, kind, v) == out' = [out EXCEPT ![t] = Outcome(kind, v)]

(* Where a call returns from, and with what.                               *)
Returned(t) ==
  \/ /\ pc[t] = "search.key" /\ Matched(t, side[t])
     /\ Answered(t, "found", heap[get_pointer(ptr[t][side[t]])].val)
  \/ pc[t] = "search.recount" /\ Answered(t, "missing", call[t].val)
  \/ pc[t] = "insert" /\ Answered(t, "stored", call[t].val)
  \/ pc[t] = "path.key" /\ Answered(t, "dropped", call[t].val)
  \/ pc[t] = "remove" /\ result[t] = "NIL" /\ Answered(t, "absent", call[t].val)
  \/ pc[t] = "retire" /\ Answered(t, "erased", call[t].val)

LEMMA ReturnStep ==
  ASSUME TypeInv, NEW t \in Threads, Step(t), Role(t)
  PROVE  IF pc'[t] = "idle" THEN Returned(t) ELSE out' = out
<1> DEFINE Goal == IF pc'[t] = "idle" THEN Returned(t) ELSE out' = out
<1>1. /\ pc \in [Threads -> Labels] /\ call[t].op \in {"search", "insert", "remove"}
  BY DEF TypeInv, TypeOK, Call
<1>2. CASE Search(t)
  <2>1. pc[t] = "search.key" => get_pointer(ptr[t][side[t]]) # NULL BY DEF TypeInv, Control
  <2>2. CASE SearchKey(t)
    BY <1>1, <2>1, <2>2 DEF SearchKey, Return, Probe, Goto, Returned, Answered, Matched, client
  <2>3. CASE SearchRecount(t)
    BY <1>1, <2>3 DEF SearchRecount, Return, Probe, Goto, Returned, Answered, client
  <2>4. CASE (\E w \in {0, 1} : SearchRead(t, w)) \/ SearchRetry(t) \/ SearchCheck(t) \/ SearchReread(t)
    BY <1>1, <2>4 DEF SearchRead, SearchRetry, SearchCheck, SearchReread, Probe, Goto, client
  <2>5. QED BY <1>2, <2>2, <2>3, <2>4 DEF Search
<1>3. CASE Find(t)
  <2>1. out' = out
    BY <1>3 DEF Find, FindRead, FindRetry, FindHelp, FindCheck, FindKey, FindReread, FindRecount,
       DelDupCheck, DelDupCheckSecond, DelDup, client
  <2>2. pc'[t] # "idle"
    BY <1>1, <1>3 DEF Find, FindRead, FindRetry, FindHelp, FindCheck, FindKey, FindReread,
       FindRecount, DelDupCheck, DelDupCheckSecond, DelDup, RetryFind, LeaveFind, EnterHelp,
       Probe, Goto, Crash
  <2>3. QED BY <2>1, <2>2
<1>4. CASE Insert(t)
  <2>1. CASE InsertUpdate(t)
    BY <1>1, <2>1 DEF InsertUpdate, Return, Probe, Goto, Crash, Returned, Answered, client
  <2>2. ASSUME NEW w \in {0, 1}, InsertPlace(t, w) PROVE Goal
    BY <1>1, <2>2 DEF InsertPlace, StartFind, Return, Probe, Goto, Returned, Answered, client
  <2>3. CASE InsertRelocate(t)
    BY <1>1, <2>3 DEF InsertRelocate, StartRelocate, Goto, client
  <2>4. CASE InsertDrop(t)
    BY <1>1, <2>4 DEF InsertDrop, Return, Probe, Goto, Returned, Answered
  <2>5. QED BY <1>4, <2>1, <2>2, <2>3, <2>4 DEF Insert
<1>5. CASE Remove(t)
  <2>1. CASE RemoveAbsent(t)
    BY <1>1, <2>1 DEF RemoveAbsent, Return, Probe, Goto, Returned, Answered
  <2>2. CASE Retire(t)
    BY <1>1, <2>2 DEF Retire, Return, Probe, Goto, Returned, Answered
  <2>3. CASE RemoveRecheck(t)
    BY <1>1, <2>3 DEF RemoveRecheck, StartFind, Probe, Goto, client
  <2>4. ASSUME NEW w \in {0, 1}, RemoveUnlink(t, w) PROVE Goal
    BY <1>1, <2>4 DEF RemoveUnlink, StartFind, Probe, Goto, client
  <2>5. QED BY <1>5, <2>1, <2>2, <2>3, <2>4 DEF Remove
<1>6. CASE Relocate(t)
  BY <1>1, <1>6 DEF Relocate, PathRead, PathCheck, PathKey, MoveDone, MoveRead, MoveReread,
     MoveDest, StartRelocate, StartFind, EnterHelp, Probe, Goto, client
<1>7. CASE Help(t)
  <2>1. out' = out
    BY <1>7 DEF Help, HelpRead, HelpCheck, HelpMark, HelpRemark, HelpRecheck, HelpDest,
       HelpCheckDest, HelpStable, HelpCopy, HelpClear, HelpUnmark, client
  <2>2. hlp[t].ret # "idle" BY <1>7, StepsWrite DEF Role
  <2>3. pc'[t] \in HelpLabels \cup {"crashed", hlp[t].ret}
    BY <1>1, <1>7 DEF Help, HelpRead, HelpCheck, HelpMark, HelpRemark, HelpRecheck, HelpDest,
       HelpCheckDest, HelpStable, HelpCopy, HelpClear, HelpUnmark, TestMark, HelpRetry,
       LeaveHelp, Crash, Goto, HelpLabels
  <2>4. QED BY <2>1, <2>2, <2>3 DEF HelpLabels
<1>8. QED BY <1>2, <1>3, <1>4, <1>5, <1>6, <1>7 DEF Step

(* How the status of a call changes.                                       *)
LEMMA StatusStep ==
  ASSUME TypeInv, NEW t \in Threads, Step(t), Role(t)
  PROVE  /\ pc[t] = "retire" => pc'[t] = "idle"
         /\ pc'[t] = "idle" => status' = [status EXCEPT ![t] = "idle"]
         /\ pc'[t] = "retire" => status' = [status EXCEPT ![t] = "done"]
         /\ pc'[t] \notin {"idle", "retire"} => status' = status
<1>1. Elsewhere(t) /\ pc[t] # "idle" BY LocalStep DEF Here
<1>2. pc[t] = "retire" => pc'[t] = "idle"
  BY RetireOnly DEF Retire, Return, Probe, Goto, TypeInv, TypeOK
<1>3. ASSUME NEW u \in Threads
      PROVE  status'[u] = IF u # t THEN status[u]
                          ELSE IF pc'[t] = "idle" THEN "idle"
                          ELSE IF pc'[t] = "retire" THEN "done" ELSE "pending"
  BY <1>1 DEF status, Elsewhere
<1>4. status = [u \in Threads |-> status[u]] /\ status' = [u \in Threads |-> status'[u]]
  BY DEF status
<1>5. pc'[t] # "idle" => status[t] = "pending" BY <1>1, <1>2 DEF status
<1>6. QED BY <1>2, <1>3, <1>4, <1>5

(* What a step does to the windows, if it writes key k or moves its entry, *)
(* and leaves the other keys alone.                                        *)
LEMMA WindowsGrow ==
  ASSUME TypeInv, WindowInv, NEW t \in Threads, Step(t), HistoryNext,
         NEW k \in Keys, NEW v,
         \A j \in Keys \ {k} : SameEntry(j) /\ ~LeavesSecondHome(j),
         IF LeavesSecondHome(k) THEN SameEntry(k) /\ v = None ELSE View(k)' = v
  PROVE  Abstract!Witness(k, v, {u \in Threads : u = t => pc'[t] # "idle"})
<1>1. Elsewhere(t) /\ call' = call /\ pc[t] # "idle" BY LocalStep DEF Here
<1>2. ASSUME NEW u \in Threads
      PROVE  window'[u] = IF u = t /\ pc'[t] = "idle" THEN {}
                          ELSE IF status[u] # "idle" /\ call[u].key = k THEN window[u] \cup {v}
                          ELSE window[u]
  <2>1. PICK j \in Keys : j = call[u].key BY HomeWordType DEF TypeInv
  <2>2. CASE pc'[u] = "idle"
    <3>1. window'[u] = {} BY <2>1, <2>2, WindowStep
    <3>2. CASE u = t BY <2>2, <3>1, <3>2
    <3>3. CASE u # t
      <4>1. pc[u] = "idle" BY <1>1, <2>2, <3>3 DEF Elsewhere
      <4>2. window[u] = {} /\ status[u] = "idle" BY <4>1 DEF WindowInv, status
      <4>3. QED BY <3>1, <3>3, <4>2
    <3>4. QED BY <3>2, <3>3
  <2>3. CASE pc'[u] # "idle"
    <3>1. /\ pc[u] # "idle" /\ status[u] # "idle"
          /\ window'[u] = window[u] \cup {View(j)'}
                            \cup (IF LeavesSecondHome(j) THEN {None} ELSE {})
      BY <2>1, <2>3, WindowStep DEF status
    <3>2. View(j) \in window[u] BY <2>1, <3>1 DEF WindowInv
    <3>3. SameEntry(j) => View(j)' = View(j) BY ViewSame
    <3>4. CASE j = k BY <2>1, <2>3, <3>1, <3>2, <3>3, <3>4
    <3>5. CASE j # k BY <2>1, <2>3, <3>1, <3>2, <3>3, <3>5
    <3>6. QED BY <3>4, <3>5
  <2>4. QED BY <2>2, <2>3
<1>3. window' = [u \in Threads |-> window'[u]] BY DEF HistoryNext
<1>4. window' = [u \in Threads |->
        IF u \notin {i \in Threads : i = t => pc'[t] # "idle"} THEN {}
        ELSE IF status[u] # "idle" /\ call[u].key = k THEN window[u] \cup {v} ELSE window[u]]
  BY <1>2, <1>3
<1>5. QED BY <1>4 DEF Abstract!Witness

LEMMA WindowsStay ==
  ASSUME TypeInv, WindowInv, NEW t \in Threads, Step(t), HistoryNext,
         \A j \in Keys : SameEntry(j) /\ ~LeavesSecondHome(j)
  PROVE  window' = IF pc'[t] = "idle" THEN [window EXCEPT ![t] = {}] ELSE window
<1>1. Elsewhere(t) /\ call' = call /\ pc[t] # "idle" BY LocalStep DEF Here
<1>2. ASSUME NEW u \in Threads
      PROVE  window'[u] = IF u = t /\ pc'[t] = "idle" THEN {} ELSE window[u]
  <2>1. PICK j \in Keys : j = call[u].key BY HomeWordType DEF TypeInv
  <2>2. CASE pc'[u] = "idle"
    <3>1. window'[u] = {} BY <2>1, <2>2, WindowStep
    <3>2. u # t => window[u] = {} BY <1>1, <2>2 DEF Elsewhere, WindowInv
    <3>3. QED BY <2>2, <3>1, <3>2
  <2>3. CASE pc'[u] # "idle"
    <3>1. pc[u] # "idle" /\ window'[u] = window[u] \cup {View(j)'} BY <2>1, <2>3, WindowStep
    <3>2. View(j)' = View(j) /\ View(j) \in window[u]
      BY <2>1, <3>1, ViewSame DEF WindowInv
    <3>3. QED BY <2>3, <3>1, <3>2
  <2>4. QED BY <2>2, <2>3
<1>3. window' = [u \in Threads |-> window'[u]] BY DEF HistoryNext
<1>4. window \in [Threads -> SUBSET (Vals \cup {None})] BY DEF WindowInv
<1>5. QED BY <1>2, <1>3, <1>4

Held == [k \in Keys |-> View(k)]

LEMMA HeldSame ==
  ASSUME \A k \in Keys : SameEntry(k)
  PROVE  Held' = Held
BY ViewSame DEF Held

(* A step that returns without having written.                             *)
LEMMA Answers ==
  ASSUME TypeInv, HomeInv, OwnerInv, KeyInv, WindowInv, NEW t \in Threads, Step(t), HistoryNext,
         \A k \in Keys : SameEntry(k) /\ ~LeavesSecondHome(k),
         pc'[t] = "idle", pc[t] # "insert"
  PROVE  Abstract!Search(t) \/ Abstract!Drop(t) \/ Abstract!RemoveReturn(t)
           \/ Abstract!RemoveAbsent(t)
<1> USE DEF Held
<1>1. /\ call' = call /\ Role(t) /\ pc[t] # "idle" BY LocalStep DEF Here, OwnerInv
<1>2. /\ Held' = Held
      /\ window' = [window EXCEPT ![t] = {}]
      /\ status' = [status EXCEPT ![t] = "idle"]
  BY <1>1, HeldSame, WindowsStay, StatusStep
<1>3. Returned(t) BY <1>1, ReturnStep
<1>4. SearchWitness(t) BY <1>1 DEF WindowInv
<1>5. ASSUME ~There(t, 0), ~There(t, 1) PROVE None \in window[t]
  <2>1. PICK k \in Keys : k = call[t].key BY HomeWordType DEF TypeInv
  <2>2. View(k) = None BY <1>5, <2>1 DEF There, MyHome, View
  <2>3. QED BY <1>1, <2>1, <2>2 DEF WindowInv
<1>6. CASE pc[t] = "search.key"
  <2> DEFINE n == get_pointer(ptr[t][side[t]])
  <2>1. Matched(t, side[t]) /\ Answered(t, "found", heap[n].val) BY <1>3, <1>6 DEF Returned
  <2>2. heap[n].val \in window[t] BY <1>4, <1>6, <2>1 DEF SearchWitness
  <2>3. n \in Nodes
    <3>1. side[t] \in {0, 1} /\ nalloc \in 0 .. MaxNodes BY DEF TypeInv, TypeOK
    <3>2. n \in 0 .. nalloc BY <3>1 DEF OwnerInv, NodesKnown, get_pointer
    <3>3. QED BY <2>1, <3>1, <3>2, SizeAssumption DEF Matched, Nodes, NULL
  <2>4. heap[n].val \in Vals BY <2>3 DEF TypeInv, TypeOK
  <2>5. heap[n].val # None BY <2>4, NoneAssumption
  <2>6. Abstract!Pending(t, "search")
    BY <1>1, <1>6 DEF Abstract!Pending, status, Role, SearchLabels
  <2>7. Abstract!Answer(t, "found", heap[n].val)
    BY <1>1, <1>2, <2>1 DEF Abstract!Answer, Answered, Outcome
  <2>8. Abstract!Search(t) BY <1>2, <2>2, <2>5, <2>6, <2>7 DEF Abstract!Search
  <2>9. QED BY <2>8
<1>7. CASE pc[t] = "search.recount"
  <2>1. Answered(t, "missing", call[t].val) BY <1>3, <1>7 DEF Returned
  <2>2. None \in window[t] BY <1>4, <1>7 DEF SearchWitness
  <2>3. Abstract!Pending(t, "search")
    BY <1>1, <1>7 DEF Abstract!Pending, status, Role, SearchLabels
  <2>4. Abstract!Answer(t, "missing", call[t].val)
    BY <1>1, <1>2, <2>1 DEF Abstract!Answer, Answered, Outcome
  <2>5. Abstract!Search(t) BY <1>2, <2>2, <2>3, <2>4 DEF Abstract!Search
  <2>6. QED BY <2>5
<1>8. CASE pc[t] = "path.key"
  <2>1. Answered(t, "dropped", call[t].val) BY <1>3, <1>8 DEF Returned
  <2>2. call[t].op = "insert" /\ Writing(t)
    BY <1>1, <1>8, WriterLabels DEF Role, PathLabels, SearchLabels
  <2>3. None \in window[t] BY <1>5, <1>8, <2>2 DEF KeyInv, RelocateKnows, PathLabels
  <2>4. Abstract!Pending(t, "insert") BY <1>8, <2>2 DEF Abstract!Pending, status
  <2>5. Abstract!Answer(t, "dropped", call[t].val)
    BY <1>1, <1>2, <2>1 DEF Abstract!Answer, Answered, Outcome
  <2>6. Abstract!Drop(t) BY <1>2, <2>3, <2>4, <2>5 DEF Abstract!Drop
  <2>7. QED BY <2>6
<1>9. CASE pc[t] = "remove"
  <2>1. Answered(t, "absent", call[t].val) /\ result[t] = "NIL" BY <1>3, <1>9 DEF Returned
  <2>2. call[t].op = "remove" /\ Writing(t)
    BY <1>1, <1>9, WriterLabels DEF Role, SearchLabels
  <2>3. None \in window[t] BY <1>5, <1>9, <2>1, <2>2 DEF KeyInv, CallerKnows
  <2>4. Abstract!Pending(t, "remove") BY <1>9, <2>2 DEF Abstract!Pending, status
  <2>5. Abstract!Answer(t, "absent", call[t].val)
    BY <1>1, <1>2, <2>1 DEF Abstract!Answer, Answered, Outcome
  <2>6. Abstract!RemoveAbsent(t) BY <1>2, <2>3, <2>4, <2>5 DEF Abstract!RemoveAbsent
  <2>7. QED BY <2>6
<1>10. CASE pc[t] = "retire"
  <2>1. Answered(t, "erased", call[t].val) BY <1>3, <1>10 DEF Returned
  <2>2. status[t] = "done" BY <1>10 DEF status
  <2>3. Abstract!Answer(t, "erased", call[t].val)
    BY <1>1, <1>2, <2>1 DEF Abstract!Answer, Answered, Outcome
  <2>4. Abstract!RemoveReturn(t) BY <1>2, <2>2, <2>3 DEF Abstract!RemoveReturn
  <2>5. QED BY <2>4
<1>11. QED BY <1>3, <1>6, <1>7, <1>8, <1>9, <1>10 DEF Returned

(* The step in which insert stores its value.                              *)
LEMMA StoresInserts ==
  ASSUME TypeInv, HomeInv, OwnerInv, WindowInv, NEW t \in Threads, Step(t), HistoryNext,
         Stores(t), \A k \in Keys : ~LeavesSecondHome(k)
  PROVE  Abstract!Insert(t)
<1> USE DEF Held
<1>1. /\ call' = call /\ Role(t) BY LocalStep DEF Here, OwnerInv
<1>2. /\ pc[t] = "insert" /\ pc'[t] = "idle" BY DEF Stores
<1>3. PICK k \in Keys : k = call[t].key BY HomeWordType DEF TypeInv
<1>4. View(k)' = call[t].val /\ \A j \in Keys \ {k} : SameEntry(j)
  BY <1>3, ViewIs DEF Stores
<1>5. Held' = [Held EXCEPT ![call[t].key] = call[t].val]
  <2>1. \A j \in Keys \ {k} : View(j)' = View(j) BY <1>4, ViewSame
  <2>2. QED BY <1>3, <1>4, <2>1
<1>6. status' = [status EXCEPT ![t] = "idle"] BY <1>1, <1>2, StatusStep
<1>7. Returned(t) BY <1>1, <1>2, ReturnStep
<1>8. Answered(t, "stored", call[t].val) BY <1>2, <1>7 DEF Returned
<1>9. Abstract!Answer(t, "stored", call[t].val)
  BY <1>1, <1>6, <1>8 DEF Abstract!Answer, Answered, Outcome
<1>10. Abstract!Pending(t, "insert") BY <1>1, <1>2 DEF Abstract!Pending, status, Role
<1>11. Abstract!Witness(k, call[t].val, {u \in Threads : u = t => pc'[t] # "idle"})
  BY <1>4, WindowsGrow
<1>12. {u \in Threads : u = t => pc'[t] # "idle"} = Threads \ {t} BY <1>2
<1>13. Abstract!Witness(call[t].key, call[t].val, Threads \ {t}) BY <1>3, <1>11, <1>12
<1>14. QED BY <1>5, <1>9, <1>10, <1>13 DEF Abstract!Insert

(* The step in which remove unlinks the entry.                             *)
LEMMA UnlinksRemoves ==
  ASSUME TypeInv, HomeInv, OwnerInv, WindowInv, NEW t \in Threads, Step(t), HistoryNext,
         Unlinks(t), \A k \in Keys : ~LeavesSecondHome(k)
  PROVE  Abstract!Remove(t)
<1> USE DEF Held
<1>1. /\ call' = call /\ Role(t) BY LocalStep DEF Here, OwnerInv
<1>2. /\ pc[t] \in {"remove", "remove.second"} /\ pc'[t] = "retire" BY DEF Unlinks
<1>3. PICK k \in Keys : k = call[t].key BY HomeWordType DEF TypeInv
<1>4. /\ View(k) # None /\ View(k)' = None /\ \A j \in Keys \ {k} : SameEntry(j)
  <2>1. EntryOf(k) # NULL /\ EntryOf(k)' = NULL BY <1>3 DEF Unlinks
  <2>2. QED BY <1>3, <2>1, ViewIs, ViewType DEF Unlinks
<1>5. Held' = [Held EXCEPT ![call[t].key] = None]
  <2>1. \A j \in Keys \ {k} : View(j)' = View(j) BY <1>4, ViewSame
  <2>2. QED BY <1>3, <1>4, <2>1
<1>6. status' = [status EXCEPT ![t] = "done"] BY <1>1, <1>2, StatusStep
<1>7. out' = out BY <1>1, <1>2, ReturnStep
<1>8. Abstract!Pending(t, "remove") BY <1>1, <1>2 DEF Abstract!Pending, status, Role
<1>9. Abstract!Witness(k, None, {u \in Threads : u = t => pc'[t] # "idle"})
  BY <1>4, WindowsGrow
<1>10. {u \in Threads : u = t => pc'[t] # "idle"} = Threads BY <1>2
<1>11. Abstract!Witness(call[t].key, None, Threads) BY <1>3, <1>9, <1>10
<1>12. Held[call[t].key] # None BY <1>3, <1>4
<1>13. QED BY <1>1, <1>5, <1>6, <1>7, <1>8, <1>11, <1>12 DEF Abstract!Remove

(* The step in which a helper clears the home that an entry has left.      *)
LEMMA ClearsMoves ==
  ASSUME TypeInv, TypeInv', HomeInv, OwnerInv, KeyInv, MovesAlone, WindowInv,
         NEW t \in Threads, Step(t), HistoryNext, Keeps(t),
         NEW k \in Keys, LeavesSecondHome(k)
  PROVE  Abstract!Move(k)
<1> USE DEF Held
<1>1. /\ call' = call /\ Role(t) BY LocalStep DEF Here, OwnerInv
<1>2. Clears(t) /\ EntryOf(k) # NULL BY LeavesSecond
<1>3. \A j \in Keys \ {k} : SameEntry(j) /\ ~LeavesSecondHome(j)
  BY LeavesSecond DEF Keeps
<1>4. pc'[t] \notin {"idle", "retire"}
  <2>1. pc[t] = "help.clear" BY <1>2 DEF Clears
  <2>2. pc'[t] # "idle"
    <3>1. ~Returned(t) BY <2>1 DEF Returned
    <3>2. pc'[t] = "idle" => Returned(t) BY <1>1, ReturnStep
    <3>3. QED BY <3>1, <3>2
  <2>3. QED BY <2>2 DEF Keeps
<1>5. out' = out /\ status' = status BY <1>1, <1>4, ReturnStep, StatusStep
<1>6. Held' = Held BY HeldSame DEF Keeps
<1>7. Abstract!Witness(k, None, {u \in Threads : u = t => pc'[t] # "idle"})
  BY <1>3, WindowsGrow DEF Keeps
<1>8. {u \in Threads : u = t => pc'[t] # "idle"} = Threads BY <1>4
<1>9. Abstract!Witness(k, None, Threads) BY <1>7, <1>8
<1>10. Held[k] # None BY <1>2, ViewType
<1>11. QED BY <1>1, <1>5, <1>6, <1>9, <1>10 DEF Abstract!Move

LEMMA InvokeInvokes ==
  ASSUME TypeInv, TypeInv', HomeInv, OwnerInv, KeyInv, WindowInv,
         NEW t \in Threads, Invoke(t), HistoryNext
  PROVE  Abstract!Invoke(t)
<1> USE DEF Held
<1>1. /\ window' = [window EXCEPT ![t] = {View(call'[t].key)}]
      /\ \A k \in Keys : SameEntry(k)
  BY WindowInvoke
<1>2. Held' = Held BY <1>1, HeldSame
<1>3. PICK c \in Calls[t] : CallSearch(t, c) \/ CallInsert(t, c) \/ CallRemove(t, c)
  BY DEF Invoke
<1>4. /\ pc[t] = "idle" /\ call' = [call EXCEPT ![t] = c]
      /\ out' = [out EXCEPT ![t] = Outcome("none", c.val)]
      /\ \E l \in {"search.read", "find.read"} : pc' = [pc EXCEPT ![t] = l]
  BY <1>3 DEF CallSearch, CallInsert, CallRemove, Begin, Goto
<1>5. pc \in [Threads -> Labels] /\ call'[t] = c BY <1>4 DEF TypeInv, TypeOK
<1>6. status[t] = "idle" BY <1>4 DEF status
<1>7. status' = [status EXCEPT ![t] = "pending"]
  <2>1. pc'[t] \in {"search.read", "find.read"} /\ \A u \in Threads \ {t} : pc'[u] = pc[u]
    BY <1>4, <1>5
  <2>2. \A u \in Threads : status'[u] = IF u = t THEN "pending" ELSE status[u]
    BY <2>1 DEF status
  <2>3. status' = [u \in Threads |-> status'[u]] /\ status = [u \in Threads |-> status[u]]
    BY DEF status
  <2>4. QED BY <2>2, <2>3
<1>8. c.key \in Keys
  <2>1. call'[t] \in Call BY DEF TypeInv, TypeOK
  <2>2. QED BY <1>5, <2>1 DEF Call
<1>9. window' = [window EXCEPT ![t] = {Held[c.key]}] BY <1>1, <1>5, <1>8
<1>10. out' = [out EXCEPT ![t] = [kind |-> "none", val |-> c.val]] BY <1>4 DEF Outcome
<1>11. QED BY <1>2, <1>3, <1>4, <1>6, <1>7, <1>9, <1>10 DEF Abstract!Invoke

(* Every step of the table is a step of the map, or none.                  *)
LEMMA StepImplements ==
  ASSUME TypeInv, TypeInv', HomeInv, OwnerInv, KeyInv, KeyInv', EffectInv, WindowInv,
         Orderly, NEW t \in Threads, Step(t), HistoryNext
  PROVE  Abstract!Next \/ UNCHANGED Abstract!vars
<1>1. /\ call' = call /\ Role(t) /\ MovesAlone BY LocalStep DEF Here, OwnerInv, Orderly
<1>2. Stores(t) \/ Unlinks(t) \/ Keeps(t) BY EntryStep DEF EffectInv
<1>3. ASSUME NEW k \in Keys, LeavesSecondHome(k) PROVE Abstract!Next
  <2>1. pc[t] = "help.clear" BY <1>1, <1>3, LeavesSecond DEF Clears
  <2>2. Keeps(t) BY <1>2, <2>1 DEF Stores, Unlinks
  <2>3. Abstract!Move(k) BY <1>1, <1>3, <2>2, ClearsMoves
  <2>4. QED BY <2>3 DEF Abstract!Next
<1>4. ASSUME \A k \in Keys : ~LeavesSecondHome(k)
      PROVE  Abstract!Next \/ UNCHANGED Abstract!vars
  <2>1. CASE Stores(t)
    <3>1. Abstract!Insert(t) BY <1>4, <2>1, StoresInserts
    <3>2. QED BY <3>1 DEF Abstract!Next
  <2>2. CASE Unlinks(t)
    <3>1. Abstract!Remove(t) BY <1>4, <2>2, UnlinksRemoves
    <3>2. QED BY <3>1 DEF Abstract!Next
  <2>3. CASE Keeps(t) /\ pc'[t] = "idle"
    <3>1. pc[t] # "insert"
      <4> SUFFICES ASSUME pc[t] = "insert" PROVE FALSE OBVIOUS
      <4>1. Answered(t, "stored", call[t].val) BY <1>1, <2>3, ReturnStep DEF Returned
      <4>2. out'[t].kind = "stored" BY <4>1 DEF Answered, Outcome, TypeInv, TypeOK
      <4>3. QED BY <2>3, <4>2 DEF Keeps
    <3>2. \/ Abstract!Search(t) \/ Abstract!Drop(t) \/ Abstract!RemoveReturn(t)
          \/ Abstract!RemoveAbsent(t)
      BY <1>4, <2>3, <3>1, Answers DEF Keeps
    <3>3. QED BY <3>2 DEF Abstract!Next
  <2>4. CASE Keeps(t) /\ pc'[t] # "idle"
    <3>1. Held' = Held BY <2>4, HeldSame DEF Keeps
    <3>2. window' = window BY <1>4, <2>4, WindowsStay DEF Keeps
    <3>3. out' = out /\ status' = status BY <1>1, <2>4, ReturnStep, StatusStep DEF Keeps
    <3>4. QED BY <1>1, <3>1, <3>2, <3>3 DEF Held, Abstract!vars
  <2>5. QED BY <1>2, <2>1, <2>2, <2>3, <2>4
<1>5. QED BY <1>3, <1>4

LEMMA NextImplements ==
  /\ TypeInv /\ TypeInv' /\ HomeInv /\ OwnerInv /\ KeyInv /\ KeyInv'
  /\ EffectInv /\ WindowInv /\ Orderly /\ [HistoryNext]_<<vars, window>>
  => [Abstract!Next]_(Abstract!vars)
<1> SUFFICES ASSUME TypeInv, TypeInv', HomeInv, OwnerInv, KeyInv, KeyInv', EffectInv,
                    WindowInv, Orderly, [HistoryNext]_<<vars, window>>
             PROVE  Abstract!Next \/ UNCHANGED Abstract!vars
  OBVIOUS
<1>1. ASSUME HistoryNext, NEW t \in Threads, Step(t)
      PROVE  Abstract!Next \/ UNCHANGED Abstract!vars
  BY <1>1, StepImplements
<1>2. ASSUME HistoryNext, NEW t \in Threads, Invoke(t)
      PROVE  Abstract!Next \/ UNCHANGED Abstract!vars
  <2>1. Abstract!Invoke(t) BY <1>2, InvokeInvokes
  <2>2. QED BY <2>1 DEF Abstract!Next
<1>3. CASE UNCHANGED <<vars, window>>
  <2>1. \A k \in Keys : View(k)' = View(k) BY <1>3 DEF View, Holds, vars, shared
  <2>2. status' = status BY <1>3 DEF status, vars
  <2>3. QED BY <1>3, <2>1, <2>2 DEF Abstract!vars, vars, client
<1>4. HistoryNext => Next BY DEF HistoryNext
<1>5. HistoryNext /\ UNCHANGED vars => UNCHANGED <<vars, window>> BY WindowStill
<1>6. QED BY <1>1, <1>2, <1>3, <1>4, <1>5 DEF Next, Stopped

LEMMA InitImplements == HistoryInit => Abstract!Init
<1> SUFFICES ASSUME HistoryInit PROVE Abstract!Init OBVIOUS
<1>1. Init BY DEF HistoryInit
<1>2. OneEntryPerKey /\ TypeInv BY <1>1, KeyInit, TypeInit DEF KeyInv
<1>3. Len(Preload) \in Nat /\ Len(Preload) <= MaxNodes /\ MaxNodes \in Nat
  BY PreloadAssumption, SizeAssumption
<1>4. ASSUME NEW k \in Keys, NEW i \in 1 .. Len(Preload), Preload[i].key = k
      PROVE  View(k) = Preload[i].val
  <2> DEFINE s == Preload[i].slot
  <2>1. s \in Slots /\ s = Home(s[1], k)
    <3>1. Preload[i] \in [slot : Slots, key : Keys, val : Vals]
      BY PreloadAssumption, ElementOfSeq
    <3>2. Preload[i].slot = Home(Preload[i].slot[1], Preload[i].key) BY PreloadAssumption
    <3>3. QED BY <1>4, <3>1, <3>2
  <2>2. table[s] = make_pointer(CHOOSE j \in 1 .. Len(Preload) : Preload[j].slot = s, 0)
    BY <1>1, <2>1 DEF Init
  <2>3. \A j \in 1 .. Len(Preload) : Preload[j].slot = s => j = i BY PreloadAssumption
  <2>4. (CHOOSE j \in 1 .. Len(Preload) : Preload[j].slot = s) = i BY <2>3
  <2>5. table[s].node = i BY <2>2, <2>4 DEF make_pointer
  <2>6. i \in Nodes /\ i <= Len(Preload) /\ i # NULL BY <1>3 DEF Nodes, NULL
  <2>7. heap[i] = [key |-> Preload[i].key, val |-> Preload[i].val] BY <1>1, <2>6 DEF Init
  <2>8. heap[i].key = k /\ heap[i].val = Preload[i].val BY <1>4, <2>7
  <2>9. Stands(k, i) BY <2>1, <2>5, <2>6, <2>8, SlotSide DEF Stands
  <2>10. EntryOf(k) = i BY <1>2, <2>9, EntryIs
  <2>11. QED BY <2>6, <2>8, <2>10, ViewIs
<1>5. ASSUME NEW k \in Keys, \A i \in 1 .. Len(Preload) : Preload[i].key # k
      PROVE  View(k) = None
  <2>1. ASSUME NEW s \in Slots PROVE ~Holds(s, k)
    <3> SUFFICES ASSUME table[s].node # NULL, heap[table[s].node].key = k PROVE FALSE
      BY DEF Holds
    <3>1. /\ table[s].node \in 1 .. Len(Preload)
          /\ heap[table[s].node] = [key |-> Preload[table[s].node].key,
                                    val |-> Preload[table[s].node].val]
      BY <1>1, PreloadNode
    <3>2. heap[table[s].node].key = Preload[table[s].node].key BY <3>1
    <3>3. QED BY <1>5, <3>1, <3>2
  <2>2. QED BY <2>1, HomeType DEF View
<1>6. [k \in Keys |-> View(k)] =
        [k \in Keys |-> IF \E i \in 1 .. Len(Preload) : Preload[i].key = k
                        THEN Preload[CHOOSE i \in 1 .. Len(Preload) : Preload[i].key = k].val
                        ELSE None]
  BY <1>4, <1>5
<1>7. status = [t \in Threads |-> "idle"] BY <1>1 DEF Init, status
<1>8. call \in [Threads -> [op : {"search"}, key : Keys, val : Vals]]
  BY <1>1, WorkloadAssumption DEF Init, NoCall
<1>9. out \in [Threads -> [kind : {"none"}, val : Vals]]
  BY <1>1, WorkloadAssumption DEF Init, Outcome
<1>10. window = [t \in Threads |-> {}] BY DEF HistoryInit
<1>11. QED BY <1>6, <1>7, <1>8, <1>9, <1>10 DEF Abstract!Init

(* The table is the map of ConcurrentMap: inserts and removes take effect  *)
(* at one moment of the call, searches answer with what the map held at    *)
(* some moment of theirs, as long as no two writes of a key overlap and    *)
(* nobody writes while an entry is being moved (lines 140-225, 345-498).   *)
THEOREM TableImplementsMap == HistorySpec /\ []Orderly => ImplementsMap
<1>1. [HistoryNext]_<<vars, window>> => [Next]_vars BY DEF HistoryNext
<1>2. HistorySpec /\ []Orderly => Abstract!Init /\ [][Abstract!Next]_(Abstract!vars)
  BY <1>1, InitImplements, NextImplements, AnswersWitnessed, HistoryIsSpec, KeysKnown, PTL
     DEF HistorySpec, OrderlyInv
<1>3. QED BY <1>2 DEF ImplementsMap, Abstract!Spec

(* With one thread that writes no condition is left.                       *)
THEOREM OneWriterImplementsMap ==
  ASSUME OneWriter
  PROVE  HistorySpec => ImplementsMap
BY OneWriterOrderly, HistoryIsSpec, TableImplementsMap, PTL

=============================================================================
