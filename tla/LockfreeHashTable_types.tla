---------------------- MODULE LockfreeHashTable_types ----------------------
(***************************************************************************)
(* Type correctness of LockfreeHashTable, for every number of threads,     *)
(* keys, slots and nodes and every THRESHOLD: TypeInv, the types with      *)
(* what each program point knows of its own frame (Control), is            *)
(* inductive. Lemmas about the operators come first, then one lemma for    *)
(* each part of the code, with one step for each action.                   *)
(***************************************************************************)
EXTENDS HashTableInvariants, SequenceTheorems, TLAPS

(* A home of a key is a slot of the array it is a home in.                 *)
LEMMA HomeType ==
  ASSUME NEW w \in {0, 1}, NEW k \in Keys
  PROVE  Home(w, k) \in Slots /\ Home(w, k)[1] = w
BY SizeAssumption DEF Home, Slots

(* Every slot lies in one of the two arrays, and so does its counterpart.  *)
LEMMA SlotSide == ASSUME NEW s \in Slots PROVE s[1] \in {0, 1} /\ 1 - s[1] \in {0, 1}
BY DEF Slots

(* The first slot exists: neither array is empty.                          *)
LEMMA SomeSlot == <<0, 0>> \in Slots
BY SizeAssumption DEF Slots

(* The 16-bit truncation of make_pointer yields a counter.                 *)
LEMMA ModType == ASSUME NEW c \in Nat PROVE c % CounterMod \in 0 .. CounterMod - 1
BY CounterModAssumption

(* make_pointer of a node, or of null, is a table word.                    *)
LEMMA WordType ==
  ASSUME NEW e \in 0 .. MaxNodes, NEW c \in Nat
  PROVE  make_pointer(e, c) \in TableWord
BY ModType DEF make_pointer, TableWord

(* Marking a table word gives a table word.                                *)
LEMMA MarkedType == ASSUME NEW w \in TableWord PROVE set_marked(w) \in TableWord
BY DEF set_marked, TableWord

(* The parts of a table word have their types.                             *)
LEMMA PartsType ==
  ASSUME NEW w \in TableWord
  PROVE  /\ get_pointer(w) \in 0 .. MaxNodes
         /\ get_counter(w) \in 0 .. CounterMod - 1 /\ get_counter(w) \in Nat
         /\ get_counter(w) + 1 \in Nat
         /\ get_marked(w) \in BOOLEAN
BY CounterModAssumption DEF get_pointer, get_counter, get_marked, TableWord

(* The initial word of a slot is a table word.                             *)
LEMMA EmptyWordType == EmptyWord \in TableWord
BY WordType, SizeAssumption DEF EmptyWord, NULL

(* A CAS with a table word keeps the table typed.                          *)
LEMMA CASType ==
  ASSUME NEW s, NEW old, NEW w \in TableWord, table \in [Slots -> TableWord],
         CAS(s, old, w)
  PROVE  table' \in [Slots -> TableWord]
BY DEF CAS

(* The dead ptr1 and ptr2 of a fresh probe are table words.                *)
LEMMA NoWordsType == NoWords \in [{0, 1} -> TableWord]
BY EmptyWordType DEF NoWords

(* The dead ts1 and ts2 of a fresh probe are counters.                     *)
LEMMA NoTimesType == NoTimes \in [{0, 1} -> 0 .. CounterMod - 1]
BY CounterModAssumption DEF NoTimes

(* The homes of a call are slots and hold table words, and its frame does  *)
(* too.                                                                    *)
LEMMA HomeWordType ==
  ASSUME TypeOK, NEW t \in Threads, NEW w \in {0, 1}
  PROVE  /\ MyHome(t, w) \in Slots /\ table[MyHome(t, w)] \in TableWord
         /\ ptr[t][w] \in TableWord
         /\ call[t].key \in Keys /\ call[t].val \in Vals
BY HomeType DEF TypeOK, MyHome, Call

(* (Re)starting a search or a find keeps the types.                        *)
LEMMA ProbeType ==
  ASSUME TypeOK, NEW t \in Threads, NEW l \in Labels, Probe(t, l)
  PROVE  /\ pc' \in [Threads -> Labels] /\ side' \in [Threads -> {0, 1}]
         /\ ptr' \in [Threads -> [{0, 1} -> TableWord]]
         /\ ts' \in [Threads -> [{0, 1} -> 0 .. CounterMod - 1]]
         /\ pc' = [pc EXCEPT ![t] = l]
BY NoWordsType, NoTimesType DEF TypeOK, Probe, Goto

(* Returning from a call keeps the types.                                  *)
LEMMA ReturnType ==
  ASSUME TypeOK, NEW t \in Threads, NEW k \in OutcomeKinds, NEW v \in Vals,
         Return(t, Outcome(k, v))
  PROVE  /\ pc' \in [Threads -> Labels] /\ side' \in [Threads -> {0, 1}]
         /\ ptr' \in [Threads -> [{0, 1} -> TableWord]]
         /\ ts' \in [Threads -> [{0, 1} -> 0 .. CounterMod - 1]]
         /\ result' \in [Threads -> {"unset", "FIRST", "SECOND", "NIL"}]
         /\ out' \in [Threads -> [kind : OutcomeKinds, val : Vals]]
         /\ new' \in [Threads -> 0 .. MaxNodes]
         /\ pc' = [pc EXCEPT ![t] = "idle"]
         /\ UNCHANGED <<call, left>>
<1>1. "idle" \in Labels BY DEF Labels
<1>2. Probe(t, "idle") BY DEF Return
<1>3. Outcome(k, v) \in [kind : OutcomeKinds, val : Vals] BY DEF Outcome
<1>4. NULL \in 0 .. MaxNodes BY SizeAssumption DEF NULL
<1>5. /\ result' \in [Threads -> {"unset", "FIRST", "SECOND", "NIL"}]
      /\ out' \in [Threads -> [kind : OutcomeKinds, val : Vals]]
      /\ new' \in [Threads -> 0 .. MaxNodes]
      /\ UNCHANGED <<call, left>>
  BY <1>3, <1>4 DEF TypeOK, Return
<1>6. QED BY <1>1, <1>2, <1>5, ProbeType

(* The empty frames of relocate and help_relocate are well typed.          *)
LEMMA FrameTypes ==
  /\ NoRel \in RelocateFrame /\ NoHelp \in HelpFrame
BY SomeSlot, EmptyWordType, EmptySeq, SizeAssumption
   DEF NoRel, NoHelp, RelocateFrame, HelpFrame, ReturnLabels, NULL

(* A call of help_relocate makes a well-typed frame.                       *)
LEMMA EnterHelpType ==
  ASSUME TypeOK, NEW t \in Threads, NEW s \in Slots, NEW b \in BOOLEAN,
         NEW l \in ReturnLabels, EnterHelp(t, s, b, l)
  PROVE  /\ hlp' \in [Threads -> HelpFrame]
         /\ hlp'[t].ret = l /\ \A u \in Threads \ {t} : hlp'[u] = hlp[u]
         /\ pc' \in [Threads -> Labels]
         /\ pc' = [pc EXCEPT ![t] = "help.read"]
<1>1. [NoHelp EXCEPT !.slot = s, !.init = b, !.ret = l] \in HelpFrame
  BY FrameTypes DEF HelpFrame
<1>2. QED BY <1>1 DEF EnterHelp, Goto, TypeOK, Labels, HelpLabels, NoHelp

(* A return of help_relocate goes where it was called from.                *)
LEMMA LeaveHelpType ==
  ASSUME TypeInv, NEW t \in Threads, pc[t] \in HelpLabels, LeaveHelp(t), UNCHANGED <<rel, ptr, side>>
  PROVE  /\ hlp' \in [Threads -> HelpFrame]
         /\ pc' \in [Threads -> Labels]
         /\ Control'
<1>1. hlp[t].ret \in ReturnLabels BY DEF TypeInv, TypeOK, HelpFrame
<1>2. ReturnLabels \subseteq Labels
  BY DEF ReturnLabels, Labels, FindLabels, PathLabels, MoveLabels
<1>3. hlp' \in [Threads -> HelpFrame] /\ pc' \in [Threads -> Labels]
  BY <1>1, <1>2, FrameTypes DEF LeaveHelp, Goto, TypeInv, TypeOK
<1>4. Control'
  BY <1>1 DEF LeaveHelp, Goto, TypeInv, TypeOK, Control, ReturnLabels, HelpLabels
<1>5. QED BY <1>3, <1>4

(* search keeps the types.                                                 *)
LEMMA TypeSearch ==
  ASSUME TypeInv, NEW t \in Threads, Search(t)
  PROVE  TypeInv'
<1> USE DEF TypeInv, Goto, shared, gc, client, probe
<1>0. TypeOK BY DEF TypeInv
<1>1. ASSUME NEW w \in {0, 1}, SearchRead(t, w) PROVE TypeInv'
  <2>1. ptr' \in [Threads -> [{0, 1} -> TableWord]]
    BY <1>1, <1>0, HomeWordType DEF TypeOK, SearchRead
  <2>2. ts' \in [Threads -> [{0, 1} -> 0 .. CounterMod - 1]]
    BY <1>1, <1>0, HomeWordType, PartsType DEF TypeOK, SearchRead
  <2>3. TypeOK'
    BY <1>1, <2>1, <2>2 DEF TypeOK, SearchRead, Labels, SearchLabels
  <2>4. Control' BY <1>1 DEF TypeOK, SearchRead, Control, HelpLabels
  <2>5. QED BY <2>3, <2>4
<1>2. CASE SearchRetry(t)
  <2>1. "search.read" \in Labels BY DEF Labels, SearchLabels
  <2>2. TypeOK' BY <1>2, <2>1, <1>0, ProbeType DEF TypeOK, SearchRetry
  <2>3. Control' BY <1>2, <2>1, <1>0, ProbeType DEF TypeOK, SearchRetry, Probe, Control, HelpLabels
  <2>4. QED BY <2>2, <2>3
<1>3. CASE SearchCheck(t)
  <2>1. TypeOK' BY <1>3 DEF TypeOK, SearchCheck, Labels, SearchLabels
  <2>2. Control' BY <1>3 DEF TypeOK, SearchCheck, Control, HelpLabels
  <2>3. QED BY <2>1, <2>2
<1>4. CASE SearchKey(t)
  <2> DEFINE n == get_pointer(ptr[t][side[t]])
  <2>1. n \in Nodes
    <3>1. ptr[t][side[t]] \in TableWord BY DEF TypeOK
    <3>2. n # NULL BY <1>4 DEF Control, SearchKey
    <3>3. QED BY <3>1, <3>2, PartsType, SizeAssumption DEF Nodes, NULL
  <2>2. heap[n].val \in Vals BY <2>1 DEF TypeOK
  <2>3. CASE heap[n].key = call[t].key
    <3>1. Return(t, Outcome("found", heap[n].val)) /\ UNCHANGED <<shared, gc, rel, hlp>>
      BY <1>4, <2>3 DEF SearchKey
    <3>2. "found" \in OutcomeKinds BY DEF OutcomeKinds
    <3>3. TypeOK' BY <3>1, <3>2, <2>2, <1>0, ReturnType DEF TypeOK
    <3>4. Control' BY <3>1, <3>2, <2>2, <1>0, ReturnType DEF TypeOK, Control, HelpLabels, Return, Probe
    <3>5. QED BY <3>3, <3>4
  <2>4. CASE heap[n].key # call[t].key
    <3>1. TypeOK' BY <1>4, <2>4 DEF TypeOK, SearchKey, Labels, SearchLabels
    <3>2. Control' BY <1>4, <2>4 DEF TypeOK, SearchKey, Control, HelpLabels
    <3>3. QED BY <3>1, <3>2
  <2>5. QED BY <2>3, <2>4
<1>5. CASE SearchReread(t)
  <2>1. ptr' \in [Threads -> [{0, 1} -> TableWord]]
    BY <1>5, <1>0, HomeWordType DEF TypeOK, SearchReread
  <2>2. TypeOK' BY <1>5, <2>1 DEF TypeOK, SearchReread, Labels, SearchLabels
  <2>3. Control' BY <1>5 DEF TypeOK, SearchReread, Control, HelpLabels
  <2>4. QED BY <2>2, <2>3
<1>6. CASE SearchRecount(t)
  <2>1. "search.read" \in Labels /\ "missing" \in OutcomeKinds BY DEF Labels, SearchLabels, OutcomeKinds
  <2>2. call[t].val \in Vals BY <1>0, HomeWordType
  <2>3. CASE Probe(t, "search.read") /\ UNCHANGED <<client, result, shared, gc, rel, hlp>>
    <3>1. TypeOK' BY <2>3, <2>1, <1>0, ProbeType DEF TypeOK
    <3>2. Control' BY <2>3, <2>1, <1>0, ProbeType DEF TypeOK, Probe, Control, HelpLabels
    <3>3. QED BY <3>1, <3>2
  <2>4. CASE Return(t, Outcome("missing", call[t].val)) /\ UNCHANGED <<shared, gc, rel, hlp>>
    <3>1. TypeOK' BY <2>4, <2>1, <2>2, <1>0, ReturnType DEF TypeOK
    <3>2. Control' BY <2>4, <2>1, <2>2, <1>0, ReturnType DEF TypeOK, Return, Probe, Control, HelpLabels
    <3>3. QED BY <3>1, <3>2
  <2>5. QED BY <2>3, <2>4, <1>6 DEF SearchRecount
<1>7. QED BY <1>1, <1>2, <1>3, <1>4, <1>5, <1>6 DEF Search

(* A call of find keeps the types.                                         *)
LEMMA StartFindType ==
  ASSUME TypeOK, NEW t \in Threads, StartFind(t)
  PROVE  /\ pc' \in [Threads -> Labels] /\ side' \in [Threads -> {0, 1}]
         /\ ptr' \in [Threads -> [{0, 1} -> TableWord]]
         /\ ts' \in [Threads -> [{0, 1} -> 0 .. CounterMod - 1]]
         /\ result' \in [Threads -> {"unset", "FIRST", "SECOND", "NIL"}]
         /\ pc' = [pc EXCEPT ![t] = "find.read"]
<1>1. "find.read" \in Labels BY DEF Labels, FindLabels
<1>2. QED BY <1>1, ProbeType DEF TypeOK, StartFind

(* A retry of find keeps the types.                                        *)
LEMMA RetryFindType ==
  ASSUME TypeOK, NEW t \in Threads, RetryFind(t)
  PROVE  /\ pc' \in [Threads -> Labels] /\ side' \in [Threads -> {0, 1}]
         /\ ptr' \in [Threads -> [{0, 1} -> TableWord]]
         /\ ts' \in [Threads -> [{0, 1} -> 0 .. CounterMod - 1]]
         /\ result' \in [Threads -> {"unset", "FIRST", "SECOND", "NIL"}]
         /\ pc' = [pc EXCEPT ![t] = "find.read"]
<1>1. "find.read" \in Labels BY DEF Labels, FindLabels
<1>2. QED BY <1>1, ProbeType DEF TypeOK, RetryFind

(* A return of find goes to insert or remove.                              *)
LEMMA LeaveFindType ==
  ASSUME TypeOK, NEW t \in Threads, NEW r \in {"FIRST", "SECOND", "NIL"}, LeaveFind(t, r)
  PROVE  /\ pc' \in [Threads -> Labels]
         /\ result' \in [Threads -> {"unset", "FIRST", "SECOND", "NIL"}]
         /\ pc' = [pc EXCEPT ![t] = call[t].op]
         /\ call[t].op \in {"search", "insert", "remove"}
<1>1. call[t].op \in {"search", "insert", "remove"} BY DEF TypeOK, Call
<1>2. call[t].op \in Labels BY <1>1 DEF Labels, CallerLabels
<1>3. QED BY <1>1, <1>2 DEF TypeOK, LeaveFind, Goto

(* find and del_dup keep the types.                                        *)
LEMMA TypeFind ==
  ASSUME TypeInv, NEW t \in Threads, Find(t)
  PROVE  TypeInv'
<1> USE DEF TypeInv, Goto, shared, gc, client, probe
<1>0. TypeOK BY DEF TypeInv
<1>a. call[t].op \in {"search", "insert", "remove"} /\ call[t].op \in Labels
  BY DEF TypeOK, Call, Labels, CallerLabels
<1>1. ASSUME NEW w \in {0, 1}, FindRead(t, w) PROVE TypeInv'
  <2>1. ptr' \in [Threads -> [{0, 1} -> TableWord]]
    BY <1>1, <1>0, HomeWordType DEF TypeOK, FindRead
  <2>2. ts' \in [Threads -> [{0, 1} -> 0 .. CounterMod - 1]]
    BY <1>1, <1>0, HomeWordType, PartsType DEF TypeOK, FindRead
  <2>3. TypeOK'
    BY <1>1, <2>1, <2>2 DEF TypeOK, FindRead, Labels, FindLabels
  <2>4. Control' BY <1>1 DEF TypeOK, FindRead, Control, HelpLabels
  <2>5. QED BY <2>3, <2>4
<1>2. CASE FindRetry(t)
  <2>1. TypeOK' BY <1>2, <1>0, RetryFindType DEF TypeOK, FindRetry
  <2>2. Control'
    BY <1>2, <1>0, RetryFindType DEF TypeOK, FindRetry, RetryFind, Probe, Control, HelpLabels
  <2>3. QED BY <2>1, <2>2
<1>3. CASE FindHelp(t)
  <2>1. MyHome(t, side[t]) \in Slots BY <1>0, HomeWordType DEF TypeOK
  <2>2. EnterHelp(t, MyHome(t, side[t]), FALSE, "find.read") BY <1>3 DEF FindHelp
  <2>3. "find.read" \in ReturnLabels BY DEF ReturnLabels
  <2>4. /\ hlp' \in [Threads -> HelpFrame]
        /\ hlp'[t].ret = "find.read" /\ \A u \in Threads \ {t} : hlp'[u] = hlp[u]
        /\ pc' \in [Threads -> Labels]
        /\ pc' = [pc EXCEPT ![t] = "help.read"]
    BY <2>1, <2>2, <2>3, <1>0, EnterHelpType
  <2>5. /\ side' \in [Threads -> {0, 1}]
        /\ ptr' \in [Threads -> [{0, 1} -> TableWord]]
        /\ ts' \in [Threads -> [{0, 1} -> 0 .. CounterMod - 1]]
    BY <1>3, NoWordsType, NoTimesType DEF TypeOK, FindHelp
  <2>6. TypeOK' BY <1>3, <2>4, <2>5 DEF TypeOK, FindHelp
  <2>7. Control' BY <1>3, <2>4 DEF TypeOK, FindHelp, Control, HelpLabels
  <2>8. QED BY <2>6, <2>7
<1>4. CASE FindCheck(t)
  <2>1. TypeOK' BY <1>4 DEF TypeOK, FindCheck, Labels, FindLabels
  <2>2. Control' BY <1>4 DEF TypeOK, FindCheck, Control, HelpLabels
  <2>3. QED BY <2>1, <2>2
<1>5. CASE FindKey(t)
  <2>1. /\ pc' \in [Threads -> Labels]
        /\ result' \in [Threads -> {"unset", "FIRST", "SECOND", "NIL"}]
        /\ pc' \in {[pc EXCEPT ![t] = l] : l \in {"find.next", "del_dup", call[t].op}}
    BY <1>5, <1>a, LeaveFindType DEF TypeOK, FindKey, Labels, FindLabels, LeaveFind
  <2>2. TypeOK' BY <1>5, <2>1 DEF TypeOK, FindKey
  <2>3. Control' BY <1>5, <1>a, <2>1 DEF TypeOK, FindKey, Control, HelpLabels
  <2>4. QED BY <2>2, <2>3
<1>6. CASE FindReread(t)
  <2>1. ptr' \in [Threads -> [{0, 1} -> TableWord]]
    <3>1. ptr' = ptr \/ ptr' = [ptr EXCEPT ![t][0] = table[MyHome(t, 0)]]
      BY <1>6 DEF FindReread
    <3>2. table[MyHome(t, 0)] \in TableWord BY <1>0, HomeWordType
    <3>3. CASE ptr' = ptr BY <3>3 DEF TypeOK
    <3>4. CASE ptr' = [ptr EXCEPT ![t][0] = table[MyHome(t, 0)]]
      BY <3>4, <3>2 DEF TypeOK
    <3>5. QED BY <3>1, <3>3, <3>4
  <2>2. TypeOK' BY <1>6, <1>a, <2>1 DEF TypeOK, FindReread, Labels, FindLabels
  <2>3. Control' BY <1>6, <1>a DEF TypeOK, FindReread, Control, HelpLabels
  <2>4. QED BY <2>2, <2>3
<1>7. CASE FindRecount(t)
  <2>1. CASE RetryFind(t)
    <3>1. TypeOK' BY <1>7, <2>1, <1>0, RetryFindType DEF TypeOK, FindRecount
    <3>2. Control'
      BY <1>7, <2>1, <1>0, RetryFindType DEF TypeOK, FindRecount, RetryFind, Probe, Control, HelpLabels
    <3>3. QED BY <3>1, <3>2
  <2>2. CASE /\ ptr' = [ptr EXCEPT ![t][1] = table[MyHome(t, 1)]]
             /\ LeaveFind(t, "NIL")
             /\ UNCHANGED <<side, ts>>
    <3>1. ptr' \in [Threads -> [{0, 1} -> TableWord]]
      BY <2>2, <1>0, HomeWordType DEF TypeOK
    <3>2. TypeOK' BY <1>7, <2>2, <3>1, <1>0, LeaveFindType DEF TypeOK, FindRecount
    <3>3. /\ pc' = [pc EXCEPT ![t] = call[t].op]
          /\ \A u \in Threads \ {t} : ptr'[u] = ptr[u]
          /\ UNCHANGED <<side, rel, hlp>>
      BY <1>7, <2>2 DEF TypeOK, LeaveFind, FindRecount
    <3>5. Control' BY <3>3, <1>a DEF TypeOK, Control, HelpLabels
    <3>4. QED BY <3>2, <3>5
  <2>3. QED BY <1>7, <2>1, <2>2 DEF FindRecount
<1>8. CASE DelDupCheck(t)
  <2>1. TypeOK' BY <1>8 DEF TypeOK, DelDupCheck, Labels, FindLabels
  <2>2. Control' BY <1>8 DEF TypeOK, DelDupCheck, Control, HelpLabels
  <2>3. QED BY <2>1, <2>2
<1>9. CASE DelDupCheckSecond(t)
  <2>1. TypeOK' BY <1>9, <1>a DEF TypeOK, DelDupCheckSecond, Labels, FindLabels
  <2>2. Control' BY <1>9, <1>a DEF TypeOK, DelDupCheckSecond, Control, HelpLabels
  <2>3. QED BY <2>1, <2>2
<1>10. CASE DelDup(t)
  <2>1. ptr[t][1] \in TableWord BY DEF TypeOK
  <2>2. make_pointer(NULL, get_counter(ptr[t][1])) \in TableWord
    BY <2>1, PartsType, WordType, SizeAssumption DEF NULL
  <2>3. table' \in [Slots -> TableWord]
    BY <1>10, <2>2, CASType DEF TypeOK, DelDup
  <2>4. pc' \in {[pc EXCEPT ![t] = l] : l \in {"crashed", call[t].op}}
    BY <1>10 DEF DelDup, Crash
  <2>5. TypeOK' BY <1>10, <1>a, <2>3, <2>4 DEF TypeOK, DelDup, Labels
  <2>6. Control' BY <1>10, <1>a, <2>4 DEF TypeOK, DelDup, Control, HelpLabels
  <2>7. QED BY <2>5, <2>6
<1>11. QED
  BY <1>1, <1>2, <1>3, <1>4, <1>5, <1>6, <1>7, <1>8, <1>9, <1>10 DEF Find

(* A (re)start of relocate makes a well-typed frame with an empty route.   *)
LEMMA StartRelocateType ==
  ASSUME TypeOK, NEW t \in Threads, StartRelocate(t)
  PROVE  /\ rel' \in [Threads -> RelocateFrame]
         /\ \A u \in Threads : Len(rel'[u].route) < THRESHOLD /\ rel'[u].i <= Len(rel'[u].route)
         /\ \A u \in Threads \ {t} : rel'[u] = rel[u]
         /\ pc' \in [Threads -> Labels]
         /\ pc' = [pc EXCEPT ![t] = "path.read"]
<1>1. MyHome(t, 0) \in Slots BY HomeWordType
<1>2. [NoRel EXCEPT !.slot = MyHome(t, 0)] \in RelocateFrame
  BY <1>1, FrameTypes DEF RelocateFrame
<1>3. /\ [NoRel EXCEPT !.slot = MyHome(t, 0)].route = <<>>
      /\ [NoRel EXCEPT !.slot = MyHome(t, 0)].i = 0
  BY DEF NoRel
<1>4. Len(<<>>) = 0 BY EmptySeq
<1>5. rel' = [rel EXCEPT ![t] = [NoRel EXCEPT !.slot = MyHome(t, 0)]]
  BY DEF StartRelocate
<1>6. \A u \in Threads : Len(rel'[u].route) < THRESHOLD /\ rel'[u].i <= Len(rel'[u].route)
  BY <1>3, <1>4, <1>5, SizeAssumption DEF TypeOK
<1>7. QED
  BY <1>2, <1>5, <1>6 DEF TypeOK, StartRelocate, Goto, Labels, PathLabels

(* The empty frame of relocate respects the bound on the route.            *)
LEMMA ForgetRelType ==
  ASSUME TypeOK, NEW t \in Threads, rel' = [rel EXCEPT ![t] = NoRel]
  PROVE  /\ rel' \in [Threads -> RelocateFrame]
         /\ \A u \in Threads : Len(rel'[u].route) < THRESHOLD /\ rel'[u].i <= Len(rel'[u].route)
         /\ \A u \in Threads \ {t} : rel'[u] = rel[u]
<1>1. NoRel.route = <<>> /\ NoRel.i = 0 /\ Len(<<>>) = 0 BY EmptySeq DEF NoRel
<1>2. QED BY <1>1, FrameTypes, SizeAssumption DEF TypeOK

(* insert keeps the types.                                                 *)
LEMMA TypeInsert ==
  ASSUME TypeInv, NEW t \in Threads, Insert(t)
  PROVE  TypeInv'
<1> USE DEF TypeInv, Goto, shared, gc, client, probe
<1>0. TypeOK BY DEF TypeInv
<1>a. call[t].key \in Keys /\ call[t].val \in Vals BY <1>0, HomeWordType
<1>b. "stored" \in OutcomeKinds /\ "dropped" \in OutcomeKinds BY DEF OutcomeKinds
<1>1. CASE InsertUpdate(t)
  <2> DEFINE n == get_pointer(ptr[t][IF result[t] = "FIRST" THEN 0 ELSE 1])
  <2>1. CASE n = NULL
    <3>1. TypeOK' BY <1>1, <2>1 DEF TypeOK, InsertUpdate, Crash, Labels
    <3>2. Control' BY <1>1, <2>1 DEF TypeOK, InsertUpdate, Crash, Control, HelpLabels
    <3>3. QED BY <3>1, <3>2
  <2>2. CASE n # NULL
    <3>1. /\ heap' = [heap EXCEPT ![n].val = call[t].val]
          /\ Return(t, Outcome("stored", call[t].val))
          /\ UNCHANGED <<table, nalloc, gc, rel, hlp>>
      BY <1>1, <2>2 DEF InsertUpdate
    <3>2. heap' \in [Nodes -> [key : Keys, val : Vals]]
      BY <3>1, <1>a DEF TypeOK
    <3>3. TypeOK' BY <3>1, <3>2, <1>0, <1>a, <1>b, ReturnType DEF TypeOK
    <3>4. Control'
      BY <3>1, <1>0, <1>a, <1>b, ReturnType DEF TypeOK, Return, Probe, Control, HelpLabels
    <3>5. QED BY <3>3, <3>4
  <2>3. QED BY <2>1, <2>2
<1>2. CASE InsertRelocate(t)
  <2>1. StartRelocate(t) /\ UNCHANGED <<shared, gc, client, probe, hlp>>
    BY <1>2 DEF InsertRelocate
  <2>2. TypeOK' BY <2>1, <1>0, StartRelocateType DEF TypeOK
  <2>3. /\ pc' = [pc EXCEPT ![t] = "path.read"]
        /\ \A u \in Threads \ {t} : rel'[u] = rel[u]
        /\ UNCHANGED <<ptr, side, hlp>>
    BY <2>1, <1>0, StartRelocateType
  <2>4. Control' BY <2>3 DEF TypeOK, Control, HelpLabels
  <2>5. QED BY <2>2, <2>4
<1>3. CASE InsertDrop(t)
  <2>1. /\ rel' = [rel EXCEPT ![t] = NoRel]
        /\ Return(t, Outcome("dropped", call[t].val))
        /\ UNCHANGED <<shared, gc, hlp>>
    BY <1>3 DEF InsertDrop
  <2>2. TypeOK' BY <2>1, <1>0, <1>a, <1>b, ReturnType, ForgetRelType DEF TypeOK
  <2>3. Control'
    BY <2>1, <1>0, <1>a, <1>b, ReturnType, ForgetRelType
       DEF TypeOK, Return, Probe, Control, HelpLabels
  <2>4. QED BY <2>2, <2>3
<1>4. ASSUME NEW w \in {0, 1}, InsertPlace(t, w) PROVE TypeInv'
  <2> DEFINE word == make_pointer(new[t], get_counter(ptr[t][w]))
  <2>1. word \in TableWord
    BY <1>0, HomeWordType, PartsType, WordType DEF TypeOK
  <2>2. table' \in [Slots -> TableWord]
    BY <1>4, <2>1, CASType DEF TypeOK, InsertPlace
  <2>3. CASE Return(t, Outcome("stored", call[t].val))
    <3>1. TypeOK' BY <1>4, <2>2, <2>3, <1>0, <1>a, <1>b, ReturnType DEF TypeOK, InsertPlace
    <3>2. Control'
      BY <1>4, <2>3, <1>0, <1>a, <1>b, ReturnType
         DEF TypeOK, InsertPlace, Return, Probe, Control, HelpLabels
    <3>3. QED BY <3>1, <3>2
  <2>4. CASE StartFind(t) /\ UNCHANGED client
    <3>1. TypeOK' BY <1>4, <2>2, <2>4, <1>0, StartFindType DEF TypeOK, InsertPlace
    <3>2. Control'
      BY <1>4, <2>4, <1>0, StartFindType
         DEF TypeOK, InsertPlace, StartFind, Probe, Control, HelpLabels
    <3>3. QED BY <3>1, <3>2
  <2>5. QED BY <1>4, <2>3, <2>4 DEF InsertPlace
<1>5. QED BY <1>1, <1>2, <1>3, <1>4 DEF Insert

(* remove, retire_node and scan keep the types.                            *)
LEMMA TypeRemove ==
  ASSUME TypeInv, NEW t \in Threads, Remove(t)
  PROVE  TypeInv'
<1> USE DEF TypeInv, Goto, shared, gc, client, probe
<1>0. TypeOK BY DEF TypeInv
<1>a. call[t].key \in Keys /\ call[t].val \in Vals BY <1>0, HomeWordType
<1>b. "absent" \in OutcomeKinds /\ "erased" \in OutcomeKinds BY DEF OutcomeKinds
<1>1. CASE RemoveAbsent(t)
  <2>1. Return(t, Outcome("absent", call[t].val)) /\ UNCHANGED <<shared, gc, rel, hlp>>
    BY <1>1 DEF RemoveAbsent
  <2>2. TypeOK' BY <2>1, <1>0, <1>a, <1>b, ReturnType DEF TypeOK
  <2>3. Control'
    BY <2>1, <1>0, <1>a, <1>b, ReturnType DEF TypeOK, Return, Probe, Control, HelpLabels
  <2>4. QED BY <2>2, <2>3
<1>2. CASE RemoveRecheck(t)
  <2>1. CASE StartFind(t)
    <3>1. TypeOK' BY <1>2, <2>1, <1>0, StartFindType DEF TypeOK, RemoveRecheck
    <3>2. Control'
      BY <1>2, <2>1, <1>0, StartFindType
         DEF TypeOK, RemoveRecheck, StartFind, Probe, Control, HelpLabels
    <3>3. QED BY <3>1, <3>2
  <2>2. CASE Goto(t, "remove.second") /\ UNCHANGED probe
    <3>1. TypeOK' BY <1>2, <2>2 DEF TypeOK, RemoveRecheck, Labels, CallerLabels
    <3>2. Control' BY <1>2, <2>2 DEF TypeOK, RemoveRecheck, Control, HelpLabels
    <3>3. QED BY <3>1, <3>2
  <2>3. QED BY <1>2, <2>1, <2>2 DEF RemoveRecheck
<1>3. CASE Retire(t)
  <2>1. RemovedNode(t) \in 0 .. MaxNodes
    BY <1>0, HomeWordType, PartsType DEF RemovedNode
  <2> DEFINE retired == Append(rlist[t], RemovedNode(t))
  <2>2. rlist[t] \in Seq(0 .. MaxNodes) BY DEF TypeOK
  <2>3. retired \in Seq(0 .. MaxNodes) BY <2>1, <2>2, AppendProperties
  <2>4. {retired[i] : i \in 1 .. Len(retired)} \ {NULL} \subseteq Nodes
    <3> HIDE DEF retired
    <3>1. \A i \in 1 .. Len(retired) : retired[i] \in 0 .. MaxNodes
      BY <2>3, ElementOfSeq
    <3>2. QED BY <3>1, SizeAssumption DEF Nodes, NULL
  <2>5. <<>> \in Seq(0 .. MaxNodes) BY EmptySeq
  <2>6. /\ rlist' \in [Threads -> Seq(0 .. MaxNodes)]
        /\ freed' \in SUBSET Nodes
    <3>1. CASE Len(retired) > R
      <4>1. /\ rlist' = [rlist EXCEPT ![t] = <<>>]
            /\ freed' = freed \cup ({retired[i] : i \in 1 .. Len(retired)} \ {NULL})
        BY <1>3, <3>1 DEF Retire
      <4> HIDE DEF retired
      <4>2. QED BY <4>1, <2>4, <2>5 DEF TypeOK
    <3>2. CASE ~(Len(retired) > R)
      <4>1. /\ rlist' = [rlist EXCEPT ![t] = retired]
            /\ freed' = freed
        BY <1>3, <3>2 DEF Retire
      <4> HIDE DEF retired
      <4>2. QED BY <4>1, <2>3 DEF TypeOK
    <3>3. QED BY <3>1, <3>2
  <2>7. Return(t, Outcome("erased", call[t].val)) /\ UNCHANGED <<shared, rel, hlp>>
    BY <1>3 DEF Retire
  <2>8. TypeOK' BY <2>6, <2>7, <1>0, <1>a, <1>b, ReturnType DEF TypeOK
  <2>9. Control'
    BY <2>7, <1>0, <1>a, <1>b, ReturnType DEF TypeOK, Return, Probe, Control, HelpLabels
  <2>10. QED BY <2>8, <2>9
<1>4. ASSUME NEW w \in {0, 1}, RemoveUnlink(t, w) PROVE TypeInv'
  <2> DEFINE word == make_pointer(NULL, get_counter(ptr[t][w]))
  <2>1. word \in TableWord
    <3>1. NULL \in 0 .. MaxNodes BY SizeAssumption DEF NULL
    <3>2. get_counter(ptr[t][w]) \in Nat BY <1>0, HomeWordType, PartsType
    <3>3. QED BY <3>1, <3>2, WordType
  <2>2. table' \in [Slots -> TableWord]
    BY <1>4, <2>1, CASType DEF TypeOK, RemoveUnlink
  <2>3. CASE Goto(t, "retire") /\ UNCHANGED probe
    <3>1. TypeOK' BY <1>4, <2>2, <2>3 DEF TypeOK, RemoveUnlink, Labels, CallerLabels
    <3>2. Control' BY <1>4, <2>3 DEF TypeOK, RemoveUnlink, Control, HelpLabels
    <3>3. QED BY <3>1, <3>2
  <2>4. CASE StartFind(t)
    <3>1. TypeOK' BY <1>4, <2>2, <2>4, <1>0, StartFindType DEF TypeOK, RemoveUnlink
    <3>2. Control'
      BY <1>4, <2>4, <1>0, StartFindType
         DEF TypeOK, RemoveUnlink, StartFind, Probe, Control, HelpLabels
    <3>3. QED BY <3>1, <3>2
  <2>5. QED BY <1>4, <2>3, <2>4 DEF RemoveUnlink
<1>5. QED BY <1>1, <1>2, <1>3, <1>4 DEF Remove

(* The parts of the frame of relocate have their types.                    *)
LEMMA RelFrame ==
  ASSUME TypeOK, NEW t \in Threads
  PROVE  /\ rel[t].route \in Seq(Slots) /\ rel[t].slot \in Slots
         /\ rel[t].ptr1 \in TableWord /\ rel[t].i \in Nat
         /\ rel[t].slot[1] \in {0, 1} /\ 1 - rel[t].slot[1] \in {0, 1}
         /\ Len(rel[t].route) \in Nat /\ Len(rel[t].route) < THRESHOLD
         /\ rel[t].i <= Len(rel[t].route)
         /\ get_pointer(rel[t].ptr1) \in 0 .. MaxNodes
         /\ table[rel[t].slot] \in TableWord
BY SlotSide, PartsType, LenProperties DEF TypeOK, RelocateFrame

(* A frame with a short enough route may replace the frame of one thread.  *)
LEMMA RelUpdate ==
  ASSUME TypeOK, NEW t \in Threads, NEW f \in RelocateFrame,
         Len(f.route) < THRESHOLD, f.i <= Len(f.route),
         rel' = [rel EXCEPT ![t] = f]
  PROVE  /\ rel' \in [Threads -> RelocateFrame]
         /\ \A u \in Threads : Len(rel'[u].route) < THRESHOLD /\ rel'[u].i <= Len(rel'[u].route)
         /\ rel'[t] = f /\ \A u \in Threads \ {t} : rel'[u] = rel[u]
<1>1. rel' \in [Threads -> RelocateFrame] BY DEF TypeOK
<1>2. rel'[t] = f /\ \A u \in Threads \ {t} : rel'[u] = rel[u] BY DEF TypeOK
<1>3. \A u \in Threads : Len(rel'[u].route) < THRESHOLD /\ rel'[u].i <= Len(rel'[u].route)
  <2> SUFFICES ASSUME NEW u \in Threads
               PROVE  Len(rel'[u].route) < THRESHOLD /\ rel'[u].i <= Len(rel'[u].route)
    OBVIOUS
  <2>1. CASE u = t BY <2>1, <1>2
  <2>2. CASE u # t BY <2>2, <1>2 DEF TypeOK
  <2>3. QED BY <2>1, <2>2
<1>4. QED BY <1>1, <1>2, <1>3

(* relocate keeps the types: the route stays shorter than THRESHOLD and    *)
(* the loop index inside it.                                               *)
LEMMA TypeRelocate ==
  ASSUME TypeInv, NEW t \in Threads, Relocate(t)
  PROVE  TypeInv'
<1> USE DEF TypeInv, Goto, shared, gc, client, probe
<1>0. TypeOK BY DEF TypeInv
<1>a. /\ rel[t].route \in Seq(Slots) /\ rel[t].slot \in Slots
      /\ rel[t].ptr1 \in TableWord /\ rel[t].i \in Nat
      /\ rel[t].slot[1] \in {0, 1} /\ 1 - rel[t].slot[1] \in {0, 1}
      /\ Len(rel[t].route) \in Nat /\ Len(rel[t].route) < THRESHOLD
      /\ rel[t].i <= Len(rel[t].route)
      /\ get_pointer(rel[t].ptr1) \in 0 .. MaxNodes
      /\ table[rel[t].slot] \in TableWord
  BY <1>0, RelFrame
<1>1. CASE PathRead(t)
  <2> DEFINE word == table[rel[t].slot]
  <2>1. CASE get_marked(word)
    <3>1. EnterHelp(t, rel[t].slot, FALSE, "path.read") /\ UNCHANGED rel
      BY <1>1, <2>1 DEF PathRead
    <3>2. "path.read" \in ReturnLabels BY DEF ReturnLabels
    <3>3. /\ hlp' \in [Threads -> HelpFrame]
          /\ hlp'[t].ret = "path.read" /\ \A u \in Threads \ {t} : hlp'[u] = hlp[u]
          /\ pc' \in [Threads -> Labels]
          /\ pc' = [pc EXCEPT ![t] = "help.read"]
      BY <3>1, <3>2, <1>a, <1>0, EnterHelpType
    <3>4. TypeOK' BY <1>1, <3>1, <3>3 DEF TypeOK, PathRead
    <3>5. Control' BY <1>1, <3>1, <3>3 DEF TypeOK, PathRead, Control, HelpLabels
    <3>6. QED BY <3>4, <3>5
  <2>2. CASE ~get_marked(word)
    <3> DEFINE f == [rel[t] EXCEPT !.ptr1 = word]
    <3>1. /\ rel' = [rel EXCEPT ![t] = f]
          /\ pc' = [pc EXCEPT ![t] = "path.check"]
          /\ UNCHANGED <<hlp, shared, gc, client, probe>>
      BY <1>1, <2>2 DEF PathRead
    <3>2. f \in RelocateFrame /\ f.route = rel[t].route /\ f.i = rel[t].i
      BY <1>a DEF TypeOK, RelocateFrame
    <3> HIDE DEF f
    <3>3. /\ rel' \in [Threads -> RelocateFrame]
          /\ \A u \in Threads : Len(rel'[u].route) < THRESHOLD /\ rel'[u].i <= Len(rel'[u].route)
          /\ \A u \in Threads \ {t} : rel'[u] = rel[u]
      BY <3>1, <3>2, <1>a, <1>0, RelUpdate
    <3>4. TypeOK' BY <3>1, <3>3 DEF TypeOK, Labels, PathLabels
    <3>5. Control' BY <3>1, <3>3 DEF TypeOK, Control, HelpLabels
    <3>6. QED BY <3>4, <3>5
  <2>3. QED BY <2>1, <2>2
<1>2. CASE PathCheck(t)
  <2> DEFINE e1 == get_pointer(rel[t].ptr1)
  <2>1. CASE e1 # get_pointer(table[rel[t].slot])
    <3>1. StartRelocate(t) /\ UNCHANGED <<shared, gc, client, probe, hlp>>
      BY <1>2, <2>1 DEF PathCheck
    <3>2. TypeOK' BY <3>1, <1>0, StartRelocateType DEF TypeOK
    <3>3. /\ pc' = [pc EXCEPT ![t] = "path.read"]
          /\ \A u \in Threads \ {t} : rel'[u] = rel[u]
          /\ UNCHANGED <<ptr, side, hlp>>
      BY <3>1, <1>0, StartRelocateType
    <3>4. Control' BY <3>3 DEF TypeOK, Control, HelpLabels
    <3>5. QED BY <3>2, <3>4
  <2>2. CASE e1 = get_pointer(table[rel[t].slot]) /\ e1 = NULL
    <3> DEFINE f == [rel[t] EXCEPT !.i = Len(rel[t].route)]
    <3>1. /\ rel' = [rel EXCEPT ![t] = f]
          /\ pc' = [pc EXCEPT ![t] = "move.read"]
          /\ UNCHANGED <<shared, gc, client, probe, hlp>>
      BY <1>2, <2>2 DEF PathCheck
    <3>2. f \in RelocateFrame /\ f.route = rel[t].route /\ f.i = Len(rel[t].route)
      BY <1>a DEF TypeOK, RelocateFrame
    <3> HIDE DEF f
    <3>0. Len(f.route) < THRESHOLD /\ f.i <= Len(f.route) BY <3>2, <1>a
    <3>3. /\ rel' \in [Threads -> RelocateFrame]
          /\ \A u \in Threads : Len(rel'[u].route) < THRESHOLD /\ rel'[u].i <= Len(rel'[u].route)
          /\ \A u \in Threads \ {t} : rel'[u] = rel[u]
      BY <3>1, <3>2, <3>0, <1>0, RelUpdate
    <3>4. TypeOK' BY <3>1, <3>3 DEF TypeOK, Labels, MoveLabels
    <3>5. Control' BY <3>1, <3>3 DEF TypeOK, Control, HelpLabels
    <3>6. QED BY <3>4, <3>5
  <2>3. CASE e1 = get_pointer(table[rel[t].slot]) /\ e1 # NULL
    <3>1. /\ pc' = [pc EXCEPT ![t] = "path.key"]
          /\ UNCHANGED <<rel, shared, gc, client, probe, hlp>>
      BY <1>2, <2>3 DEF PathCheck
    <3>2. TypeOK' BY <3>1 DEF TypeOK, Labels, PathLabels
    <3>3. Control' BY <3>1, <2>3 DEF TypeOK, Control, HelpLabels
    <3>4. QED BY <3>2, <3>3
  <2>4. QED BY <2>1, <2>2, <2>3
<1>3. CASE PathKey(t)
  <2> DEFINE k == heap[get_pointer(rel[t].ptr1)].key
             dest == Home(1 - rel[t].slot[1], k)
             path == Append(rel[t].route, rel[t].slot)
  <2>1. get_pointer(rel[t].ptr1) \in Nodes
    BY <1>3, <1>a DEF PathKey, Control, Nodes, NULL
  <2>2. dest \in Slots BY <2>1, <1>a, HomeType DEF TypeOK
  <2>3. path \in Seq(Slots) /\ Len(path) = Len(rel[t].route) + 1
    BY <1>a, AppendProperties
  <2> DEFINE f == [rel[t] EXCEPT !.route = path, !.slot = dest]
  <2>4. /\ rel' = [rel EXCEPT ![t] = f]
        /\ pc' = [pc EXCEPT ![t] = "path.read"]
        /\ UNCHANGED <<shared, gc, client, probe, hlp>>
        /\ Len(rel[t].route) + 1 < THRESHOLD
    BY <1>3 DEF PathKey
  <2> HIDE DEF path, dest
  <2>5. f \in RelocateFrame /\ f.route = path /\ f.i = rel[t].i
    BY <2>2, <2>3, <1>a DEF TypeOK, RelocateFrame
  <2> HIDE DEF f
  <2>6. Len(f.route) < THRESHOLD /\ f.i <= Len(f.route) BY <2>3, <2>4, <2>5, <1>a
  <2>7. /\ rel' \in [Threads -> RelocateFrame]
        /\ \A u \in Threads : Len(rel'[u].route) < THRESHOLD /\ rel'[u].i <= Len(rel'[u].route)
        /\ \A u \in Threads \ {t} : rel'[u] = rel[u]
    BY <2>4, <2>5, <2>6, <1>0, RelUpdate
  <2>8. TypeOK' BY <2>4, <2>7 DEF TypeOK, Labels, PathLabels
  <2>9. Control' BY <2>4, <2>7 DEF TypeOK, Control, HelpLabels
  <2>10. QED BY <2>8, <2>9
<1>4. CASE MoveDone(t)
  <2>1. /\ rel' = [rel EXCEPT ![t] = NoRel]
        /\ StartFind(t)
        /\ UNCHANGED <<shared, gc, client, hlp>>
    BY <1>4 DEF MoveDone
  <2>2. TypeOK' BY <2>1, <1>0, StartFindType, ForgetRelType DEF TypeOK
  <2>3. /\ pc' = [pc EXCEPT ![t] = "find.read"]
        /\ \A u \in Threads \ {t} : rel'[u] = rel[u] /\ ptr'[u] = ptr[u] /\ side'[u] = side[u]
        /\ UNCHANGED hlp
    BY <2>1, <1>0, StartFindType, ForgetRelType DEF TypeOK, StartFind, Probe
  <2>4. Control' BY <2>3 DEF TypeOK, Control, HelpLabels
  <2>5. QED BY <2>2, <2>4
<1>5. CASE MoveRead(t)
  <2> DEFINE s == rel[t].route[rel[t].i]
  <2>1. s \in Slots /\ table[s] \in TableWord
    BY <1>5, <1>a, ElementOfSeq DEF MoveRead, TypeOK
  <2>2. CASE get_marked(table[s])
    <3>1. EnterHelp(t, s, FALSE, "move.reread") /\ UNCHANGED rel
      BY <1>5, <2>2 DEF MoveRead
    <3>2. "move.reread" \in ReturnLabels BY DEF ReturnLabels
    <3> HIDE DEF s
    <3>3. /\ hlp' \in [Threads -> HelpFrame]
          /\ \A u \in Threads \ {t} : hlp'[u] = hlp[u]
          /\ pc' \in [Threads -> Labels]
          /\ pc' = [pc EXCEPT ![t] = "help.read"]
      BY <3>1, <3>2, <2>1, <1>0, EnterHelpType
    <3>4. TypeOK' BY <1>5, <3>1, <3>3 DEF TypeOK, MoveRead
    <3>5. Control' BY <1>5, <3>1, <3>3 DEF TypeOK, MoveRead, Control, HelpLabels
    <3>6. QED BY <3>4, <3>5
  <2>3. CASE ~get_marked(table[s])
    <3>1. /\ rel' = [rel EXCEPT ![t].ptr1 = table[s]]
          /\ pc' = [pc EXCEPT ![t] = "move.dest"]
          /\ UNCHANGED <<hlp, shared, gc, client, probe>>
          /\ rel[t].i > 0
      BY <1>5, <2>3 DEF MoveRead
    <3> HIDE DEF s
    <3>2. rel' \in [Threads -> RelocateFrame] BY <3>1, <2>1 DEF TypeOK, RelocateFrame
    <3>3. \A u \in Threads : rel'[u].route = rel[u].route /\ rel'[u].i = rel[u].i
      BY <3>1 DEF TypeOK, RelocateFrame
    <3>4. TypeOK' BY <3>1, <3>2, <3>3 DEF TypeOK, Labels, MoveLabels
    <3>5. \A u \in Threads \ {t} : rel'[u] = rel[u] BY <3>1 DEF TypeOK
    <3>6. Control' BY <3>1, <3>3, <3>5 DEF TypeOK, Control, HelpLabels
    <3>7. QED BY <3>4, <3>6
  <2>4. QED BY <2>2, <2>3
<1>6. CASE MoveReread(t)
  <2> DEFINE s == rel[t].route[rel[t].i]
  <2>0. rel[t].i > 0 BY <1>6 DEF MoveReread, Control
  <2>1. s \in Slots /\ table[s] \in TableWord
    BY <2>0, <1>a, ElementOfSeq DEF TypeOK
  <2>2. /\ rel' = [rel EXCEPT ![t].ptr1 = table[s]]
        /\ pc' = [pc EXCEPT ![t] = "move.dest"]
        /\ UNCHANGED <<hlp, shared, gc, client, probe>>
    BY <1>6 DEF MoveReread
  <2> HIDE DEF s
  <2>3. rel' \in [Threads -> RelocateFrame] BY <2>1, <2>2 DEF TypeOK, RelocateFrame
  <2>4. \A u \in Threads : rel'[u].route = rel[u].route /\ rel'[u].i = rel[u].i
    BY <2>2 DEF TypeOK, RelocateFrame
  <2>5. TypeOK' BY <2>2, <2>3, <2>4 DEF TypeOK, Labels, MoveLabels
  <2>6. \A u \in Threads \ {t} : rel'[u] = rel[u] BY <2>2 DEF TypeOK
  <2>7. Control' BY <2>0, <2>2, <2>4, <2>6 DEF TypeOK, Control, HelpLabels
  <2>8. QED BY <2>5, <2>7
<1>7. CASE MoveDest(t)
  <2> DEFINE i == rel[t].i
             s == rel[t].route[i]
             e1 == get_pointer(rel[t].ptr1)
             dest == Home(1 - s[1], heap[e1].key)
             head == SubSeq(rel[t].route, 1, i)
  <2>0. rel[t].i > 0 BY <1>7 DEF MoveDest, Control
  <2>1. s \in Slots /\ 1 - s[1] \in {0, 1}
    BY <2>0, <1>a, ElementOfSeq, SlotSide DEF TypeOK
  <2>2. i - 1 \in Nat /\ i - 1 <= Len(rel[t].route) BY <2>0, <1>a
  <2>3. CASE e1 = NULL
    <3>1. /\ rel' = [rel EXCEPT ![t].i = rel[t].i - 1]
          /\ pc' = [pc EXCEPT ![t] = "move.read"]
          /\ UNCHANGED <<hlp, shared, gc, client, probe>>
      BY <1>7, <2>3 DEF MoveDest
    <3>2. rel' \in [Threads -> RelocateFrame] BY <2>2, <3>1 DEF TypeOK, RelocateFrame
    <3>3. \A u \in Threads : /\ rel'[u].route = rel[u].route
                             /\ rel'[u].i = IF u = t THEN i - 1 ELSE rel[u].i
      BY <3>1 DEF TypeOK, RelocateFrame
    <3>4. TypeOK' BY <3>1, <3>2, <3>3, <2>2, <1>a DEF TypeOK, Labels, MoveLabels
    <3>5. \A u \in Threads \ {t} : rel'[u] = rel[u] BY <3>1 DEF TypeOK
    <3>6. Control' BY <3>1, <3>5 DEF TypeOK, Control, HelpLabels
    <3>7. QED BY <3>4, <3>6
  <2>4. CASE e1 # NULL /\ get_pointer(table[dest]) # NULL
    <3> DEFINE f == [rel[t] EXCEPT !.route = head, !.slot = dest]
    <3>1. /\ rel' = [rel EXCEPT ![t] = f]
          /\ pc' = [pc EXCEPT ![t] = "path.read"]
          /\ UNCHANGED <<hlp, shared, gc, client, probe>>
      BY <1>7, <2>4 DEF MoveDest
    <3>2. e1 \in Nodes BY <2>4, <1>a DEF Nodes, NULL
    <3>3. dest \in Slots BY <2>1, <3>2, HomeType DEF TypeOK
    <3>4. head \in Seq(Slots) /\ Len(head) = i
      <4>1. \A j \in 1 .. i : rel[t].route[j] \in Slots BY <1>a, ElementOfSeq
      <4>2. 1 \in Int /\ i \in Int BY <1>a
      <4>3. head \in Seq(Slots) /\ Len(head) = IF 1 <= i THEN i - 1 + 1 ELSE 0
        BY <4>1, <4>2, SubSeqProperties
      <4>4. QED BY <4>3, <2>0, <1>a
    <3> HIDE DEF head, dest
    <3>5. f \in RelocateFrame /\ f.route = head /\ f.i = i
      BY <3>3, <3>4, <1>a DEF TypeOK, RelocateFrame
    <3> HIDE DEF f
    <3>6. Len(f.route) < THRESHOLD /\ f.i <= Len(f.route)
      BY <3>4, <3>5, <1>a, SizeAssumption
    <3>7. /\ rel' \in [Threads -> RelocateFrame]
          /\ \A u \in Threads : Len(rel'[u].route) < THRESHOLD /\ rel'[u].i <= Len(rel'[u].route)
          /\ \A u \in Threads \ {t} : rel'[u] = rel[u]
      BY <3>1, <3>5, <3>6, <1>0, RelUpdate
    <3>8. TypeOK' BY <3>1, <3>7 DEF TypeOK, Labels, PathLabels
    <3>9. Control' BY <3>1, <3>7 DEF TypeOK, Control, HelpLabels
    <3>10. QED BY <3>8, <3>9
  <2>5. CASE e1 # NULL /\ get_pointer(table[dest]) = NULL
    <3>1. /\ rel' = [rel EXCEPT ![t].i = rel[t].i - 1]
          /\ EnterHelp(t, s, TRUE, "move.read")
          /\ UNCHANGED <<shared, gc, client, probe>>
      BY <1>7, <2>5 DEF MoveDest
    <3>2. "move.read" \in ReturnLabels BY DEF ReturnLabels
    <3> HIDE DEF s
    <3>3. /\ hlp' \in [Threads -> HelpFrame]
          /\ hlp'[t].ret = "move.read" /\ \A u \in Threads \ {t} : hlp'[u] = hlp[u]
          /\ pc' \in [Threads -> Labels]
          /\ pc' = [pc EXCEPT ![t] = "help.read"]
      BY <3>1, <3>2, <2>1, <1>0, EnterHelpType
    <3>4. rel' \in [Threads -> RelocateFrame] BY <2>2, <3>1 DEF TypeOK, RelocateFrame
    <3>5. \A u \in Threads : /\ rel'[u].route = rel[u].route
                             /\ rel'[u].i = IF u = t THEN i - 1 ELSE rel[u].i
      BY <3>1 DEF TypeOK, RelocateFrame
    <3>6. TypeOK' BY <3>1, <3>3, <3>4, <3>5, <2>2, <1>a DEF TypeOK
    <3>7. \A u \in Threads \ {t} : rel'[u] = rel[u] BY <3>1 DEF TypeOK
    <3>8. Control' BY <3>1, <3>3, <3>7 DEF TypeOK, Control, HelpLabels
    <3>9. QED BY <3>6, <3>8
  <2>6. QED BY <2>3, <2>4, <2>5
<1>8. QED BY <1>1, <1>2, <1>3, <1>4, <1>5, <1>6, <1>7 DEF Relocate

(* The parts of the frame of help_relocate have their types.               *)
LEMMA HelpFrameParts ==
  ASSUME TypeOK, NEW t \in Threads
  PROVE  /\ hlp[t].slot \in Slots /\ hlp[t].slot[1] \in {0, 1} /\ 1 - hlp[t].slot[1] \in {0, 1}
         /\ hlp[t].ptr1 \in TableWord /\ hlp[t].ptr2 \in TableWord
         /\ hlp[t].src \in 0 .. MaxNodes /\ hlp[t].ret \in ReturnLabels
         /\ table[hlp[t].slot] \in TableWord
         /\ get_pointer(table[hlp[t].slot]) \in 0 .. MaxNodes
         /\ get_counter(hlp[t].ptr1) \in Nat /\ get_counter(hlp[t].ptr1) + 1 \in Nat
         /\ get_counter(hlp[t].ptr2) \in Nat /\ get_counter(hlp[t].ptr2) + 1 \in Nat
BY SlotSide, PartsType DEF TypeOK, HelpFrame

(* help_relocate may go on with any well-typed frame.                      *)
LEMMA HelpUpdate ==
  ASSUME TypeInv, NEW t \in Threads, NEW f \in HelpFrame, f.ret = hlp[t].ret,
         pc[t] \in HelpLabels, NEW l \in HelpLabels \cup {"crashed"},
         hlp' = [hlp EXCEPT ![t] = f], pc' = [pc EXCEPT ![t] = l],
         UNCHANGED <<rel, ptr, side>>
  PROVE  /\ hlp' \in [Threads -> HelpFrame] /\ pc' \in [Threads -> Labels] /\ Control'
<1>1. hlp' \in [Threads -> HelpFrame] BY DEF TypeInv, TypeOK
<1>2. pc' \in [Threads -> Labels] BY DEF TypeInv, TypeOK, Labels
<1>3. Control' BY DEF TypeInv, TypeOK, Control, HelpLabels
<1>4. QED BY <1>1, <1>2, <1>3

(* Lines 309-325 keep the types.                                           *)
LEMMA TestMarkType ==
  ASSUME TypeInv, NEW t \in Threads, NEW src \in 0 .. MaxNodes, pc[t] \in HelpLabels,
         TestMark(t, src), UNCHANGED <<rel, ptr, side>>
  PROVE  hlp' \in [Threads -> HelpFrame] /\ pc' \in [Threads -> Labels] /\ Control'
<1> DEFINE f == [hlp[t] EXCEPT !.src = src]
<1>1. f \in HelpFrame /\ f.ret = hlp[t].ret BY DEF TypeInv, TypeOK, HelpFrame
<1>2. CASE LeaveHelp(t) BY <1>2, LeaveHelpType
<1>3. ASSUME NEW l \in {"help.dest", "help.mark"}, Goto(t, l), hlp' = [hlp EXCEPT ![t].src = src]
      PROVE  hlp' \in [Threads -> HelpFrame] /\ pc' \in [Threads -> Labels] /\ Control'
  <2>1. hlp' = [hlp EXCEPT ![t] = f] /\ pc' = [pc EXCEPT ![t] = l] BY <1>3 DEF Goto
  <2>2. l \in HelpLabels \cup {"crashed"} BY DEF HelpLabels
  <2> HIDE DEF f
  <2>3. QED BY <1>1, <2>1, <2>2, HelpUpdate
<1>4. QED BY <1>2, <1>3 DEF TestMark

(* A step inside help_relocate that keeps the frame keeps the types.       *)
LEMMA HelpKeepType ==
  ASSUME TypeInv, NEW t \in Threads, pc[t] \in HelpLabels,
         NEW l \in HelpLabels \cup {"crashed"}, Goto(t, l), UNCHANGED <<hlp, rel, ptr, side>>
  PROVE  hlp' \in [Threads -> HelpFrame] /\ pc' \in [Threads -> Labels] /\ Control'
<1>1. hlp[t] \in HelpFrame /\ hlp' = [hlp EXCEPT ![t] = hlp[t]]
  BY DEF TypeInv, TypeOK
<1>2. QED BY <1>1, HelpUpdate DEF Goto

(* help_relocate keeps the types.                                          *)
LEMMA TypeHelp ==
  ASSUME TypeInv, NEW t \in Threads, Help(t)
  PROVE  TypeInv'
<1> USE DEF TypeInv, shared, gc, client, probe
<1>0. TypeOK BY DEF TypeInv
<1>a. /\ hlp[t].slot \in Slots /\ hlp[t].slot[1] \in {0, 1} /\ 1 - hlp[t].slot[1] \in {0, 1}
      /\ hlp[t].ptr1 \in TableWord /\ hlp[t].ptr2 \in TableWord
      /\ hlp[t].src \in 0 .. MaxNodes /\ hlp[t].ret \in ReturnLabels
      /\ table[hlp[t].slot] \in TableWord
      /\ get_pointer(table[hlp[t].slot]) \in 0 .. MaxNodes
      /\ get_counter(hlp[t].ptr1) \in Nat /\ get_counter(hlp[t].ptr1) + 1 \in Nat
      /\ get_counter(hlp[t].ptr2) \in Nat /\ get_counter(hlp[t].ptr2) + 1 \in Nat
  BY <1>0, HelpFrameParts
<1>b. NULL \in 0 .. MaxNodes BY SizeAssumption DEF NULL
<1>c. ASSUME hlp' \in [Threads -> HelpFrame] /\ pc' \in [Threads -> Labels] /\ Control',
             table' \in [Slots -> TableWord],
             UNCHANGED <<heap, nalloc, gc, client, probe, rel>>
      PROVE  TypeInv'
  BY <1>c DEF TypeOK
<1>d. table \in [Slots -> TableWord] BY DEF TypeOK
<1>1. CASE HelpRead(t)
  <2> DEFINE w == table[hlp[t].slot]
             f == [hlp[t] EXCEPT !.ptr1 = w, !.src = get_pointer(w)]
  <2>1. f \in HelpFrame /\ f.ret = hlp[t].ret BY <1>a DEF TypeOK, HelpFrame
  <2>2. /\ hlp' = [hlp EXCEPT ![t] = f] /\ pc' = [pc EXCEPT ![t] = "help.check"]
        /\ pc[t] \in HelpLabels /\ "help.check" \in HelpLabels \cup {"crashed"}
        /\ UNCHANGED <<shared, gc, client, probe, rel>>
    BY <1>1 DEF HelpRead, Goto, HelpLabels
  <2> HIDE DEF f
  <2>3. hlp' \in [Threads -> HelpFrame] /\ pc' \in [Threads -> Labels] /\ Control'
    BY <2>1, <2>2, HelpUpdate
  <2>4. QED BY <2>2, <2>3, <1>c, <1>d
<1>2. CASE HelpCheck(t)
  <2>0. pc[t] \in HelpLabels /\ UNCHANGED <<shared, gc, client, probe, rel>>
    BY <1>2 DEF HelpCheck, HelpLabels
  <2>1. CASE HelpRetry(t)
    <3>1. "help.read" \in HelpLabels \cup {"crashed"} BY DEF HelpLabels
    <3>2. hlp' \in [Threads -> HelpFrame] /\ pc' \in [Threads -> Labels] /\ Control'
      BY <2>0, <2>1, <3>1, HelpKeepType DEF HelpRetry
    <3>3. QED BY <2>0, <3>2, <1>c, <1>d
  <2>2. CASE TestMark(t, hlp[t].src)
    <3>1. hlp' \in [Threads -> HelpFrame] /\ pc' \in [Threads -> Labels] /\ Control'
      BY <2>0, <2>2, <1>a, TestMarkType
    <3>2. QED BY <2>0, <3>1, <1>c, <1>d
  <2>3. QED BY <1>2, <2>1, <2>2 DEF HelpCheck
<1>3. CASE HelpMark(t)
  <2>1. /\ CAS(hlp[t].slot, hlp[t].ptr1, set_marked(hlp[t].ptr1))
        /\ Goto(t, "help.remark") /\ pc[t] \in HelpLabels
        /\ "help.remark" \in HelpLabels \cup {"crashed"}
        /\ UNCHANGED <<heap, nalloc, gc, client, probe, rel, hlp>>
    BY <1>3 DEF HelpMark, HelpLabels
  <2>2. table' \in [Slots -> TableWord] BY <2>1, <1>a, <1>d, MarkedType, CASType
  <2>3. hlp' \in [Threads -> HelpFrame] /\ pc' \in [Threads -> Labels] /\ Control'
    BY <2>1, HelpKeepType
  <2>4. QED BY <2>1, <2>2, <2>3, <1>c
<1>4. CASE HelpRemark(t)
  <2> DEFINE f == [hlp[t] EXCEPT !.ptr1 = table[hlp[t].slot]]
  <2>1. f \in HelpFrame /\ f.ret = hlp[t].ret BY <1>a DEF TypeOK, HelpFrame
  <2>2. /\ hlp' = [hlp EXCEPT ![t] = f] /\ pc' = [pc EXCEPT ![t] = "help.recheck"]
        /\ pc[t] \in HelpLabels /\ "help.recheck" \in HelpLabels \cup {"crashed"}
        /\ UNCHANGED <<shared, gc, client, probe, rel>>
    BY <1>4 DEF HelpRemark, Goto, HelpLabels
  <2> HIDE DEF f
  <2>3. hlp' \in [Threads -> HelpFrame] /\ pc' \in [Threads -> Labels] /\ Control'
    BY <2>1, <2>2, HelpUpdate
  <2>4. QED BY <2>2, <2>3, <1>c, <1>d
<1>5. CASE HelpRecheck(t)
  <2> DEFINE src == IF hlp[t].ptr1 = table[hlp[t].slot]
                    THEN get_pointer(hlp[t].ptr1) ELSE hlp[t].src
  <2>1. TestMark(t, src) /\ pc[t] \in HelpLabels /\ UNCHANGED <<shared, gc, client, probe, rel>>
    BY <1>5 DEF HelpRecheck, HelpLabels
  <2>2. src \in 0 .. MaxNodes BY <1>a, PartsType
  <2> HIDE DEF src
  <2>3. hlp' \in [Threads -> HelpFrame] /\ pc' \in [Threads -> Labels] /\ Control'
    BY <2>1, <2>2, TestMarkType
  <2>4. QED BY <2>1, <2>3, <1>c, <1>d
<1>6. CASE HelpDest(t)
  <2>0. pc[t] \in HelpLabels /\ UNCHANGED <<shared, gc, client, probe, rel>>
    BY <1>6 DEF HelpDest, HelpLabels
  <2>1. CASE hlp[t].src = NULL
    <3>1. Goto(t, "crashed") /\ UNCHANGED hlp BY <1>6, <2>1 DEF HelpDest, Crash
    <3>2. hlp' \in [Threads -> HelpFrame] /\ pc' \in [Threads -> Labels] /\ Control'
      BY <2>0, <3>1, HelpKeepType
    <3>3. QED BY <2>0, <3>2, <1>c, <1>d
  <2>2. CASE hlp[t].src # NULL
    <3> DEFINE f == [hlp[t] EXCEPT !.ptr2 = table[HelpDestSlot(t)]]
    <3>1. HelpDestSlot(t) \in Slots
      <4>1. hlp[t].src \in Nodes BY <2>2, <1>a, SizeAssumption DEF Nodes, NULL
      <4>2. QED BY <4>1, <1>a, HomeType DEF HelpDestSlot, TypeOK
    <3>2. f \in HelpFrame /\ f.ret = hlp[t].ret BY <3>1 DEF TypeOK, HelpFrame
    <3>3. hlp' = [hlp EXCEPT ![t] = f] /\ pc' = [pc EXCEPT ![t] = "help.checkdest"]
      BY <1>6, <2>2 DEF HelpDest, Goto
    <3>4. "help.checkdest" \in HelpLabels \cup {"crashed"} BY DEF HelpLabels
    <3> HIDE DEF f
    <3>5. hlp' \in [Threads -> HelpFrame] /\ pc' \in [Threads -> Labels] /\ Control'
      BY <2>0, <3>2, <3>3, <3>4, HelpUpdate
    <3>6. QED BY <2>0, <3>5, <1>c, <1>d
  <2>3. QED BY <2>1, <2>2
<1>7. CASE HelpCheckDest(t) \/ HelpStable(t)
  <2>1. /\ pc[t] \in HelpLabels /\ UNCHANGED <<shared, gc, client, probe, rel, hlp>>
        /\ \E l \in HelpLabels \cup {"crashed"} : Goto(t, l)
    BY <1>7 DEF HelpCheckDest, HelpStable, HelpRetry, HelpLabels
  <2>2. hlp' \in [Threads -> HelpFrame] /\ pc' \in [Threads -> Labels] /\ Control'
    BY <2>1, HelpKeepType
  <2>3. QED BY <2>1, <2>2, <1>c, <1>d
<1>8. CASE HelpCopy(t)
  <2> DEFINE c1 == get_counter(hlp[t].ptr1)
             c2 == get_counter(hlp[t].ptr2)
             w  == make_pointer(hlp[t].src, IF c1 > c2 THEN c1 + 1 ELSE c2 + 1)
  <2>1. /\ CAS(HelpDestSlot(t), hlp[t].ptr2, w)
        /\ \E l \in HelpLabels \cup {"crashed"} : Goto(t, l)
        /\ pc[t] \in HelpLabels
        /\ UNCHANGED <<heap, nalloc, gc, client, probe, rel, hlp>>
    BY <1>8 DEF HelpCopy, HelpLabels
  <2>2. w \in TableWord BY <1>a, WordType
  <2> HIDE DEF w
  <2>3. table' \in [Slots -> TableWord] BY <2>1, <2>2, <1>d, CASType
  <2>4. hlp' \in [Threads -> HelpFrame] /\ pc' \in [Threads -> Labels] /\ Control'
    BY <2>1, HelpKeepType
  <2>5. QED BY <2>1, <2>3, <2>4, <1>c
<1>9. CASE HelpClear(t) \/ HelpUnmark(t)
  <2>1. /\ \E n \in 0 .. MaxNodes : CAS(hlp[t].slot, hlp[t].ptr1,
                                       make_pointer(n, get_counter(hlp[t].ptr1) + 1))
        /\ LeaveHelp(t) /\ pc[t] \in HelpLabels
        /\ UNCHANGED <<heap, nalloc, gc, client, probe, rel>>
    BY <1>9, <1>a, <1>b DEF HelpClear, HelpUnmark, HelpLabels
  <2>2. table' \in [Slots -> TableWord] BY <2>1, <1>a, <1>d, WordType, CASType
  <2>3. hlp' \in [Threads -> HelpFrame] /\ pc' \in [Threads -> Labels] /\ Control'
    BY <2>1, LeaveHelpType
  <2>4. QED BY <2>1, <2>2, <2>3, <1>c
<1>10. QED BY <1>1, <1>2, <1>3, <1>4, <1>5, <1>6, <1>7, <1>8, <1>9 DEF Help

(* The start of a call keeps the types.                                    *)
LEMMA TypeInvoke ==
  ASSUME TypeInv, NEW t \in Threads, Invoke(t)
  PROVE  TypeInv'
<1> USE DEF TypeInv, shared, gc, client, probe
<1>1. PICK c \in Calls[t] : CallSearch(t, c) \/ CallInsert(t, c) \/ CallRemove(t, c)
  BY DEF Invoke
<1>2. c \in Call /\ c.key \in Keys /\ c.val \in Vals BY WorkloadAssumption DEF Call
<1>3. PICK l \in {"search.read", "find.read"} : Begin(t, c, l)
  BY <1>1 DEF CallSearch, CallInsert, CallRemove
<1>4. /\ heap' \in [Nodes -> [key : Keys, val : Vals]]
      /\ nalloc' \in 0 .. MaxNodes
      /\ new' \in [Threads -> 0 .. MaxNodes]
  <2>1. CASE UNCHANGED <<heap, nalloc, new>> BY <2>1 DEF TypeOK
  <2>2. CASE CallInsert(t, c)
    <3>1. nalloc + 1 \in 1 .. MaxNodes /\ nalloc + 1 \in Nodes /\ nalloc + 1 \in 0 .. MaxNodes
      BY <2>2, SizeAssumption DEF CallInsert, TypeOK, Nodes
    <3>2. [key |-> c.key, val |-> c.val] \in [key : Keys, val : Vals] BY <1>2
    <3>3. QED BY <2>2, <3>1, <3>2 DEF CallInsert, TypeOK
  <2>3. QED BY <2>1, <2>2, <1>1 DEF CallSearch, CallRemove
<1>5. /\ call' \in [Threads -> Call]
      /\ left' \in [Threads -> Nat]
      /\ out' \in [Threads -> [kind : OutcomeKinds, val : Vals]]
      /\ pc' \in [Threads -> Labels]
  <2>1. Outcome("none", c.val) \in [kind : OutcomeKinds, val : Vals]
    BY <1>2 DEF Outcome, OutcomeKinds
  <2>2. l \in Labels BY DEF Labels, SearchLabels, FindLabels
  <2>3. left[t] \in Nat /\ left[t] > 0 BY <1>3 DEF Begin, TypeOK
  <2>4. left' \in [Threads -> Nat] BY <1>3, <2>3 DEF Begin, TypeOK
  <2>5. QED BY <1>2, <1>3, <2>1, <2>2, <2>4 DEF Begin, Goto, TypeOK
<1>6. TypeOK' BY <1>3, <1>4, <1>5 DEF Begin, TypeOK
<1>7. Control' BY <1>3 DEF Begin, Goto, TypeOK, Control, HelpLabels
<1>8. QED BY <1>6, <1>7

(* The constructor and the preloaded entries are well typed.               *)
LEMMA TypeInit == Init => TypeInv
<1> SUFFICES ASSUME Init PROVE TypeInv OBVIOUS
<1> DEFINE k0 == CHOOSE k \in Keys : TRUE
           v0 == CHOOSE v \in Vals : TRUE
<1>1. k0 \in Keys /\ v0 \in Vals BY WorkloadAssumption
<1>2. Len(Preload) \in Nat /\ Len(Preload) <= MaxNodes
      /\ \A i \in 1 .. Len(Preload) : Preload[i] \in [slot : Slots, key : Keys, val : Vals]
  BY PreloadAssumption, LenProperties, ElementOfSeq
<1>3. table \in [Slots -> TableWord]
  <2> SUFFICES ASSUME NEW s \in Slots
               PROVE  (IF \E i \in 1 .. Len(Preload) : Preload[i].slot = s
                       THEN make_pointer(CHOOSE i \in 1 .. Len(Preload) :
                                            Preload[i].slot = s, 0)
                       ELSE EmptyWord) \in TableWord
    BY DEF Init
  <2>1. CASE \E i \in 1 .. Len(Preload) : Preload[i].slot = s
    <3> DEFINE n == CHOOSE i \in 1 .. Len(Preload) : Preload[i].slot = s
    <3>1. n \in 1 .. Len(Preload) BY <2>1
    <3> HIDE DEF n
    <3>2. n \in 0 .. MaxNodes BY <3>1, <1>2, SizeAssumption
    <3>3. make_pointer(n, 0) \in TableWord BY <3>2, WordType
    <3>4. QED BY <2>1, <3>3 DEF n
  <2>2. CASE ~\E i \in 1 .. Len(Preload) : Preload[i].slot = s
    BY <2>2, EmptyWordType
  <2>3. QED BY <2>1, <2>2
<1>4. heap \in [Nodes -> [key : Keys, val : Vals]]
  <2> HIDE DEF k0, v0
  <2>1. heap = [n \in Nodes |-> IF n <= Len(Preload)
                  THEN [key |-> Preload[n].key, val |-> Preload[n].val]
                  ELSE [key |-> k0, val |-> v0]]
    BY DEF Init, k0, v0
  <2>2. \A n \in Nodes : n <= Len(Preload) => n \in 1 .. Len(Preload) BY <1>2, SizeAssumption DEF Nodes
  <2>3. QED BY <1>1, <1>2, <2>1, <2>2
<1>5. nalloc \in 0 .. MaxNodes BY <1>2, SizeAssumption DEF Init
<1>6. rlist \in [Threads -> Seq(0 .. MaxNodes)] /\ freed \in SUBSET Nodes BY EmptySeq DEF Init
<1>7. pc \in [Threads -> Labels] /\ result \in [Threads -> {"unset", "FIRST", "SECOND", "NIL"}]
      /\ side \in [Threads -> {0, 1}]
  BY DEF Init, Labels
<1>8. /\ call \in [Threads -> Call] /\ left \in [Threads -> Nat]
      /\ out \in [Threads -> [kind : OutcomeKinds, val : Vals]]
  <2>1. NoCall(k0, v0) \in Call BY <1>1 DEF NoCall, Call
  <2>2. Outcome("none", v0) \in [kind : OutcomeKinds, val : Vals]
    BY <1>1 DEF Outcome, OutcomeKinds
  <2>3. call = [u \in Threads |-> NoCall(k0, v0)] /\ out = [u \in Threads |-> Outcome("none", v0)]
        /\ left = Budget
    BY DEF Init
  <2> HIDE DEF k0, v0
  <2>4. QED BY <2>1, <2>2, <2>3, WorkloadAssumption
<1>9. /\ new \in [Threads -> 0 .. MaxNodes]
      /\ ptr \in [Threads -> [{0, 1} -> TableWord]]
      /\ ts \in [Threads -> [{0, 1} -> 0 .. CounterMod - 1]]
  BY NoWordsType, NoTimesType, SizeAssumption DEF Init, NULL
<1>10. rel \in [Threads -> RelocateFrame] /\ hlp \in [Threads -> HelpFrame]
  BY FrameTypes DEF Init
<1>11. \A u \in Threads : Len(rel[u].route) < THRESHOLD /\ rel[u].i <= Len(rel[u].route)
  <2>1. NoRel.route = <<>> /\ NoRel.i = 0 /\ Len(<<>>) = 0 BY EmptySeq DEF NoRel
  <2>2. QED BY <2>1, SizeAssumption DEF Init
<1>12. TypeOK BY <1>3, <1>4, <1>5, <1>6, <1>7, <1>8, <1>9, <1>10, <1>11 DEF TypeOK
<1>13. Control BY DEF Init, Control, HelpLabels
<1>14. QED BY <1>12, <1>13 DEF TypeInv

(* The type invariant is inductive.                                        *)
LEMMA TypeStep == TypeInv /\ [Next]_vars => TypeInv'
<1> SUFFICES ASSUME TypeInv, [Next]_vars PROVE TypeInv' OBVIOUS
<1>1. ASSUME NEW t \in Threads, Step(t) PROVE TypeInv'
  BY <1>1, TypeSearch, TypeFind, TypeInsert, TypeRemove, TypeRelocate, TypeHelp DEF Step
<1>2. ASSUME NEW t \in Threads, Invoke(t) PROVE TypeInv'
  BY <1>2, TypeInvoke
<1>3. CASE UNCHANGED vars
  BY <1>3 DEF TypeInv, TypeOK, Control, vars, shared, gc, client, probe
<1>4. QED BY <1>1, <1>2, <1>3 DEF Next, Stopped

(* Type correctness: in every execution every variable of the table and    *)
(* of its threads has its type; in particular the route of relocate, an    *)
(* array of THRESHOLD elements in the code, is never overrun (lines        *)
(* 202-297).                                                               *)
THEOREM TypeCorrect == Spec => []TypeOK
<1>1. TypeInv => TypeOK BY DEF TypeInv
<1>2. QED BY <1>1, TypeInit, TypeStep, PTL DEF Spec
=============================================================================
