------------------------ MODULE KeyedHashTable_proofs ------------------------
(***************************************************************************)
(* The templated table's key lists and removeIf.  Every step of it is a    *)
(* step of the table, the start of a call, or a change of the lists or of  *)
(* removeIf's frame that leaves the table alone; so what the table's       *)
(* invariants say of the table they say of this one too.  On top of them:  *)
(* entries are listed (ListInv), a sweep removes what the callback has     *)
(* accepted (SweepInv), the callback reads a node that lives (LiveInv),    *)
(* and a sweep leaves nothing behind (ExactInv, RestInv).                  *)
(***************************************************************************)
EXTENDS KeyedHashTable, LockfreeHashTable_writers, WellFoundedInduction

(* A non-empty set of naturals has a least element.                        *)
LEMMA LeastNat ==
  ASSUME NEW T \in SUBSET Nat, T # {}
  PROVE  \E n \in T : \A m \in T : n <= m
<1>1. PICK n \in T : \A m \in T : ~(<<m, n>> \in OpToRel(<, Nat))
  BY NatLessThanWellFounded, WFMin
<1>2. \A m \in T : ~(m < n) BY <1>1 DEF OpToRel
<1>3. QED BY <1>2

(* removeKeyFromVector takes one occurrence of the key, if there is one.   *)
LEMMA RemovesOne ==
  ASSUME NEW s \in Seq(Keys), NEW k
  PROVE  \/ removeKeyFromVector(s, k) = s
         \/ \E i \in 1 .. Len(s) :
              /\ s[i] = k
              /\ removeKeyFromVector(s, k) = SubSeq(s, 1, i - 1) \o SubSeq(s, i + 1, Len(s))
<1>1. CASE ~\E i \in 1 .. Len(s) : s[i] = k
  BY <1>1 DEF removeKeyFromVector, Seqs!RemoveFirst
<1>2. CASE \E i \in 1 .. Len(s) : s[i] = k
  <2> DEFINE I == {i \in 1 .. Len(s) : s[i] = k}
  <2>1. removeKeyFromVector(s, k) = Seqs!RemoveAt(s, Seqs!SelectInSeq(s, LAMBDA v : v = k))
    BY <1>2 DEF removeKeyFromVector, Seqs!RemoveFirst
  <2>2. Seqs!SelectInSeq(s, LAMBDA v : v = k) = Seqs!Min(I)
    BY <1>2 DEF Seqs!SelectInSeq
  <2>3. I # {} /\ I \in SUBSET Nat /\ I \subseteq 1 .. Len(s) /\ \A i \in I : s[i] = k
    BY <1>2, LenProperties
  <2>4. Seqs!Min(I) \in I
    <3> HIDE DEF I
    <3>1. PICK j \in I : \A i \in I : j <= i BY <2>3, LeastNat
    <3>2. QED BY <3>1 DEF Seqs!Min
  <2>5. QED BY <2>1, <2>2, <2>3, <2>4 DEF Seqs!RemoveAt
<1>3. QED BY <1>1, <1>2

(* What is left is what was there, and every other key is left.            *)
LEMMA RemoveKeeps ==
  ASSUME NEW s \in Seq(Keys), NEW k
  PROVE  /\ removeKeyFromVector(s, k) \in Seq(Keys)
         /\ \A j \in Keys : (\E i \in DOMAIN removeKeyFromVector(s, k) :
                               removeKeyFromVector(s, k)[i] = j) => \E i \in DOMAIN s : s[i] = j
         /\ \A j \in Keys : (j # k /\ \E i \in DOMAIN s : s[i] = j) =>
              \E i \in DOMAIN removeKeyFromVector(s, k) : removeKeyFromVector(s, k)[i] = j
<1> DEFINE r == removeKeyFromVector(s, k)
<1>1. CASE r = s BY <1>1
<1>2. ASSUME NEW i \in 1 .. Len(s), s[i] = k, r = SubSeq(s, 1, i - 1) \o SubSeq(s, i + 1, Len(s))
      PROVE  /\ r \in Seq(Keys)
             /\ \A j \in Keys : (\E m \in DOMAIN r : r[m] = j) => \E m \in DOMAIN s : s[m] = j
             /\ \A j \in Keys : (j # k /\ \E m \in DOMAIN s : s[m] = j) => \E m \in DOMAIN r : r[m] = j
  <2> DEFINE a == SubSeq(s, 1, i - 1)
             b == SubSeq(s, i + 1, Len(s))
  <2>1. Len(s) \in Nat /\ DOMAIN s = 1 .. Len(s) /\ \A m \in 1 .. Len(s) : s[m] \in Keys
    BY LenProperties
  <2>2. /\ a \in Seq(Keys) /\ Len(a) = i - 1
        /\ \A m \in 1 .. i - 1 : a[m] = s[m]
    <3>1. 1 \in Int /\ i - 1 \in Int /\ \A m \in 1 .. i - 1 : s[m] \in Keys BY <2>1
    <3>2. /\ a \in Seq(Keys) /\ Len(a) = IF 1 <= i - 1 THEN i - 1 - 1 + 1 ELSE 0
          /\ \A m \in 1 .. i - 1 - 1 + 1 : a[m] = s[1 + m - 1]
      BY <3>1, SubSeqProperties
    <3>3. QED BY <3>2, <2>1
  <2>3. /\ b \in Seq(Keys) /\ Len(b) = Len(s) - i
        /\ \A m \in 1 .. Len(s) - i : b[m] = s[m + i]
    <3>1. i + 1 \in Int /\ Len(s) \in Int /\ \A m \in i + 1 .. Len(s) : s[m] \in Keys BY <2>1
    <3>2. /\ b \in Seq(Keys) /\ Len(b) = IF i + 1 <= Len(s) THEN Len(s) - (i + 1) + 1 ELSE 0
          /\ \A m \in 1 .. Len(s) - (i + 1) + 1 : b[m] = s[i + 1 + m - 1]
      BY <3>1, SubSeqProperties
    <3> HIDE DEF b
    <3>3. Len(b) = Len(s) - i
      <4>1. Len(b) = IF i + 1 <= Len(s) THEN Len(s) - (i + 1) + 1 ELSE 0 BY <3>2
      <4>2. i <= Len(s) /\ i \in Int /\ Len(s) \in Int BY <2>1
      <4>3. QED BY <4>1, <4>2
    <3>4. ASSUME NEW m \in 1 .. Len(s) - i PROVE b[m] = s[m + i]
      <4>1. m \in 1 .. Len(s) - (i + 1) + 1 /\ i + 1 + m - 1 = m + i BY <2>1
      <4>2. b[m] = s[i + 1 + m - 1] BY <4>1, <3>2
      <4>3. QED BY <4>1, <4>2
    <3>5. QED BY <3>2, <3>3, <3>4
  <2>4. /\ r \in Seq(Keys) /\ Len(r) = Len(s) - 1
        /\ \A m \in 1 .. Len(s) - 1 : r[m] = IF m < i THEN a[m] ELSE b[m - (i - 1)]
    <3> HIDE DEF a, b
    <3>1. /\ a \o b \in Seq(Keys) /\ Len(a \o b) = Len(a) + Len(b)
          /\ \A m \in 1 .. Len(a) + Len(b) :
               (a \o b)[m] = IF m <= Len(a) THEN a[m] ELSE b[m - Len(a)]
      BY <2>2, <2>3, ConcatProperties
    <3>2. r = a \o b BY <1>2 DEF a, b
    <3> HIDE DEF r
    <3>3. /\ r \in Seq(Keys) /\ Len(r) = Len(a) + Len(b)
          /\ \A m \in 1 .. Len(a) + Len(b) :
               r[m] = IF m <= Len(a) THEN a[m] ELSE b[m - Len(a)]
      BY <3>1, <3>2
    <3>4. Len(a) = i - 1 /\ Len(a) + Len(b) = Len(s) - 1 BY <2>1, <2>2, <2>3
    <3>5. ASSUME NEW m \in 1 .. Len(s) - 1
          PROVE  r[m] = IF m < i THEN a[m] ELSE b[m - (i - 1)]
      <4>1. m <= i - 1 <=> m < i BY <2>1
      <4>2. QED BY <3>3, <3>4, <4>1
    <3>6. QED BY <3>3, <3>4, <3>5
  <2>5. DOMAIN r = 1 .. Len(s) - 1 BY <2>4, LenProperties
  <2> HIDE DEF r, a, b
  <2>6. \A m \in 1 .. Len(s) - 1 : r[m] = IF m < i THEN s[m] ELSE s[m + 1]
    <3> SUFFICES ASSUME NEW m \in 1 .. Len(s) - 1
                 PROVE  r[m] = IF m < i THEN s[m] ELSE s[m + 1]
      OBVIOUS
    <3>1. CASE m < i
      <4>1. m \in 1 .. i - 1 BY <3>1
      <4>2. QED BY <3>1, <4>1, <2>2, <2>4
    <3>2. CASE ~(m < i)
      <4>1. m - (i - 1) \in 1 .. Len(s) - i /\ m - (i - 1) + i = m + 1 BY <3>2, <2>1
      <4>2. b[m - (i - 1)] = s[m + 1] BY <4>1, <2>3
      <4>3. QED BY <3>2, <4>2, <2>4
    <3>3. QED BY <3>1, <3>2
  <2>7. ASSUME NEW j \in Keys, NEW m \in DOMAIN r, r[m] = j PROVE \E n \in DOMAIN s : s[n] = j
    BY <2>1, <2>5, <2>6, <2>7
  <2>8. ASSUME NEW j \in Keys, j # k, NEW m \in DOMAIN s, s[m] = j
        PROVE  \E n \in DOMAIN r : r[n] = j
    <3>1. CASE m < i BY <3>1, <2>1, <2>5, <2>6, <2>8
    <3>2. CASE m > i
      <4>1. m - 1 \in DOMAIN r /\ r[m - 1] = j BY <3>2, <2>1, <2>5, <2>6, <2>8
      <4>2. QED BY <4>1
    <3>3. m # i BY <1>2, <2>8
    <3>4. QED BY <3>1, <3>2, <3>3, <2>1, <2>8
  <2>9. QED BY <2>4, <2>7, <2>8
<1>3. QED BY <1>1, <1>2, RemovesOne

(* Appending a key adds that key.                                          *)
LEMMA AppendKeeps ==
  ASSUME NEW s \in Seq(Keys), NEW k \in Keys
  PROVE  /\ Append(s, k) \in Seq(Keys)
         /\ \E i \in DOMAIN Append(s, k) : Append(s, k)[i] = k
         /\ \A j : (\E i \in DOMAIN s : s[i] = j) => \E i \in DOMAIN Append(s, k) : Append(s, k)[i] = j
<1>1. /\ Append(s, k) \in Seq(Keys) /\ Len(s) \in Nat /\ DOMAIN s = 1 .. Len(s)
      /\ DOMAIN Append(s, k) = 1 .. Len(s) + 1 /\ Append(s, k)[Len(s) + 1] = k
      /\ \A i \in 1 .. Len(s) : Append(s, k)[i] = s[i]
  BY AppendProperties, LenProperties
<1>2. QED BY <1>1

-----------------------------------------------------------------------------
(* The steps of the templated table.                                       *)

TableStep(t) ==
  \/ KeyedSearch(t) \/ KeyedFind(t) \/ KeyedInsert(t) \/ KeyedRemove(t) \/ KeyedRetire(t)
  \/ KeyedRelocate(t) \/ KeyedHelp(t)
Starts(t)   == KeyedInvoke(t) \/ SweepSearch(t) \/ SweepRemove(t)
ListStep(t) == ChangeList(t) \/ StartSweep(t) \/ SweepAdvance(t) \/ SweepReturn(t)

LEMMA StepCases ==
  ASSUME [KeyedNext]_keyedVars
  PROVE  \/ UNCHANGED keyedVars
         \/ \E t \in Threads : ~Crashed /\ (TableStep(t) \/ Starts(t) \/ ListStep(t))
BY DEF KeyedNext, KeyedStep, KeyedStopped, TableStep, Starts, ListStep

LEMMA TableStepIs ==
  ASSUME NEW t \in Threads, ~Crashed, TableStep(t)
  PROVE  Step(t)
BY DEF TableStep, KeyedSearch, KeyedFind, KeyedInsert, KeyedRemove, KeyedRetire, KeyedRelocate,
       KeyedHelp, Step, Remove

LEMMA ListStepIs ==
  ASSUME NEW t \in Threads, ListStep(t)
  PROVE  UNCHANGED vars
BY DEF ListStep, ChangeList, StartSweep, SweepAdvance, SweepReturn

(* A thread owes a change of a list once its insert or remove is over.     *)
LEMMA OwesStep ==
  ASSUME TypeInv, KeyedTypeOK, NEW t \in Threads, Step(t), TableStep(t)
  PROVE  /\ UNCHANGED <<vectorOfKeys, sweeps, unlisted>> /\ owed[t] = "none"
         /\ \A u \in Threads \ {t} : owed'[u] = owed[u] /\ sweep'[u] = sweep[u]
         /\ sweep'[t].phase = sweep[t].phase /\ sweep'[t].keys = sweep[t].keys
         /\ sweep' \in [Threads -> [phase : {"off", "next", "searching", "removing"},
                                    keys : Seq(Keys), node : 0 .. MaxNodes]]
         /\ owed' \in [Threads -> {"none", "push", "push to list 0", "erase"}]
         /\ owed'[t] # "none" => pc'[t] = "idle"
         /\ owed'[t] \in {"push", "push to list 0"} => pc[t] \in {"insert", "path.key"}
         /\ owed'[t] = "erase" => pc[t] = "retire"
         /\ (pc[t] = "insert" /\ pc'[t] = "idle") => owed'[t] = "push"
         /\ pc[t] = "search.key" /\ Sweeping(t) =>
              sweep'[t].node = get_pointer(ptr[t][side[t]])
         /\ pc[t] # "search.key" => sweep'[t].node = sweep[t].node
<1>1. pc[t] # "idle" BY LocalStep DEF Here
<1>2. owed[t] = "none" BY <1>1 DEF KeyedTypeOK, SweepControl
<1>3. /\ sweep \in [Threads -> [phase : {"off", "next", "searching", "removing"},
                                keys : Seq(Keys), node : 0 .. MaxNodes]]
      /\ owed \in [Threads -> {"none", "push", "push to list 0", "erase"}]
  BY DEF KeyedTypeOK
<1>4. pc \in [Threads -> Labels] BY DEF TypeInv, TypeOK
<1>5. get_pointer(ptr[t][side[t]]) \in 0 .. MaxNodes
  <2>1. side[t] \in {0, 1} BY DEF TypeInv, TypeOK
  <2>2. QED BY <2>1, HomeWordType, PartsType DEF TypeInv
<1>6. CASE KeyedSearch(t)
  <2>1. pc[t] \in SearchLabels
    BY <1>6 DEF KeyedSearch, Search, SearchRead, SearchRetry, SearchCheck, SearchKey, SearchReread,
       SearchRecount, SearchLabels
  <2>2. UNCHANGED <<vectorOfKeys, owed, sweeps, unlisted>> BY <1>6 DEF KeyedSearch
  <2>3. PICK n \in 0 .. MaxNodes : /\ sweep' = [sweep EXCEPT ![t].node = n]
                                   /\ pc[t] = "search.key" /\ Sweeping(t) =>
                                        n = get_pointer(ptr[t][side[t]])
                                   /\ pc[t] # "search.key" => n = sweep[t].node
    BY <1>3, <1>5, <1>6 DEF KeyedSearch
  <2>4. QED BY <1>2, <1>3, <2>1, <2>2, <2>3 DEF SearchLabels
<1>7. CASE KeyedFind(t) \/ KeyedRemove(t) \/ KeyedRelocate(t) \/ KeyedHelp(t)
  <2>1. UNCHANGED keyed
    BY <1>7 DEF KeyedFind, KeyedRemove, KeyedRelocate, KeyedHelp
  <2>2. Find(t) \/ (pc[t] # "retire" /\ Remove(t)) \/ Relocate(t) \/ Help(t)
    BY <1>7 DEF KeyedFind, KeyedRemove, KeyedRelocate, KeyedHelp
  <2>3. pc[t] \notin {"insert", "search.key"}
    <3>1. CASE Find(t)
      BY <3>1 DEF Find, FindRead, FindRetry, FindHelp, FindCheck, FindKey, FindReread,
         FindRecount, DelDupCheck, DelDupCheckSecond, DelDup
    <3>2. CASE Remove(t) BY <3>2 DEF Remove, RemoveAbsent, RemoveRecheck, RemoveUnlink, Retire
    <3>3. CASE Relocate(t)
      BY <3>3 DEF Relocate, PathRead, PathCheck, PathKey, MoveDone, MoveRead, MoveReread, MoveDest
    <3>4. CASE Help(t)
      BY <3>4 DEF Help, HelpRead, HelpCheck, HelpMark, HelpRemark, HelpRecheck, HelpDest,
         HelpCheckDest, HelpStable, HelpCopy, HelpClear, HelpUnmark
    <3>5. QED BY <2>2, <3>1, <3>2, <3>3, <3>4
  <2>4. QED BY <1>2, <1>3, <2>1, <2>3 DEF keyed
<1>8. CASE KeyedInsert(t)
  <2>1. pc[t] \in {"insert", "path.key"}
    BY <1>8 DEF KeyedInsert, Insert, InsertUpdate, InsertRelocate, InsertDrop, InsertPlace
  <2>a. pc[t] = "path.key" => pc'[t] = "idle"
    BY <1>4, <1>8 DEF KeyedInsert, Insert, InsertUpdate, InsertRelocate, InsertDrop, InsertPlace,
       Return, Probe, Goto
  <2>2. PICK o \in {"none", "push", "push to list 0"} :
          /\ owed' = [owed EXCEPT ![t] = o]
          /\ o # "none" => pc'[t] = "idle"
          /\ (pc[t] = "insert" /\ pc'[t] = "idle") => o = "push"
    <3>1. CASE pc'[t] # "idle"
      <4>1. owed' = [owed EXCEPT ![t] = "none"] BY <1>8, <2>a, <3>1 DEF KeyedInsert, Owe
      <4>2. QED BY <3>1, <4>1
    <3>2. CASE pc'[t] = "idle" /\ pc[t] = "path.key"
      <4>1. owed' = [owed EXCEPT ![t] = "push to list 0"] BY <1>8, <3>2 DEF KeyedInsert, Owe
      <4>2. QED BY <3>2, <4>1
    <3>3. CASE pc'[t] = "idle" /\ pc[t] = "insert"
      <4>1. owed' = [owed EXCEPT ![t] = "push"] BY <1>8, <3>3 DEF KeyedInsert, Owe
      <4>2. QED BY <3>3, <4>1
    <3>4. QED BY <2>1, <3>1, <3>2, <3>3
  <2>3. UNCHANGED <<vectorOfKeys, sweep, sweeps, unlisted>> BY <1>8 DEF KeyedInsert
  <2>4. QED BY <1>2, <1>3, <2>1, <2>2, <2>3
<1>9. CASE KeyedRetire(t)
  <2>1. pc[t] = "retire" /\ pc'[t] = "idle"
    BY <1>4, <1>9 DEF KeyedRetire, Retire, Return, Probe, Goto
  <2>2. owed' = [owed EXCEPT ![t] = "erase"] /\ UNCHANGED <<vectorOfKeys, sweep, sweeps, unlisted>>
    BY <1>9 DEF KeyedRetire, Owe
  <2>3. QED BY <1>2, <1>3, <2>1, <2>2
<1>10. QED BY <1>6, <1>7, <1>8, <1>9 DEF TableStep

(* removeIf's calls of search and remove start as any call does.           *)
LEMMA NestedBegins ==
  ASSUME TypeInv, KeyedTypeOK, NEW t \in Threads, pc[t] = "idle", sweep[t].keys # <<>>,
         \/ Nested(t, "search", "search.read")
         \/ Nested(t, "remove", "find.read")
  PROVE  /\ Begins(t) /\ TypeInv'
         /\ call'[t].key = Head(sweep[t].keys) /\ out'[t].kind = "none"
         /\ \A u \in Threads \ {t} : out'[u] = out[u]
<1> DEFINE k == Head(sweep[t].keys)
<1>0. /\ pc \in [Threads -> Labels] /\ call \in [Threads -> Call]
      /\ out \in [Threads -> [kind : OutcomeKinds, val : Vals]]
      /\ nalloc \in Nat
  BY SizeAssumption DEF TypeInv, TypeOK
<1>1. k \in Keys BY HeadTailProperties DEF KeyedTypeOK
<1> HIDE DEF k
<1>2. PICK op \in {"search", "remove"}, l \in {"search.read", "find.read"} :
        /\ l = "search.read" <=> op = "search"
        /\ call' = [call EXCEPT ![t].op = op, ![t].key = k]
        /\ out' = [out EXCEPT ![t] = Outcome("none", call[t].val)]
        /\ pc' = [pc EXCEPT ![t] = l]
  BY DEF Nested, Goto, k
<1>3. UNCHANGED <<shared, gc, left, new, probe, rel, hlp>> BY DEF Nested
<1>4. /\ call' \in [Threads -> Call] /\ call'[t].op = op /\ call'[t].key = k
      /\ \A u \in Threads \ {t} : call'[u] = call[u]
  BY <1>0, <1>1, <1>2 DEF Call
<1>5. /\ out' \in [Threads -> [kind : OutcomeKinds, val : Vals]] /\ out'[t].kind = "none"
      /\ \A u \in Threads \ {t} : out'[u] = out[u]
  BY <1>0, <1>2 DEF Outcome, OutcomeKinds, Call
<1>6. /\ pc' \in [Threads -> Labels] /\ pc'[t] = l
      /\ \A u \in Threads \ {t} : pc'[u] = pc[u]
  BY <1>0, <1>2 DEF Labels, SearchLabels, FindLabels
<1>7. Begins(t)
  BY <1>0, <1>2, <1>3, <1>4, <1>6 DEF Begins, KeysKept, shared, probe
<1>8. TypeOK'
  BY <1>3, <1>4, <1>5, <1>6 DEF TypeInv, TypeOK, shared, gc, probe
<1>9. Control'
  BY <1>3, <1>6 DEF TypeInv, Control, probe, HelpLabels
<1>10. QED BY <1>4, <1>5, <1>7, <1>8, <1>9 DEF TypeInv, k

(* What a thread that starts a call, asked or for removeIf, has before it. *)
LEMMA StartsBegin ==
  ASSUME TypeInv, KeyedTypeOK, ~Crashed, NEW t \in Threads, Starts(t)
  PROVE  /\ Begins(t) /\ TypeInv' /\ out'[t].kind = "none"
         /\ \A u \in Threads \ {t} : out'[u] = out[u] /\ sweep'[u] = sweep[u]
         /\ UNCHANGED <<vectorOfKeys, owed, sweeps, unlisted>> /\ owed[t] = "none"
         /\ sweep' \in [Threads -> [phase : {"off", "next", "searching", "removing"},
                                    keys : Seq(Keys), node : 0 .. MaxNodes]]
         /\ sweep'[t].keys = sweep[t].keys /\ sweep'[t].node = sweep[t].node
         /\ \/ KeyedInvoke(t) /\ sweep'[t].phase = "off" /\ call'[t] \in Calls[t]
            \/ /\ SweepSearch(t) /\ sweep'[t].phase = "searching" /\ call'[t].op = "search"
               /\ pc'[t] = "search.read"
               /\ Sweeping(t) /\ sweep[t].keys # <<>> /\ call'[t].key = Head(sweep[t].keys)
            \/ /\ SweepRemove(t) /\ sweep'[t].phase = "removing" /\ call'[t].op = "remove"
               /\ Found(t) /\ heap[sweep[t].node].val \in Matches
               /\ Sweeping(t) /\ sweep[t].keys # <<>> /\ call'[t].key = Head(sweep[t].keys)
               /\ call'[t].key = call[t].key
<1>0. /\ sweep \in [Threads -> [phase : {"off", "next", "searching", "removing"},
                                keys : Seq(Keys), node : 0 .. MaxNodes]]
      /\ call \in [Threads -> Call] /\ pc \in [Threads -> Labels]
      /\ SweepControl(t)
  BY DEF KeyedTypeOK, TypeInv, TypeOK
<1>1. CASE KeyedInvoke(t)
  <2>1. Invoke(t) /\ UNCHANGED keyed /\ owed[t] = "none" /\ ~Sweeping(t) BY <1>1 DEF KeyedInvoke
  <2>2. TypeInv' BY <2>1, TypeStep DEF Next
  <2>3. sweep[t].phase = "off" BY <1>0, <2>1 DEF Sweeping
  <2>4. QED BY <1>0, <1>1, <2>1, <2>2, <2>3, InvokeFrame, InvokeBegins DEF keyed
<1>2. CASE SweepSearch(t)
  <2>1. /\ sweep[t].phase = "next" /\ sweep[t].keys # <<>>
        /\ sweep' = [sweep EXCEPT ![t].phase = "searching"]
        /\ Nested(t, "search", "search.read")
    BY <1>2 DEF SweepSearch
  <2>2. pc[t] = "idle" /\ owed[t] = "none" BY <1>0, <2>1 DEF SweepControl
  <2>3. /\ Begins(t) /\ TypeInv' /\ call'[t].key = Head(sweep[t].keys) /\ out'[t].kind = "none"
        /\ \A u \in Threads \ {t} : out'[u] = out[u]
    BY <2>1, <2>2, NestedBegins
  <2>4. /\ call'[t].op = "search" /\ pc'[t] = "search.read"
        /\ UNCHANGED <<vectorOfKeys, owed, sweeps, unlisted>>
    BY <1>0, <2>1 DEF Nested, Goto, Call
  <2>5. /\ sweep' \in [Threads -> [phase : {"off", "next", "searching", "removing"},
                                   keys : Seq(Keys), node : 0 .. MaxNodes]]
        /\ sweep'[t].phase = "searching"
        /\ sweep'[t].keys = sweep[t].keys /\ sweep'[t].node = sweep[t].node
        /\ \A u \in Threads \ {t} : sweep'[u] = sweep[u]
    BY <1>0, <2>1
  <2>6. QED BY <1>2, <2>1, <2>2, <2>3, <2>4, <2>5 DEF Sweeping
<1>3. CASE SweepRemove(t)
  <2>1. /\ Found(t) /\ heap[sweep[t].node].val \in Matches
        /\ sweep' = [sweep EXCEPT ![t].phase = "removing"]
        /\ Nested(t, "remove", "find.read")
    BY <1>3 DEF SweepRemove
  <2>2. /\ sweep[t].phase = "searching" /\ pc[t] = "idle" /\ owed[t] = "none"
        /\ sweep[t].keys # <<>> /\ call[t].key = Head(sweep[t].keys)
    BY <1>0, <2>1 DEF SweepControl, Found
  <2>3. /\ Begins(t) /\ TypeInv' /\ call'[t].key = Head(sweep[t].keys) /\ out'[t].kind = "none"
        /\ \A u \in Threads \ {t} : out'[u] = out[u]
    BY <2>1, <2>2, NestedBegins
  <2>4. call'[t].op = "remove" /\ UNCHANGED <<vectorOfKeys, owed, sweeps, unlisted>>
    BY <1>0, <2>1 DEF Nested, Call
  <2>5. /\ sweep' \in [Threads -> [phase : {"off", "next", "searching", "removing"},
                                   keys : Seq(Keys), node : 0 .. MaxNodes]]
        /\ sweep'[t].phase = "removing"
        /\ sweep'[t].keys = sweep[t].keys /\ sweep'[t].node = sweep[t].node
        /\ \A u \in Threads \ {t} : sweep'[u] = sweep[u]
    BY <1>0, <2>1
  <2>6. QED BY <1>3, <2>1, <2>2, <2>3, <2>4, <2>5 DEF Sweeping
<1>4. QED BY <1>1, <1>2, <1>3 DEF Starts

-----------------------------------------------------------------------------
(* Types, and the frame of removeIf.                                       *)

(* Nobody else changes where a thread is.                                  *)
LEMMA ControlKept ==
  ASSUME NEW u \in Threads, SweepControl(u), pc'[u] = pc[u], owed'[u] = owed[u],
         sweep'[u] = sweep[u], call'[u] = call[u]
  PROVE  SweepControl(u)'
BY DEF SweepControl, Sweeping

(* A step of the table keeps the types.                                    *)
LEMMA KeyedTypeTable ==
  ASSUME TypeInv, KeyedTypeOK, NEW t \in Threads, Step(t), TableStep(t), Role(t)
  PROVE  KeyedTypeOK'
<1>1. Elsewhere(t) /\ call' = call /\ pc[t] # "idle" BY LocalStep DEF Here
<1>2. /\ SweepControl(t) /\ sweep[t].phase \in {"off", "next", "searching", "removing"}
      /\ \A u \in Threads : SweepControl(u)
      /\ vectorOfKeys \in [Threads -> Seq(Keys)]
      /\ sweeps \in [Threads -> Nat] /\ \A u \in Threads : sweeps[u] <= Sweeps[u]
      /\ unlisted \subseteq Keys
  BY DEF KeyedTypeOK
<1>3. ASSUME NEW u \in Threads, u # t PROVE SweepControl(u)'
  <2>1. pc'[u] = pc[u] /\ call'[u] = call[u] BY <1>1, <1>3 DEF Elsewhere
  <2>2. owed'[u] = owed[u] /\ sweep'[u] = sweep[u] BY <1>3, OwesStep
  <2>3. QED BY <1>2, <2>1, <2>2, ControlKept
<1>4. SweepControl(t)'
  <2>1. /\ owed'[t] \in {"none", "push", "push to list 0", "erase"}
        /\ sweep'[t].phase = sweep[t].phase /\ sweep'[t].keys = sweep[t].keys
        /\ owed'[t] # "none" => pc'[t] = "idle"
    BY OwesStep
  <2>2. owed'[t] \in {"push", "push to list 0"} => call[t].op = "insert"
    BY OwesStep DEF Role, PathLabels
  <2>3. owed'[t] = "erase" => call[t].op = "remove" BY OwesStep DEF Role
  <2>4. QED BY <1>1, <1>2, <2>1, <2>2, <2>3 DEF SweepControl, Sweeping
<1>5. QED BY <1>2, <1>3, <1>4, OwesStep DEF KeyedTypeOK

(* So does the start of a call.                                            *)
LEMMA KeyedTypeStarts ==
  ASSUME TypeInv, KeyedTypeOK, ~Crashed, NEW t \in Threads, Starts(t)
  PROVE  KeyedTypeOK'
<1>1. /\ pc[t] = "idle" /\ pc'[t] # "idle"
      /\ \A u \in Threads \ {t} : pc'[u] = pc[u] /\ call'[u] = call[u]
  BY StartsBegin DEF Begins
<1>2. /\ SweepControl(t) /\ \A u \in Threads : SweepControl(u)
      /\ vectorOfKeys \in [Threads -> Seq(Keys)]
      /\ owed \in [Threads -> {"none", "push", "push to list 0", "erase"}]
      /\ sweeps \in [Threads -> Nat] /\ \A u \in Threads : sweeps[u] <= Sweeps[u]
      /\ unlisted \subseteq Keys
  BY DEF KeyedTypeOK
<1>3. ASSUME NEW u \in Threads, u # t PROVE SweepControl(u)'
  BY <1>1, <1>2, <1>3, StartsBegin, ControlKept
<1>4. SweepControl(t)'
  <2>1. owed'[t] = "none" /\ sweep'[t].keys = sweep[t].keys BY StartsBegin
  <2>2. \/ sweep'[t].phase = "off" /\ call'[t] \in Calls[t]
        \/ /\ \/ sweep'[t].phase = "searching" /\ call'[t].op = "search"
              \/ sweep'[t].phase = "removing" /\ call'[t].op = "remove"
           /\ Sweeping(t) /\ sweep[t].keys # <<>> /\ call'[t].key = Head(sweep[t].keys)
    BY StartsBegin
  <2>3. QED BY <1>1, <1>2, <2>1, <2>2 DEF SweepControl, Sweeping
<1>5. QED BY <1>2, <1>3, <1>4, StartsBegin DEF KeyedTypeOK

(* And so do the lists and removeIf itself.                                *)
LEMMA KeyedTypeLists ==
  ASSUME TypeInv, KeyedTypeOK, NEW t \in Threads, ListStep(t)
  PROVE  KeyedTypeOK'
<1>1. UNCHANGED <<pc, call>> BY ListStepIs DEF vars, client
<1>2. /\ SweepControl(t) /\ \A u \in Threads : SweepControl(u)
      /\ vectorOfKeys \in [Threads -> Seq(Keys)]
      /\ owed \in [Threads -> {"none", "push", "push to list 0", "erase"}]
      /\ sweep \in [Threads -> [phase : {"off", "next", "searching", "removing"},
                                keys : Seq(Keys), node : 0 .. MaxNodes]]
      /\ sweeps \in [Threads -> Nat] /\ \A u \in Threads : sweeps[u] <= Sweeps[u]
      /\ unlisted \subseteq Keys
      /\ Sweeps \in [Threads -> Nat]
  BY SweepAssumption DEF KeyedTypeOK
<1>3. First \in Threads BY SweepAssumption
<1>4. NoSweep \in [phase : {"off", "next", "searching", "removing"},
                   keys : Seq(Keys), node : 0 .. MaxNodes]
  BY EmptySeq, SizeAssumption DEF NoSweep, NULL
<1>5. CASE ChangeList(t)
  <2>1. /\ owed[t] # "none" /\ owed' = [owed EXCEPT ![t] = "none"] /\ UNCHANGED <<sweep, sweeps>>
    BY <1>5 DEF ChangeList, Owe
  <2>2. ListOf(t) \in Threads /\ call[t].key \in Keys
    BY <1>3, HomeWordType DEF ListOf, TypeInv
  <2>3. vectorOfKeys' \in [Threads -> Seq(Keys)]
    <3>1. \A s \in Seq(Keys) : /\ removeKeyFromVector(s, call[t].key) \in Seq(Keys)
                               /\ Append(s, call[t].key) \in Seq(Keys)
      BY <2>2, RemoveKeeps, AppendKeeps
    <3>2. PICK p \in Threads : p = ListOf(t) BY <2>2
    <3>3. vectorOfKeys[p] \in Seq(Keys) BY <1>2
    <3>4. \/ vectorOfKeys' = vectorOfKeys
          \/ vectorOfKeys' = [vectorOfKeys EXCEPT ![p] =
                                removeKeyFromVector(vectorOfKeys[p], call[t].key)]
          \/ vectorOfKeys' = [vectorOfKeys EXCEPT ![p] = Append(vectorOfKeys[p], call[t].key)]
      BY <1>5, <3>2 DEF ChangeList
    <3>5. QED BY <1>2, <3>1, <3>3, <3>4
  <2>4. unlisted' \subseteq Keys BY <1>2, <1>5, <2>2 DEF ChangeList
  <2>5. ASSUME NEW u \in Threads PROVE SweepControl(u)'
    <3>1. CASE u # t BY <3>1, <1>1, <1>2, <2>1, ControlKept
    <3>2. CASE u = t BY <3>2, <1>1, <1>2, <2>1 DEF SweepControl, Sweeping
    <3>3. QED BY <3>1, <3>2
  <2>6. owed' \in [Threads -> {"none", "push", "push to list 0", "erase"}] BY <1>2, <2>1
  <2>7. QED BY <1>2, <2>1, <2>3, <2>4, <2>5, <2>6 DEF KeyedTypeOK
<1>6. CASE StartSweep(t) \/ SweepAdvance(t) \/ SweepReturn(t)
  <2>1. UNCHANGED <<vectorOfKeys, owed, unlisted>>
    BY <1>6 DEF StartSweep, SweepAdvance, SweepReturn
  <2>2. /\ sweep' \in [Threads -> [phase : {"off", "next", "searching", "removing"},
                                   keys : Seq(Keys), node : 0 .. MaxNodes]]
        /\ \A u \in Threads \ {t} : sweep'[u] = sweep[u]
        /\ sweep'[t].phase \in {"off", "next"}
        /\ pc[t] = "idle" /\ owed[t] = "none"
        /\ sweep'[t].phase = "next" => Sweeps[t] > 0
    <3>1. CASE StartSweep(t)
      <4>1. /\ sweep' = [sweep EXCEPT ![t] = [NoSweep EXCEPT !.phase = "next",
                                                             !.keys  = vectorOfKeys[t]]]
            /\ pc[t] = "idle" /\ owed[t] = "none" /\ sweeps[t] > 0
        BY <3>1 DEF StartSweep
      <4> DEFINE f == [NoSweep EXCEPT !.phase = "next", !.keys  = vectorOfKeys[t]]
      <4>2. /\ f \in [phase : {"off", "next", "searching", "removing"},
                     keys : Seq(Keys), node : 0 .. MaxNodes]
            /\ f.phase = "next"
        <5>1. vectorOfKeys[t] \in Seq(Keys) BY <1>2
        <5>2. QED BY <1>4, <5>1
      <4> HIDE DEF f
      <4>3. sweeps[t] \in Nat /\ Sweeps[t] \in Nat /\ sweeps[t] <= Sweeps[t] BY <1>2
      <4>4. sweep' = [sweep EXCEPT ![t] = f] BY <4>1 DEF f
      <4>5. Sweeps[t] > 0 BY <4>1, <4>3
      <4>6. /\ sweep'[t].phase = "next" /\ \A u \in Threads \ {t} : sweep'[u] = sweep[u]
            /\ sweep' \in [Threads -> [phase : {"off", "next", "searching", "removing"},
                                       keys : Seq(Keys), node : 0 .. MaxNodes]]
        BY <1>2, <4>2, <4>4
      <4>7. QED BY <4>1, <4>5, <4>6
    <3>2. CASE SweepAdvance(t)
      <4>1. /\ pc[t] = "idle" /\ owed[t] = "none" /\ sweep[t].phase \in {"searching", "removing"}
            /\ sweep' = [sweep EXCEPT ![t].phase = "next", ![t].node = NULL, ![t].keys = Tail(@)]
        BY <3>2 DEF SweepAdvance
      <4>2. sweep[t].keys # <<>> /\ Sweeps[t] > 0 BY <1>2, <4>1 DEF SweepControl, Sweeping
      <4>3. Tail(sweep[t].keys) \in Seq(Keys) BY <1>2, <4>2, HeadTailProperties
      <4>4. NULL \in 0 .. MaxNodes BY SizeAssumption DEF NULL
      <4>5. QED BY <1>2, <4>1, <4>2, <4>3, <4>4
    <3>3. CASE SweepReturn(t)
      <4>1. sweep[t].phase = "next" /\ sweep' = [sweep EXCEPT ![t] = NoSweep]
        BY <3>3 DEF SweepReturn, SweepDone
      <4>2. pc[t] = "idle" /\ owed[t] = "none" BY <1>2, <4>1 DEF SweepControl
      <4>3. NoSweep.phase = "off" BY DEF NoSweep
      <4>4. QED BY <1>2, <1>4, <4>1, <4>2, <4>3
    <3>4. QED BY <1>6, <3>1, <3>2, <3>3
  <2>3. /\ sweeps' \in [Threads -> Nat] /\ \A u \in Threads : sweeps'[u] <= Sweeps[u]
    <3>1. CASE StartSweep(t)
      <4>1. sweeps[t] > 0 /\ sweeps' = [sweeps EXCEPT ![t] = @ - 1] BY <3>1 DEF StartSweep
      <4>2. \A u \in Threads : sweeps[u] \in Nat /\ Sweeps[u] \in Nat BY <1>2
      <4>3. sweeps[t] - 1 \in Nat BY <4>1, <4>2
      <4>4. sweeps' \in [Threads -> Nat] BY <1>2, <4>1, <4>3
      <4>5. ASSUME NEW u \in Threads PROVE sweeps'[u] <= Sweeps[u]
        <5>1. sweeps[u] \in Nat /\ Sweeps[u] \in Nat /\ sweeps[u] <= Sweeps[u] BY <1>2
        <5>2. sweeps'[u] = sweeps[u] \/ sweeps'[u] = sweeps[u] - 1 BY <1>2, <4>1
        <5>3. QED BY <5>1, <5>2
      <4>6. QED BY <4>4, <4>5
    <3>2. CASE ~StartSweep(t) BY <1>2, <1>6, <3>2 DEF SweepAdvance, SweepReturn
    <3>3. QED BY <3>1, <3>2
  <2>4. ASSUME NEW u \in Threads PROVE SweepControl(u)'
    <3>1. CASE u # t BY <3>1, <1>1, <1>2, <2>1, <2>2, ControlKept
    <3>2. CASE u = t BY <3>2, <1>1, <2>1, <2>2 DEF SweepControl, Sweeping
    <3>3. QED BY <3>1, <3>2
  <2>5. QED BY <1>2, <2>1, <2>2, <2>3, <2>4 DEF KeyedTypeOK
<1>7. QED BY <1>5, <1>6 DEF ListStep

(* The lists are typed at the start.                                       *)
LEMMA KeyedTypeInit == KeyedInit => KeyedTypeOK
<1> SUFFICES ASSUME KeyedInit PROVE KeyedTypeOK OBVIOUS
<1>1. vectorOfKeys \in [Threads -> Seq(Keys)]
  <2>1. \A i \in 1 .. Len(Preload) : Preload[i].key \in Keys
    <3>1. \A i \in 1 .. Len(Preload) : Preload[i] \in [slot : Slots, key : Keys, val : Vals]
      BY PreloadAssumption, ElementOfSeq
    <3>2. QED BY <3>1
  <2>2. Len(Preload) \in Nat BY PreloadAssumption, LenProperties
  <2>3. [i \in 1 .. Len(Preload) |-> Preload[i].key] \in Seq(Keys)
    BY <2>1, <2>2, IsASeq
  <2>4. QED BY <2>3, EmptySeq DEF KeyedInit
<1>2. \A t \in Threads : owed[t] = "none" /\ sweep[t] = NoSweep /\ pc[t] = "idle"
  BY DEF KeyedInit, Init
<1>3. NoSweep \in [phase : {"off", "next", "searching", "removing"},
                   keys : Seq(Keys), node : 0 .. MaxNodes]
  BY EmptySeq, SizeAssumption DEF NoSweep, NULL
<1>4. \A t \in Threads : SweepControl(t)
  <2>1. NoSweep.phase = "off" BY DEF NoSweep
  <2>2. QED BY <1>2, <2>1 DEF SweepControl, Sweeping
<1>5. sweeps \in [Threads -> Nat] /\ \A t \in Threads : sweeps[t] <= Sweeps[t]
  BY SweepAssumption DEF KeyedInit
<1>6. QED BY <1>1, <1>3, <1>4, <1>5 DEF KeyedInit, KeyedTypeOK

(* What holds of every execution, orderly or not.                          *)
Roles     == \A t \in Threads : Role(t)
KeyedBase == TypeInv /\ HomeInv /\ Roles /\ KeyedTypeOK

LEMMA BaseInit == KeyedInit => KeyedBase
<1> SUFFICES ASSUME KeyedInit PROVE KeyedBase OBVIOUS
<1>1. Init BY DEF KeyedInit
<1>2. QED BY <1>1, TypeInit, HomeInit, RoleInit, KeyedTypeInit DEF KeyedBase, RoleInv, Roles

(* The start of a call leaves every entry at home.                         *)
LEMMA HomeBegin ==
  ASSUME TypeInv, HomeInv, NEW t \in Threads, Begins(t), call'[t].op # "insert"
  PROVE  HomeInv'
<1>1. /\ UNCHANGED <<table, hlp>> /\ KeysKept
      /\ pc[t] = "idle" /\ pc'[t] \in {"search.read", "find.read"}
      /\ \A u \in Threads \ {t} : pc'[u] = pc[u] /\ call'[u] = call[u] /\ new'[u] = new[u]
  BY DEF Begins
<1>2. /\ nalloc \in Nat /\ nalloc' \in Nat /\ nalloc <= nalloc'
      /\ \A n \in 1 .. nalloc : heap'[n].key = heap[n].key
  BY <1>1, SizeAssumption DEF TypeInv, TypeOK, KeysKept
<1>3. EntriesHome' BY <1>1, SameTableHome DEF HomeInv
<1>4. FramesHome' BY <1>1, FramesKept DEF HomeInv
<1>5. OwnNode' BY <1>1, <1>2 DEF HomeInv, OwnNode
<1>6. QED BY <1>3, <1>4, <1>5 DEF HomeInv

LEMMA BaseStep == KeyedBase /\ [KeyedNext]_keyedVars => KeyedBase'
<1> SUFFICES ASSUME KeyedBase, [KeyedNext]_keyedVars PROVE KeyedBase' OBVIOUS
<1>0. TypeInv /\ HomeInv /\ Roles /\ KeyedTypeOK BY DEF KeyedBase
<1>1. ASSUME NEW t \in Threads, ~Crashed, TableStep(t) PROVE KeyedBase'
  <2>1. Step(t) BY <1>1, TableStepIs
  <2>2. TypeInv' /\ HomeInv' BY <1>0, <2>1, TypeStep, HomeStep DEF Next
  <2>3. Roles' BY <1>0, <2>1, RoleStep DEF Roles
  <2>4. KeyedTypeOK' BY <1>0, <1>1, <2>1, KeyedTypeTable DEF Roles
  <2>5. QED BY <2>2, <2>3, <2>4 DEF KeyedBase
<1>2. ASSUME NEW t \in Threads, ~Crashed, Starts(t) PROVE KeyedBase'
  <2>1. Begins(t) /\ TypeInv' BY <1>0, <1>2, StartsBegin
  <2>2. HomeInv'
    <3>1. CASE KeyedInvoke(t) BY <1>0, <1>2, <3>1, HomeStep DEF KeyedInvoke, Next
    <3>2. CASE ~KeyedInvoke(t)
      <4>1. call'[t].op # "insert" BY <1>0, <1>2, <3>2, StartsBegin
      <4>2. QED BY <1>0, <2>1, <4>1, HomeBegin
    <3>3. QED BY <3>1, <3>2
  <2>3. Roles' BY <1>0, <2>1, RoleBegin DEF Roles
  <2>4. KeyedTypeOK' BY <1>0, <1>2, KeyedTypeStarts
  <2>5. QED BY <2>1, <2>2, <2>3, <2>4 DEF KeyedBase
<1>3. ASSUME NEW t \in Threads, ListStep(t) PROVE KeyedBase'
  <2>1. UNCHANGED vars BY <1>3, ListStepIs
  <2>2. TypeInv' /\ HomeInv' BY <1>0, <2>1, TypeStep, HomeStep
  <2>3. Roles' BY <1>0, <2>1 DEF Roles, Role, vars, client, probe
  <2>4. KeyedTypeOK' BY <1>0, <1>3, KeyedTypeLists
  <2>5. QED BY <2>2, <2>3, <2>4 DEF KeyedBase
<1>4. CASE UNCHANGED keyedVars
  <2>1. UNCHANGED vars /\ UNCHANGED keyed BY <1>4 DEF keyedVars
  <2>2. TypeInv' /\ HomeInv' BY <1>0, <2>1, TypeStep, HomeStep
  <2>3. Roles' BY <1>0, <2>1 DEF Roles, Role, vars, client, probe
  <2>4. KeyedTypeOK'
    BY <1>0, <2>1 DEF KeyedTypeOK, SweepControl, Sweeping, keyed, vars, client
  <2>5. QED BY <2>2, <2>3, <2>4 DEF KeyedBase
<1>5. QED BY <1>1, <1>2, <1>3, <1>4, StepCases

(* Lists hold keys, removeIf is never inside two calls, and it goes on only*)
(* when its search or remove has returned, lists included; entries are     *)
(* where search looks for them (lines 249-260).                            *)
THEOREM KeyedTypeCorrect == KeyedSpec => []KeyedTypeOK
<1>1. KeyedBase => KeyedTypeOK BY DEF KeyedBase
<1>2. QED BY <1>1, BaseInit, BaseStep, PTL DEF KeyedSpec

-----------------------------------------------------------------------------
(* As long as writes are orderly, what is known of the table is known here.*)

Known == OwnerInv /\ KeyInv /\ OwnValue

LEMMA KnownInit == KeyedInit => Known
<1> SUFFICES ASSUME Init PROVE Known BY DEF KeyedInit
<1>1. EffectInv BY EffectInit
<1>2. QED BY <1>1, OwnerInit, KeyInit DEF Known, EffectInv

LEMMA KnownNext ==
  KeyedBase /\ KeyedBase' /\ Known /\ Orderly /\ [KeyedNext]_keyedVars => Known'
<1> SUFFICES ASSUME KeyedBase, KeyedBase', Known, Orderly, [KeyedNext]_keyedVars PROVE Known'
  OBVIOUS
<1>0. /\ TypeInv /\ TypeInv' /\ HomeInv /\ KeyedTypeOK /\ OwnerInv /\ KeyInv /\ OwnValue
      /\ MovesAlone
  BY DEF KeyedBase, Known, Orderly
<1>1. ASSUME NEW t \in Threads, ~Crashed, TableStep(t) PROVE Known'
  <2>1. Step(t) BY <1>1, TableStepIs
  <2>2. OwnerInv' BY <1>0, <2>1, OwnerStep
  <2>3. KeyInv' BY <1>0, <2>1, KeyStep
  <2>4. OwnValue' BY <1>0, <2>1, <2>3, OwnValueStep
  <2>5. QED BY <2>2, <2>3, <2>4 DEF Known
<1>2. ASSUME NEW t \in Threads, ~Crashed, Starts(t) PROVE Known'
  <2>1. Begins(t) BY <1>0, <1>2, StartsBegin
  <2>2. QED BY <1>0, <1>2, <2>1, OwnerBegin, KeyBegin, OwnValueBegin DEF Known
<1>3. CASE UNCHANGED vars
  <2>1. OwnerInv' /\ OwnValue'
    BY <1>0, <1>3, OwnerNext DEF OwnValue, vars, shared, client
  <2>2. KeyInv' BY <1>0, <1>3, KeyNext
  <2>3. QED BY <2>1, <2>2 DEF Known
<1>4. QED BY <1>1, <1>2, <1>3, StepCases, ListStepIs DEF keyedVars

(* Neither the lists nor the start of a call change an entry.              *)
LEMMA QuietSame ==
  ASSUME KeyedBase, NEW t \in Threads, ~Crashed, Starts(t) \/ ListStep(t), NEW k \in Keys
  PROVE  SameEntry(k)
<1>1. CASE Starts(t) BY <1>1, StartsBegin, BeginSame DEF KeyedBase
<1>2. CASE ListStep(t) BY <1>2, ListStepIs, EntriesStay DEF vars, shared
<1>3. QED BY <1>1, <1>2

-----------------------------------------------------------------------------
(* Entries are listed.                                                     *)

LEMMA ListedSame ==
  ASSUME NEW u \in Threads, NEW k, ListedBy(u, k), vectorOfKeys'[u] = vectorOfKeys[u],
         owed'[u] = owed[u], owed[u] # "none" => call'[u] = call[u]
  PROVE  ListedBy(u, k)'
BY DEF ListedBy, OnList

(* The insert that stores an entry lists it; the remove that unlists one   *)
(* has unlinked it before, and nobody else has stored it again since.      *)
LEMMA ListTable ==
  ASSUME KeyedBase, KeyedBase', Known, Known', Orderly, ListInv, NEW t \in Threads, ~Crashed,
         TableStep(t)
  PROVE  ListInv'
<1>0. /\ TypeInv /\ TypeInv' /\ HomeInv /\ KeyedTypeOK /\ OwnerInv /\ KeyInv /\ KeyInv' /\ OwnValue
      /\ Orderly /\ Roles
  BY DEF KeyedBase, Known
<1>1. Step(t) BY TableStepIs
<1>2. Elsewhere(t) /\ call' = call /\ pc[t] # "idle" BY <1>0, <1>1, LocalStep DEF Here
<1>3. Stores(t) \/ Unlinks(t) \/ Keeps(t) BY <1>0, <1>1, EntryStep
<1>4. /\ UNCHANGED <<vectorOfKeys, unlisted>> /\ owed[t] = "none"
      /\ \A u \in Threads \ {t} : owed'[u] = owed[u]
      /\ owed'[t] = "erase" => pc[t] = "retire"
      /\ (pc[t] = "insert" /\ pc'[t] = "idle") => owed'[t] = "push"
  BY <1>0, <1>1, OwesStep
<1>5. ASSUME NEW k \in Keys, EntryOf(k)' # NULL
      PROVE  k \in unlisted' \/ \E u \in Threads : ListedBy(u, k)'
  <2>1. CASE Stores(t) /\ k = call[t].key
    <3>1. owed'[t] = "push" /\ call'[t].key = k BY <2>1, <1>2, <1>4 DEF Stores
    <3>2. QED BY <3>1 DEF ListedBy
  <2>2. CASE ~(Stores(t) /\ k = call[t].key)
    <3>1. EntryOf(k) # NULL BY <1>3, <1>5, <2>2 DEF Stores, Unlinks, Keeps, SameEntry
    <3>2. CASE k \in unlisted BY <3>2, <1>4
    <3>3. ASSUME NEW u \in Threads, ListedBy(u, k) PROVE ListedBy(u, k)'
      <4>1. CASE u = t
        <5>1. OnList(t, k)' BY <3>3, <4>1, <1>4 DEF ListedBy, OnList
        <5>2. ~(owed'[t] = "erase" /\ call'[t].key = k)
          BY <3>1, <1>2, <1>4 DEF ListInv
        <5>3. QED BY <4>1, <5>1, <5>2 DEF ListedBy
      <4>2. CASE u # t BY <3>3, <4>2, <1>2, <1>4, ListedSame
      <4>3. QED BY <4>1, <4>2
    <3>4. QED BY <3>1, <3>2, <3>3 DEF ListInv
  <2>3. QED BY <2>1, <2>2
<1>6. ASSUME NEW u \in Threads, pc'[u] = "retire", NEW k \in Keys, k = call[u].key
      PROVE  EntryOf(k)' = NULL
  <2>1. CASE u = t
    <3>1. Unlinks(t) BY <2>1, <1>3, <1>6 DEF Stores, Keeps
    <3>2. QED BY <2>1, <3>1, <1>6 DEF Unlinks
  <2>2. CASE u # t
    <3>1. pc[u] = "retire" BY <2>2, <1>2, <1>6 DEF Elsewhere
    <3>2. EntryOf(k) = NULL BY <3>1, <1>6 DEF ListInv
    <3>3. ~(Stores(t) /\ call[t].key = k)
      <4> SUFFICES ASSUME Stores(t), call[t].key = k PROVE FALSE OBVIOUS
      <4>1. Role(t) /\ Role(u) /\ pc[t] = "insert" BY <1>0 DEF Roles, Stores
      <4>2. Writing(t) /\ Writing(u) BY <3>1, <4>1 DEF Role, Writing
      <4>3. QED BY <2>2, <4>2, <1>0, <1>6 DEF Orderly, WritesApart
    <3>4. QED BY <3>2, <3>3, <1>3 DEF Stores, Unlinks, Keeps, SameEntry
  <2>3. QED BY <2>1, <2>2
<1>7. \A u \in Threads : call[u].key \in Keys BY <1>0, HomeWordType DEF TypeInv
<1>8. ASSUME NEW u \in Threads, pc'[u] = "retire" PROVE EntryOf(call[u].key)' = NULL
  <2>1. PICK k \in Keys : k = call[u].key /\ k = call'[u].key BY <1>2, <1>7
  <2>2. EntryOf(k)' = NULL BY <1>6, <1>8, <2>1
  <2>3. EntryOf(call[u].key)' = EntryOf(k)' BY <2>1
  <2>4. QED BY <2>2, <2>3
<1>9. QED BY <1>5, <1>8 DEF ListInv

(* The starts of calls and removeIf itself change no list.                 *)
LEMMA ListQuiet ==
  ASSUME KeyedBase, ListInv, NEW t \in Threads, ~Crashed, pc[t] = "idle", pc'[t] # "retire",
         \A u \in Threads \ {t} : pc'[u] = pc[u] /\ call'[u] = call[u],
         owed[t] # "none" => call'[t] = call[t],
         UNCHANGED <<vectorOfKeys, owed, unlisted>>, \A k \in Keys : SameEntry(k)
  PROVE  ListInv'
<1>1. ASSUME NEW k \in Keys, EntryOf(k)' # NULL
      PROVE  k \in unlisted' \/ \E u \in Threads : ListedBy(u, k)'
  <2>1. EntryOf(k) # NULL BY <1>1 DEF SameEntry
  <2>2. CASE k \in unlisted BY <2>2
  <2>3. ASSUME NEW u \in Threads, ListedBy(u, k) PROVE ListedBy(u, k)'
    BY <2>3, ListedSame
  <2>4. QED BY <2>1, <2>2, <2>3 DEF ListInv
<1>2. ASSUME NEW u \in Threads, pc'[u] = "retire" PROVE EntryOf(call[u].key)' = NULL
  <2>0. u # t BY <1>2
  <2>1. call[u].key \in Keys BY HomeWordType DEF KeyedBase, TypeInv
  <2>2. PICK k \in Keys : k = call[u].key /\ k = call'[u].key BY <2>0, <2>1
  <2>3. EntryOf(k) = NULL BY <1>2, <2>0, <2>2 DEF ListInv
  <2>4. EntryOf(k)' = NULL BY <2>3 DEF SameEntry
  <2>5. EntryOf(call[u].key)' = EntryOf(k)' BY <2>2
  <2>6. QED BY <2>4, <2>5
<1>3. QED BY <1>1, <1>2 DEF ListInv

(* A change of a list unlists only a key that is to be unlisted, or loses a*)
(* push.                                                                   *)
LEMMA ListChange ==
  ASSUME KeyedBase, ListInv, NEW t \in Threads, ChangeList(t)
  PROVE  ListInv'
<1>0. /\ vectorOfKeys \in [Threads -> Seq(Keys)]
      /\ owed \in [Threads -> {"none", "push", "push to list 0", "erase"}]
      /\ call[t].key \in Keys /\ First \in Threads
  BY HomeWordType, SweepAssumption DEF KeyedBase, KeyedTypeOK, TypeInv
<1>1. UNCHANGED vars /\ owed[t] # "none" /\ owed' = [owed EXCEPT ![t] = "none"]
  BY DEF ChangeList, Owe
<1>2. UNCHANGED <<table, heap, pc, call>> BY <1>1 DEF vars, shared, client
<1>3. PICK p \in Threads : p = ListOf(t) BY <1>0 DEF ListOf
<1>4. \/ /\ vectorOfKeys' = [vectorOfKeys EXCEPT ![p] =
              IF owed[t] = "erase" THEN removeKeyFromVector(vectorOfKeys[p], call[t].key)
                                   ELSE Append(vectorOfKeys[p], call[t].key)]
         /\ unlisted' = unlisted
      \/ /\ vectorOfKeys' = vectorOfKeys
         /\ unlisted' = unlisted \cup (IF owed[t] = "erase" THEN {} ELSE {call[t].key})
  BY <1>3 DEF ChangeList
<1>5. /\ \A s \in Seq(Keys) : \A k \in Keys :
           (k # call[t].key /\ \E i \in DOMAIN s : s[i] = k) =>
              \E i \in DOMAIN removeKeyFromVector(s, call[t].key) :
                removeKeyFromVector(s, call[t].key)[i] = k
      /\ \A s \in Seq(Keys) :
           /\ \E i \in DOMAIN Append(s, call[t].key) : Append(s, call[t].key)[i] = call[t].key
           /\ \A k : (\E i \in DOMAIN s : s[i] = k) =>
                \E i \in DOMAIN Append(s, call[t].key) : Append(s, call[t].key)[i] = k
  <2>1. PICK c \in Keys : c = call[t].key BY <1>0
  <2>2. \A s \in Seq(Keys) : \A k \in Keys :
           (k # c /\ \E i \in DOMAIN s : s[i] = k) =>
              \E i \in DOMAIN removeKeyFromVector(s, c) : removeKeyFromVector(s, c)[i] = k
    BY RemoveKeeps
  <2>3. \A s \in Seq(Keys) :
           /\ \E i \in DOMAIN Append(s, c) : Append(s, c)[i] = c
           /\ \A k : (\E i \in DOMAIN s : s[i] = k) =>
                \E i \in DOMAIN Append(s, c) : Append(s, c)[i] = k
    BY AppendKeeps
  <2>4. QED BY <2>1, <2>2, <2>3
<1>6. ASSUME NEW u \in Threads, NEW k \in Keys, OnList(u, k),
             ~(owed[t] = "erase" /\ call[t].key = k /\ u = t)
      PROVE  OnList(u, k)'
  <2>1. vectorOfKeys[u] \in Seq(Keys) BY <1>0
  <2>2. \E i \in DOMAIN vectorOfKeys[u] : vectorOfKeys[u][i] = k BY <1>6 DEF OnList
  <2>3. CASE u # p \/ vectorOfKeys' = vectorOfKeys
    <3>1. vectorOfKeys'[u] = vectorOfKeys[u] BY <2>3, <1>0, <1>4
    <3>2. QED BY <2>2, <3>1 DEF OnList
  <2>4. CASE u = p /\ vectorOfKeys' # vectorOfKeys /\ owed[t] = "erase"
    <3>1. k # call[t].key BY <2>4, <1>3, <1>6 DEF ListOf
    <3>2. vectorOfKeys'[u] = removeKeyFromVector(vectorOfKeys[u], call[t].key)
      BY <2>4, <1>0, <1>4
    <3>3. QED BY <2>1, <2>2, <3>1, <3>2, <1>5 DEF OnList
  <2>5. CASE u = p /\ vectorOfKeys' # vectorOfKeys /\ owed[t] # "erase"
    <3>1. vectorOfKeys'[u] = Append(vectorOfKeys[u], call[t].key) BY <2>5, <1>0, <1>4
    <3>2. QED BY <2>1, <2>2, <3>1, <1>5 DEF OnList
  <2>6. QED BY <2>3, <2>4, <2>5
<1>7. \A k : EntryOf(k)' = EntryOf(k) BY <1>2 DEF EntryOf, Holds
<1>8. ASSUME NEW k \in Keys, EntryOf(k)' # NULL
      PROVE  k \in unlisted' \/ \E u \in Threads : ListedBy(u, k)'
  <2>1. EntryOf(k) # NULL BY <1>7, <1>8
  <2>2. CASE k \in unlisted BY <2>2, <1>4
  <2>3. ASSUME NEW u \in Threads, ListedBy(u, k)
        PROVE  k \in unlisted' \/ \E v \in Threads : ListedBy(v, k)'
    <3>1. CASE u = t /\ owed[t] = "push" /\ call[t].key = k
      <4>1. p = t BY <3>1, <1>3 DEF ListOf
      <4>2. CASE k \in unlisted' BY <4>2
      <4>3. CASE k \notin unlisted'
        <5>1. vectorOfKeys'[t] = Append(vectorOfKeys[t], k) BY <3>1, <4>1, <4>3, <1>0, <1>4
        <5>2. vectorOfKeys[t] \in Seq(Keys) BY <1>0
        <5>3. OnList(t, k)' BY <3>1, <5>1, <5>2, <1>5 DEF OnList
        <5>4. owed'[t] = "none" BY <1>0, <1>1
        <5>5. QED BY <5>3, <5>4 DEF ListedBy
      <4>4. QED BY <4>2, <4>3
    <3>2. CASE u = t /\ ~(owed[t] = "push" /\ call[t].key = k)
      <4>1. OnList(t, k) /\ ~(owed[t] = "erase" /\ call[t].key = k)
        BY <2>3, <3>2 DEF ListedBy
      <4>2. OnList(t, k)' BY <4>1, <1>6
      <4>3. owed'[t] = "none" BY <1>0, <1>1
      <4>4. QED BY <4>2, <4>3 DEF ListedBy
    <3>3. CASE u # t
      <4>1. owed'[u] = owed[u] /\ call'[u] = call[u] BY <3>3, <1>0, <1>1, <1>2
      <4>2. OnList(u, k) => OnList(u, k)' BY <3>3, <1>6
      <4>3. ListedBy(u, k)' BY <2>3, <4>1, <4>2 DEF ListedBy
      <4>4. QED BY <4>3
    <3>4. QED BY <3>1, <3>2, <3>3
  <2>4. QED BY <2>1, <2>2, <2>3 DEF ListInv
<1>9. ASSUME NEW u \in Threads, pc'[u] = "retire" PROVE EntryOf(call[u].key)' = NULL
  BY <1>2, <1>9 DEF ListInv, EntryOf, Holds
<1>10. QED BY <1>8, <1>9 DEF ListInv

(* The preloaded entries are on the list of tid 0.                         *)
LEMMA ListInit == KeyedInit => ListInv
<1> SUFFICES ASSUME KeyedInit PROVE ListInv OBVIOUS
<1>0. Init /\ First \in Threads /\ Len(Preload) \in Nat
  BY SweepAssumption, PreloadAssumption, LenProperties DEF KeyedInit
<1>1. ASSUME NEW k \in Keys, EntryOf(k) # NULL PROVE ListedBy(First, k)
  <2>1. PICK w \in {0, 1} : Holds(Home(w, k), k) BY <1>1 DEF EntryOf
  <2>2. PICK n : n = table[Home(w, k)].node OBVIOUS
  <2>3. n # NULL /\ heap[n].key = k BY <2>1, <2>2 DEF Holds
  <2>4. n \in 1 .. Len(Preload) /\ Preload[n].key = k
    <3>1. PICK s \in Slots : s = Home(w, k) BY HomeType
    <3>2. table[s].node = n BY <2>2, <3>1
    <3>3. /\ n \in 1 .. Len(Preload)
          /\ heap[n] = [key |-> Preload[n].key, val |-> Preload[n].val]
      BY <1>0, <2>3, <3>2, PreloadNode
    <3>4. QED BY <2>3, <3>3
  <2>5. vectorOfKeys[First] = [i \in 1 .. Len(Preload) |-> Preload[i].key] /\ owed[First] = "none"
    BY <1>0 DEF KeyedInit
  <2>6. OnList(First, k) BY <2>4, <2>5 DEF OnList
  <2>7. QED BY <2>5, <2>6 DEF ListedBy
<1>2. \A t \in Threads : pc[t] = "idle" BY <1>0 DEF Init
<1>3. QED BY <1>0, <1>1, <1>2 DEF ListInv

LEMMA ListNext ==
  /\ KeyedBase /\ KeyedBase' /\ Known /\ Known' /\ Orderly /\ ListInv /\ [KeyedNext]_keyedVars
  => ListInv'
<1> SUFFICES ASSUME KeyedBase, KeyedBase', Known, Known', Orderly, ListInv,
                    [KeyedNext]_keyedVars
             PROVE  ListInv'
  OBVIOUS
<1>0. TypeInv /\ KeyedTypeOK BY DEF KeyedBase
<1>1. ASSUME NEW t \in Threads, ~Crashed, TableStep(t) PROVE ListInv' BY <1>1, ListTable
<1>2. ASSUME NEW t \in Threads, ~Crashed, Starts(t) PROVE ListInv'
  <2>1. Begins(t) /\ UNCHANGED <<vectorOfKeys, owed, unlisted>> /\ owed[t] = "none"
    BY <1>0, <1>2, StartsBegin
  <2>2. /\ pc[t] = "idle" /\ pc'[t] # "retire"
        /\ \A u \in Threads \ {t} : pc'[u] = pc[u] /\ call'[u] = call[u]
    BY <2>1 DEF Begins
  <2>3. \A k \in Keys : SameEntry(k) BY <1>2, QuietSame
  <2>4. QED BY <1>2, <2>1, <2>2, <2>3, ListQuiet
<1>3. ASSUME NEW t \in Threads, ~Crashed, ListStep(t), ~ChangeList(t) PROVE ListInv'
  <2>1. UNCHANGED vars BY <1>3, ListStepIs
  <2>2. UNCHANGED <<vectorOfKeys, owed, unlisted>>
    BY <1>3 DEF ListStep, StartSweep, SweepAdvance, SweepReturn
  <2>3. UNCHANGED <<table, heap, pc, call>> BY <2>1 DEF vars, shared, client
  <2>4. QED BY <2>2, <2>3 DEF ListInv, ListedBy, OnList, EntryOf, Holds
<1>4. ASSUME NEW t \in Threads, ChangeList(t) PROVE ListInv' BY <1>4, ListChange
<1>5. CASE UNCHANGED keyedVars
  BY <1>5 DEF ListInv, ListedBy, OnList, EntryOf, Holds, keyedVars, keyed, vars, shared, client
<1>6. QED BY <1>1, <1>2, <1>3, <1>4, <1>5, StepCases

LEMMA ListedEntries == ListInv => EntriesListed
<1> SUFFICES ASSUME ListInv, NEW k \in Keys, Present(k) PROVE Listed(k) \/ k \in unlisted
  BY DEF EntriesListed
<1>1. EntryOf(k) # NULL BY DEF Present, EntryOf, Holds
<1>2. QED BY <1>1 DEF ListInv, ListedBy, OnList, Listed

LEMMA KeyedKnown == KeyedSpec /\ []Orderly => [](KeyedBase /\ Known /\ ListInv)
BY BaseInit, BaseStep, KnownInit, KnownNext, ListInit, ListNext, PTL DEF KeyedSpec

(* An entry that search can find is on some list, or will be when the call *)
(* that stored it goes on, or its push was lost: sweeps of all tids come   *)
(* to every entry, as long as no two calls that write one key overlap and  *)
(* nobody writes while an entry moves (lines 175-208, 232-242).            *)
THEOREM EntriesAreListed == KeyedSpec /\ []Orderly => []EntriesListed
BY KeyedKnown, ListedEntries, PTL

-----------------------------------------------------------------------------
(* A sweep and the other threads.                                          *)

(* A writer that is not removeIf makes a call of its workload.             *)
LEMMA AsksFor ==
  ASSUME KeyedBase, NEW u \in Threads, pc[u] # "idle",
         call[u].op = "insert" \/ (call[u].op = "remove" /\ ~Sweeping(u)), NEW k, k = call[u].key
  PROVE  u \in Writers(k)
<1>1. SweepControl(u) /\ sweep[u].phase \in {"off", "next", "searching", "removing"}
  BY DEF KeyedBase, KeyedTypeOK
<1>2. ~Sweeping(u) BY <1>1 DEF SweepControl, Sweeping
<1>3. call[u] \in Calls[u] BY <1>1, <1>2 DEF SweepControl
<1>4. QED BY <1>3 DEF Writers

(* If t alone may write a key, others do not store it, and if t alone      *)
(* sweeps, they do not remove it.                                          *)
LEMMA OthersEntry ==
  ASSUME KeyedBase, KeyedBase', Known, Known', Orderly, NEW t \in Threads, NEW k \in Keys,
         Writers(k) \subseteq {t}, NEW u \in Threads \ {t}, ~Crashed,
         TableStep(u) \/ Starts(u) \/ ListStep(u)
  PROVE  /\ EntryOf(k)' # NULL => SameEntry(k)
         /\ (OneSweeper /\ Sweeping(t)) => SameEntry(k)
<1>1. CASE Starts(u) \/ ListStep(u) BY <1>1, QuietSame
<1>2. CASE TableStep(u)
  <2>0. Role(u) /\ u \notin Writers(k) BY DEF KeyedBase, Roles
  <2>1. Step(u) BY <1>2, TableStepIs
  <2>2. Stores(u) \/ Unlinks(u) \/ Keeps(u) BY <2>1, EntryStep DEF KeyedBase, Known
  <2>3. CASE Stores(u)
    <3>1. pc[u] = "insert" /\ call[u].op = "insert" BY <2>0, <2>3 DEF Stores, Role
    <3>2. call[u].key # k BY <2>0, <3>1, AsksFor
    <3>3. QED BY <2>3, <3>2 DEF Stores
  <2>4. CASE Unlinks(u)
    <3>1. pc[u] \in {"remove", "remove.second"} BY <2>4 DEF Unlinks
    <3>2. call[u].op = "remove" /\ pc[u] # "idle" BY <2>0, <3>1 DEF Role
    <3>3. ASSUME call[u].key = k, OneSweeper, Sweeping(t) PROVE FALSE
      <4>1. Sweeping(u) BY <2>0, <3>2, <3>3, AsksFor
      <4>2. Sweeps[u] > 0 /\ Sweeps[t] > 0
        BY <3>3, <4>1 DEF KeyedBase, KeyedTypeOK, SweepControl
      <4>3. QED BY <3>3, <4>2 DEF OneSweeper
    <3>4. QED BY <2>4, <3>3 DEF Unlinks
  <2>5. QED BY <2>2, <2>3, <2>4 DEF Keeps
<1>3. QED BY <1>1, <1>2

(* What a thread has read, found and removed, others leave alone.          *)
LEMMA OthersFrame ==
  ASSUME KeyedBase, KeyedBase', Known, Known', Orderly, NEW t \in Threads,
         NEW u \in Threads \ {t}, ~Crashed, TableStep(u) \/ Starts(u) \/ ListStep(u)
  PROVE  /\ pc'[t] = pc[t] /\ call'[t] = call[t] /\ ptr'[t] = ptr[t] /\ side'[t] = side[t]
         /\ result'[t] = result[t] /\ out'[t] = out[t] /\ sweep'[t] = sweep[t]
         /\ KeysKept
         /\ pc[t] = "retire" => heap'[RemovedNode(t)] = heap[RemovedNode(t)]
<1>0. TypeInv /\ KeyedTypeOK /\ Role(u) /\ nalloc \in 0 .. MaxNodes
  BY DEF KeyedBase, Roles, TypeInv, TypeOK
<1>a. nalloc \in Nat /\ nalloc <= MaxNodes BY <1>0, SizeAssumption
<1>1. pc[t] = "retire" => /\ RemovedNode(t) \in 1 .. nalloc
                          /\ \A s \in Slots : table[s].node # RemovedNode(t)
  BY DEF Known, KeyInv, RemovesOwnKey, OwnerInv, HandsApart, InHand
<1>2. CASE TableStep(u)
  <2>1. Step(u) BY <1>2, TableStepIs
  <2>2. Elsewhere(u) /\ Here(u) /\ KeysKept BY <1>0, <2>1, LocalStep
  <2>3. out'[t] = out[t] BY <1>0, <2>1, AnswerStep
  <2>4. \A v \in Threads \ {u} : sweep'[v] = sweep[v] BY <1>0, <1>2, <2>1, OwesStep
  <2>5. ASSUME pc[t] = "retire" PROVE heap'[RemovedNode(t)] = heap[RemovedNode(t)]
    <3>1. RemovedNode(t) \in Nodes BY <1>a, <1>1, <2>5, SizeAssumption DEF Nodes
    <3>2. \/ heap' = heap
          \/ \E s \in Slots : \A m \in Nodes : m # table[s].node => heap'[m] = heap[m]
      BY <2>1, EntryStep DEF KeyedBase, Known
    <3>3. QED BY <1>1, <2>5, <3>1, <3>2
  <2>6. QED BY <2>2, <2>3, <2>4, <2>5 DEF Elsewhere, Here
<1>3. CASE Starts(u)
  <2>1. Begins(u) /\ out'[t] = out[t] /\ sweep'[t] = sweep[t] BY <1>0, <1>3, StartsBegin
  <2>2. /\ UNCHANGED <<side, ptr, result>> /\ KeysKept /\ pc'[t] = pc[t] /\ call'[t] = call[t]
        /\ \A n \in 1 .. nalloc : heap'[n] = heap[n]
    BY <2>1 DEF Begins
  <2>3. QED BY <1>1, <2>1, <2>2
<1>4. CASE ListStep(u)
  <2>1. UNCHANGED vars BY <1>4, ListStepIs
  <2>2. sweep'[t] = sweep[t]
    BY <1>0, <1>4 DEF ListStep, ChangeList, StartSweep, SweepAdvance, SweepReturn, KeyedTypeOK
  <2>3. UNCHANGED <<heap, nalloc, pc, call, ptr, side, result, out>>
    BY <2>1 DEF vars, shared, client, probe
  <2>4. KeysKept BY <1>a, <2>3 DEF KeysKept
  <2>5. QED BY <2>2, <2>3, <2>4
<1>5. QED BY <1>2, <1>3, <1>4

(* The frame of a thread between its own steps.                            *)
Rests(t) ==
  /\ pc'[t] = pc[t] /\ call'[t] = call[t] /\ ptr'[t] = ptr[t] /\ side'[t] = side[t]
  /\ result'[t] = result[t] /\ out'[t] = out[t] /\ sweep'[t] = sweep[t]
  /\ KeysKept
  /\ pc[t] = "retire" => heap'[RemovedNode(t)] = heap[RemovedNode(t)]

LEMMA RestsReads ==
  ASSUME KeyedBase, Known, NEW t \in Threads, Rests(t)
  PROVE  /\ Reads(t)' <=> Reads(t)
         /\ get_pointer(ptr[t][side[t]])' = get_pointer(ptr[t][side[t]])
         /\ Found(t)' <=> Found(t)
         /\ RemovedNode(t)' = RemovedNode(t)
<1>1. nalloc \in Nat /\ side[t] \in {0, 1}
  BY SizeAssumption DEF KeyedBase, TypeInv, TypeOK
<1>2. ptr[t][side[t]].node \in 0 .. nalloc BY <1>1 DEF Known, OwnerInv, NodesKnown
<1>3. Matched(t, side[t])' <=> Matched(t, side[t])
  BY <1>1, <1>2 DEF Rests, KeysKept, Matched, get_pointer, NULL
<1>4. QED BY <1>3 DEF Rests, Reads, Found, RemovedNode, get_pointer

LEMMA SweepRests ==
  ASSUME KeyedBase, Known, NEW t \in Threads, NEW k \in Keys, Rests(t),
         EntryOf(k)' # NULL => SameEntry(k), SweepKnows(t, k)
  PROVE  SweepKnows(t, k)'
<1>1. /\ Reads(t)' <=> Reads(t)
      /\ get_pointer(ptr[t][side[t]])' = get_pointer(ptr[t][side[t]])
      /\ Found(t)' <=> Found(t) /\ RemovedNode(t)' = RemovedNode(t)
  BY RestsReads
<1>2. pc'[t] = pc[t] /\ sweep'[t] = sweep[t] BY DEF Rests
<1>3. EntryOf(k)' # NULL => /\ EntryOf(k)' = EntryOf(k)
                            /\ heap'[EntryOf(k)].val = heap[EntryOf(k)].val
  BY DEF SameEntry
<1>4. pc[t] = "retire" => heap'[RemovedNode(t)] = heap[RemovedNode(t)] BY DEF Rests
<1>5. Reads(t)' => EntryOf(k)' \in {NULL, get_pointer(ptr[t][side[t]])'}
  BY <1>1, <1>3 DEF SweepKnows
<1>6. Found(t)' => EntryOf(k)' \in {NULL, sweep'[t].node}
  BY <1>1, <1>2, <1>3 DEF SweepKnows
<1>7. (sweep'[t].phase = "removing" /\ pc'[t] \notin {"idle", "retire"} /\ EntryOf(k)' # NULL) =>
        heap'[EntryOf(k)'].val \in Matches
  BY <1>2, <1>3 DEF SweepKnows
<1>8. ASSUME sweep'[t].phase = "removing", pc'[t] = "retire"
      PROVE  heap'[RemovedNode(t)'].val \in Matches
  <2>1. PICK n : n = RemovedNode(t) OBVIOUS
  <2>2. heap'[n] = heap[n] BY <1>2, <1>4, <1>8, <2>1
  <2>0. sweep[t].phase = "removing" /\ pc[t] = "retire" BY <1>2, <1>8
  <2>5. heap[RemovedNode(t)].val \in Matches BY <2>0 DEF SweepKnows
  <2>3. heap[n].val \in Matches BY <2>1, <2>5
  <2>4. RemovedNode(t)' = n
    <3>1. RemovedNode(t)' = RemovedNode(t) BY RestsReads
    <3>2. QED BY <2>1, <3>1
  <2>6. QED BY <2>2, <2>3, <2>4
<1>9. QED BY <1>5, <1>6, <1>7, <1>8 DEF SweepKnows

(* Outside its calls a sweep claims nothing.                               *)
LEMMA SweepIdle ==
  ASSUME NEW t \in Threads, NEW k, sweep'[t].phase \in {"off", "next"}
  PROVE  SweepKnows(t, k)' /\ ~Reads(t)' /\ ~Found(t)'
BY DEF SweepKnows, Reads, Found

(* What a search of removeIf reads and matches is the entry.               *)
LEMMA SearchKnows ==
  ASSUME KeyedBase, Known, NEW t \in Threads, NEW k \in Keys, call[t].key = k, Search(t),
         TableStep(t), ~Crashed, sweep[t].phase = "searching", SweepKnows(t, k)
  PROVE  /\ SweepKnows(t, k)'
         /\ (Reads(t)' \/ Found(t)') => EntryOf(k)' # NULL \/ Reads(t)
<1>0. /\ TypeInv /\ KeyedTypeOK /\ OneEntryPerKey /\ side[t] \in {0, 1}
      /\ pc \in [Threads -> Labels] /\ side \in [Threads -> {0, 1}]
      /\ ptr \in [Threads -> [{0, 1} -> TableWord]]
      /\ out \in [Threads -> [kind : OutcomeKinds, val : Vals]]
  BY DEF KeyedBase, Known, KeyInv, TypeInv, TypeOK
<1>1. /\ sweep'[t].phase = "searching"
      /\ pc[t] = "search.key" => sweep'[t].node = get_pointer(ptr[t][side[t]])
  BY <1>0, TableStepIs, OwesStep DEF Sweeping
<1>2. UNCHANGED <<table, heap, call>>
  BY DEF Search, SearchRead, SearchRetry, SearchCheck, SearchKey, SearchReread, SearchRecount,
         shared, client, Return
<1>3. EntryOf(k)' = EntryOf(k) BY <1>2 DEF EntryOf, Holds
<1>4. SUFFICES /\ Reads(t)' => EntryOf(k) = get_pointer(ptr'[t][side'[t]])
                                  \/ (Reads(t) /\ ptr'[t][side'[t]] = ptr[t][side[t]])
               /\ Found(t)' => Reads(t) /\ pc[t] = "search.key"
               /\ Reads(t)' => get_pointer(ptr'[t][side'[t]]) # NULL
  <2>1. Reads(t)' => EntryOf(k) \in {NULL, get_pointer(ptr'[t][side'[t]])}
    BY <1>4 DEF SweepKnows
  <2>2. Found(t)' => EntryOf(k) \in {NULL, sweep'[t].node} BY <1>1, <1>4 DEF SweepKnows
  <2>3. SweepKnows(t, k)' BY <1>1, <1>3, <2>1, <2>2 DEF SweepKnows
  <2>4. QED BY <1>3, <1>4, <2>3
<1>5. ASSUME NEW w \in {0, 1}, SearchRead(t, w)
      PROVE  /\ ~Found(t)'
             /\ Reads(t)' => EntryOf(k) = get_pointer(ptr'[t][side'[t]])
                              /\ get_pointer(ptr'[t][side'[t]]) # NULL
  <2>1. pc'[t] = "search.check" /\ side'[t] = w /\ ptr'[t][w] = table[Home(w, k)]
    BY <1>0, <1>5 DEF SearchRead, Goto, MyHome
  <2>2. PICK n : n = table[Home(w, k)].node OBVIOUS
  <2>3. get_pointer(ptr'[t][side'[t]]) = n BY <2>1, <2>2 DEF get_pointer
  <2>4. Reads(t)' => n # NULL /\ heap[n].key = k
    BY <1>2, <2>3 DEF Reads, Matched
  <2>5. Reads(t)' => Stands(k, n) BY <2>2, <2>4 DEF Stands
  <2>6. Reads(t)' => EntryOf(k) = n BY <1>0, <2>5, EntryIs
  <2>7. QED BY <2>1, <2>3, <2>4, <2>6 DEF Found
<1>6. CASE SearchRetry(t) \/ SearchReread(t)
  <2>1. pc'[t] \in {"search.read", "search.recount"}
    BY <1>0, <1>6 DEF SearchRetry, SearchReread, Probe, Goto
  <2>2. QED BY <2>1 DEF Reads, Found
<1>7. CASE SearchCheck(t)
  <2>1. /\ pc[t] = "search.check" /\ pc'[t] \in {"search.next", "search.key"}
        /\ UNCHANGED <<ptr, side>>
    BY <1>0, <1>7 DEF SearchCheck, Goto, probe
  <2>2. Reads(t)' => Reads(t) /\ get_pointer(ptr[t][side[t]]) # NULL
    BY <1>1, <1>2, <2>1 DEF Reads, Matched
  <2>3. QED BY <2>1, <2>2 DEF Found
<1>8. CASE SearchKey(t)
  <2>1. pc[t] = "search.key" /\ pc'[t] \in {"idle", "search.next"}
    BY <1>0, <1>8 DEF SearchKey, Return, Probe, Goto
  <2>2. get_pointer(ptr[t][side[t]]) # NULL BY <1>0, <2>1 DEF TypeInv, Control
  <2>3. pc'[t] = "idle" => heap[get_pointer(ptr[t][side[t]])].key = call[t].key
    BY <1>0, <1>8 DEF SearchKey, Goto
  <2>4. pc'[t] = "idle" => Reads(t) BY <2>1, <2>2, <2>3 DEF Reads, Matched
  <2>5. QED BY <2>1, <2>4 DEF Reads, Found
<1>9. CASE SearchRecount(t)
  <2>1. pc'[t] = "search.read" \/ (pc'[t] = "idle" /\ out'[t].kind = "missing")
    BY <1>0, <1>9 DEF SearchRecount, Return, Probe, Goto, Outcome
  <2>2. QED BY <2>1 DEF Reads, Found
<1>10. QED BY <1>5, <1>6, <1>7, <1>8, <1>9 DEF Search

(* What remove unlinks is the entry.                                       *)
LEMMA UnlinksEntry ==
  ASSUME KeyedBase, Known, NEW t \in Threads, NEW k \in Keys, call[t].key = k, Step(t),
         Unlinks(t)
  PROVE  /\ RemovedNode(t)' = EntryOf(k) /\ EntryOf(k) # NULL
         /\ heap' = heap /\ pc'[t] = "retire"
<1>0. TypeInv /\ KeyInv /\ Role(t) BY DEF KeyedBase, Known, Roles
<1>1. pc[t] \in {"remove", "remove.second"} /\ pc'[t] = "retire" BY DEF Unlinks
<1>2. Writing(t) /\ pc[t] \notin HelpLabels
  BY <1>0, <1>1, WriterLabels DEF HelpLabels, SearchLabels
<1>3. Find(t) \/ Insert(t) \/ Remove(t) \/ Relocate(t) BY <1>0, <1>2, StepsWrite DEF Step
<1>4. Takes(t) BY <1>0, <1>1, <1>3, WriteStep DEF Places
<1>5. PICK w \in {0, 1} : /\ There(t, w) /\ (w = 1 => ~There(t, 0))
                          /\ RemovedNode(t)' = table[MyHome(t, w)].node
  BY <1>0, <1>2, <1>4, TakesOwn
<1>6. EntryOf(k) = table[Home(w, k)].node /\ EntryOf(k) # NULL
  BY <1>5 DEF There, Holds, EntryOf, MyHome
<1>7. QED BY <1>1, <1>4, <1>5, <1>6 DEF Takes, MyHome

(* The sweeper's own step of the table.                                    *)
LEMMA SweepTable ==
  ASSUME KeyedBase, KeyedBase', Known, Known', Orderly, ListInv, NEW t \in Threads, ~Crashed,
         TableStep(t), NEW k \in Keys, call[t].key = k, SweepKnows(t, k)
  PROVE  /\ SweepKnows(t, k)'
         /\ (Reads(t)' \/ Found(t)') => EntryOf(k)' # NULL \/ Reads(t)
<1>0. /\ TypeInv /\ TypeInv' /\ HomeInv /\ KeyedTypeOK /\ OwnerInv /\ KeyInv /\ KeyInv'
      /\ OwnValue /\ Orderly /\ Role(t) /\ SweepControl(t)
  BY DEF KeyedBase, Known, Roles, KeyedTypeOK
<1>1. Step(t) BY TableStepIs
<1>2. call' = call /\ pc[t] # "idle" BY <1>0, <1>1, LocalStep DEF Here
<1>3. sweep'[t].phase = sweep[t].phase BY <1>0, <1>1, OwesStep
<1>4. sweep[t].phase \in {"off", "next", "searching", "removing"} BY <1>0 DEF KeyedTypeOK
<1>5. CASE sweep[t].phase \in {"off", "next"} BY <1>3, <1>5, SweepIdle
<1>6. CASE sweep[t].phase = "searching"
  <2>1. call[t].op = "search" BY <1>0, <1>6 DEF SweepControl
  <2>2. ~Writing(t) BY <2>1 DEF Writing
  <2>3. Search(t) BY <1>0, <1>1, <2>2, StepsWrite DEF Step
  <2>4. QED BY <1>6, <2>3, SearchKnows
<1>7. CASE sweep[t].phase = "removing"
  <2>1. ~Reads(t)' /\ ~Found(t)' BY <1>3, <1>7 DEF Reads, Found
  <2>2. call[t].op = "remove" BY <1>0, <1>7 DEF SweepControl
  <2>3. ~Stores(t) BY <1>0, <2>2 DEF Stores, Role
  <2>4. Unlinks(t) \/ Keeps(t) BY <1>0, <1>1, <2>3, EntryStep
  <2>5. CASE Unlinks(t)
    <3>1. PICK n : n = EntryOf(k) OBVIOUS
    <3>2. RemovedNode(t)' = n /\ n # NULL /\ heap' = heap /\ pc'[t] = "retire"
      BY <1>1, <2>5, <3>1, UnlinksEntry
    <3>3. pc[t] \in {"remove", "remove.second"} BY <2>5 DEF Unlinks
    <3>4. heap[n].val \in Matches BY <1>7, <3>1, <3>2, <3>3 DEF SweepKnows
    <3>5. heap'[RemovedNode(t)'].val \in Matches BY <3>2, <3>4
    <3>6. QED BY <2>1, <3>2, <3>5 DEF SweepKnows
  <2>6. CASE Keeps(t)
    <3>1. SameEntry(k) /\ pc'[t] # "retire" BY <2>6 DEF Keeps
    <3>2. pc[t] = "retire" => EntryOf(k) = NULL BY DEF ListInv
    <3>3. (sweep'[t].phase = "removing" /\ EntryOf(k)' # NULL) => heap'[EntryOf(k)'].val \in Matches
      <4> SUFFICES ASSUME EntryOf(k)' # NULL PROVE heap'[EntryOf(k)'].val \in Matches
        OBVIOUS
      <4>1. /\ EntryOf(k)' = EntryOf(k) /\ EntryOf(k) # NULL
            /\ heap'[EntryOf(k)].val = heap[EntryOf(k)].val
        BY <3>1 DEF SameEntry
      <4>2. heap[EntryOf(k)].val \in Matches
        BY <1>2, <1>7, <3>2, <4>1 DEF SweepKnows
      <4>3. QED BY <4>1, <4>2
    <3>4. QED BY <2>1, <3>1, <3>3 DEF SweepKnows
  <2>7. QED BY <2>4, <2>5, <2>6
<1>8. QED BY <1>4, <1>5, <1>6, <1>7

(* removeIf calls remove for an entry the callback has accepted.           *)
LEMMA SweepStarts ==
  ASSUME KeyedBase, ~Crashed, NEW t \in Threads, Starts(t), NEW k \in Keys,
         call'[t].key = k, Found(t) /\ call[t].key = k => SweepKnows(t, k)
  PROVE  SweepKnows(t, k)' /\ ~Reads(t)' /\ ~Found(t)'
<1>0. TypeInv /\ KeyedTypeOK BY DEF KeyedBase
<1>1. Begins(t) BY <1>0, StartsBegin
<1>2. pc'[t] \in {"search.read", "find.read"} BY <1>1 DEF Begins
<1>3. ~Reads(t)' /\ ~Found(t)' BY <1>2 DEF Reads, Found
<1>4. CASE sweep'[t].phase \in {"off", "searching"} BY <1>2, <1>3, <1>4 DEF SweepKnows
<1>5. CASE sweep'[t].phase = "removing"
  <2>1. Found(t) /\ heap[sweep[t].node].val \in Matches /\ call'[t].key = call[t].key
    BY <1>0, <1>5, StartsBegin
  <2>2. EntryOf(k) \in {NULL, sweep[t].node} BY <2>1 DEF SweepKnows
  <2>3. SameEntry(k) BY QuietSame
  <2>4. EntryOf(k)' # NULL => heap'[EntryOf(k)'].val \in Matches
    <3> SUFFICES ASSUME EntryOf(k)' # NULL PROVE heap'[EntryOf(k)'].val \in Matches OBVIOUS
    <3>1. /\ EntryOf(k)' = EntryOf(k) /\ EntryOf(k) # NULL
          /\ heap'[EntryOf(k)].val = heap[EntryOf(k)].val
      BY <2>3 DEF SameEntry
    <3>2. QED BY <2>1, <2>2, <3>1
  <2>5. QED BY <1>2, <1>3, <2>4 DEF SweepKnows
<1>6. QED BY <1>0, <1>4, <1>5, StartsBegin

(* Between its calls it keeps its frame, or is done with the key.          *)
LEMMA SweepLists ==
  ASSUME KeyedBase, Known, NEW t \in Threads, ListStep(t) \/ UNCHANGED keyedVars
  PROVE  \/ Rests(t) /\ \A k \in Keys : SameEntry(k)
         \/ sweep'[t].phase \in {"off", "next"}
<1>1. UNCHANGED vars BY ListStepIs DEF keyedVars
<1>2. UNCHANGED <<table, heap, nalloc, pc, call, ptr, side, result, out>>
  BY <1>1 DEF vars, shared, client, probe
<1>3. nalloc \in Nat BY SizeAssumption DEF KeyedBase, TypeInv, TypeOK
<1>4. KeysKept BY <1>2, <1>3 DEF KeysKept
<1>5. \A k \in Keys : SameEntry(k) BY <1>2, EntriesStay
<1>6. CASE ChangeList(t) \/ UNCHANGED keyedVars
  <2>1. sweep' = sweep BY <1>6 DEF ChangeList, keyedVars, keyed
  <2>2. QED BY <1>2, <1>4, <1>5, <2>1 DEF Rests
<1>7. CASE StartSweep(t) \/ SweepAdvance(t) \/ SweepReturn(t)
  <2>1. sweep \in [Threads -> [phase : {"off", "next", "searching", "removing"},
                               keys : Seq(Keys), node : 0 .. MaxNodes]]
    BY DEF KeyedBase, KeyedTypeOK
  <2>2. CASE StartSweep(t) BY <2>1, <2>2 DEF StartSweep, NoSweep
  <2>3. CASE SweepAdvance(t) BY <2>1, <2>3 DEF SweepAdvance
  <2>4. CASE SweepReturn(t) BY <2>1, <2>4 DEF SweepReturn, NoSweep
  <2>5. QED BY <1>7, <2>2, <2>3, <2>4
<1>8. QED BY <1>6, <1>7 DEF ListStep

(* For every step of every thread.                                         *)
LEMMA SweepStep ==
  ASSUME KeyedBase, KeyedBase', Known, Known', Orderly, ListInv, SweepInv,
         [KeyedNext]_keyedVars, NEW t \in Threads, NEW k \in Keys, call'[t].key = k,
         Writers(k) \subseteq {t}
  PROVE  /\ SweepKnows(t, k)'
         /\ (OneSweeper /\ LiveInv /\ (Reads(t)' \/ Found(t)')) => EntryOf(k)' # NULL
<1>0. TypeInv /\ KeyedTypeOK BY DEF KeyedBase
<1> DEFINE Goal == /\ SweepKnows(t, k)'
                   /\ (OneSweeper /\ LiveInv /\ (Reads(t)' \/ Found(t)')) => EntryOf(k)' # NULL
<1> SUFFICES Goal OBVIOUS
<1>1. call[t].key = k => /\ SweepKnows(t, k)
                         /\ (LiveInv /\ (Reads(t) \/ Found(t))) => EntryOf(k) # NULL
  BY DEF SweepInv, LiveInv
<1>2. ASSUME Rests(t), EntryOf(k)' # NULL => SameEntry(k),
             OneSweeper /\ Sweeping(t) => SameEntry(k)
      PROVE  Goal
  <2>1. call[t].key = k BY <1>2 DEF Rests
  <2>2. SweepKnows(t, k)' BY <1>1, <1>2, <2>1, SweepRests
  <2>3. (Reads(t)' <=> Reads(t)) /\ (Found(t)' <=> Found(t)) BY <1>2, RestsReads
  <2>4. Reads(t) \/ Found(t) => Sweeping(t) BY DEF Reads, Found, Sweeping
  <2>5. QED BY <1>1, <1>2, <2>1, <2>2, <2>3, <2>4 DEF SameEntry
<1>3. ASSUME NEW u \in Threads \ {t}, ~Crashed, TableStep(u) \/ Starts(u) \/ ListStep(u)
      PROVE  Goal
  <2>1. Rests(t) BY <1>3, OthersFrame DEF Rests
  <2>2. /\ EntryOf(k)' # NULL => SameEntry(k)
        /\ (OneSweeper /\ Sweeping(t)) => SameEntry(k)
    BY <1>3, OthersEntry
  <2>3. QED BY <1>2, <2>1, <2>2
<1>4. ASSUME ~Crashed, TableStep(t) PROVE Goal
  <2>1. call[t].key = k
    BY <1>0, <1>4, TableStepIs, LocalStep DEF Here
  <2>2. /\ SweepKnows(t, k)'
        /\ (Reads(t)' \/ Found(t)') => EntryOf(k)' # NULL \/ Reads(t)
    BY <1>1, <1>4, <2>1, SweepTable
  <2>3. Reads(t) => EntryOf(k)' = EntryOf(k)
    <3> SUFFICES ASSUME Reads(t) PROVE EntryOf(k)' = EntryOf(k) OBVIOUS
    <3>1. pc[t] \in {"search.check", "search.key"} BY DEF Reads
    <3>2. ~Stores(t) /\ ~Unlinks(t) BY <3>1 DEF Stores, Unlinks
    <3>3. Keeps(t)
      BY <1>4, <3>2, TableStepIs, EntryStep DEF KeyedBase, Known
    <3>4. QED BY <3>3 DEF Keeps, SameEntry
  <2>4. QED BY <1>1, <2>1, <2>2, <2>3
<1>5. ASSUME ~Crashed, Starts(t) PROVE Goal
  BY <1>1, <1>5, SweepStarts
<1>6. ASSUME ListStep(t) \/ UNCHANGED keyedVars PROVE Goal
  <2>1. CASE sweep'[t].phase \in {"off", "next"} BY <2>1, SweepIdle
  <2>2. CASE Rests(t) /\ \A j \in Keys : SameEntry(j) BY <1>2, <2>2
  <2>3. QED BY <1>6, <2>1, <2>2, SweepLists
<1>7. QED
  <2> HIDE DEF Goal
  <2>1. QED BY <1>3, <1>4, <1>5, <1>6, StepCases

(* For every sweeper at once; and if nobody else sweeps, what it reads is  *)
(* there when the callback does.                                           *)
LEMMA SweepNext ==
  /\ KeyedBase /\ KeyedBase' /\ Known /\ Known' /\ Orderly /\ ListInv /\ SweepInv
  /\ [KeyedNext]_keyedVars
  => SweepInv' /\ (OneSweeper /\ LiveInv => LiveInv')
<1> SUFFICES ASSUME KeyedBase, KeyedBase', Known, Known', Orderly, ListInv, SweepInv,
                    [KeyedNext]_keyedVars
             PROVE  SweepInv' /\ (OneSweeper /\ LiveInv => LiveInv')
  OBVIOUS
<1>1. SweepInv'
  <2> SUFFICES ASSUME NEW t \in Threads, NEW k \in Keys, call'[t].key = k, Writers(k) \subseteq {t}
               PROVE  SweepKnows(t, k)'
    BY DEF SweepInv
  <2>1. QED BY SweepStep
<1>2. OneSweeper /\ LiveInv => LiveInv'
  <2> SUFFICES ASSUME OneSweeper, LiveInv, NEW t \in Threads, NEW k \in Keys, call'[t].key = k,
                      Writers(k) \subseteq {t}, Reads(t)' \/ Found(t)'
               PROVE  EntryOf(k)' # NULL
    BY DEF LiveInv
  <2>1. QED BY SweepStep
<1>3. QED BY <1>1, <1>2

LEMMA SweepInit == KeyedInit => SweepInv /\ LiveInv
<1> SUFFICES ASSUME KeyedInit PROVE SweepInv /\ LiveInv OBVIOUS
<1>1. \A t \in Threads : sweep[t].phase = "off" BY DEF KeyedInit, NoSweep
<1>2. QED BY <1>1 DEF SweepInv, LiveInv, SweepKnows, Reads, Found

LEMMA SweepMatches == KeyedBase /\ SweepInv => SweepRemovesMatching
<1> SUFFICES ASSUME KeyedBase, SweepInv PROVE SweepRemovesMatching OBVIOUS
<1> SUFFICES ASSUME NEW t \in Threads, sweep[t].phase = "removing", pc[t] = "retire",
                    Writers(call[t].key) \subseteq {t}
             PROVE  heap[RemovedNode(t)].val \in Matches
  BY DEF SweepRemovesMatching
<1>1. call[t].key \in Keys BY HomeWordType DEF KeyedBase, TypeInv
<1>2. PICK k \in Keys : call[t].key = k /\ Writers(k) \subseteq {t} BY <1>1
<1>3. SweepKnows(t, k) BY <1>2 DEF SweepInv
<1>4. QED BY <1>3 DEF SweepKnows

LEMMA LiveCallback == KeyedBase /\ Known /\ SweepInv /\ LiveInv => CallbackReadsLive
<1> SUFFICES ASSUME KeyedBase, Known, SweepInv, LiveInv PROVE CallbackReadsLive OBVIOUS
<1> SUFFICES ASSUME NEW t \in Threads, Found(t), Writers(call[t].key) \subseteq {t},
                    sweep[t].node \in freed
             PROVE  FALSE
  BY DEF CallbackReadsLive
<1>1. call[t].key \in Keys BY HomeWordType DEF KeyedBase, TypeInv
<1>2. PICK k \in Keys : call[t].key = k /\ Writers(k) \subseteq {t} BY <1>1
<1>3. EntryOf(k) # NULL /\ EntryOf(k) \in {NULL, sweep[t].node}
  BY <1>2 DEF SweepInv, LiveInv, SweepKnows
<1>4. sweep[t].node \in Nodes
  <2>1. sweep[t].node \in 0 .. MaxNodes BY DEF KeyedBase, KeyedTypeOK
  <2>2. QED BY <1>3, <2>1, SizeAssumption DEF Nodes, NULL
<1>5. sweep[t].node \in Retired BY <1>4 DEF Retired
<1>6. PICK w \in {0, 1} : table[Home(w, k)].node = sweep[t].node BY <1>3 DEF EntryOf
<1>7. Home(w, k) \in Slots BY HomeType
<1>8. QED BY <1>5, <1>6, <1>7 DEF Known, OwnerInv, RetiredStaysOut

(* removeIf removes only entries that the callback accepts, if no other    *)
(* thread stores the key, as long as no two calls that write one key       *)
(* overlap and nobody writes while an entry moves (lines 249-260).         *)
THEOREM SweepsRemoveMatching == KeyedSpec /\ []Orderly => []SweepRemovesMatching
BY KeyedKnown, BaseStep, SweepInit, SweepNext, SweepMatches, PTL DEF KeyedSpec

(* The value that removeIf hands to its callback is still there, if only   *)
(* this thread writes the key and no other thread calls removeIf, whoever  *)
(* moves the entry meanwhile (line 253).                                   *)
THEOREM CallbacksReadLive ==
  ASSUME OneSweeper
  PROVE  KeyedSpec /\ []Orderly => []CallbackReadsLive
BY KeyedKnown, SweepInit, SweepNext, LiveCallback, PTL DEF KeyedSpec

-----------------------------------------------------------------------------
(* One thread inserts, removes and sweeps.                                 *)

Alone(t) == \A u \in Threads \ {t} : Sweeps[u] = 0 /\ \A c \in Calls[u] : c.op = "search"

(* The others only search.                                                 *)
LEMMA OthersSearch ==
  ASSUME KeyedBase, NEW t \in Threads, Alone(t), NEW u \in Threads \ {t}
  PROVE  /\ sweep[u].phase = "off" /\ owed[u] = "none" /\ sweeps[u] = 0 /\ ~Writing(u)
         /\ \A k : u \notin Writers(k)
<1>0. /\ SweepControl(u) /\ Role(u) /\ sweeps[u] \in Nat /\ sweeps[u] <= Sweeps[u]
      /\ owed[u] \in {"none", "push", "push to list 0", "erase"}
      /\ sweep[u].phase \in {"off", "next", "searching", "removing"}
  BY DEF KeyedBase, KeyedTypeOK, Roles
<1>1. Sweeps[u] = 0 /\ \A c \in Calls[u] : c.op = "search" BY DEF Alone
<1>2. ~Sweeping(u)
  <2>1. Sweeping(u) => Sweeps[u] > 0 BY <1>0 DEF SweepControl
  <2>2. QED BY <1>1, <2>1
<1>3. pc[u] # "idle" \/ owed[u] # "none" => call[u].op = "search"
  BY <1>0, <1>1, <1>2 DEF SweepControl
<1>4. owed[u] = "none" BY <1>0, <1>3 DEF SweepControl
<1>5. ~Writing(u) BY <1>3 DEF Writing
<1>6. \A k : u \notin Writers(k) BY <1>1 DEF Writers
<1>7. QED BY <1>0, <1>1, <1>2, <1>4, <1>5, <1>6 DEF Sweeping

LEMMA AloneOrderly ==
  ASSUME KeyedBase, NEW t \in Threads, Alone(t)
  PROVE  Orderly /\ OneSweeper /\ \A k : Writers(k) \subseteq {t}
<1>1. \A u \in Threads \ {t} : ~Writing(u) /\ \A k : u \notin Writers(k) BY OthersSearch
<1>2. ASSUME NEW u \in Threads, pc[u] \in HelpLabels PROVE u = t
  <2>1. Role(u) BY DEF KeyedBase, Roles
  <2>2. pc[u] # "idle" /\ pc[u] \notin SearchLabels BY <1>2 DEF HelpLabels, SearchLabels
  <2>3. Writing(u) BY <2>1, <2>2, WriterLabels
  <2>4. QED BY <1>1, <2>3
<1>3. MovesAlone BY <1>1, <1>2 DEF MovesAlone
<1>4. WritesApart BY <1>1 DEF WritesApart
<1>5. OneSweeper
  <2>1. \A u \in Threads \ {t} : ~(Sweeps[u] > 0) BY DEF Alone
  <2>2. QED BY <2>1 DEF OneSweeper
<1>6. QED BY <1>1, <1>3, <1>4, <1>5 DEF Orderly, Writers

(* Their steps change neither the table nor the lists.                     *)
LEMMA OthersStep ==
  ASSUME KeyedBase, NEW t \in Threads, Alone(t), NEW u \in Threads \ {t}, ~Crashed,
         TableStep(u) \/ Starts(u) \/ ListStep(u)
  PROVE  /\ TableStep(u) \/ Starts(u)
         /\ UNCHANGED <<table, vectorOfKeys, owed>> /\ \A n \in 1 .. nalloc : heap'[n] = heap[n]
<1>0. TypeInv /\ KeyedTypeOK /\ Role(u) BY DEF KeyedBase, Roles
<1>1. /\ sweep[u].phase = "off" /\ owed[u] = "none" /\ sweeps[u] = 0 /\ ~Writing(u)
      /\ owed \in [Threads -> {"none", "push", "push to list 0", "erase"}]
  BY <1>0, OthersSearch DEF KeyedTypeOK
<1>2. ~ListStep(u)
  <2>1. ~ChangeList(u) BY <1>1 DEF ChangeList
  <2>2. ~StartSweep(u)
    <3>1. ASSUME StartSweep(u) PROVE FALSE
      <4>1. sweeps[u] > 0 BY <3>1 DEF StartSweep
      <4>2. sweeps[u] = 0 BY <1>1
      <4>3. QED BY <4>1, <4>2
    <3>2. QED BY <3>1
  <2>3. ~SweepAdvance(u) BY <1>1 DEF SweepAdvance
  <2>4. ~SweepReturn(u) BY <1>1 DEF SweepReturn, SweepDone
  <2>5. QED BY <2>1, <2>2, <2>3, <2>4 DEF ListStep
<1>3. CASE TableStep(u)
  <2>1. Search(u) BY <1>0, <1>1, <1>3, TableStepIs, StepsWrite DEF Step
  <2>2. UNCHANGED <<table, heap>> /\ pc[u] \in SearchLabels
    BY <1>0, <2>1, StepsWrite DEF Search, SearchRead, SearchRetry, SearchCheck, SearchKey,
       SearchReread, SearchRecount, shared
  <2>3. UNCHANGED vectorOfKeys BY <1>0, <1>3, TableStepIs, OwesStep
  <2>4. owed' = owed
    <3>1. KeyedSearch(u)
      <4>1. ~KeyedFind(u) /\ ~KeyedInsert(u) /\ ~KeyedRemove(u) /\ ~KeyedRelocate(u) /\ ~KeyedHelp(u)
        BY <1>0, <1>1, StepsWrite DEF KeyedFind, KeyedInsert, KeyedRemove, KeyedRelocate, KeyedHelp
      <4>2. ~KeyedRetire(u) BY <2>2 DEF KeyedRetire, Retire, SearchLabels
      <4>3. QED BY <1>3, <4>1, <4>2 DEF TableStep
    <3>2. QED BY <3>1 DEF KeyedSearch
  <2>5. QED BY <1>3, <2>2, <2>3, <2>4
<1>4. CASE Starts(u)
  <2>1. Begins(u) /\ UNCHANGED <<vectorOfKeys, owed>> BY <1>0, <1>4, StartsBegin
  <2>2. QED BY <1>4, <2>1 DEF Begins
<1>5. QED BY <1>2, <1>3, <1>4

(* Where the table is as it was, so are the entries.                       *)
LEMMA TableKept ==
  ASSUME KeyedBase, UNCHANGED table, \A n \in 1 .. nalloc : heap'[n] = heap[n], NEW k \in Keys
  PROVE  /\ \A w \in {0, 1} : Holds(Home(w, k), k)' <=> Holds(Home(w, k), k)
         /\ EntryOf(k)' = EntryOf(k) /\ SameEntry(k)
<1>1. ASSUME NEW w \in {0, 1}
      PROVE  /\ Holds(Home(w, k), k)' <=> Holds(Home(w, k), k)
             /\ table[Home(w, k)].node # NULL =>
                   heap'[table[Home(w, k)].node] = heap[table[Home(w, k)].node]
  <2>1. PICK s \in Slots : s = Home(w, k) BY HomeType
  <2>2. table[s].node \in 0 .. MaxNodes /\ (table[s].node # NULL => table[s].node <= nalloc)
        /\ nalloc \in Nat /\ MaxNodes \in Nat
    BY NodeRange, SizeAssumption DEF KeyedBase, TypeInv, TypeOK, HomeInv, EntriesHome, Rightful
  <2>3. table[s].node # NULL => table[s].node \in 1 .. nalloc BY <2>2 DEF NULL
  <2>4. QED BY <2>1, <2>3 DEF Holds
<1>2. EntryOf(k)' = EntryOf(k) BY <1>1 DEF EntryOf
<1>3. EntryOf(k) # NULL => heap'[EntryOf(k)] = heap[EntryOf(k)] BY <1>1 DEF EntryOf, Holds
<1>4. QED BY <1>1, <1>2, <1>3 DEF SameEntry

LEMMA ExactRests ==
  ASSUME KeyedBase, Known, NEW t \in Threads, NEW k \in Keys, Rests(t), UNCHANGED table,
         \A n \in 1 .. nalloc : heap'[n] = heap[n], ExactKnows(t, k)
  PROVE  ExactKnows(t, k)'
<1>1. /\ \A w \in {0, 1} : Holds(Home(w, k), k)' <=> Holds(Home(w, k), k)
      /\ EntryOf(k)' = EntryOf(k)
  BY TableKept
<1>2. Found(t)' <=> Found(t) BY RestsReads
<1>3. side[t] \in {0, 1} BY DEF KeyedBase, TypeInv, TypeOK
<1>4. QED BY <1>1, <1>2, <1>3 DEF ExactKnows, Rests

(* An entry the callback refuses stays refused.                            *)
LEMMA RefusedKept ==
  ASSUME NEW k \in Keys, Refused(k), SameEntry(k) \/ EntryOf(k)' = NULL
  PROVE  Refused(k)'
BY DEF Refused, SameEntry

-----------------------------------------------------------------------------
(* What the only writer knows of its table.                                *)

(* remove returns when it has found no entry, or has retired the node.     *)
LEMMA RemoveEnds ==
  ASSUME KeyedBase, Known, ListInv, NEW t \in Threads, Step(t), call[t].op = "remove",
         pc'[t] = "idle", NEW k \in Keys, call[t].key = k
  PROVE  EntryOf(k) = NULL
<1>0. /\ TypeInv /\ Role(t) /\ KeyInv /\ pc \in [Threads -> Labels] /\ pc[t] # "idle"
      /\ Writing(t)
  <2>1. TypeInv /\ Role(t) /\ KeyInv /\ pc \in [Threads -> Labels]
    BY DEF KeyedBase, Known, Roles, TypeInv, TypeOK
  <2>2. pc[t] # "idle" BY <2>1, LocalStep DEF Here
  <2>3. QED BY <2>1, <2>2 DEF Writing
<1>1. ~Search(t) BY <1>0, StepsWrite
<1>2. ~Insert(t)
  <2>1. pc[t] # "insert" /\ pc[t] \notin PathLabels BY <1>0 DEF Role
  <2>2. QED BY <2>1 DEF Insert, InsertUpdate, InsertPlace, InsertRelocate, InsertDrop, PathLabels
<1>3. ~Relocate(t)
  <2>1. pc[t] \notin PathLabels \cup MoveLabels BY <1>0 DEF Role
  <2>2. QED BY <2>1 DEF Relocate, PathRead, PathCheck, PathKey, MoveDone, MoveRead, MoveReread,
               MoveDest, PathLabels, MoveLabels
<1>4. ~Find(t)
  BY <1>0 DEF Find, FindRead, FindRetry, FindHelp, FindCheck, FindKey, FindReread, FindRecount,
     DelDupCheck, DelDupCheckSecond, DelDup, Goto, LeaveFind, RetryFind, Probe, EnterHelp, Crash
<1>5. ~Help(t)
  <2>1. pc[t] \in HelpLabels => hlp[t].ret # "idle" BY <1>0 DEF Role
  <2>2. LeaveHelp(t) => pc[t] \notin HelpLabels BY <1>0, <2>1 DEF LeaveHelp, Goto
  <2>3. \A src : TestMark(t, src) => pc[t] \notin HelpLabels
    BY <1>0, <2>2 DEF TestMark, Goto
  <2>4. ~(HelpCheck(t) \/ HelpRecheck(t))
    BY <1>0, <2>3 DEF HelpCheck, HelpRecheck, HelpRetry, Goto, HelpLabels
  <2>5. ~(HelpClear(t) \/ HelpUnmark(t)) BY <2>2 DEF HelpClear, HelpUnmark, HelpLabels
  <2>6. ~(HelpRead(t) \/ HelpMark(t) \/ HelpRemark(t) \/ HelpDest(t) \/ HelpStable(t) \/ HelpCopy(t))
    BY <1>0 DEF HelpRead, HelpMark, HelpRemark, HelpDest, HelpStable, HelpCopy, HelpRetry, Goto, Crash
  <2>7. ~HelpCheckDest(t)
    <3>1. PICK dst : dst = get_pointer(hlp[t].ptr2) OBVIOUS
    <3>2. dst = NULL \/ dst = hlp[t].src \/ (dst # NULL /\ dst # hlp[t].src) OBVIOUS
    <3>3. (CASE dst = NULL -> "help.stable" [] dst = hlp[t].src -> "help.clear"
             [] OTHER -> "help.unmark") # "idle"
      BY <3>2
    <3>4. QED BY <1>0, <3>1, <3>3 DEF HelpCheckDest, HelpRetry, Goto
  <2>8. QED BY <2>4, <2>5, <2>6, <2>7 DEF Help
<1>6. CASE RemoveAbsent(t)
  <2>1. pc[t] = "remove" /\ result[t] = "NIL" BY <1>6 DEF RemoveAbsent
  <2>2. ~There(t, 0) /\ ~There(t, 1) BY <1>0, <2>1 DEF KeyInv, CallerKnows
  <2>3. QED BY <2>2 DEF There, MyHome, EntryOf
<1>7. CASE Retire(t)
  <2>1. pc[t] = "retire" BY <1>7 DEF Retire
  <2>2. QED BY <2>1 DEF ListInv
<1>8. CASE RemoveRecheck(t) \/ \E w \in {0, 1} : RemoveUnlink(t, w)
  BY <1>0, <1>8 DEF RemoveRecheck, RemoveUnlink, StartFind, Probe, Goto
<1>9. QED BY <1>1, <1>2, <1>3, <1>4, <1>5, <1>6, <1>7, <1>8 DEF Step, Remove

LEMMA ExactSearch ==
  ASSUME KeyedBase, Known, NEW t \in Threads, NEW k \in Keys, call[t].key = k, Search(t),
         TableStep(t), ~Crashed, sweep[t].phase = "searching", ExactKnows(t, k)
  PROVE  ExactKnows(t, k)'
<1>0. /\ TypeInv /\ KeyedTypeOK /\ side[t] \in {0, 1}
      /\ pc \in [Threads -> Labels] /\ side \in [Threads -> {0, 1}]
      /\ ptr \in [Threads -> [{0, 1} -> TableWord]]
      /\ out \in [Threads -> [kind : OutcomeKinds, val : Vals]]
  BY DEF KeyedBase, TypeInv, TypeOK
<1>1. sweep'[t].phase = "searching" BY <1>0, TableStepIs, OwesStep
<1>2. UNCHANGED <<table, heap, call>>
  BY DEF Search, SearchRead, SearchRetry, SearchCheck, SearchKey, SearchReread, SearchRecount,
         shared, client, Return
<1>3. EntryOf(k)' = EntryOf(k) /\ \A w \in {0, 1} : Holds(Home(w, k), k)' <=> Holds(Home(w, k), k)
  BY <1>2 DEF EntryOf, Holds
<1>4. ASSUME NEW w \in {0, 1}, SearchRead(t, w) PROVE ExactKnows(t, k)'
  <2>1. /\ pc'[t] = "search.check" /\ side'[t] = w /\ ptr'[t][w] = table[Home(w, k)]
        /\ w = 1 => pc[t] = "search.next"
    BY <1>0, <1>4 DEF SearchRead, Goto, MyHome
  <2>2. w = 1 => ~Holds(Home(0, k), k) BY <2>1 DEF ExactKnows
  <2>3. table'[Home(w, k)] = table[Home(w, k)] BY <1>2
  <2>4. QED BY <1>1, <1>3, <2>1, <2>2, <2>3 DEF ExactKnows
<1>5. CASE SearchRetry(t)
  <2>1. pc'[t] = "search.read" BY <1>0, <1>5 DEF SearchRetry, Probe, Goto
  <2>2. QED BY <1>1, <2>1 DEF ExactKnows
<1>6. ASSUME pc[t] \in {"search.check", "search.key"}, pc'[t] = "search.next", UNCHANGED side,
             ~Holds(Home(side[t], k), k)
      PROVE  ExactKnows(t, k)'
  <2>1. ~Holds(Home(0, k), k) /\ (side[t] = 1 => EntryOf(k) = NULL)
    BY <1>0, <1>6 DEF ExactKnows, EntryOf
  <2>2. QED BY <1>1, <1>3, <1>6, <2>1 DEF ExactKnows
<1>7. CASE SearchCheck(t)
  <2>1. /\ pc[t] = "search.check" /\ ptr[t][side[t]] = table[Home(side[t], k)]
        /\ UNCHANGED <<ptr, side>>
        /\ pc'[t] = IF ptr[t][side[t]].node = NULL THEN "search.next" ELSE "search.key"
    BY <1>0, <1>7 DEF SearchCheck, Goto, probe, MyHome, get_pointer
  <2>2. CASE pc'[t] = "search.next"
    <3>1. ~Holds(Home(side[t], k), k) BY <2>1, <2>2 DEF Holds
    <3>2. QED BY <1>6, <2>1, <2>2, <3>1
  <2>3. CASE pc'[t] = "search.key" BY <1>1, <1>2, <1>3, <2>1, <2>3, <1>0 DEF ExactKnows
  <2>4. QED BY <2>1, <2>2, <2>3
<1>8. CASE SearchKey(t)
  <2>1. pc[t] = "search.key" BY <1>8 DEF SearchKey
  <2>2. PICK n : n = ptr[t][side[t]].node OBVIOUS
  <2>3. CASE heap[n].key = k
    <3>1. pc'[t] = "idle" /\ out'[t].kind = "found"
      BY <1>0, <1>8, <2>2, <2>3 DEF SearchKey, Return, Probe, Goto, Outcome, get_pointer
    <3>2. Found(t)' BY <1>1, <3>1 DEF Found
    <3>3. QED BY <1>1, <3>1, <3>2 DEF ExactKnows
  <2>4. CASE heap[n].key # k
    <3>1. pc'[t] = "search.next" /\ UNCHANGED side
      BY <1>0, <1>8, <2>2, <2>4 DEF SearchKey, Goto, probe, get_pointer
    <3>2. ptr[t][side[t]] = table[Home(side[t], k)] BY <2>1 DEF ExactKnows
    <3>3. ~Holds(Home(side[t], k), k) BY <2>2, <2>4, <3>2 DEF Holds
    <3>4. QED BY <1>6, <2>1, <3>1, <3>3
  <2>5. QED BY <2>3, <2>4
<1>9. CASE SearchReread(t)
  <2>1. pc[t] = "search.next" /\ side[t] = 1 /\ pc'[t] = "search.recount"
    BY <1>0, <1>9 DEF SearchReread, Goto
  <2>2. EntryOf(k) = NULL BY <2>1 DEF ExactKnows
  <2>3. QED BY <1>1, <1>3, <2>1, <2>2 DEF ExactKnows
<1>10. CASE SearchRecount(t)
  <2>1. pc[t] = "search.recount" /\ pc'[t] \in {"search.read", "idle"}
    BY <1>0, <1>10 DEF SearchRecount, Return, Probe, Goto
  <2>2. EntryOf(k) = NULL BY <2>1 DEF ExactKnows
  <2>3. QED BY <1>1, <1>3, <2>1, <2>2 DEF ExactKnows
<1>11. QED BY <1>4, <1>5, <1>7, <1>8, <1>9, <1>10 DEF Search

(* The steps of the writer.                                                *)
LEMMA ExactOwn ==
  ASSUME KeyedBase, KeyedBase', Known, Known', Orderly, ListInv, ~Crashed, NEW t \in Threads,
         TableStep(t) \/ Starts(t), NEW k \in Keys, call'[t].key = k,
         call[t].key = k => ExactKnows(t, k)
  PROVE  ExactKnows(t, k)'
<1>0. /\ TypeInv /\ KeyedTypeOK /\ OwnerInv /\ KeyInv /\ SweepControl(t) /\ Role(t)
      /\ sweep[t].phase \in {"off", "next", "searching", "removing"}
  BY DEF KeyedBase, Known, KeyedTypeOK, Roles
<1>1. CASE Starts(t)
  <2>1. Begins(t) BY <1>0, <1>1, StartsBegin
  <2>2. pc'[t] \in {"search.read", "find.read"} BY <2>1 DEF Begins
  <2>3. QED BY <2>2 DEF ExactKnows
<1>2. CASE TableStep(t)
  <2>1. Step(t) BY <1>2, TableStepIs
  <2>2. call' = call /\ pc[t] # "idle" BY <1>0, <2>1, LocalStep DEF Here
  <2>3. sweep'[t].phase = sweep[t].phase BY <1>0, <1>2, <2>1, OwesStep
  <2>4. call[t].key = k BY <2>2
  <2>5. CASE sweep[t].phase \in {"off", "next"} BY <2>3, <2>5 DEF ExactKnows
  <2>6. CASE sweep[t].phase = "searching"
    <3>1. call[t].op = "search" BY <1>0, <2>6 DEF SweepControl
    <3>2. ~Writing(t) BY <3>1 DEF Writing
    <3>3. Search(t) BY <1>0, <2>1, <3>2, StepsWrite DEF Step
    <3>4. QED BY <1>2, <2>4, <2>6, <3>3, ExactSearch
  <2>7. CASE sweep[t].phase = "removing"
    <3>1. call[t].op = "remove" BY <1>0, <2>7 DEF SweepControl
    <3>2. CASE pc'[t] # "idle" BY <2>3, <2>7, <3>2 DEF ExactKnows
    <3>3. CASE pc'[t] = "idle"
      <4>1. EntryOf(k) = NULL BY <2>1, <2>4, <3>1, <3>3, RemoveEnds
      <4>2. ~Stores(t) /\ ~Unlinks(t) BY <1>0, <3>1, <3>3 DEF Stores, Unlinks, Role
      <4>3. Keeps(t) BY <2>1, <4>2, EntryStep DEF KeyedBase, Known
      <4>4. EntryOf(k)' = NULL BY <4>1, <4>3 DEF Keeps, SameEntry
      <4>5. QED BY <2>3, <2>7, <4>4 DEF ExactKnows
    <3>4. QED BY <3>2, <3>3
  <2>8. QED BY <1>0, <2>5, <2>6, <2>7
<1>3. QED BY <1>1, <1>2

LEMMA ExactNext ==
  ASSUME KeyedBase, KeyedBase', Known, Known', Orderly, ListInv, ExactInv,
         [KeyedNext]_keyedVars, NEW a \in Threads, Alone(a)
  PROVE  ExactInv'
<1> SUFFICES ASSUME NEW t \in Threads, NEW k \in Keys, call'[t].key = k PROVE ExactKnows(t, k)'
  BY DEF ExactInv
<1>0. TypeInv /\ KeyedTypeOK BY DEF KeyedBase
<1>1. call[t].key = k => ExactKnows(t, k) BY DEF ExactInv
<1>2. ASSUME Rests(t), UNCHANGED table, \A n \in 1 .. nalloc : heap'[n] = heap[n]
      PROVE  ExactKnows(t, k)'
  <2>1. call[t].key = k BY <1>2 DEF Rests
  <2>2. QED BY <1>1, <1>2, <2>1, ExactRests
<1>3. ASSUME NEW u \in Threads \ {t}, u # a, ~Crashed, TableStep(u) \/ Starts(u) \/ ListStep(u)
      PROVE  ExactKnows(t, k)'
  <2>1. Rests(t) BY <1>3, OthersFrame DEF Rests
  <2>2. UNCHANGED table /\ \A n \in 1 .. nalloc : heap'[n] = heap[n] BY <1>3, OthersStep
  <2>3. QED BY <1>2, <2>1, <2>2
<1>4. ASSUME t # a, KeyedBase' PROVE ExactKnows(t, k)'
  <2>1. sweep'[t].phase = "off"
    <3>1. /\ SweepControl(t)' /\ sweep'[t].phase \in {"off", "next", "searching", "removing"}
      BY <1>4 DEF KeyedBase, KeyedTypeOK
    <3>2. ~(Sweeps[t] > 0)
      <4>1. Sweeps[t] = 0 BY <1>4 DEF Alone
      <4>2. QED BY <4>1
    <3>3. QED BY <3>1, <3>2 DEF SweepControl, Sweeping
  <2>2. QED BY <2>1 DEF ExactKnows
<1>5. ASSUME t = a, ~Crashed, TableStep(t) \/ Starts(t) PROVE ExactKnows(t, k)'
  BY <1>1, <1>5, ExactOwn
<1>6. ASSUME ListStep(t) \/ UNCHANGED keyedVars PROVE ExactKnows(t, k)'
  <2>1. CASE sweep'[t].phase \in {"off", "next"} BY <2>1 DEF ExactKnows
  <2>2. CASE Rests(t)
    <3>1. UNCHANGED vars BY <1>6, ListStepIs DEF keyedVars
    <3>2. UNCHANGED <<table, heap>> BY <3>1 DEF vars, shared
    <3>3. QED BY <1>2, <2>2, <3>2
  <2>3. QED BY <1>6, <2>1, <2>2, SweepLists
<1>7. QED BY <1>3, <1>4, <1>5, <1>6, StepCases

-----------------------------------------------------------------------------
(* What is left of the sweep's list.                                       *)

LEMMA TailKeeps ==
  ASSUME NEW s \in Seq(Keys), s # <<>>, NEW k, \E i \in DOMAIN s : s[i] = k
  PROVE  k = Head(s) \/ \E i \in DOMAIN Tail(s) : Tail(s)[i] = k
<1>1. PICK i \in 1 .. Len(s) : s[i] = k OBVIOUS
<1>2. CASE i = 1 BY <1>1, <1>2
<1>3. CASE i > 1
  <2>1. i - 1 \in 1 .. Len(s) - 1 /\ Len(s) \in Nat BY <1>1, <1>3
  <2>2. DOMAIN Tail(s) = 1 .. Len(s) - 1 /\ \A j \in 1 .. Len(s) - 1 : Tail(s)[j] = s[j + 1]
    BY HeadTailProperties
  <2>3. Tail(s)[i - 1] = s[i] BY <2>1, <2>2
  <2>4. QED BY <1>1, <2>1, <2>2, <2>3
<1>4. QED BY <1>1, <1>2, <1>3

(* When removeIf goes on, the key it leaves has no entry it should have    *)
(* removed.                                                                *)
LEMMA AdvanceRests ==
  ASSUME KeyedBase, SweepInv, ExactInv, RestInv, NEW t \in Threads, SweepAdvance(t),
         NEW k \in Keys, Writers(k) \subseteq {t}, OnList(t, k)
  PROVE  Refused(k) \/ ToCome(t, k)'
<1>0. /\ SweepControl(t) /\ sweep[t].keys \in Seq(Keys) /\ call[t].key \in Keys
      /\ sweep \in [Threads -> [phase : {"off", "next", "searching", "removing"},
                                keys : Seq(Keys), node : 0 .. MaxNodes]]
  BY HomeWordType DEF KeyedBase, KeyedTypeOK, TypeInv
<1>1. /\ pc[t] = "idle"
      /\ \/ /\ sweep[t].phase = "searching"
            /\ Found(t) => heap[sweep[t].node].val \notin Matches
         \/ sweep[t].phase = "removing"
      /\ sweep'[t].keys = Tail(sweep[t].keys)
  BY <1>0 DEF SweepAdvance
<1>2. Sweeping(t) /\ sweep[t].keys # <<>> /\ call[t].key = Head(sweep[t].keys)
  BY <1>0, <1>1 DEF SweepControl, Sweeping
<1>3. CASE ~Refused(k) /\ k = call[t].key
  <2>1. ExactKnows(t, k) /\ SweepKnows(t, k) BY <1>3 DEF ExactInv, SweepInv
  <2>2. CASE Found(t)
    <3>1. sweep[t].phase = "searching" BY <2>2 DEF Found
    <3>2. heap[sweep[t].node].val \notin Matches BY <1>1, <2>2, <3>1
    <3>3. EntryOf(k) \in {NULL, sweep[t].node} BY <2>1, <2>2 DEF SweepKnows
    <3>4. QED BY <3>2, <3>3 DEF Refused
  <2>3. CASE ~Found(t)
    <3>1. EntryOf(k) = NULL BY <1>1, <2>1, <2>3 DEF ExactKnows
    <3>2. QED BY <3>1 DEF Refused
  <2>4. QED BY <2>2, <2>3
<1>4. CASE ~Refused(k) /\ k # call[t].key
  <2>1. ToCome(t, k) BY <1>2, <1>4 DEF RestInv
  <2>2. \E i \in DOMAIN Tail(sweep[t].keys) : Tail(sweep[t].keys)[i] = k
    BY <1>0, <1>2, <1>4, <2>1, TailKeeps DEF ToCome
  <2>3. QED BY <1>1, <2>2 DEF ToCome
<1>5. QED BY <1>3, <1>4

LEMMA RestNext ==
  ASSUME KeyedBase, KeyedBase', Known, Known', Orderly, ListInv, SweepInv, ExactInv, RestInv,
         [KeyedNext]_keyedVars, NEW a \in Threads, Alone(a)
  PROVE  RestInv'
<1> SUFFICES ASSUME NEW t \in Threads, NEW k \in Keys, Sweeping(t)', OnList(t, k)'
             PROVE  Refused(k)' \/ ToCome(t, k)'
  BY DEF RestInv
<1>0. /\ TypeInv /\ KeyedTypeOK /\ SweepControl(t)
      /\ vectorOfKeys \in [Threads -> Seq(Keys)]
      /\ owed \in [Threads -> {"none", "push", "push to list 0", "erase"}]
      /\ sweep \in [Threads -> [phase : {"off", "next", "searching", "removing"},
                                keys : Seq(Keys), node : 0 .. MaxNodes]]
  BY DEF KeyedBase, KeyedTypeOK
<1>a. t = a
  <2>1. SweepControl(t)' BY DEF KeyedBase, KeyedTypeOK
  <2>2. Sweeps[t] > 0 BY <2>1 DEF SweepControl
  <2>3. ASSUME t # a PROVE FALSE
    <3>1. Sweeps[t] = 0 BY <2>3 DEF Alone
    <3>2. QED BY <2>2, <3>1
  <2>4. QED BY <2>3
<1>b. Writers(k) \subseteq {t} BY <1>a, AloneOrderly
<1>1. ASSUME Sweeping(t), OnList(t, k), SameEntry(k) \/ EntryOf(k)' = NULL,
             sweep'[t].keys = sweep[t].keys
      PROVE  Refused(k)' \/ ToCome(t, k)'
  <2>1. Refused(k) \/ ToCome(t, k) BY <1>1 DEF RestInv
  <2>2. Refused(k) => Refused(k)' BY <1>1, RefusedKept
  <2>3. ToCome(t, k) => ToCome(t, k)' BY <1>1 DEF ToCome
  <2>4. QED BY <2>1, <2>2, <2>3
<1>2. ASSUME NEW u \in Threads \ {t}, ~Crashed, TableStep(u) \/ Starts(u) \/ ListStep(u)
      PROVE  Refused(k)' \/ ToCome(t, k)'
  <2>1. sweep'[t] = sweep[t] BY <1>2, OthersFrame
  <2>2. /\ UNCHANGED <<table, vectorOfKeys>> /\ \A n \in 1 .. nalloc : heap'[n] = heap[n]
    BY <1>2, <1>a, OthersStep
  <2>3. SameEntry(k) BY <2>2, TableKept
  <2>4. Sweeping(t) /\ OnList(t, k) BY <2>1, <2>2 DEF Sweeping, OnList
  <2>5. QED BY <1>1, <2>1, <2>3, <2>4
<1>3. ASSUME ~Crashed, TableStep(t) PROVE Refused(k)' \/ ToCome(t, k)'
  <2>1. Step(t) BY <1>3, TableStepIs
  <2>2. /\ sweep'[t].phase = sweep[t].phase /\ sweep'[t].keys = sweep[t].keys
        /\ UNCHANGED vectorOfKeys
    BY <1>0, <1>3, <2>1, OwesStep
  <2>3. Sweeping(t) /\ OnList(t, k) BY <2>2 DEF Sweeping, OnList
  <2>4. ~Stores(t)
    <3>1. pc[t] = "insert" => call[t].op = "insert" /\ Role(t)
      BY DEF KeyedBase, Roles, Role
    <3>2. pc[t] # "idle" => call[t].op # "insert" BY <1>0, <2>3 DEF SweepControl, Sweeping
    <3>3. QED BY <3>1, <3>2 DEF Stores
  <2>5. Unlinks(t) \/ Keeps(t) BY <2>1, <2>4, EntryStep DEF KeyedBase, Known
  <2>6. SameEntry(k) \/ EntryOf(k)' = NULL BY <2>5 DEF Unlinks, Keeps
  <2>7. QED BY <1>1, <2>2, <2>3, <2>6
<1>4. ASSUME ~Crashed, Starts(t) PROVE Refused(k)' \/ ToCome(t, k)'
  <2>1. /\ UNCHANGED vectorOfKeys /\ sweep'[t].keys = sweep[t].keys
        /\ sweep'[t].phase = "off" \/ Sweeping(t)
    BY <1>0, <1>4, StartsBegin
  <2>2. Sweeping(t) /\ OnList(t, k) BY <2>1 DEF Sweeping, OnList
  <2>3. SameEntry(k) BY <1>4, QuietSame
  <2>4. QED BY <1>1, <2>1, <2>2, <2>3
<1>5. ASSUME ~Crashed, ListStep(t) PROVE Refused(k)' \/ ToCome(t, k)'
  <2>0. SameEntry(k) BY <1>5, QuietSame
  <2>1. CASE ChangeList(t)
    <3>1. sweep' = sweep BY <2>1 DEF ChangeList
    <3>2. Sweeping(t) BY <3>1 DEF Sweeping
    <3>3. owed[t] = "erase" BY <1>0, <2>1, <3>2 DEF ChangeList, SweepControl
    <3>4. ListOf(t) = t BY <3>3 DEF ListOf
    <3>5. \/ vectorOfKeys'[t] = vectorOfKeys[t]
          \/ vectorOfKeys'[t] = removeKeyFromVector(vectorOfKeys[t], call[t].key)
      BY <1>0, <2>1, <3>3, <3>4 DEF ChangeList
    <3>6. vectorOfKeys[t] \in Seq(Keys) BY <1>0
    <3>7. OnList(t, k) BY <3>5, <3>6, RemoveKeeps DEF OnList
    <3>8. QED BY <1>1, <2>0, <3>1, <3>2, <3>7
  <2>2. CASE StartSweep(t)
    <3>1. sweep'[t].keys = vectorOfKeys[t] /\ UNCHANGED vectorOfKeys
      BY <1>0, <2>2 DEF StartSweep, NoSweep
    <3>2. QED BY <3>1 DEF OnList, ToCome
  <2>3. CASE SweepAdvance(t)
    <3>1. UNCHANGED vectorOfKeys BY <2>3 DEF SweepAdvance
    <3>2. OnList(t, k) BY <3>1 DEF OnList
    <3>3. Refused(k) \/ ToCome(t, k)' BY <1>b, <2>3, <3>2, AdvanceRests
    <3>4. QED BY <2>0, <3>3, RefusedKept
  <2>4. CASE SweepReturn(t)
    <3>1. sweep'[t].phase = "off" BY <1>0, <2>4 DEF SweepReturn, NoSweep
    <3>2. QED BY <3>1 DEF Sweeping
  <2>5. QED BY <1>5, <2>1, <2>2, <2>3, <2>4 DEF ListStep
<1>6. ASSUME UNCHANGED keyedVars PROVE Refused(k)' \/ ToCome(t, k)'
  <2>1. UNCHANGED <<table, heap, sweep, vectorOfKeys>>
    BY <1>6 DEF keyedVars, keyed, vars, shared
  <2>2. SameEntry(k) BY <2>1, EntriesStay
  <2>3. Sweeping(t) /\ OnList(t, k) BY <2>1 DEF Sweeping, OnList
  <2>4. QED BY <1>1, <2>1, <2>2, <2>3
<1>7. QED BY <1>2, <1>3, <1>4, <1>5, <1>6, StepCases

LEMMA RestInit == KeyedInit => ExactInv /\ RestInv
<1> SUFFICES ASSUME KeyedInit PROVE ExactInv /\ RestInv OBVIOUS
<1>1. \A t \in Threads : sweep[t].phase = "off" BY DEF KeyedInit, NoSweep
<1>2. QED BY <1>1 DEF ExactInv, RestInv, ExactKnows, Sweeping

LEMMA RestClean ==
  ASSUME KeyedBase, Known, RestInv
  PROVE  SweptClean
<1> SUFFICES ASSUME NEW t \in Threads, SweepDone(t), NEW i \in DOMAIN vectorOfKeys[t],
                    NEW k, k = vectorOfKeys[t][i], NEW w \in {0, 1}, Holds(Home(w, k), k)
             PROVE  heap[table[Home(w, k)].node].val \notin Matches
  BY DEF SweptClean
<1>1. vectorOfKeys[t] \in Seq(Keys) BY DEF KeyedBase, KeyedTypeOK
<1>2. k \in Keys BY <1>1
<1>3. OnList(t, k) BY DEF OnList
<1>4. Sweeping(t) /\ sweep[t].keys = <<>> BY DEF SweepDone, Sweeping
<1>5. ~ToCome(t, k) BY <1>4 DEF ToCome
<1>6. Refused(k) BY <1>2, <1>3, <1>4, <1>5 DEF RestInv
<1>7. PICK n : n = table[Home(w, k)].node OBVIOUS
<1>8. n # NULL /\ Stands(k, n) BY <1>7 DEF Holds, Stands
<1>9. EntryOf(k) = n BY <1>2, <1>8, EntryIs DEF Known, KeyInv
<1>10. QED BY <1>6, <1>7, <1>8, <1>9 DEF Refused

OneWriterInv ==
  KeyedBase /\ Known /\ ListInv /\ SweepInv /\ LiveInv /\ ExactInv /\ RestInv

LEMMA OneWriterNext ==
  ASSUME OneKeyedWriter, OneWriterInv, [KeyedNext]_keyedVars
  PROVE  OneWriterInv'
<1>0. KeyedBase /\ Known /\ ListInv /\ SweepInv /\ LiveInv /\ ExactInv /\ RestInv
  BY DEF OneWriterInv
<1>1. PICK a \in Threads : Alone(a) BY DEF OneKeyedWriter, Alone
<1>2. Orderly /\ OneSweeper BY <1>0, <1>1, AloneOrderly
<1>3. KeyedBase' BY <1>0, BaseStep
<1>4. Known' BY <1>0, <1>2, <1>3, KnownNext
<1>5. ListInv' BY <1>0, <1>2, <1>3, <1>4, ListNext
<1>6. SweepInv' /\ LiveInv' BY <1>0, <1>2, <1>3, <1>4, SweepNext
<1>7. ExactInv' BY <1>0, <1>1, <1>2, <1>3, <1>4, ExactNext
<1>8. RestInv' BY <1>0, <1>1, <1>2, <1>3, <1>4, RestNext
<1>9. QED BY <1>3, <1>4, <1>5, <1>6, <1>7, <1>8 DEF OneWriterInv

(* When one thread makes all the inserts, removes and sweeps, and the rest *)
(* search, whatever the keys, the hashes and the number of threads: every  *)
(* entry is listed, removeIf removes only what its callback accepts, reads *)
(* no deleted value, and returns only when every entry that the callback   *)
(* accepts is gone (lines 175-260).                                        *)
THEOREM OneKeyedWriterIsSafe ==
  ASSUME OneKeyedWriter
  PROVE  KeyedSpec => [](EntriesListed /\ SweptClean /\ SweepRemovesMatching /\ CallbackReadsLive)
<1>1. KeyedInit => OneWriterInv
  BY BaseInit, KnownInit, ListInit, SweepInit, RestInit DEF OneWriterInv
<1>2. OneWriterInv /\ [KeyedNext]_keyedVars => OneWriterInv' BY OneWriterNext
<1>3. OneWriterInv => EntriesListed /\ SweptClean /\ SweepRemovesMatching /\ CallbackReadsLive
  BY ListedEntries, RestClean, SweepMatches, LiveCallback DEF OneWriterInv
<1>4. QED BY <1>1, <1>2, <1>3, PTL DEF KeyedSpec

=============================================================================
