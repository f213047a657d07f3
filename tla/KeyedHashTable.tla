--------------------------- MODULE KeyedHashTable ----------------------------
(***************************************************************************)
(* LockfreeHashTableTemplated (modules/include/                            *)
(* lockfree_hash_table_templated.h): the algorithm of LockfreeHashTable    *)
(* line by line, over keys of any type, with one list per tid of the keys  *)
(* that its inserts stored (vectorOfKeys) and removeIf, which goes through *)
(* a copy of that list and removes the entries whose value a callback      *)
(* accepts.                                                                *)
(*                                                                         *)
(* The lists are plain vectors.  Every thread changes its own, except that *)
(* a dropped insert is listed with tid 0 whoever made it.  When two threads*)
(* are changing the same vector one of the changes may be lost.            *)
(***************************************************************************)
EXTENDS HashTableInvariants

CONSTANTS
  First,      \* the thread with tid 0; it made the preloaded entries
  Sweeps,     \* bound: how many times each thread calls removeIf
  Matches     \* the values the callback of removeIf accepts

Seqs == INSTANCE SequencesExt

ASSUME SweepAssumption ==
  First \in Threads /\ Sweeps \in [Threads -> Nat] /\ Matches \subseteq Vals

VARIABLES
  vectorOfKeys,   \* the list of each tid
  owed,           \* the change of a list that a finished call still has to make
  sweep,          \* removeIf's frame
  sweeps,         \* how often each thread may still call removeIf
  unlisted        \* history: the keys of the pushes lost so far

keyed     == <<vectorOfKeys, owed, sweep, sweeps, unlisted>>
keyedVars == <<vars, keyed>>

(* next: at the head of the loop; searching, removing: inside that call.   *)
NoSweep == [phase |-> "off", keys |-> <<>>, node |-> NULL]
Sweeping(t) == sweep[t].phase # "off"

KeyedInit ==
  /\ Init
  /\ vectorOfKeys = [t \in Threads |->
       IF t = First THEN [i \in 1 .. Len(Preload) |-> Preload[i].key] ELSE <<>>]
  /\ owed = [t \in Threads |-> "none"]
  /\ sweep = [t \in Threads |-> NoSweep]
  /\ sweeps = Sweeps
  /\ unlisted = {}

Owe(t, change) == owed' = [owed EXCEPT ![t] = change]

-----------------------------------------------------------------------------
(* The calls of the table.                                                 *)

KeyedInvoke(t) ==
  /\ owed[t] = "none" /\ ~Sweeping(t)
  /\ Invoke(t)
  /\ UNCHANGED keyed

(* search returns a reference to the value, so removeIf keeps the node.    *)
KeyedSearch(t) ==
  /\ Search(t)
  /\ sweep' = [sweep EXCEPT ![t].node =
                 IF pc[t] = "search.key" /\ Sweeping(t)
                 THEN get_pointer(ptr[t][side[t]]) ELSE @]
  /\ UNCHANGED <<vectorOfKeys, owed, sweeps, unlisted>>

KeyedFind(t) == Find(t) /\ UNCHANGED keyed

(* Every return of insert is preceded by a push_back: to the caller's list,*)
(* or to list 0 when the insert was dropped.                               *)
KeyedInsert(t) ==
  /\ Insert(t)
  /\ Owe(t, CASE pc'[t] # "idle"       -> "none"
              [] pc[t] = "path.key"    -> "push to list 0"
              [] OTHER                 -> "push")
  /\ UNCHANGED <<vectorOfKeys, sweep, sweeps, unlisted>>

KeyedRemove(t) == pc[t] # "retire" /\ Remove(t) /\ UNCHANGED keyed

(* remove unlists the key after it has retired the node.                   *)
KeyedRetire(t) ==
  /\ Retire(t)
  /\ Owe(t, "erase")
  /\ UNCHANGED <<vectorOfKeys, sweep, sweeps, unlisted>>

KeyedRelocate(t) == Relocate(t) /\ UNCHANGED keyed

KeyedHelp(t) == Help(t) /\ UNCHANGED keyed

-----------------------------------------------------------------------------
(* The lists.                                                              *)

ListOf(t) == IF owed[t] = "push to list 0" THEN First ELSE t

(* Another thread is changing the same vector.                             *)
Racing(t) == \E u \in Threads \ {t} : owed[u] # "none" /\ ListOf(u) = ListOf(t)

(* Mutant: the first key of the list goes, whatever it is.                 *)
removeKeyFromVector_front(keys, k) == IF keys = <<>> THEN keys ELSE Tail(keys)

(* One occurrence of the key goes, the first one.                          *)
removeKeyFromVector(keys, k) == Seqs!RemoveFirst(keys, k)

ChangeList(t) ==
  /\ owed[t] # "none"
  /\ \/ vectorOfKeys' = [vectorOfKeys EXCEPT ![ListOf(t)] =
           IF owed[t] = "erase" THEN removeKeyFromVector(@, call[t].key)
                                ELSE Append(@, call[t].key)]
        /\ UNCHANGED unlisted
     \/ /\ Racing(t) /\ UNCHANGED vectorOfKeys
        /\ unlisted' = unlisted \cup (IF owed[t] = "erase" THEN {} ELSE {call[t].key})
  /\ Owe(t, "none")
  /\ UNCHANGED <<vars, sweep, sweeps>>

-----------------------------------------------------------------------------
(* removeIf.                                                               *)

(* The list is copied in one step: the push of a dropped insert, which may *)
(* be onto another thread's list (line 208), comes before it or after it.  *)
StartSweep(t) ==
  /\ pc[t] = "idle" /\ owed[t] = "none" /\ ~Sweeping(t) /\ sweeps[t] > 0
  /\ sweep' = [sweep EXCEPT ![t] = [NoSweep EXCEPT !.phase = "next",
                                                   !.keys  = vectorOfKeys[t]]]
  /\ sweeps' = [sweeps EXCEPT ![t] = @ - 1]
  /\ UNCHANGED <<vars, vectorOfKeys, owed, unlisted>>

(* removeIf calls search or remove with the key it has come to.            *)
Nested(t, op, label) ==
  /\ call' = [call EXCEPT ![t].op = op, ![t].key = Head(sweep[t].keys)]
  /\ out'  = [out EXCEPT ![t] = Outcome("none", call[t].val)]
  /\ Goto(t, label)
  /\ UNCHANGED <<shared, gc, left, new, probe, rel, hlp,
                 vectorOfKeys, owed, sweeps, unlisted>>

SweepSearch(t) ==
  /\ sweep[t].phase = "next" /\ sweep[t].keys # <<>>
  /\ sweep' = [sweep EXCEPT ![t].phase = "searching"]
  /\ Nested(t, "search", "search.read")

Found(t) == sweep[t].phase = "searching" /\ pc[t] = "idle" /\ out[t].kind = "found"

(* Mutant: the callback is not asked.                                      *)
SweepRemove_any(t) ==
  /\ Found(t)
  /\ sweep' = [sweep EXCEPT ![t].phase = "removing"]
  /\ Nested(t, "remove", "find.read")

(* The callback reads the value through the reference, and accepts it.     *)
SweepRemove(t) ==
  /\ Found(t) /\ heap[sweep[t].node].val \in Matches
  /\ sweep' = [sweep EXCEPT ![t].phase = "removing"]
  /\ Nested(t, "remove", "find.read")

(* Mutant: goes over the list itself, which the remove has shortened.      *)
SweepAdvance_skips(t) ==
  /\ pc[t] = "idle" /\ owed[t] = "none"
  /\ \/ sweep[t].phase = "searching"
        /\ (Found(t) => heap[sweep[t].node].val \notin Matches)
     \/ sweep[t].phase = "removing"
  /\ sweep' = [sweep EXCEPT ![t].phase = "next", ![t].node = NULL, ![t].keys =
                 IF sweep[t].phase = "removing" /\ Len(@) > 1 THEN Tail(Tail(@)) ELSE Tail(@)]
  /\ UNCHANGED <<vars, vectorOfKeys, owed, sweeps, unlisted>>

(* Mutant: goes on before the remove has unlisted the key.                 *)
SweepAdvance_early(t) ==
  /\ pc[t] = "idle"
  /\ \/ sweep[t].phase = "searching"
        /\ (Found(t) => heap[sweep[t].node].val \notin Matches)
     \/ sweep[t].phase = "removing"
  /\ sweep' = [sweep EXCEPT ![t].phase = "next", ![t].node = NULL, ![t].keys = Tail(@)]
  /\ UNCHANGED <<vars, vectorOfKeys, owed, sweeps, unlisted>>

(* Not found, refused by the callback, or removed: on to the next key.     *)
SweepAdvance(t) ==
  /\ pc[t] = "idle" /\ owed[t] = "none"
  /\ \/ sweep[t].phase = "searching"
        /\ (Found(t) => heap[sweep[t].node].val \notin Matches)
     \/ sweep[t].phase = "removing"
  /\ sweep' = [sweep EXCEPT ![t].phase = "next", ![t].node = NULL, ![t].keys = Tail(@)]
  /\ UNCHANGED <<vars, vectorOfKeys, owed, sweeps, unlisted>>

SweepDone(t) == sweep[t].phase = "next" /\ sweep[t].keys = <<>>

SweepReturn(t) ==
  /\ SweepDone(t)
  /\ sweep' = [sweep EXCEPT ![t] = NoSweep]
  /\ UNCHANGED <<vars, vectorOfKeys, owed, sweeps, unlisted>>

-----------------------------------------------------------------------------
KeyedStep(t) ==
  /\ ~Crashed
  /\ \/ KeyedSearch(t) \/ KeyedFind(t) \/ KeyedInsert(t) \/ KeyedRemove(t) \/ KeyedRetire(t)
     \/ KeyedRelocate(t) \/ KeyedHelp(t)
     \/ ChangeList(t)
     \/ SweepSearch(t) \/ SweepRemove(t) \/ SweepAdvance(t) \/ SweepReturn(t)

KeyedStopped ==
  /\ Crashed \/ \A t \in Threads : pc[t] = "idle" /\ owed[t] = "none" /\ ~Sweeping(t)
  /\ UNCHANGED keyedVars

KeyedNext ==
  \/ \E t \in Threads : KeyedStep(t) \/ (~Crashed /\ (KeyedInvoke(t) \/ StartSweep(t)))
  \/ KeyedStopped

KeyedSpec == KeyedInit /\ [][KeyedNext]_keyedVars

-----------------------------------------------------------------------------
(* What removeIf's frame, the call it is in and the change it owes have to *)
(* do with each other.                                                     *)
SweepControl(t) ==
  /\ owed[t] # "none" => pc[t] = "idle"
  /\ owed[t] \in {"push", "push to list 0"} => ~Sweeping(t) /\ call[t].op = "insert"
  /\ owed[t] = "erase" => call[t].op = "remove"
  /\ sweep[t].phase = "next" => pc[t] = "idle" /\ owed[t] = "none"
  /\ sweep[t].phase = "searching" => call[t].op = "search" /\ owed[t] = "none"
  /\ sweep[t].phase = "removing" => call[t].op = "remove"
  /\ sweep[t].phase \in {"searching", "removing"} =>
        sweep[t].keys # <<>> /\ call[t].key = Head(sweep[t].keys)
  /\ Sweeping(t) => Sweeps[t] > 0
  /\ ((pc[t] # "idle" \/ owed[t] # "none") /\ ~Sweeping(t)) => call[t] \in Calls[t]

(* Every variable has its type, and removeIf is never inside two calls: it *)
(* goes on when its search or remove has returned, lists included.         *)
KeyedTypeOK ==
  /\ vectorOfKeys \in [Threads -> Seq(Keys)]
  /\ owed \in [Threads -> {"none", "push", "push to list 0", "erase"}]
  /\ sweep \in [Threads -> [phase : {"off", "next", "searching", "removing"},
                            keys : Seq(Keys), node : 0 .. MaxNodes]]
  /\ sweeps \in [Threads -> Nat] /\ \A t \in Threads : sweeps[t] <= Sweeps[t]
  /\ unlisted \subseteq Keys
  /\ \A t \in Threads : SweepControl(t)

Listed(k) == \E t \in Threads :
  \/ \E i \in DOMAIN vectorOfKeys[t] : vectorOfKeys[t][i] = k
  \/ owed[t] \in {"push", "push to list 0"} /\ call[t].key = k

(* Between them, sweeps of all the tids come to every entry of the table:  *)
(* no interleaving of inserts, updates and removes of a key by several     *)
(* threads unlists it while it has an entry, except for a push that was    *)
(* lost because another thread was changing the same list (lines 175-208,  *)
(* 232-242).                                                               *)
EntriesListed == \A k \in Keys : Present(k) => Listed(k) \/ k \in unlisted

(* The threads that may write key k.                                       *)
KeyWriters(k) == Writers(k) \cup {t \in Threads :
  \E i \in DOMAIN vectorOfKeys[t] : vectorOfKeys[t][i] = k /\ Sweeps[t] > 0}

(* When removeIf returns, no key of its list that only this thread writes  *)
(* has an entry the callback accepts (lines 249-260).                      *)
SweptClean == \A t \in Threads : SweepDone(t) =>
  \A i \in DOMAIN vectorOfKeys[t] :
    LET k == vectorOfKeys[t][i] IN
    KeyWriters(k) = {t} =>
      \A w \in {0, 1} : Holds(Home(w, k), k) =>
                          heap[table[Home(w, k)].node].val \notin Matches

(* removeIf removes only entries that the callback accepts, if no other    *)
(* thread updates them between the callback and the remove.                *)
SweepRemovesMatching == \A t \in Threads :
  (sweep[t].phase = "removing" /\ pc[t] = "retire" /\ Writers(call[t].key) \subseteq {t})
     => heap[RemovedNode(t)].val \in Matches

(* The value that the callback is handed by reference is still there: no   *)
(* scan has deleted the node that search found, if no other thread removes *)
(* its key, whoever moves the entry meanwhile (line 253).                  *)
CallbackReadsLive == \A t \in Threads :
  (Found(t) /\ Writers(call[t].key) \subseteq {t}) => sweep[t].node \notin freed
-----------------------------------------------------------------------------
(* The inductive invariants of the proofs, for writes that are orderly.    *)

OnList(t, k) == \E i \in DOMAIN vectorOfKeys[t] : vectorOfKeys[t][i] = k

(* Thread t has key k on its list, or is about to, and will not unlist it. *)
ListedBy(t, k) ==
  \/ owed[t] = "push" /\ call[t].key = k
  \/ OnList(t, k) /\ ~(owed[t] = "erase" /\ call[t].key = k)

(* Whoever stored the present entry keeps it listed; a key that is about to*)
(* be unlisted has none.                                                   *)
ListInv ==
  /\ \A k \in Keys : EntryOf(k) # NULL => k \in unlisted \/ \E t \in Threads : ListedBy(t, k)
  /\ \A t \in Threads : pc[t] = "retire" => EntryOf(call[t].key) = NULL

(* What removeIf's search has read of a key that matches.                  *)
Reads(t) ==
  /\ sweep[t].phase = "searching" /\ pc[t] \in {"search.check", "search.key"}
  /\ Matched(t, side[t])

(* If nobody else stores the key, the entry that search has found, that the*)
(* callback has accepted and that remove unlinks are one.                  *)
SweepKnows(t, k) ==
  /\ Reads(t) => EntryOf(k) \in {NULL, get_pointer(ptr[t][side[t]])}
  /\ Found(t) => EntryOf(k) \in {NULL, sweep[t].node}
  /\ (sweep[t].phase = "removing" /\ pc[t] \notin {"idle", "retire"} /\ EntryOf(k) # NULL) =>
        heap[EntryOf(k)].val \in Matches
  /\ (sweep[t].phase = "removing" /\ pc[t] = "retire") =>
        heap[RemovedNode(t)].val \in Matches

SweepInv == \A t \in Threads, k \in Keys :
  (call[t].key = k /\ Writers(k) \subseteq {t}) => SweepKnows(t, k)

(* And nobody else removes it, if one thread only calls removeIf.          *)
OneSweeper == \A t, u \in Threads : (Sweeps[t] > 0 /\ Sweeps[u] > 0) => t = u

LiveInv == \A t \in Threads, k \in Keys :
  (call[t].key = k /\ Writers(k) \subseteq {t} /\ (Reads(t) \/ Found(t))) => EntryOf(k) # NULL

(* One thread inserts, removes and sweeps; the others search.              *)
OneKeyedWriter == \E t \in Threads : \A u \in Threads \ {t} :
  Sweeps[u] = 0 /\ \A c \in Calls[u] : c.op = "search"

(* Then what its searches read is there, and what they do not find is not. *)
ExactKnows(t, k) ==
  /\ sweep[t].phase = "searching" =>
       /\ pc[t] \in {"search.check", "search.key"} =>
             /\ ptr[t][side[t]] = table[Home(side[t], k)]
             /\ side[t] = 1 => ~Holds(Home(0, k), k)
       /\ pc[t] = "search.next" => ~Holds(Home(0, k), k) /\ (side[t] = 1 => EntryOf(k) = NULL)
       /\ pc[t] = "search.recount" => EntryOf(k) = NULL
       /\ (pc[t] = "idle" /\ ~Found(t)) => EntryOf(k) = NULL
  /\ (sweep[t].phase = "removing" /\ pc[t] = "idle") => EntryOf(k) = NULL

ExactInv == \A t \in Threads, k \in Keys : call[t].key = k => ExactKnows(t, k)

(* An entry the callback would accept is on the rest of the sweep's list.  *)
Refused(k) == EntryOf(k) # NULL => heap[EntryOf(k)].val \notin Matches

ToCome(t, k) == \E i \in DOMAIN sweep[t].keys : sweep[t].keys[i] = k

RestInv == \A t \in Threads, k \in Keys :
  (Sweeping(t) /\ OnList(t, k)) => Refused(k) \/ ToCome(t, k)
=============================================================================
