------------------------- MODULE HashTableInvariants -------------------------
(***************************************************************************)
(* The inductive invariants behind the theorems of LockfreeHashTable_types,*)
(* _slots and _writers: what each thread knows, at each point of the code, *)
(* of words it read earlier and that others may have changed since.        *)
(***************************************************************************)
EXTENDS LockfreeHashTable

-----------------------------------------------------------------------------
(* What each program point knows of its own frame, beyond the types: the   *)
(* nodes it is about to read through and the index it is about to use.     *)
Control == \A t \in Threads :
  /\ pc[t] = "search.key" => get_pointer(ptr[t][side[t]]) # NULL
  /\ pc[t] = "path.key" => get_pointer(rel[t].ptr1) # NULL
  /\ pc[t] \in {"move.reread", "move.dest"} => rel[t].i > 0
  /\ (pc[t] \in HelpLabels /\ hlp[t].ret = "move.reread") => rel[t].i > 0

TypeInv == TypeOK /\ Control

-----------------------------------------------------------------------------
(* Entries are at home.  A node may stand in slot s, or be about to be     *)
(* written to it, only if s is one of the homes of its key.                *)

Rightful(n, s) == n # NULL => n <= nalloc /\ s = Home(s[1], heap[n].key)

EntriesHome == \A s \in Slots : Rightful(table[s].node, s)

(* Both the word a helper holds and the src it may have kept from an       *)
(* earlier word of that slot: line 360 writes src, not the node of ptr1.   *)
FramesHome == \A t \in Threads :
  Rightful(hlp[t].ptr1.node, hlp[t].slot) /\ Rightful(hlp[t].src, hlp[t].slot)

(* While insert runs, its node holds its key.                              *)
OwnNode == \A t \in Threads :
  /\ pc[t] = "insert" => call[t].op = "insert"
  /\ (pc[t] # "idle" /\ call[t].op = "insert") =>
        new[t] \in 1 .. nalloc /\ heap[new[t]].key = call[t].key

HomeInv == EntriesHome /\ FramesHome /\ OwnNode

-----------------------------------------------------------------------------
(* Claimed words.  As long as no counter wraps around, a claimed word is   *)
(* changed only by the helpers of that relocation.                         *)

NoWrap == \A s \in Slots : table[s].cnt < CounterMod - 1

Claimed(w) == w.node # NULL /\ w.mark
Clean(w)   == ~Claimed(w)

(* The words that find hands to insert, remove and del_dup for their CAS   *)
(* were not claimed when they were read.                                   *)
CleanFind(t) ==
  /\ pc[t] \in {"find.key", "find.next"} => Clean(ptr[t][side[t]])
  /\ (pc[t] \in {"find.check", "find.key", "find.next"} /\ side[t] = 1) => Clean(ptr[t][0])
  /\ pc[t] \in {"del_dup", "del_dup.second", "del_dup.cas", "remove.second"} =>
        Clean(ptr[t][1])
  /\ pc[t] \in {"del_dup", "del_dup.second", "del_dup.cas"} => Clean(ptr[t][0])
  /\ (pc[t] = "remove" /\ result[t] = "FIRST") => Clean(ptr[t][0])
  /\ (pc[t] = "remove" /\ result[t] = "SECOND") => Clean(ptr[t][1])

Claiming == {"help.dest", "help.checkdest", "help.stable", "help.copy", "help.clear",
             "help.unmark"}

(* A helper past line 325 works for a marked word; it copies only over an  *)
(* empty destination.                                                      *)
HelperKnows(t) ==
  /\ pc[t] \in Claiming => hlp[t].ptr1.mark
  /\ pc[t] = "help.mark" => ~hlp[t].ptr1.mark
  /\ pc[t] \in {"help.stable", "help.copy"} => hlp[t].ptr2.node = NULL

(* The slot a helper works on has moved past a word it holds, or still     *)
(* holds it if that word was claimed.  If src is not the node of that word *)
(* the slot has moved on, so that the CAS of line 360 must fail.           *)
SlotMovedOn(t) ==
  LET now == table[hlp[t].slot]
      was == hlp[t].ptr1 IN
  /\ was.cnt <= now.cnt
  /\ Claimed(was) => now = was \/ was.cnt < now.cnt
  /\ pc[t] = "help.check" => hlp[t].src = was.node
  /\ (pc[t] \in Claiming /\ was.node # NULL /\ hlp[t].src # was.node) => was.cnt < now.cnt

ClaimInv == \A t \in Threads : CleanFind(t) /\ HelperKnows(t) /\ SlotMovedOn(t)
-----------------------------------------------------------------------------
(* Whose nodes they are.  Between allocation and placing, and between      *)
(* unlinking and retiring, a node is in the hands of one thread.           *)

Writing(t) == pc[t] # "idle" /\ call[t].op # "search"

(* While a thread moves an entry nobody else inserts or removes.  Searches *)
(* go on, and as long as nothing moves writers may race as they like.      *)
MovesAlone == \A t, u \in Threads : (pc[t] \in HelpLabels /\ u # t) => ~Writing(u)

(* Who is in which function, and what for.                                 *)
Role(t) ==
  /\ (pc[t] # "idle" /\ call[t].op = "search") <=> pc[t] \in SearchLabels
  /\ pc[t] \in {"insert"} \cup PathLabels \cup MoveLabels => call[t].op = "insert"
  /\ pc[t] \in {"remove", "remove.second", "retire"} => call[t].op = "remove"
  /\ pc[t] = "remove.second" => result[t] = "SECOND"
  /\ pc[t] \in SearchLabels \cup {"idle"} => result[t] = "unset"
  /\ pc[t] \in HelpLabels =>
        hlp[t].ret # "idle" /\ (hlp[t].ret # "find.read" => call[t].op = "insert")

Moving == {"help.remark", "help.recheck"} \cup Claiming

(* Nobody interferes with a mover: the words it has read are still there.  *)
MoverKnows(t) ==
  LET now == table[hlp[t].slot] IN
  /\ pc[t] \in HelpLabels \ {"help.read", "help.remark"} => hlp[t].ptr1 = now
  /\ pc[t] \in HelpLabels \ {"help.read"} => hlp[t].src = now.node
  /\ pc[t] \in Moving => now.mark
  /\ pc[t] \in Moving \cup {"help.mark"} => now.node # NULL
  /\ pc[t] \in {"help.checkdest", "help.stable", "help.copy"} =>
        hlp[t].ptr2 = table[HelpDestSlot(t)]
  /\ pc[t] \in {"help.stable", "help.copy"} => hlp[t].ptr2.node = NULL
  /\ pc[t] = "help.clear" => table[HelpDestSlot(t)].node = now.node

(* Every mark is a mover's.                                                *)
Marks == \A s \in Slots :
  table[s].mark => \E t \in Threads : pc[t] \in Moving /\ hlp[t].slot = s

(* The two homes of an entry that has been copied and not yet cleared.     *)
Copied(r, s) == \E t \in Threads :
  /\ pc[t] = "help.clear"
  /\ \/ r = hlp[t].slot /\ s = HelpDestSlot(t)
     \/ s = hlp[t].slot /\ r = HelpDestSlot(t)

NodeOnce == \A r, s \in Slots :
  (table[r].node # NULL /\ table[r].node = table[s].node) => r = s \/ Copied(r, s)

InHand(t) == IF pc[t] = "retire" THEN RemovedNode(t)
             ELSE IF pc[t] # "idle" /\ call[t].op = "insert" THEN new[t]
             ELSE NULL

HandsApart == \A t \in Threads : InHand(t) # NULL =>
  /\ InHand(t) \in 1 .. nalloc /\ InHand(t) \notin Retired
  /\ \A s \in Slots : table[s].node # InHand(t)
  /\ \A u \in Threads \ {t} : InHand(u) # InHand(t)

NodesKnown ==
  /\ Retired \subseteq 1 .. nalloc
  /\ \A t \in Threads : \A w \in {0, 1} : ptr[t][w].node \in 0 .. nalloc

OwnerInv ==
  /\ \A t \in Threads : Role(t) /\ MoverKnows(t)
  /\ Marks /\ NodeOnce /\ HandsApart /\ NodesKnown /\ RetiredStaysOut

-----------------------------------------------------------------------------
(* Keys.  Writers of different keys may still race for the same slots.     *)

WritesApart == \A t, u \in Threads :
  (Writing(t) /\ Writing(u) /\ call[t].key = call[u].key) => t = u

Orderly == MovesAlone /\ WritesApart

(* One thread makes all the inserts and removes: then writes are orderly.  *)
OneWriter == \A k, j \in Keys : \A t \in Writers(k), u \in Writers(j) : t = u

(* Does home w hold t's key?  Does the word that t read from it?           *)
There(t, w)   == Holds(MyHome(t, w), call[t].key)
Matched(t, w) == /\ get_pointer(ptr[t][w]) # NULL
                 /\ heap[get_pointer(ptr[t][w])].key = call[t].key

(* Nobody else writes t's key: what t has read of it is as it was.         *)
Sees(t, w) ==
  /\ There(t, w) <=> Matched(t, w)
  /\ There(t, w) => ptr[t][w] = table[MyHome(t, w)]

Comparing == {"find.check", "find.key", "find.next"}

FindKnows(t) ==
  /\ pc[t] \notin {"del_dup", "del_dup.second", "del_dup.cas"}
  /\ (result[t] = "FIRST" /\ pc[t] # "retire") => There(t, 0)
  /\ pc[t] \in FindLabels => result[t] \in {"unset", "FIRST"}
  /\ pc[t] \in Comparing => Sees(t, side[t])
  /\ (pc[t] \in Comparing /\ side[t] = 1) =>
        Sees(t, 0) /\ (There(t, 0) => result[t] = "FIRST")
  /\ pc[t] = "find.check" => ~get_marked(ptr[t][side[t]])
  /\ pc[t] = "find.key" => get_pointer(ptr[t][side[t]]) # NULL
  /\ pc[t] = "find.next" =>
        IF side[t] = 0 THEN There(t, 0) => result[t] = "FIRST" ELSE ~There(t, 1)
  /\ pc[t] = "find.recount" => ~There(t, 0) /\ ~There(t, 1) /\ ~Matched(t, 0)

(* What find has found is so until its caller acts on it.                  *)
CallerKnows(t) ==
  pc[t] \in {"insert", "remove", "remove.second"} =>
    /\ Sees(t, 0) /\ Sees(t, 1)
    /\ CASE result[t] = "FIRST"  -> There(t, 0)
         [] result[t] = "SECOND" -> There(t, 1) /\ ~There(t, 0)
         [] result[t] = "NIL"    -> ~There(t, 0) /\ ~There(t, 1)
         [] OTHER                -> FALSE

(* To make room is to make it for a key that has no entry.                 *)
RelocateKnows(t) ==
  pc[t] \in PathLabels \cup MoveLabels \cup HelpLabels =>
    /\ call[t].op = "insert" /\ ~There(t, 0) /\ ~There(t, 1)
    /\ pc[t] \in HelpLabels => hlp[t].ret # "find.read"

KeyInv ==
  /\ OneEntryPerKey /\ RemovesOwnKey /\ NoNullDereference
  /\ \A t \in Threads : Writing(t) => FindKnows(t) /\ CallerKnows(t) /\ RelocateKnows(t)

(* The node in which a search of k would find it.                          *)
EntryOf(k) == IF Holds(Home(0, k), k) THEN table[Home(0, k)].node
            ELSE IF Holds(Home(1, k), k) THEN table[Home(1, k)].node
            ELSE NULL

(* While insert runs, its node holds its value.                            *)
OwnValue == \A t \in Threads :
  (pc[t] # "idle" /\ call[t].op = "insert") => heap[new[t]].val = call[t].val

(* Calls are what they were asked to be, and what insert stored is there   *)
(* until somebody writes the key again.                                    *)
EffectInv ==
  /\ OwnValue
  /\ \A t \in Threads :
       /\ pc[t] # "idle" => call[t] \in Calls[t]
       /\ (pc[t] = "idle" /\ out[t].kind = "stored" /\ Writers(call[t].key) = {t}) =>
             /\ EntryOf(call[t].key) # NULL
             /\ heap[EntryOf(call[t].key)].val = out[t].val

-----------------------------------------------------------------------------
(* Workloads in which nothing ever moves: a key that is inserted shares its*)
(* first home with no other key, and one thread inserts it.                *)

EntryKeys == Preloaded \cup {k \in Keys : \E t \in Threads : \E c \in Calls[t] :
                                            c.op = "insert" /\ c.key = k}

FirstHomesOwn == \A t \in Threads : \A c \in Calls[t] : c.op = "insert" =>
  /\ \A k \in EntryKeys : hash1[k] = hash1[c.key] => k = c.key
  /\ \A u \in Threads : \A d \in Calls[u] : (d.op = "insert" /\ d.key = c.key) => u = t

(* An insert that has not found its key where it was to be found first.    *)
Missed(t) ==
  /\ call[t].op = "insert"
  /\ \/ pc[t] \in {"find.check", "find.key"} /\ side[t] = 1 /\ result[t] # "FIRST"
     \/ pc[t] = "find.next" /\ result[t] # "FIRST"
     \/ pc[t] = "find.recount"
     \/ pc[t] = "insert" /\ result[t] = "NIL"

(* It will find that home vacant, and need not make room.                  *)
StillInv ==
  /\ \A s \in Slots : ~table[s].mark
  /\ \A n \in 1 .. nalloc : heap[n].key \in EntryKeys
  /\ \A t \in Threads :
       /\ pc[t] \notin PathLabels \cup MoveLabels \cup HelpLabels
       /\ pc[t] = "find.check" => ~ptr[t][side[t]].mark
       /\ pc[t] = "find.key" => ptr[t][side[t]].node # NULL
       /\ pc[t] \in {"del_dup", "del_dup.second", "del_dup.cas"} => result[t] = "FIRST"
       /\ (pc[t] \in {"find.check", "find.key"} /\ side[t] = 0) =>
             Rightful(ptr[t][0].node, MyHome(t, 0))
       /\ Missed(t) => table[MyHome(t, 0)].node = NULL /\ ptr[t][0].node = NULL

=============================================================================
