-------------------------- MODULE HashTableHistory ---------------------------
(***************************************************************************)
(* LockfreeHashTable with a history variable, and the mapping under which  *)
(* it implements ConcurrentMap.  `window` records what the table held for  *)
(* the key of each call since the call began; it reads the table and never *)
(* influences it.                                                          *)
(***************************************************************************)
EXTENDS HashTableInvariants

CONSTANT None   \* no value

ASSUME NoneAssumption == None \notin Vals

VARIABLE window

(* The value of a key is the one in its first home, else its second.       *)
View(k) == IF Holds(Home(0, k), k) THEN heap[table[Home(0, k)].node].val
           ELSE IF Holds(Home(1, k), k) THEN heap[table[Home(1, k)].node].val
           ELSE None

(* The second home loses k while the first one still has it: a call that   *)
(* looked at the first home before the copy was made there finds neither.  *)
LeavesSecondHome(k) == Holds(Home(1, k), k) /\ ~Holds(Home(1, k), k)' /\ Present(k)'

HistoryInit == Init /\ window = [t \in Threads |-> {}]

HistoryNext ==
  /\ Next
  /\ window' = [t \in Threads |->
       CASE pc'[t] = "idle" -> {}
         [] pc[t] = "idle" /\ pc'[t] # "idle" -> {View(call'[t].key)}
         [] OTHER -> window[t] \cup {View(call[t].key)'}
                       \cup {None : k \in {j \in {call[t].key} : LeavesSecondHome(j)}}]

HistorySpec == HistoryInit /\ [][HistoryNext]_<<vars, window>>

HistoryFairSpec == HistorySpec /\ \A t \in Threads : WF_vars(Step(t))

status == [t \in Threads |-> CASE pc[t] = "idle"   -> "idle"
                               [] pc[t] = "retire" -> "done"
                               [] OTHER            -> "pending"]

Abstract == INSTANCE ConcurrentMap WITH
  map <- [k \in Keys |-> View(k)], reply <- out,
  Preloaded <- [k \in Keys |->
     IF \E i \in 1 .. Len(Preload) : Preload[i].key = k
     THEN Preload[CHOOSE i \in 1 .. Len(Preload) : Preload[i].key = k].val
     ELSE None]

(* Every step of the table is a step of the map it promises, or none.      *)
ImplementsMap == Abstract!Spec

-----------------------------------------------------------------------------
(* What a call may answer.  The counters of search play no part in it: a   *)
(* key that was not in its first home when a search looked there has been  *)
(* absent since the call began, or has stood in the second home, and may   *)
(* leave that one as LeavesSecondHome says.                                *)
SearchWitness(t) ==
  /\ (pc[t] \in {"search.check", "search.key"} /\ Matched(t, side[t])) =>
        heap[get_pointer(ptr[t][side[t]])].val \in window[t]
  /\ pc[t] = "search.next" => ~Matched(t, side[t])
  /\ (pc[t] \in {"search.check", "search.key", "search.next"} /\ ~Matched(t, side[t])) =>
        None \in window[t] \/ (side[t] = 0 /\ There(t, 1))
  /\ pc[t] = "search.recount" => None \in window[t]

WindowInv ==
  /\ window \in [Threads -> SUBSET (Vals \cup {None})]
  /\ \A t \in Threads :
       IF pc[t] = "idle" THEN window[t] = {}
       ELSE View(call[t].key) \in window[t] /\ SearchWitness(t)

(* The invariant behind the refinement, as long as writes are orderly.     *)
OrderlyInv == KeyInv /\ EffectInv /\ WindowInv
=============================================================================
