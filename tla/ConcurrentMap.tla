---------------------------- MODULE ConcurrentMap ----------------------------
(***************************************************************************)
(* What the lock-free hash table owes its callers: a map shared by threads *)
(* whose inserts and removes take effect at one moment of the call, and    *)
(* whose searches answer with what the map held at some moment of the call.*)
(* Two liberties of the code are part of it: an insert of an absent key may*)
(* be dropped, and an entry that changes its home may look absent to calls *)
(* under way.                                                              *)
(***************************************************************************)
CONSTANTS Threads, Keys, Vals, Calls,
          Preloaded,   \* the map at the start
          None         \* what the map holds for an absent key

VARIABLES
  map,      \* the value of each key, or None
  status,   \* "idle", "pending" (called) or "done" (took effect)
  call,     \* the current or last call of each thread
  reply,    \* its answer
  window    \* what the map held for the call's key since the call began

vars == <<map, status, call, reply, window>>

Init ==
  /\ map = Preloaded
  /\ status = [t \in Threads |-> "idle"]
  /\ call \in [Threads -> [op : {"search"}, key : Keys, val : Vals]]
  /\ reply \in [Threads -> [kind : {"none"}, val : Vals]]
  /\ window = [t \in Threads |-> {}]

(* The calls under way on key k may now answer as of a moment when it was v*)
Witness(k, v, others) ==
  window' = [t \in Threads |->
    IF t \notin others THEN {}
    ELSE IF status[t] # "idle" /\ call[t].key = k THEN window[t] \cup {v}
    ELSE window[t]]

Answer(t, kind, v) ==
  /\ status' = [status EXCEPT ![t] = "idle"]
  /\ reply' = [reply EXCEPT ![t] = [kind |-> kind, val |-> v]]
  /\ UNCHANGED call

Pending(t, op) == status[t] = "pending" /\ call[t].op = op

Invoke(t) == \E c \in Calls[t] :
  /\ status[t] = "idle"
  /\ status' = [status EXCEPT ![t] = "pending"]
  /\ call' = [call EXCEPT ![t] = c]
  /\ reply' = [reply EXCEPT ![t] = [kind |-> "none", val |-> c.val]]
  /\ window' = [window EXCEPT ![t] = {map[c.key]}]
  /\ UNCHANGED map

Search(t) == \E v \in window[t] :
  /\ Pending(t, "search")
  /\ IF v = None THEN Answer(t, "missing", call[t].val) ELSE Answer(t, "found", v)
  /\ window' = [window EXCEPT ![t] = {}]
  /\ UNCHANGED map

Insert(t) ==
  /\ Pending(t, "insert")
  /\ map' = [map EXCEPT ![call[t].key] = call[t].val]
  /\ Answer(t, "stored", call[t].val)
  /\ Witness(call[t].key, call[t].val, Threads \ {t})

Drop(t) ==
  /\ Pending(t, "insert") /\ None \in window[t]
  /\ Answer(t, "dropped", call[t].val)
  /\ window' = [window EXCEPT ![t] = {}]
  /\ UNCHANGED map

Remove(t) ==
  /\ Pending(t, "remove") /\ map[call[t].key] # None
  /\ map' = [map EXCEPT ![call[t].key] = None]
  /\ status' = [status EXCEPT ![t] = "done"]
  /\ Witness(call[t].key, None, Threads)
  /\ UNCHANGED <<call, reply>>

RemoveReturn(t) ==
  /\ status[t] = "done"
  /\ Answer(t, "erased", call[t].val)
  /\ window' = [window EXCEPT ![t] = {}]
  /\ UNCHANGED map

RemoveAbsent(t) ==
  /\ Pending(t, "remove") /\ None \in window[t]
  /\ Answer(t, "absent", call[t].val)
  /\ window' = [window EXCEPT ![t] = {}]
  /\ UNCHANGED map

(* The entry of k changes its home.                                        *)
Move(k) ==
  /\ map[k] # None
  /\ Witness(k, None, Threads)
  /\ UNCHANGED <<map, status, call, reply>>

Next ==
  \/ \E t \in Threads : \/ Invoke(t) \/ Search(t) \/ Insert(t) \/ Drop(t)
                        \/ Remove(t) \/ RemoveReturn(t) \/ RemoveAbsent(t)
  \/ \E k \in Keys : Move(k)

Spec == Init /\ [][Next]_vars
=============================================================================
