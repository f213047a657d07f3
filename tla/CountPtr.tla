------------------------------ MODULE CountPtr ------------------------------
(***************************************************************************)
(* The packed table word of the hash table (Count_ptr): 48 bits of node    *)
(* address whose lowest bit is the relocation mark, and a 16-bit           *)
(* relocation counter above them.  A word is a record of the three parts;  *)
(* nodes are numbered from 1 and 0 is the null pointer.                    *)
(***************************************************************************)
EXTENDS Naturals

CONSTANT CounterMod      \* number of values of the counter: 2^16 in the code

ASSUME CounterModAssumption == CounterMod \in Nat \ {0}

NULL == 0

Word == [node : Nat, mark : BOOLEAN, cnt : 0 .. CounterMod - 1]

(* The count argument is a uint16_t: a larger int is truncated.  Every     *)
(* caller passes an address whose mark bit is clear.                       *)
make_pointer(e, count) ==
  [node |-> e, mark |-> FALSE, cnt |-> count % CounterMod]

get_pointer(w) == w.node
get_counter(w) == w.cnt
get_marked(w)  == w.mark
set_marked(w)  == [w EXCEPT !.mark = TRUE]

(* The value-initialised array element `new Count_ptr[n]()`.               *)
EmptyWord == make_pointer(NULL, 0)

(* Mutant: without the margins of two and three relocations.               *)
check_counter_lax(ts1, ts2, ts1x, ts2x) == ts1x >= ts1 /\ ts2x >= ts2

(* Did both slots see relocations between two rounds of reading?           *)
check_counter(ts1, ts2, ts1x, ts2x) ==
  /\ ts1x >= ts1 + 2
  /\ ts2x >= ts2 + 2
  /\ ts2x >= ts1 + 3
=============================================================================
