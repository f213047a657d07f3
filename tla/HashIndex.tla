------------------------------ MODULE HashIndex ------------------------------
(***************************************************************************)
(* The two hash functions of the tables (lockfree_hash_table.cpp, hash1 and*)
(* hash2; the templated class applies the same ones to createHash(key)),   *)
(* and createHash of the tables of unsigned ints and of strings.           *)
(*                                                                         *)
(* An int is the set of its one bits, bit Width - 1 being the sign.  Signed*)
(* overflow is undefined in C++; sums and products are taken modulo        *)
(* 2^Width, which is what the builds compute.  >> of a negative int copies *)
(* the sign, and the remainder of a negative int is negative or zero.      *)
(***************************************************************************)
EXTENDS Integers, FiniteSetsExt

CONSTANTS
  Width,          \* bits of an int: 32
  SampleKeys,     \* the keys looked up: ints, or what std::hash makes of strings
  Capacities      \* the capacities tables are built with

Bits == 0 .. Width - 1
Int32 == SUBSET Bits

(* A size_t has twice the bits of an int.                                  *)
SizeT == SUBSET (0 .. 2 * Width - 1)

ASSUME WidthAssumption == Width \in Nat \ {0}
ASSUME KeysAssumption  == SampleKeys \subseteq SizeT
(* Below 2 the first array is empty and hash1 divides by zero.             *)
ASSUME CapacityAssumption == Capacities \subseteq Nat \ {0, 1}

Negative(x) == Width - 1 \in x

Xor(x, y) == (x \ y) \cup (y \ x)

ShiftLeft(x, n)  == {i \in Bits : i >= n /\ i - n \in x}
ShiftRight(x, n) == {i \in Bits : IF i + n < Width THEN i + n \in x ELSE Negative(x)}

Add(x, y) ==
  LET carry[i \in 0 .. Width] ==
        i > 0 /\ i - 1 \in (IF carry[i - 1] THEN x \cup y ELSE x \cap y)
  IN  {i \in Bits : (i \in Xor(x, y)) # carry[i]}

(* c is the set of the one bits of a constant.                             *)
Mul(x, c) == FoldSet(LAMBDA n, p : Add(p, ShiftLeft(x, n)), {}, c)

(* |x| modulo size, from the highest bit down.                             *)
Residue(x, size) ==
  LET r[i \in 0 .. Width] ==
        IF i = 0 THEN 0
        ELSE (2 * r[i - 1] + IF Width - i \in x THEN 1 ELSE 0) % size
  IN  r[Width]

Minus(x) == Add(Bits \ x, {0})
Rem(x, size) == IF Negative(x) THEN 0 - Residue(Minus(x), size) ELSE Residue(x, size)

C61       == {0, 2, 3, 4, 5}                                           \* 61
C2        == {0, 2, 3, 5, 8, 9, 11, 13, 14, 15, 18, 20, 22, 23, 24, 25, 26, 29}
                                                                       \* 0x27d4eb2d
C45d9f3b  == {0, 1, 3, 4, 5, 8, 9, 10, 11, 12, 15, 16, 18, 19, 20, 22, 26}
                                                                       \* 0x45d9f3b

(* Mutant: without the last line.                                          *)
mix1_open(key) ==
  LET a == Xor(Xor(key, C61), ShiftRight(key, 16))
      b == Add(a, ShiftLeft(a, 3))
  IN  Mul(Xor(b, ShiftRight(b, 4)), C2)

(* The int hash1 reduces modulo size1.                                     *)
mix1(key) ==
  LET a == Xor(Xor(key, C61), ShiftRight(key, 16))
      b == Add(a, ShiftLeft(a, 3))
      c == Mul(Xor(b, ShiftRight(b, 4)), C2)
  IN  Xor(c, ShiftRight(c, 15))

(* The int hash2 reduces modulo size2.                                     *)
mix2(key) ==
  LET a == Mul(Xor(ShiftRight(key, 16), key), C45d9f3b)
      b == Mul(Xor(ShiftRight(a, 16), a), C45d9f3b)
  IN  Xor(ShiftRight(b, 16), b)

(* createHash returns an int: an unsigned int keeps its bits, the hash of a*)
(* string loses the upper half of its own.                                 *)
createHash(bits) == bits \cap Bits

(* The constructor's split of the capacity between the two arrays.         *)
size1(capacity) == capacity \div 2
size2(capacity) == capacity - size1(capacity)

hash1(key, capacity) == Rem(mix1(key), size1(capacity))
hash2(key, capacity) == Rem(mix2(key), size2(capacity))

-----------------------------------------------------------------------------
VARIABLES key, capacity, index

vars == <<key, capacity, index>>

Init == key \in SampleKeys /\ capacity \in Capacities /\ index = <<>>

Lookup ==
  /\ index = <<>>
  /\ LET hashKey == createHash(key) IN
     index' = <<hash1(hashKey, capacity), hash2(hashKey, capacity)>>
  /\ UNCHANGED <<key, capacity>>

Done == index # <<>> /\ UNCHANGED vars

Next == Lookup \/ Done

Spec == Init /\ [][Next]_vars

(* Whatever the sign of the key and of the intermediate products, both     *)
(* indices lie inside their arrays, which no code checks (lines 126, 133). *)
IndexInRange == index # <<>> =>
  /\ index[1] \in 0 .. size1(capacity) - 1
  /\ index[2] \in 0 .. size2(capacity) - 1
=============================================================================
