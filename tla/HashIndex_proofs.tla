-------------------------- MODULE HashIndex_proofs ---------------------------
(***************************************************************************)
(* Both hash functions end with x ^ (x >> n), which clears the sign: the   *)
(* copied sign bits meet the sign itself.  So no remainder is negative,    *)
(* for ints of any width, any key, and whatever the products overflow to.  *)
(***************************************************************************)
EXTENDS HashIndex, WellFoundedInduction, TLAPS

(* The sign of x ^ (x >> n) is clear for every x and every shift n.        *)
LEMMA XorShiftClearsSign ==
  ASSUME NEW x, NEW n \in Nat
  PROVE  ~Negative(Xor(x, ShiftRight(x, n))) /\ ~Negative(Xor(ShiftRight(x, n), x))
<1>1. Width - 1 \in Bits
  BY WidthAssumption DEF Bits
<1>2. (Width - 1 \in ShiftRight(x, n)) <=> (Width - 1 \in x)
  <2>1. CASE n = 0
    BY <1>1, <2>1, WidthAssumption DEF ShiftRight, Negative
  <2>2. CASE n > 0
    <3>1. ~(Width - 1 + n < Width)
      BY <2>2, WidthAssumption
    <3> QED
      BY <1>1, <3>1 DEF ShiftRight, Negative
  <2> QED
    BY <2>1, <2>2
<1> QED
  BY <1>2 DEF Negative, Xor

(* The ints that hash1 and hash2 reduce modulo the sizes of the arrays     *)
(* (lines 125 and 132) are never negative.                                 *)
THEOREM HashNeverNegative ==
  ASSUME NEW k
  PROVE  ~Negative(mix1(k)) /\ ~Negative(mix2(k))
<1>1. ~Negative(mix1(k))
  <2> DEFINE a == Xor(Xor(k, C61), ShiftRight(k, 16))
             b == Add(a, ShiftLeft(a, 3))
             c == Mul(Xor(b, ShiftRight(b, 4)), C2)
  <2>1. mix1(k) = Xor(c, ShiftRight(c, 15))
    BY DEF mix1
  <2> HIDE DEF c
  <2> QED
    BY <2>1, XorShiftClearsSign
<1>2. ~Negative(mix2(k))
  <2> DEFINE a == Mul(Xor(ShiftRight(k, 16), k), C45d9f3b)
             b == Mul(Xor(ShiftRight(a, 16), a), C45d9f3b)
  <2>1. mix2(k) = Xor(ShiftRight(b, 16), b)
    BY DEF mix2
  <2> HIDE DEF b
  <2> QED
    BY <2>1, XorShiftClearsSign
<1> QED
  BY <1>1, <1>2

(* So each index is the residue of that int, with no sign to be put back.  *)
COROLLARY IndexIsResidue ==
  ASSUME NEW k, NEW c
  PROVE  /\ hash1(k, c) = Residue(mix1(k), size1(c))
         /\ hash2(k, c) = Residue(mix2(k), size2(c))
BY HashNeverNegative DEF hash1, hash2, Rem

(* Every nonempty set of naturals has a least element.                     *)
LEMMA LeastNat ==
  ASSUME NEW T \in SUBSET Nat, T # {}
  PROVE  \E n \in T : \A m \in T : n <= m
<1>1. PICK n \in T : \A m \in T : ~(<<m, n>> \in OpToRel(<, Nat))
  BY NatLessThanWellFounded, WFMin
<1>2. \A m \in T : ~(m < n)
  BY <1>1 DEF OpToRel
<1> QED
  BY <1>2

(* The remainder of a natural is below the size.                           *)
LEMMA RemainderInRange ==
  ASSUME NEW n \in Nat, NEW size \in Nat \ {0}
  PROVE  n % size \in 0 .. size - 1
OBVIOUS

(* The recursion of Residue defines a function on 0 .. Width.              *)
LEMMA ResidueDefined ==
  ASSUME NEW x, NEW size \in Nat \ {0}
  PROVE  \E r : r = [i \in 0 .. Width |->
                       IF i = 0 THEN 0
                       ELSE (2 * r[i - 1] + IF Width - i \in x THEN 1 ELSE 0) % size]
<1> DEFINE bit(i)   == IF Width - i \in x THEN 1 ELSE 0
           Rec(r, n) == r = [i \in 0 .. n |-> IF i = 0 THEN 0 ELSE (2 * r[i - 1] + bit(i)) % size]
           Bad == {n \in Nat : ~ \E r : Rec(r, n)}
<1> SUFFICES Bad = {}
  BY WidthAssumption
<1> SUFFICES ASSUME Bad # {} PROVE FALSE
  OBVIOUS
<1>1. PICK n \in Bad : \A m \in Bad : n <= m
  BY LeastNat
<1>2. n # 0
  <2>1. Rec([i \in 0 .. 0 |-> 0], 0)
    OBVIOUS
  <2> QED
    BY <2>1
<1>3. PICK f : Rec(f, n - 1)
  BY <1>1, <1>2
<1> DEFINE g == [i \in 0 .. n |-> IF i = n THEN (2 * f[n - 1] + bit(n)) % size ELSE f[i]]
<1> HIDE DEF bit
<1>4. \A i \in 0 .. n - 1 : g[i] = f[i]
  OBVIOUS
<1>5. ASSUME NEW i \in 0 .. n
      PROVE  g[i] = IF i = 0 THEN 0 ELSE (2 * g[i - 1] + bit(i)) % size
  <2>1. CASE i = 0
    BY <1>2, <1>3, <1>4, <2>1
  <2>2. CASE i \in 1 .. n - 1
    BY <1>3, <1>4, <2>2
  <2>3. CASE i = n
    BY <1>2, <1>4, <2>3
  <2> QED
    BY <2>1, <2>2, <2>3
<1>6. Rec(g, n)
  BY <1>5
<1> QED
  BY <1>6

(* The residue is an index of an array of the size.                        *)
LEMMA ResidueInRange ==
  ASSUME NEW x, NEW size \in Nat \ {0}
  PROVE  Residue(x, size) \in 0 .. size - 1
<1> DEFINE bit(i) == IF Width - i \in x THEN 1 ELSE 0
           r == CHOOSE r : r = [i \in 0 .. Width |->
                  IF i = 0 THEN 0 ELSE (2 * r[i - 1] + IF Width - i \in x THEN 1 ELSE 0) % size]
           Bad == {n \in 0 .. Width : r[n] \notin 0 .. size - 1}
<1>1. Residue(x, size) = r[Width]
  BY DEF Residue
<1>2. r = [i \in 0 .. Width |->
             IF i = 0 THEN 0 ELSE (2 * r[i - 1] + IF Width - i \in x THEN 1 ELSE 0) % size]
  BY ResidueDefined
<1> HIDE DEF r
<1> SUFFICES ASSUME Bad # {} PROVE FALSE
  BY <1>1, WidthAssumption
<1>. Bad \in SUBSET Nat
  BY WidthAssumption
<1> HIDE DEF Bad
<1>3. PICK n \in Bad : \A m \in Bad : n <= m
  BY LeastNat
<1> USE DEF Bad
<1>4. CASE n = 0
  BY <1>2, <1>4, WidthAssumption
<1>5. CASE n # 0
  <2>1. n \in 1 .. Width /\ n - 1 \in 0 .. Width /\ r[n - 1] \in 0 .. size - 1
    BY <1>3, <1>5, WidthAssumption
  <2>2. r[n] = (2 * r[n - 1] + bit(n)) % size
    BY <1>2, <2>1
  <2>3. 2 * r[n - 1] + bit(n) \in Nat
    BY <2>1
  <2> QED
    BY <2>2, <2>3, RemainderInRange
<1> QED
  BY <1>4, <1>5

(* A capacity of two or more leaves neither array empty.                   *)
LEMMA SizesPositive ==
  ASSUME NEW c \in Capacities
  PROVE  size1(c) \in Nat \ {0} /\ size2(c) \in Nat \ {0}
BY CapacityAssumption DEF size1, size2

(* Whatever the key and the capacity, both indices a lookup computes lie   *)
(* inside their arrays, which the code checks nowhere (lines 126, 133).    *)
THEOREM IndicesInRange == Spec => []IndexInRange
<1> DEFINE IInv == capacity \in Capacities /\ IndexInRange
<1>1. Init => IInv
  BY DEF Init, IndexInRange
<1>2. IInv /\ [Next]_vars => IInv'
  <2> SUFFICES ASSUME IInv, [Next]_vars PROVE IInv'
    OBVIOUS
  <2>1. CASE Lookup
    <3> DEFINE k == createHash(key)
    <3>1. /\ index' = <<hash1(k, capacity), hash2(k, capacity)>>
          /\ capacity' = capacity
      BY <2>1 DEF Lookup
    <3>2. /\ hash1(k, capacity) \in 0 .. size1(capacity) - 1
          /\ hash2(k, capacity) \in 0 .. size2(capacity) - 1
      BY IndexIsResidue, SizesPositive, ResidueInRange
    <3> QED
      BY <3>1, <3>2 DEF IndexInRange
  <2>2. CASE Done \/ UNCHANGED vars
    BY <2>2 DEF Done, vars, IndexInRange
  <2> QED
    BY <2>1, <2>2 DEF Next
<1>3. IInv => IndexInRange
  OBVIOUS
<1> QED
  BY <1>1, <1>2, <1>3, PTL DEF Spec

=============================================================================
