----------------------------- MODULE MCHashIndex -----------------------------
(***************************************************************************)
(* Instance of HashIndex for TLC: 32-bit keys of both signs, and 64-bit    *)
(* hashes of strings.                                                      *)
(***************************************************************************)
EXTENDS HashIndex

(* The keys whose one bits are consecutive: 0, the powers of two, INT_MAX, *)
(* INT_MIN, -1, the negated powers of two and the runs in between; of the  *)
(* hashes of strings, those that keep 1, 16 or all bits of the lower half. *)
Runs32 == {i .. j : i \in Bits, j \in {-1} \cup Bits}
Runs64 == {i .. j : i \in {0, 16, 31}, j \in 32 .. 63}
Samples == Runs32 \cup Runs64
=============================================================================
