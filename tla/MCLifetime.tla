----------------------------- MODULE MCLifetime ------------------------------
(***************************************************************************)
(* The instances of MCHashTable, followed to the end of the table's life.  *)
(***************************************************************************)
EXTENDS MCHashTable, HashTableLifetime
=============================================================================
