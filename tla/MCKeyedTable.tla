---------------------------- MODULE MCKeyedTable -----------------------------
(***************************************************************************)
(* Small instances of the templated table for TLC.                         *)
(***************************************************************************)
EXTENDS KeyedHashTable, TLC

CONSTANTS t1, t2, a, b, c, d, x, y, v1, v2

insert(k, v)   == [op |-> "insert", key |-> k, val |-> v]
remove(k)      == [op |-> "remove", key |-> k, val |-> v1]
Entry(s, k, v) == [slot |-> s, key |-> k, val |-> v]

(* x finds both its homes taken until a has been moved.  c and d fill both *)
(* homes of y, whose insert is dropped unless a sweep has removed c.        *)
Lists_hash1    == (a :> 1) @@ (b :> 0) @@ (x :> 1) @@ (c :> 2) @@ (d :> 2) @@ (y :> 2)
Lists_hash2    == (a :> 0) @@ (b :> 1) @@ (x :> 1) @@ (c :> 2) @@ (d :> 2) @@ (y :> 2)
Lists_Preload  == <<Entry(<<0, 1>>, a, v1), Entry(<<0, 2>>, c, v1),
                    Entry(<<1, 1>>, b, v1), Entry(<<1, 2>>, d, v2)>>

(* t1 has tid 0.  It stores x, removes and sweeps; t2 stores and removes b *)
(* and tries to store y, which goes to t1's list.                          *)
Lists_Calls  == (t1 :> {insert(x, v1), remove(b), remove(x)})
                  @@ (t2 :> {insert(b, v1), remove(b), insert(y, v1)})
Lists_Budget == (t1 :> 2) @@ (t2 :> 2)
Lists_Sweeps == (t1 :> 1) @@ (t2 :> 0)
=============================================================================
