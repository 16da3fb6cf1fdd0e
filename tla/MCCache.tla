------------------------------ MODULE MCCache ------------------------------
(* The smallest cache that open() accepts, 100 bytes: 80 without cache_info, *)
(* two head links, room for four entries with d1, fewer with d2, none with   *)
(* d3.  k1 and k2 share the bucket whose head is at 0.                       *)
EXTENDS Cache, TLC

CONSTANTS k1, k2, k3, d1, d2, d3

OneByte  == [k \in Keys |-> 1]
DataLens == (d1 :> 1) @@ (d2 :> 20) @@ (d3 :> 60)
Buckets  == (k1 :> 0) @@ (k2 :> 0) @@ (k3 :> 4)

Entry(k, d, t) == [key |-> k, data |-> d, ttl |-> t]

\* Repeated keys, one with a time to live, and an entry longer than the cache.
Adds == {Entry(k1, d1, 0), Entry(k1, d2, 1), Entry(k2, d1, 0), Entry(k3, d1, 0), Entry(k3, d3, 0)}

\* A directory with two files.
Files == {<<Entry(k1, d1, 0), Entry(k3, d1, 0)>>}
=============================================================================
