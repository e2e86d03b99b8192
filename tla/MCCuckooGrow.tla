---------------------------- MODULE MCCuckooGrow ----------------------------
(* The cuckoo map under TLC: growth.  With kMaxNumLocksPow = 1 the first     *)
(* doubling, from one bucket, is eager and adds a lock, the later ones leave *)
(* the data to be migrated by whoever takes a lock.                          *)
EXTENDS CuckooMap

CONSTANTS T1, T2, T3, K1, K2, K3, K4, K5


Op(op, k, v) == [op |-> op, key |-> k, val |-> v]
At(k, b, i) == [key |-> k, val |-> 1, bucket |-> b, slot |-> i]
Program(hp, entries, a, b, c) ==
    [hp |-> hp, entries |-> entries,
     calls |-> [t \in Threads |-> CASE t = T1 -> a [] t = T2 -> b [] t = T3 -> c]]

MCThreads == {T1, T2, T3}
MCKeys == {K1, K2, K3, K4, K5}
MCHash == [k \in MCKeys |->
    CASE k = K1 -> 0 [] k = K2 -> 3 [] k = K3 -> 6 [] k = K4 -> 4 [] k = K5 -> 8]
MCAlt == [k \in MCKeys |->
    CASE k = K1 -> 5 [] k = K2 -> 0 [] k = K3 -> 1 [] k = K4 -> 1 [] k = K5 -> 1]

MCPrograms == {
    \* The only bucket is full: an eager doubling adds a lock and a bucket.
    Program(0, {At(K1, 0, 1)}, <<Op("insert", K2, 2)>>,
            <<Op("find", K1, 0), Op("find", K2, 0)>>, <<Op("update", K1, 3)>>),
    \* A lookup, an update and an erasure meet the first lazy migration.
    Program(1, {At(K1, 0, 1), At(K2, 1, 1)}, <<Op("insert", K3, 2)>>,
            <<Op("find", K1, 0)>>, <<Op("update", K2, 2), Op("erase", K2, 0)>>),
    \* The key that makes the table grow is looked up.
    Program(1, {At(K1, 0, 1), At(K2, 1, 1)}, <<Op("insert", K3, 2)>>,
            <<Op("find", K2, 0), Op("find", K3, 0)>>, <<>>),
    \* Two insertions of one key both want to double, a third one erases.
    Program(1, {At(K1, 0, 1), At(K2, 1, 1)}, <<Op("insert", K3, 2)>>,
            <<Op("insert_or_assign", K3, 3)>>, <<Op("uprase", K2, 2)>>),
    \* Two doublings in a row: the second one ends the migration of the first.
    Program(1, {At(K1, 0, 1), At(K4, 1, 1)}, <<Op("insert", K5, 2)>>,
            <<Op("find", K4, 0), Op("find", K5, 0)>>, <<>>),
    Program(1, {At(K1, 0, 1), At(K4, 1, 1)}, <<Op("insert", K5, 2)>>,
            <<Op("update", K1, 3), Op("erase", K4, 0), Op("erase", K4, 0)>>, <<>>),
    \* Two steps of rehash_concurrent against an insertion and a lookup.
    Program(1, {At(K1, 0, 1), At(K2, 1, 1)}, <<Op("rehash_concurrent", K1, 3)>>,
            <<Op("find", K2, 0)>>, <<Op("insert", K3, 2)>>),
    \* clear while the data are migrated.
    Program(1, {At(K1, 0, 1), At(K2, 1, 1)}, <<Op("insert", K3, 2)>>,
            <<Op("find", K1, 0)>>, <<Op("clear", K1, 0)>>),
    \* rehash_concurrent beyond the maximum, and a second one.
    Program(2, {At(K2, 3, 1)}, <<Op("rehash_concurrent", K1, 4)>>,
            <<Op("rehash_concurrent", K1, 3)>>, <<Op("insert", K3, 2)>>) }

=============================================================================
