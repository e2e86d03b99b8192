--------------------------- MODULE MCCuckooPaths ---------------------------
(* The cuckoo map under TLC: cuckoo paths in buckets of two slots.           *)
EXTENDS CuckooMap

CONSTANTS T1, T2, T3, X, Y, A1, A2, B1, B2, C1, C2, D1

Op(op, k, v) == [op |-> op, key |-> k, val |-> v]
At(k, b, i) == [key |-> k, val |-> 1, bucket |-> b, slot |-> i]
Program(hp, entries, a, b, c) ==
    [hp |-> hp, entries |-> entries,
     calls |-> [t \in Threads |-> CASE t = T1 -> a [] t = T2 -> b [] t = T3 -> c]]

MCThreads == {T1, T2, T3}
MCKeys == {X, Y, A1, A2, B1, B2, C1, C2, D1}

\* The buckets of the keys: X {0,1}, Y {3,2}, A {0,2}, B {1,0}, C {2,3}, D {3,1}.
MCHash == [k \in MCKeys |->
    CASE k = X -> 0 [] k = Y -> 3 [] k = A1 -> 8 [] k = A2 -> 4 [] k = B1 -> 1
      [] k = B2 -> 1 [] k = C1 -> 2 [] k = C2 -> 6 [] k = D1 -> 7]
MCAlt == [k \in MCKeys |->
    CASE k = X -> 1 [] k = Y -> 6 [] k = A1 -> 2 [] k = A2 -> 2 [] k = B1 -> 0
      [] k = B2 -> 0 [] k = C1 -> 3 [] k = C2 -> 3 [] k = D1 -> 1]

Full == {At(A1, 0, 1), At(A2, 0, 2), At(B1, 1, 1), At(B2, 1, 2),
         At(C1, 2, 1), At(C2, 2, 2), At(D1, 3, 1)}

MCPrograms == {
    \* A path over three buckets while one of its keys is looked up and
    \* another one is erased.
    Program(2, Full, <<Op("insert", X, 2)>>, <<Op("find", A1, 0)>>, <<Op("erase", C1, 0)>>),
    \* Two insertions of one key search paths: only one of them inserts.
    Program(2, Full \ {At(C2, 2, 2)}, <<Op("insert", X, 2)>>,
            <<Op("insert_or_assign", X, 3), Op("erase", X, 0)>>, <<>>),
    \* A slot of an insert bucket becomes free and is taken again.
    Program(2, Full, <<Op("insert", X, 2)>>, <<Op("erase", A1, 3)>>,
            <<Op("insert", A1, 2)>>),
    \* The last free slot goes to another key: a new path, or a larger table.
    Program(2, Full, <<Op("insert", X, 2)>>, <<Op("insert", Y, 3)>>, <<>>),
    \* All locks are taken twice, one after the other.
    Program(2, Full, <<Op("rehash_concurrent", X, 3)>>, <<Op("insert", Y, 3)>>,
            <<Op("clear", X, 0)>>) }

=============================================================================
