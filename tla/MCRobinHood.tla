---------------------------- MODULE MCRobinHood ----------------------------
(* The robin hood map under TLC: 16 slots in 8 buckets, 32 in 16 after a    *)
(* doubling; windows of hp + 1 slots and a MAX_WINDOW_SIZE that exceeds     *)
(* them, as 64 exceeds the ones of the code.                                *)
EXTENDS RobinHoodMap

CONSTANTS T1, T2, T3, A1, A2, A3, A4, A5, A6, A7, A8, B, C, D, E1, E2, F1, F2

Op(op, k, v) == [op |-> op, key |-> k, val |-> v]
Program(entries, a, b, c) ==
    [hp |-> 4, entries |-> [i \in DOMAIN entries |-> [key |-> entries[i], val |-> 1]],
     calls |-> [t \in Threads |-> CASE t = T1 -> a [] t = T2 -> b [] t = T3 -> c]]

\* At hp 4 the homes are 2 (A1 to A8), 3, 4, 1 and, folded back, 12 - 8 = 4 (D)
\* and 15 - 8 = 7 (F1, F2); at hp 5 A3 and A5 move to 18, D to 12, F1 and F2 to 15.
MCThreads == {T1, T2, T3}
MCKeys == {A1, A2, A3, A4, A5, A6, A7, A8, B, C, D, E1, E2, F1, F2}
MCHash == [k \in MCKeys |->
    CASE k \in {A3, A5} -> 18 [] k = B -> 3 [] k = C -> 4 [] k = D -> 12
      [] k \in {E1, E2} -> 1 [] k \in {F1, F2} -> 15 [] OTHER -> 2]

MCPrograms == {
    \* An insertion displaces two entries; one of them is looked up, one goes.
    Program(<<A1, B, C>>, <<Op("insert", A2, 2)>>, <<Op("find", C, 0)>>,
            <<Op("erase", B, 0), Op("update", B, 3)>>),
    \* An erasure shifts five entries back over three buckets.
    Program(<<A1, A2, B, C, D>>, <<Op("erase", A1, 0)>>, <<Op("find", D, 0)>>,
            <<Op("update", D, 3)>>),
    Program(<<A1, A2, B, C, D>>, <<Op("erase", A1, 0)>>, <<Op("find", C, 0)>>,
            <<Op("insert", A4, 2), Op("erase", A2, 0)>>),
    \* Two insertions of one key, which is looked up.
    Program(<<A1, B>>, <<Op("insert", A2, 2)>>, <<Op("insert_or_assign", A2, 3)>>,
            <<Op("find", A2, 0), Op("find", B, 0)>>),
    \* A window is full: two insertions want to double.
    Program(<<A1, A2, A3, A4, A5, A6>>, <<Op("insert", A7, 2)>>, <<>>, <<Op("insert", A8, 2)>>),
    \* A key that moves to the new half is looked up and updated, one that
    \* stays is erased.
    Program(<<A1, A2, A3, A4, A5, A6>>, <<Op("insert", A7, 2)>>,
            <<Op("find", A3, 0), Op("insert_or_assign", A5, 3)>>, <<>>),
    Program(<<A1, A2, A3, A4, A5, A6>>, <<Op("insert", A7, 2)>>,
            <<Op("erase", A2, 0), Op("find", A6, 0)>>, <<>>),
    \* No free slot for the displaced entries, an erasure makes one.
    Program(<<A1, A2, B, C, A3, D>>, <<Op("insert", A4, 2)>>, <<Op("find", D, 0)>>, <<>>),
    Program(<<A1, A2, B, C, A3, D>>, <<Op("insert", A4, 2)>>,
            <<Op("erase", C, 0), Op("find", D, 0)>>, <<>>),
    \* A path that would push the entries of the next home out of their window.
    Program(<<E1, A1, A2, A3, A4, A5, A6>>, <<Op("insert", E2, 2)>>, <<Op("find", A1, 0)>>, <<>>),
    \* Keys whose hashes are those of the last slot.
    Program(<<F1>>, <<Op("insert", F2, 2)>>, <<Op("find", F2, 0)>>, <<Op("erase", F1, 0)>>) }

=============================================================================
