-------------------------- MODULE MCRobinHoodEdge --------------------------
(* The robin hood map under TLC: a table whose doubling breaks what the      *)
(* tests say of every table.  16 slots, homes up to 8, windows of 5 and 6.   *)
EXTENDS RobinHoodMap

CONSTANTS T1, A1, A2, A3, A4, A5, A6, B1, B2, B3, C1, C2

Op(op, k, v) == [op |-> op, key |-> k, val |-> v]
Program(entries, calls) ==
    [hp |-> 4, entries |-> [i \in DOMAIN entries |-> [key |-> entries[i], val |-> 1]],
     calls |-> [t \in Threads |-> calls]]

MCKeys == {A1, A2, A3, A4, A5, A6, B1, B2, B3, C1, C2}
As == {A1, A2, A3, A4, A5, A6}
Bs == {B1, B2, B3}
Hashes(a, b, c1, c2) ==
    [k \in MCKeys |-> CASE k \in As -> a [] k \in Bs -> b [] k = C1 -> c1 [] k = C2 -> c2]

\* The A move from home 0 to 16, then the B from 7 (15 folded back) to 15:
\* the second and the third B send A1 and then A2 behind all other A, A2 out of
\* its window of 6.
DisplacingHash == Hashes(16, 15, 1, 1)
Displacing == {
    Program(<<A1, A2, A3, A4, A5, A6, C1, B1, B2, B3>>,
            <<Op("insert", C2, 2), Op("find", A2, 0)>>) }

=============================================================================
