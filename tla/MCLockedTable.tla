---------------------------- MODULE MCLockedTable ----------------------------
(* locked_table under TLC: with kMaxNumLocksPow = 1 the doubling from        *)
(* hashpower 1 on is lazy, and worker threads migrate the data of two locks. *)
EXTENDS LockedTable

CONSTANTS K1, K2, K3, K4

MCKeys == {K1, K2, K3, K4}
MCHash == [k \in MCKeys |-> CASE k = K1 -> 0 [] k = K2 -> 4 [] k = K3 -> 8 [] k = K4 -> 2]
MCAlt == [k \in MCKeys |-> CASE k = K1 -> 4 [] k = K2 -> 8 [] k = K3 -> 12 [] k = K4 -> 7]

=============================================================================
