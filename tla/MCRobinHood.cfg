SPECIFICATION FairSpec
CONSTANTS
    T1 = t1
    T2 = t2
    T3 = t3
    A1 = a1
    A2 = a2
    A3 = a3
    A4 = a4
    A5 = a5
    A6 = a6
    A7 = a7
    A8 = a8
    B = b
    C = c
    D = d
    E1 = e1
    E2 = e2
    F1 = f1
    F2 = f2
    Threads <- MCThreads
    Keys <- MCKeys
    Vals = {1, 2, 3}
    Hash <- MCHash
    SlotPow = 1
    MaxWindow = 7
    FreeMod = 65536
    Programs <- MCPrograms
    Empty = Empty
    Absent = Absent
INVARIANTS
    TypeOK
    EntriesAreReachable
    CountersMatch
    NoCircularWait
    WalksStayInside
PROPERTIES
    KeepsPromises
    CallsReturn
