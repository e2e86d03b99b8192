SPECIFICATION Spec
CONSTANTS
    T1 = t1
    A1 = a1
    A2 = a2
    A3 = a3
    A4 = a4
    A5 = a5
    A6 = a6
    B1 = b1
    B2 = b2
    B3 = b3
    C1 = c1
    C2 = c2
    Threads = {t1}
    Keys <- MCKeys
    Vals = {1, 2}
    Hash <- DisplacingHash
    SlotPow = 1
    MaxWindow = 7
    FreeMod = 65536
    Programs <- Displacing
    Empty = Empty
    Absent = Absent
INVARIANT FindIsLinearizable
