SPECIFICATION FairSpec
CONSTANTS
    T1 = t1
    T2 = t2
    T3 = t3
    X = x
    Y = y
    A1 = a1
    A2 = a2
    B1 = b1
    B2 = b2
    C1 = c1
    C2 = c2
    D1 = d1
    Threads <- MCThreads
    Keys <- MCKeys
    Vals = {1, 2, 3}
    Hash <- MCHash
    Alt <- MCAlt
    Slots = 2
    PathLen = 3
    LockPow = 2
    MaxHp = 3
    MinLoad = 40
    Programs <- MCPrograms
    Empty = Empty
    Absent = Absent
INVARIANTS
    NoCircularWait
    FreedSlotIsUsable
PROPERTIES
    KeepsPromises
    CallsReturn
