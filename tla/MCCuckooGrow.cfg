SPECIFICATION Spec
CONSTANTS
    T1 = t1
    T2 = t2
    T3 = t3
    K1 = k1
    K2 = k2
    K3 = k3
    K4 = k4
    K5 = k5
    Threads <- MCThreads
    Keys <- MCKeys
    Vals = {1, 2, 3}
    Hash <- MCHash
    Alt <- MCAlt
    Slots = 1
    PathLen = 3
    LockPow = 1
    MaxHp = 3
    MinLoad = 40
    Programs <- MCPrograms
    Empty = Empty
    Absent = Absent
INVARIANTS
    TypeOK
    WellPlaced
    LocksExist
    CountersAddUp
PROPERTIES
    KeepsPromises
    ChangesAreUnderLocks
