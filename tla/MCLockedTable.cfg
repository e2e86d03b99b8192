SPECIFICATION Spec
CONSTANTS
    K1 = k1
    K2 = k2
    K3 = k3
    K4 = k4
    Keys <- MCKeys
    Hash <- MCHash
    Alt <- MCAlt
    Slots = 2
    LockPow = 1
    MaxHp = 3
    MinLoad = 30
    NewMinLoad = 30
    HpBound = 4
    MaxDrift = 1
    MaxExtra = 2
    Sizes = {0, 4}
    LockedSizes = {3}
    Empty = Empty
    None = None
INVARIANTS
    TypeOK
    KeysAreStored
    LockedLookupsAreRight
    LocksFollowTheHandle
    SizeIsExact
    IterationIsComplete
    EveryIndexOnce
