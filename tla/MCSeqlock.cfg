\* Three threads, one operation each; no symmetry, because of OperationsEnd.
SPECIFICATION FairSpec
CONSTANTS
    Threads = {t1, t2, t3}
    Values = {a, b}
    InitValue = a
    NumChunks = 2
    Ops = {"write", "inspect", "demote", "try", "read"}
    MaxOps = 3
    Pending = Pending
INVARIANTS
    TypeOK
    MutualExclusion
    ChangesAreAnnounced
    AcceptedCopyIsPublished
    LookupsReturnStoredValues
PROPERTIES
    ImplementsRegister
    OperationsEnd
CHECK_DEADLOCK FALSE
