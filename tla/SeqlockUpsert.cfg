\* uprase_fn changes the value of a present key and calls unlock_no_modified.
SPECIFICATION FairSpec
CONSTANTS
    Threads = {t1, t2}
    Values = {a, b}
    InitValue = a
    NumChunks = 2
    Ops = {"upsert", "read"}
    MaxOps = 2
    Pending = Pending
INVARIANT LookupsReturnStoredValues
CHECK_DEADLOCK FALSE
