\* One update and one lookup: the epoch of unlock is stored with relaxed order.
SPECIFICATION Spec
CONSTANTS
    Threads = {t1, t2}
    NumPieces = 2
    Ops = {"update", "lookup"}
    MaxOps = 2
INVARIANT AcceptedCopyIsWhole
CHECK_DEADLOCK FALSE
