\* The operations which follow their locks with a release fence.
SPECIFICATION Spec
CONSTANTS
    t1 = t1
    t2 = t2
    t3 = t3
    Threads = {t1, t2, t3}
    NumPieces = 2
    Ops = {"update", "miss", "lookup"}
    MaxOps = 4
SYMMETRY Sym
INVARIANTS
    TypeOK
    HolderIsUpToDate
    AcceptedPiecesAreNotAhead
    AcceptedPiecesMissOneUpdateAtMost
CHECK_DEADLOCK FALSE
