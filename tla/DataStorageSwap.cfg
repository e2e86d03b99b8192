SPECIFICATION Spec
CONSTANTS
    Threads = {t1}
    Storages = {A, B}
    Segments = {s1, s2, s3, s4, s5, s6}
    MaxHp = 1
    Shared = {"double_size", "swap"}
    Nil = Nil
INVARIANT LookupsReadLiveSegments
