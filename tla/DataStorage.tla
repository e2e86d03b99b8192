----------------------------- MODULE DataStorage -----------------------------
(***************************************************************************)
(* The storage of buckets and locks (include/common/data_storage.hpp): an  *)
(* array of pointers to segments, segment i of 2^(i-1) elements, so that   *)
(* elements never move while the storage doubles.  The owner of a storage  *)
(* doubles it while threads without locks look elements up; everything     *)
(* else is documented, or supposed by the callers, to happen while nobody  *)
(* uses the storage.  A pointer is read and written in one step.           *)
(***************************************************************************)
EXTENDS Integers, FiniteSets

CONSTANTS
    Threads,   \* the threads that look elements up
    Storages,  \* the storages: that of a map, those of temporary maps
    Segments,  \* the memory: what allocate can return
    MaxHp,     \* the largest hashpower, 63 in the code
    Shared,    \* the operations that lookups may overlap
    Nil        \* nullptr

Operations == {"double_size", "change_size", "swap", "move_pointers"}
Indices == 0..MaxHp

ASSUME StorageAssumption ==
    /\ MaxHp \in Nat
    /\ Nil \notin Segments
    /\ Shared \subseteq Operations

VARIABLES
    hp_,    \* the hashpower of each storage, -1 when it has no segment
    data_,  \* the pointers of each storage
    heap,   \* the allocated segments
    made,   \* the index a segment was last allocated for
    op,     \* the operation of the owner, "none" between two
    step,   \* the step it is at
    this,   \* the storage it is called on
    other,  \* the storage it is called with
    n,      \* its argument, or the hashpower it keeps in a temporary
    i,      \* its loop variable
    pc,     \* the step each lookup is at
    at,     \* the storage it looks at
    seen,   \* the hashpower it has loaded
    seg,    \* the index of the segment it reads
    ptr     \* the pointer it has loaded

storage == <<hp_, data_, heap, made>>
owner == <<op, step, this, other, n, i>>
lookups == <<pc, at, seen, seg, ptr>>
vars == <<storage, owner, lookups>>

Larger(a, b) == IF a < b THEN b ELSE a

-----------------------------------------------------------------------------
\* Where element x is: find_value.  The number of significant bits of x is the
\* index of its segment.
Bits(x) == Cardinality({k \in Indices : 2^k <= x})
SizeByIndex(k) == IF k = 0 THEN 1 ELSE 2^(k - 1)

\* Mutant: the highest bit is not taken off.
PlaceWithTopBit(x) == [array |-> Bits(x), index |-> x]

Place(x) ==
    [array |-> Bits(x), index |-> IF x = 0 THEN 0 ELSE x - 2^(Bits(x) - 1)]

\* The iterator.
Begin == [array |-> 0, index |-> 0]
End(hp) == [array |-> IF hp = -1 THEN 0 ELSE hp + 1, index |-> 0]

Successor(p) ==
    IF p.index = SizeByIndex(p.array) - 1
    THEN [array |-> p.array + 1, index |-> 0]
    ELSE [p EXCEPT !.index = @ + 1]

Predecessor(p) ==
    IF p.index = 0
    THEN [array |-> p.array - 1, index |-> SizeByIndex(p.array - 1) - 1]
    ELSE [p EXCEPT !.index = @ - 1]

-----------------------------------------------------------------------------
\* Default-constructed storages have no segment.
Init ==
    /\ hp_ = [o \in Storages |-> -1]
    /\ data_ = [o \in Storages |-> [k \in Indices |-> Nil]]
    /\ heap = {}
    /\ made = [s \in Segments |-> 0]
    /\ op = "none" /\ step = "idle"
    /\ this \in Storages /\ other \in Storages
    /\ n = -1 /\ i = 0
    /\ pc = [t \in Threads |-> "idle"]
    /\ at = [t \in Threads |-> this]
    /\ seen = [t \in Threads |-> -1]
    /\ seg = [t \in Threads |-> 0]
    /\ ptr = [t \in Threads |-> Nil]

Involved == {this, other}
Running == op # "none"

\* An operation starts; unless it may be shared, nobody is looking at the
\* storages it changes.
Call(o, p, operation, m, first) ==
    /\ ~Running
    /\ operation \in Shared \/ \A t \in Threads : pc[t] = "idle" \/ at[t] \notin {o, p}
    /\ op' = operation /\ step' = first
    /\ this' = o /\ other' = p
    /\ n' = m
    /\ UNCHANGED <<storage, lookups>>

Goto(s) == step' = s /\ UNCHANGED <<op, this, other, n>>
Return == op' = "none" /\ step' = "idle" /\ i' = 0 /\ UNCHANGED <<this, other, n>>

\* allocate_and_construct, and the pointer is stored.
AllocateFor(o, k) ==
    \E s \in Segments \ heap :
        /\ heap' = heap \cup {s}
        /\ made' = [made EXCEPT ![s] = k]
        /\ data_' = [data_ EXCEPT ![o][k] = s]

\* double_size: the pointer of the new segment, then the hashpower.
CallDoubleSize(o) ==
    /\ hp_[o] < MaxHp
    /\ Call(o, o, "double_size", hp_[o] + 1, "double")
    /\ i' = 0

\* Mutant: the hashpower is stored first.
DoubleHashpowerFirst ==
    /\ step = "double"
    /\ hp_' = [hp_ EXCEPT ![this] = n]
    /\ Goto("double_hp")
    /\ UNCHANGED <<data_, heap, made, i, lookups>>

DoubleSegment ==
    /\ step = "double"
    /\ AllocateFor(this, n)
    /\ Goto("double_hp")
    /\ UNCHANGED <<hp_, i, lookups>>

DoubleHashpower ==
    /\ step = "double_hp"
    /\ hp_' = [hp_ EXCEPT ![this] = n]
    /\ Return
    /\ UNCHANGED <<data_, heap, made, lookups>>

\* change_size, from the constructor, the destructor and the assignments; the
\* call that finds the size right returns at once.
CallGrow(o, m) ==
    /\ hp_[o] < m
    /\ Call(o, o, "change_size", m, "grow")
    /\ i' = hp_[o] + 1

CallShrink(o, m) ==
    /\ hp_[o] > m
    /\ Call(o, o, "change_size", m, "shrink_hp")
    /\ i' = hp_[o]

\* Mutant: one segment too many.
GrowOneMore ==
    /\ step = "grow" /\ i <= n + 1
    /\ AllocateFor(this, i)
    /\ i' = i + 1
    /\ UNCHANGED <<hp_, op, step, this, other, n, lookups>>

Grow ==
    /\ step = "grow" /\ i <= n
    /\ AllocateFor(this, i)
    /\ i' = i + 1
    /\ UNCHANGED <<hp_, op, step, this, other, n, lookups>>

Grown ==
    /\ step = "grow" /\ i > n
    /\ hp_' = [hp_ EXCEPT ![this] = n]
    /\ Return
    /\ UNCHANGED <<data_, heap, made, lookups>>

ShrinkHashpower ==
    /\ step = "shrink_hp"
    /\ hp_' = [hp_ EXCEPT ![this] = n]
    /\ Goto("shrink")
    /\ UNCHANGED <<data_, heap, made, i, lookups>>

\* Mutant: the pointer is not reset.
ShrinkKeepsPointer ==
    /\ step = "shrink" /\ i > n
    /\ heap' = heap \ {data_[this][i]}
    /\ i' = i - 1
    /\ UNCHANGED <<hp_, data_, made, op, step, this, other, n, lookups>>

\* deallocate.
Shrink ==
    /\ step = "shrink" /\ i > n
    /\ heap' = heap \ {data_[this][i]}
    /\ data_' = [data_ EXCEPT ![this][i] = Nil]
    /\ i' = i - 1
    /\ UNCHANGED <<hp_, made, op, step, this, other, n, lookups>>

Shrunk ==
    /\ step = "shrink" /\ i <= n
    /\ Return
    /\ UNCHANGED <<storage, lookups>>

\* swap: the hashpowers through a temporary, then pointer by pointer.
CallSwap(o, p) ==
    /\ o # p
    /\ Call(o, p, "swap", hp_[o], "swap_this")
    /\ i' = 0

SwapThis ==
    /\ step = "swap_this"
    /\ hp_' = [hp_ EXCEPT ![this] = hp_[other]]
    /\ Goto("swap_other")
    /\ UNCHANGED <<data_, heap, made, i, lookups>>

SwapOther ==
    /\ step = "swap_other"
    /\ hp_' = [hp_ EXCEPT ![other] = n]
    /\ Goto("swap")
    /\ UNCHANGED <<data_, heap, made, i, lookups>>

\* Mutant: the loop ends with the hashpower this storage has now.
SwapOwn ==
    /\ step = "swap"
    /\ IF i > hp_[this] THEN Return /\ UNCHANGED data_
       ELSE /\ data_' = [data_ EXCEPT ![this][i] = data_[other][i], ![other][i] = data_[this][i]]
            /\ i' = i + 1
            /\ UNCHANGED <<op, step, this, other, n>>
    /\ UNCHANGED <<hp_, heap, made, lookups>>

Swap ==
    /\ step = "swap"
    /\ IF i > Larger(hp_[this], hp_[other]) THEN Return /\ UNCHANGED data_
       ELSE /\ data_' = [data_ EXCEPT ![this][i] = data_[other][i], ![other][i] = data_[this][i]]
            /\ i' = i + 1
            /\ UNCHANGED <<op, step, this, other, n>>
    /\ UNCHANGED <<hp_, heap, made, lookups>>

\* move_pointers, into a storage without segments.
CallMove(o, p) ==
    /\ o # p
    /\ hp_[o] = -1
    /\ Call(o, p, "move_pointers", hp_[p], "move")
    /\ i' = 0

MovePointer ==
    /\ step = "move" /\ i <= n
    /\ data_' = [data_ EXCEPT ![this][i] = data_[other][i], ![other][i] = Nil]
    /\ i' = i + 1
    /\ UNCHANGED <<hp_, heap, made, op, step, this, other, n, lookups>>

Moved ==
    /\ step = "move" /\ i > n
    /\ hp_' = [hp_ EXCEPT ![this] = hp_[other], ![other] = -1]
    /\ Return
    /\ UNCHANGED <<data_, heap, made, lookups>>

-----------------------------------------------------------------------------
\* A lookup loads the hashpower and computes elements below the size.
LoadHashpower(t, o) ==
    /\ pc[t] = "idle"
    /\ op \in Shared \cup {"none"} \/ o \notin Involved
    /\ hp_[o] >= 0
    /\ pc' = [pc EXCEPT ![t] = "pointer"]
    /\ at' = [at EXCEPT ![t] = o]
    /\ seen' = [seen EXCEPT ![t] = hp_[o]]
    /\ UNCHANGED <<storage, owner, seg, ptr>>

\* operator[], or an iterator that comes to the next segment: these elements
\* lie in the segments up to the hashpower.
LoadPointer(t) ==
    /\ pc[t] = "pointer"
    /\ pc' = [pc EXCEPT ![t] = "element"]
    /\ \E k \in 0..seen[t] :
          /\ seg' = [seg EXCEPT ![t] = k]
          /\ ptr' = [ptr EXCEPT ![t] = data_[at[t]][k]]
    /\ UNCHANGED <<storage, owner, at, seen>>

\* The element is read, perhaps many times; then another one, or the lookup ends.
ReadElement(t) ==
    /\ pc[t] = "element"
    /\ \E l \in {"pointer", "idle"} : pc' = [pc EXCEPT ![t] = l]
    /\ UNCHANGED <<storage, owner, at, seen, seg, ptr>>

Calls ==
    \E o \in Storages :
        \/ CallDoubleSize(o)
        \/ \E m \in -1..MaxHp : CallGrow(o, m) \/ CallShrink(o, m)
        \/ \E p \in Storages : CallSwap(o, p) \/ CallMove(o, p)

Work ==
    \/ DoubleSegment \/ DoubleHashpower
    \/ Grow \/ Grown \/ ShrinkHashpower \/ Shrink \/ Shrunk
    \/ SwapThis \/ SwapOther \/ Swap
    \/ MovePointer \/ Moved

Lookup(t) ==
    \/ \E o \in Storages : LoadHashpower(t, o)
    \/ LoadPointer(t) \/ ReadElement(t)

Next == Calls \/ Work \/ \E t \in Threads : Lookup(t)

Spec == Init /\ [][Next]_vars

-----------------------------------------------------------------------------
Steps == {"idle", "double", "double_hp", "grow", "shrink_hp", "shrink",
          "swap_this", "swap_other", "swap", "move"}

TypeOK ==
    /\ hp_ \in [Storages -> -1..MaxHp]
    /\ data_ \in [Storages -> [Indices -> Segments \cup {Nil}]]
    /\ heap \subseteq Segments
    /\ made \in [Segments -> Indices]
    /\ op \in Operations \cup {"none"} /\ step \in Steps
    /\ this \in Storages /\ other \in Storages
    /\ n \in -1..MaxHp /\ i \in -1..MaxHp + 1
    /\ pc \in [Threads -> {"idle", "pointer", "element"}]
    /\ at \in [Threads -> Storages]
    /\ seen \in [Threads -> -1..MaxHp]
    /\ seg \in [Threads -> Indices]
    /\ ptr \in [Threads -> Segments \cup {Nil}]

\* A lookup reads a segment that is allocated, and of the index it computed,
\* although the storage doubles while it runs (data_storage.hpp:194-198).
LookupsReadLiveSegments ==
    \A t \in Threads : pc[t] = "element" => ptr[t] \in heap /\ made[ptr[t]] = seg[t]

\* Every allocated segment belongs to one storage, at the index it was made
\* for, in every state of every sequence of growing, shrinking, swapping and
\* moving (113-141, 153-166): nothing leaks, nothing is freed twice.
SegmentsAreOwnedOnce ==
    /\ \A o \in Storages : \A k \in Indices :
          data_[o][k] # Nil => data_[o][k] \in heap /\ made[data_[o][k]] = k
    /\ \A s \in heap : \E o \in Storages : data_[o][made[s]] = s
    /\ \A o, p \in Storages : \A k \in Indices :
          data_[o][k] # Nil /\ data_[o][k] = data_[p][k] => o = p

\* Between two operations a storage has exactly the segments up to its
\* hashpower, although hashpower and pointers change one after the other.
HashpowerCountsSegments ==
    ~Running => \A o \in Storages : \A k \in Indices : data_[o][k] # Nil <=> k <= hp_[o]

\* The iterator (43-75, 229-237) meets every element once, in the order of
\* operator[] (93-102), from begin() to end().
IterationMeetsEveryElement ==
    \A o \in Storages : hp_[o] >= 0 =>
        /\ Begin = Place(0) /\ End(hp_[o]).array = hp_[o] + 1
        /\ \A x \in 0..2^hp_[o] - 1 :
              LET next == Successor(Place(x))
              IN  /\ Place(x).array <= hp_[o]
                  /\ Place(x).index \in 0..SizeByIndex(Place(x).array) - 1
                  /\ next = IF x = 2^hp_[o] - 1 THEN End(hp_[o]) ELSE Place(x + 1)
                  /\ Predecessor(next) = Place(x)

=============================================================================
