-------------------------- MODULE DataStorageProofs --------------------------
(***************************************************************************)
(* Proofs about the storage: for every number of lookups, storages and     *)
(* segments, and every maximal hashpower, lookups that overlap doublings   *)
(* only read allocated segments of the size they expect, and every         *)
(* sequence of operations leaves every segment with one owner.             *)
(***************************************************************************)
EXTENDS DataStorage, TLAPS

\* Lookups overlap nothing but double_size.
ASSUME LookupAssumption == Shared \subseteq {"double_size"}

-----------------------------------------------------------------------------
\* What n and i are at each step of the owner.
Phases ==
    /\ op = "none" <=> step = "idle"
    /\ op = "double_size" <=> step \in {"double", "double_hp"}
    /\ step \in {"double", "double_hp", "grow", "shrink_hp", "shrink"} => other = this
    /\ step \in {"double", "double_hp"} => n = hp_[this] + 1
    /\ step = "grow" => hp_[this] < i /\ i <= n + 1
    /\ step = "shrink_hp" => n < i /\ i = hp_[this]
    /\ step = "shrink" => n <= i /\ n = hp_[this] /\ i <= MaxHp
    /\ step \in {"swap_this", "swap_other", "swap", "move"} => this # other
    /\ step = "swap_this" => i = 0 /\ n = hp_[this]
    /\ step = "swap_other" => i = 0 /\ hp_[this] = hp_[other]
    /\ step = "swap" => 0 <= i /\ i <= Larger(hp_[this], hp_[other]) + 1
    /\ step = "move" => 0 <= i /\ i <= n + 1 /\ n = hp_[other] /\ hp_[this] = -1

\* Whether storage o has segment k: while an operation is at work, the
\* hashpower does not say so.
Partner(o) == IF o = this THEN other ELSE this

Has(o, k) ==
    IF o \notin Involved \/ step \in {"idle", "double", "shrink_hp", "swap_this"} THEN k <= hp_[o]
    ELSE \/ step = "double_hp" /\ k <= n
         \/ step = "grow" /\ k < i
         \/ step = "shrink" /\ k <= i
         \/ step = "swap_other" /\ k <= IF o = this THEN n ELSE hp_[o]
         \/ step = "swap" /\ k <= IF k < i THEN hp_[o] ELSE hp_[Partner(o)]
         \/ step = "move" /\ IF o = this THEN k < i ELSE i <= k /\ k <= n

Extents == \A o \in Storages : \A k \in Indices : data_[o][k] # Nil <=> Has(o, k)

\* What a lookup relies on: nobody but a doubling works on its storage, and
\* the pointer it has loaded is still there.
Reads(t) ==
    /\ Running /\ at[t] \in Involved => op = "double_size"
    /\ 0 <= seen[t] /\ seen[t] <= hp_[at[t]]
    /\ pc[t] = "element" => seg[t] <= seen[t] /\ ptr[t] = data_[at[t]][seg[t]]

Readers == \A t \in Threads : pc[t] # "idle" => Reads(t)

IInv == TypeOK /\ Phases /\ Extents /\ SegmentsAreOwnedOnce /\ Readers

-----------------------------------------------------------------------------
LEMMA InvInit == Init => IInv
<1> SUFFICES ASSUME Init PROVE IInv
  OBVIOUS
<1> USE StorageAssumption DEF Init, Indices
<1>1. TypeOK
  BY DEF TypeOK, Operations, Steps
<1>2. Phases
  BY DEF Phases
<1>3. Extents
  BY DEF Extents, Has
<1>4. SegmentsAreOwnedOnce
  BY DEF SegmentsAreOwnedOnce
<1>5. Readers
  BY DEF Readers
<1> QED
  BY <1>1, <1>2, <1>3, <1>4, <1>5 DEF IInv

\* What follows from the invariant.
LEMMA InvImplies ==
    IInv => LookupsReadLiveSegments /\ HashpowerCountsSegments
<1> SUFFICES ASSUME IInv PROVE LookupsReadLiveSegments /\ HashpowerCountsSegments
  OBVIOUS
<1> USE StorageAssumption DEF IInv
<1>1. HashpowerCountsSegments
  BY DEF HashpowerCountsSegments, Running, Phases, Extents, Has, Involved
<1>2. ASSUME NEW t \in Threads, pc[t] = "element"
      PROVE  ptr[t] \in heap /\ made[ptr[t]] = seg[t]
  <2>1. at[t] \in Storages /\ seg[t] \in Indices /\ hp_[at[t]] \in -1..MaxHp /\ seen[t] \in -1..MaxHp
    BY DEF TypeOK
  <2>2. Reads(t)
    BY <1>2 DEF Readers
  <2>3. Has(at[t], seg[t])
    <3>1. seg[t] <= hp_[at[t]]
      BY <2>1, <2>2, <1>2 DEF Reads, Indices
    <3>2. CASE at[t] \notin Involved \/ ~Running
      BY <3>1, <3>2 DEF Has, Phases, Running
    <3>3. CASE at[t] \in Involved /\ op = "double_size"
      <4>1. at[t] = this \/ at[t] = other
        BY <3>3 DEF Involved
      <4> QED
        BY <3>1, <3>3, <4>1, <2>1 DEF Has, Phases, Indices, TypeOK
    <3> QED
      BY <2>2, <3>2, <3>3 DEF Reads
  <2> QED
    BY <2>1, <2>2, <2>3, <1>2 DEF Reads, Extents, SegmentsAreOwnedOnce
<1> QED
  BY <1>1, <1>2 DEF LookupsReadLiveSegments

-----------------------------------------------------------------------------
\* The parts of the invariant that an action leaves alone.
LEMMA SegmentsUntouched ==
    SegmentsAreOwnedOnce /\ UNCHANGED <<data_, heap, made>> => SegmentsAreOwnedOnce'
BY DEF SegmentsAreOwnedOnce

\* A new segment is stored where the storage had none.
LEMMA SegmentAllocated ==
    ASSUME TypeOK, SegmentsAreOwnedOnce,
           NEW o \in Storages, NEW k \in Indices, data_[o][k] = Nil, AllocateFor(o, k)
    PROVE  /\ SegmentsAreOwnedOnce'
           /\ heap' \subseteq Segments
           /\ made' \in [Segments -> Indices]
           /\ data_' \in [Storages -> [Indices -> Segments \cup {Nil}]]
           /\ data_'[o][k] # Nil
           /\ \A p \in Storages : \A l \in Indices :
                 p # o \/ l # k => data_'[p][l] = data_[p][l]
<1>1. PICK s \in Segments \ heap :
        /\ heap' = heap \cup {s}
        /\ made' = [made EXCEPT ![s] = k]
        /\ data_' = [data_ EXCEPT ![o][k] = s]
  BY DEF AllocateFor
<1> USE DEF TypeOK
<1>2. /\ data_'[o][k] = s
      /\ \A p \in Storages : \A l \in Indices : p # o \/ l # k => data_'[p][l] = data_[p][l]
  BY <1>1
<1>3. made'[s] = k /\ \A r \in heap : made'[r] = made[r]
  BY <1>1
<1>4. /\ \A p \in Storages : \A l \in Indices :
            data_'[p][l] # Nil => data_'[p][l] \in heap' /\ made'[data_'[p][l]] = l
      /\ \A p, q \in Storages : \A l \in Indices :
            data_'[p][l] # Nil /\ data_'[p][l] = data_'[q][l] => p = q
  BY <1>1, <1>2, <1>3 DEF SegmentsAreOwnedOnce
<1>5. \A r \in heap' : \E p \in Storages : data_'[p][made'[r]] = r
  <2> SUFFICES ASSUME NEW r \in heap' PROVE \E p \in Storages : data_'[p][made'[r]] = r
    OBVIOUS
  <2>1. CASE r = s
    BY <2>1, <1>2, <1>3
  <2>2. CASE r \in heap
    <3>1. PICK p \in Storages : data_[p][made[r]] = r
      BY <2>2 DEF SegmentsAreOwnedOnce
    <3>2. made[r] \in Indices /\ (p # o \/ made[r] # k)
      BY <2>2, <3>1, StorageAssumption
    <3> QED
      BY <1>2, <1>3, <2>2, <3>1, <3>2
  <2> QED
    BY <1>1, <2>1, <2>2
<1>6. /\ heap' \subseteq Segments
      /\ made' \in [Segments -> Indices]
      /\ data_' \in [Storages -> [Indices -> Segments \cup {Nil}]]
  BY <1>1
<1>7. data_'[o][k] # Nil
  BY <1>1, <1>2, StorageAssumption
<1> QED
  BY <1>2, <1>4, <1>5, <1>6, <1>7 DEF SegmentsAreOwnedOnce

\* A pointer of `other` goes to `this`, another one takes its place.
LEMMA PointerHandedOver ==
    ASSUME TypeOK, this # other, i \in Indices, NEW q \in Segments \cup {Nil}
    PROVE  data_' = [data_ EXCEPT ![this][i] = data_[other][i], ![other][i] = q] =>
             /\ data_'[this][i] = data_[other][i] /\ data_'[other][i] = q
             /\ \A p \in Storages : \A l \in Indices :
                   p \notin Involved \/ l # i => data_'[p][l] = data_[p][l]
             /\ \A p \in Storages \ Involved : data_'[p] = data_[p]
             /\ data_' \in [Storages -> [Indices -> Segments \cup {Nil}]]
<1> DEFINE Pointers == Segments \cup {Nil}
           handed == data_[other][i]
           first == [data_ EXCEPT ![this][i] = handed]
<1>1. HAVE data_' = [data_ EXCEPT ![this][i] = data_[other][i], ![other][i] = q]
<1>2. /\ this \in Storages /\ other \in Storages /\ handed \in Pointers /\ q \in Pointers
      /\ data_ \in [Storages -> [Indices -> Pointers]]
  BY DEF TypeOK
<1>3. data_' = [first EXCEPT ![other][i] = q]
  BY <1>1
<1> HIDE DEF Pointers, handed
<1>4. first \in [Storages -> [Indices -> Pointers]]
  BY <1>2
<1>5. /\ first[this][i] = handed
      /\ \A p \in Storages : \A l \in Indices : p # this \/ l # i => first[p][l] = data_[p][l]
      /\ \A p \in Storages \ {this} : first[p] = data_[p]
  BY <1>2
<1> HIDE DEF first
<1>6. data_' \in [Storages -> [Indices -> Pointers]]
  BY <1>2, <1>3, <1>4
<1>7. /\ data_'[other][i] = q
      /\ \A p \in Storages : \A l \in Indices : p # other \/ l # i => data_'[p][l] = first[p][l]
      /\ \A p \in Storages \ {other} : data_'[p] = first[p]
  BY <1>2, <1>3, <1>4
<1>8. data_'[this][i] = handed
  BY <1>2, <1>5, <1>7
<1>9. /\ \A p \in Storages : \A l \in Indices :
            p \notin {this, other} \/ l # i => data_'[p][l] = data_[p][l]
      /\ \A p \in Storages \ {this, other} : data_'[p] = data_[p]
  BY <1>5, <1>7
<1> QED
  BY <1>6, <1>7, <1>8, <1>9 DEF Pointers, handed, Involved

\* An exclusive operation works on storages nobody looks at.
LEMMA ReadersApart ==
    ASSUME Readers, TypeOK, Running, op # "double_size", op' \in {op, "none"},
           UNCHANGED <<this, other, lookups>>,
           \A o \in Storages \ Involved : hp_'[o] = hp_[o] /\ data_'[o] = data_[o]
    PROVE  Readers'
<1> SUFFICES ASSUME NEW t \in Threads, pc'[t] # "idle" PROVE Reads(t)'
  BY DEF Readers
<1>1. pc[t] # "idle" /\ at[t] \in Storages /\ UNCHANGED <<pc, at, seen, seg, ptr>>
  BY DEF TypeOK, lookups
<1>2. Reads(t) /\ at[t] \notin Involved
  BY <1>1 DEF Readers, Reads
<1> QED
  BY <1>1, <1>2 DEF Reads, Running, Involved

-----------------------------------------------------------------------------
\* An operation starts.
LEMMA CallsKeep ==
    ASSUME IInv, Calls PROVE IInv'
<1> USE StorageAssumption, LookupAssumption DEF IInv
<1>1. ASSUME NEW o \in Storages, NEW p \in Storages, NEW m \in -1..MaxHp,
             NEW operation \in Operations, NEW first, Call(o, p, operation, m, first)
      PROVE  /\ SegmentsAreOwnedOnce' /\ Readers'
             /\ step = "idle"
  <2>1. Readers'
    <3> SUFFICES ASSUME NEW t \in Threads, pc[t] # "idle" PROVE Reads(t)'
      BY <1>1 DEF Readers, Call, lookups
    <3>1. operation = "double_size" \/ at[t] \notin {o, p}
      BY <1>1 DEF Call
    <3> QED
      BY <1>1, <3>1 DEF Call, Readers, Reads, lookups, storage, Running, Involved
  <2> QED
    BY <1>1, <2>1, SegmentsUntouched DEF Call, storage, Running, Phases
<1>2. ASSUME NEW o \in Storages, CallDoubleSize(o) PROVE IInv'
  <2>1. hp_[o] + 1 \in -1..MaxHp /\ hp_[o] \in -1..MaxHp
    BY <1>2 DEF CallDoubleSize, TypeOK
  <2>2. Call(o, o, "double_size", hp_[o] + 1, "double") /\ i' = 0
    BY <1>2 DEF CallDoubleSize
  <2>3. SegmentsAreOwnedOnce' /\ Readers' /\ step = "idle"
    BY <1>1, <2>1, <2>2 DEF Operations
  <2>4. TypeOK'
    BY <2>1, <2>2 DEF TypeOK, Call, storage, lookups, Operations, Steps
  <2>5. Phases'
    BY <2>2 DEF Phases, Call, storage
  <2>6. Extents'
    BY <2>2, <2>3 DEF Extents, Has, Call, storage, Involved
  <2> QED
    BY <2>3, <2>4, <2>5, <2>6
<1>3. ASSUME NEW o \in Storages, NEW m \in -1..MaxHp, CallGrow(o, m) PROVE IInv'
  <2>1. hp_[o] \in -1..MaxHp /\ hp_[o] < m
    BY <1>3 DEF CallGrow, TypeOK
  <2>2. Call(o, o, "change_size", m, "grow") /\ i' = hp_[o] + 1
    BY <1>3 DEF CallGrow
  <2>3. SegmentsAreOwnedOnce' /\ Readers' /\ step = "idle"
    BY <1>1, <2>2 DEF Operations
  <2>4. TypeOK'
    BY <2>1, <2>2 DEF TypeOK, Call, storage, lookups, Operations, Steps
  <2>5. Phases'
    BY <2>1, <2>2 DEF Phases, Call, storage
  <2>6. Extents'
    BY <2>1, <2>2, <2>3 DEF Extents, Has, Call, storage, Involved, Indices
  <2> QED
    BY <2>3, <2>4, <2>5, <2>6
<1>4. ASSUME NEW o \in Storages, NEW m \in -1..MaxHp, CallShrink(o, m) PROVE IInv'
  <2>1. hp_[o] \in -1..MaxHp /\ m < hp_[o]
    BY <1>4 DEF CallShrink, TypeOK
  <2>2. Call(o, o, "change_size", m, "shrink_hp") /\ i' = hp_[o]
    BY <1>4 DEF CallShrink
  <2>3. SegmentsAreOwnedOnce' /\ Readers' /\ step = "idle"
    BY <1>1, <2>2 DEF Operations
  <2>4. TypeOK'
    BY <2>1, <2>2 DEF TypeOK, Call, storage, lookups, Operations, Steps
  <2>5. Phases'
    BY <2>1, <2>2 DEF Phases, Call, storage
  <2>6. Extents'
    BY <2>2, <2>3 DEF Extents, Has, Call, storage, Involved
  <2> QED
    BY <2>3, <2>4, <2>5, <2>6
<1>5. ASSUME NEW o \in Storages, NEW p \in Storages, CallSwap(o, p) PROVE IInv'
  <2>1. hp_[o] \in -1..MaxHp /\ o # p
    BY <1>5 DEF CallSwap, TypeOK
  <2>2. Call(o, p, "swap", hp_[o], "swap_this") /\ i' = 0
    BY <1>5 DEF CallSwap
  <2>3. SegmentsAreOwnedOnce' /\ Readers' /\ step = "idle"
    BY <1>1, <2>1, <2>2 DEF Operations
  <2>4. TypeOK'
    BY <2>1, <2>2 DEF TypeOK, Call, storage, lookups, Operations, Steps
  <2>5. Phases'
    BY <2>1, <2>2 DEF Phases, Call, storage
  <2>6. Extents'
    BY <2>2, <2>3 DEF Extents, Has, Call, storage, Involved
  <2> QED
    BY <2>3, <2>4, <2>5, <2>6
<1>6. ASSUME NEW o \in Storages, NEW p \in Storages, CallMove(o, p) PROVE IInv'
  <2>1. hp_[p] \in -1..MaxHp /\ hp_[o] = -1 /\ o # p
    BY <1>6 DEF CallMove, TypeOK
  <2>2. Call(o, p, "move_pointers", hp_[p], "move") /\ i' = 0
    BY <1>6 DEF CallMove
  <2>3. SegmentsAreOwnedOnce' /\ Readers' /\ step = "idle"
    BY <1>1, <2>1, <2>2 DEF Operations
  <2>4. TypeOK'
    BY <2>1, <2>2 DEF TypeOK, Call, storage, lookups, Operations, Steps
  <2>5. Phases'
    BY <2>1, <2>2 DEF Phases, Call, storage
  <2>6. Extents'
    BY <2>1, <2>2, <2>3 DEF Extents, Has, Call, storage, Involved, Indices
  <2> QED
    BY <2>3, <2>4, <2>5, <2>6
<1> QED
  BY <1>2, <1>3, <1>4, <1>5, <1>6 DEF Calls

-----------------------------------------------------------------------------
\* double_size: lookups may overlap it, so what they have loaded must stay.
LEMMA DoubleKeeps ==
    ASSUME IInv, DoubleSegment \/ DoubleHashpower PROVE IInv'
<1> USE StorageAssumption DEF IInv
<1>1. CASE DoubleSegment
  <2>1. /\ step = "double" /\ op = "double_size" /\ other = this /\ n = hp_[this] + 1
        /\ this \in Storages /\ n \in Indices /\ hp_[this] \in -1..MaxHp
    BY <1>1 DEF DoubleSegment, Phases, TypeOK, Indices
  <2>2. AllocateFor(this, n) /\ step' = "double_hp"
        /\ UNCHANGED <<hp_, i, op, this, other, n, pc, at, seen, seg, ptr>>
    BY <1>1 DEF DoubleSegment, Goto, lookups
  <2>3. data_[this][n] = Nil
    BY <2>1 DEF Extents, Has, Involved
  <2>4. /\ SegmentsAreOwnedOnce'
        /\ heap' \subseteq Segments
        /\ made' \in [Segments -> Indices]
        /\ data_' \in [Storages -> [Indices -> Segments \cup {Nil}]]
        /\ data_'[this][n] # Nil
        /\ \A p \in Storages : \A l \in Indices : p # this \/ l # n => data_'[p][l] = data_[p][l]
    BY <2>1, <2>2, <2>3, SegmentAllocated
  <2>5. TypeOK'
    BY <2>2, <2>4 DEF TypeOK, Steps
  <2>6. Phases'
    BY <2>1, <2>2 DEF Phases
  <2>7. Extents'
    <3> SUFFICES ASSUME NEW o \in Storages, NEW k \in Indices
                 PROVE  data_'[o][k] # Nil <=> Has(o, k)'
      BY DEF Extents
    <3>1. data_[o][k] # Nil <=> Has(o, k)
      BY DEF Extents
    <3> QED
      BY <2>1, <2>2, <2>4, <3>1 DEF Has, Involved, Indices
  <2>8. Readers'
    <3> SUFFICES ASSUME NEW t \in Threads, pc[t] # "idle" PROVE Reads(t)'
      BY <2>2 DEF Readers
    <3>1. Reads(t) /\ at[t] \in Storages /\ seg[t] \in Indices /\ seen[t] \in -1..MaxHp
          /\ hp_[at[t]] \in -1..MaxHp
      BY DEF Readers, TypeOK
    <3>2. pc[t] = "element" => at[t] # this \/ seg[t] # n
      BY <2>1, <3>1 DEF Reads, Indices
    <3> QED
      BY <2>1, <2>2, <2>4, <3>1, <3>2 DEF Reads, Running, Involved
  <2> QED
    BY <2>4, <2>5, <2>6, <2>7, <2>8
<1>2. CASE DoubleHashpower
  <2>1. /\ step = "double_hp" /\ op = "double_size" /\ other = this /\ n = hp_[this] + 1
        /\ this \in Storages /\ n \in -1..MaxHp /\ hp_[this] \in -1..MaxHp
    BY <1>2 DEF DoubleHashpower, Phases, TypeOK
  <2>2. /\ hp_' = [hp_ EXCEPT ![this] = n]
        /\ op' = "none" /\ step' = "idle" /\ i' = 0
        /\ UNCHANGED <<data_, heap, made, this, other, n, pc, at, seen, seg, ptr>>
    BY <1>2 DEF DoubleHashpower, Return, lookups
  <2>3. TypeOK'
    BY <2>1, <2>2 DEF TypeOK, Steps, Operations
  <2>4. Phases'
    BY <2>2 DEF Phases
  <2>5. Extents'
    <3> SUFFICES ASSUME NEW o \in Storages, NEW k \in Indices
                 PROVE  data_'[o][k] # Nil <=> Has(o, k)'
      BY DEF Extents
    <3>1. data_[o][k] # Nil <=> Has(o, k)
      BY DEF Extents
    <3>2. hp_'[this] = n /\ (o # this => hp_'[o] = hp_[o])
      BY <2>1, <2>2 DEF TypeOK
    <3> QED
      BY <2>1, <2>2, <3>1, <3>2 DEF Has, Involved
  <2>6. SegmentsAreOwnedOnce'
    BY <2>2, SegmentsUntouched
  <2>7. Readers'
    <3> SUFFICES ASSUME NEW t \in Threads, pc[t] # "idle" PROVE Reads(t)'
      BY <2>2 DEF Readers
    <3>1. Reads(t) /\ at[t] \in Storages /\ seen[t] \in -1..MaxHp /\ hp_[at[t]] \in -1..MaxHp
      BY DEF Readers, TypeOK
    <3>2. hp_[at[t]] <= hp_'[at[t]] /\ hp_'[at[t]] \in -1..MaxHp
      BY <2>1, <2>2, <3>1 DEF TypeOK
    <3> QED
      BY <2>2, <3>1, <3>2 DEF Reads, Running
  <2> QED
    BY <2>3, <2>4, <2>5, <2>6, <2>7
<1> QED
  BY <1>1, <1>2

\* change_size to a larger hashpower.
LEMMA GrowKeeps ==
    ASSUME IInv, Grow \/ Grown PROVE IInv'
<1> USE StorageAssumption DEF IInv
<1>1. CASE Grow
  <2>1. /\ step = "grow" /\ Running /\ op # "double_size" /\ other = this /\ i <= n
        /\ this \in Storages /\ i \in Indices /\ hp_[this] < i /\ n \in -1..MaxHp
    BY <1>1 DEF Grow, Phases, TypeOK, Indices, Running
  <2>2. AllocateFor(this, i) /\ i' = i + 1
        /\ UNCHANGED <<hp_, op, step, this, other, n, lookups>>
    BY <1>1 DEF Grow
  <2>3. data_[this][i] = Nil
    BY <2>1 DEF Extents, Has, Involved, Indices
  <2>4. /\ SegmentsAreOwnedOnce'
        /\ heap' \subseteq Segments
        /\ made' \in [Segments -> Indices]
        /\ data_' \in [Storages -> [Indices -> Segments \cup {Nil}]]
        /\ data_'[this][i] # Nil
        /\ \A p \in Storages : \A l \in Indices : p # this \/ l # i => data_'[p][l] = data_[p][l]
    BY <2>1, <2>2, <2>3, SegmentAllocated
  <2>5. TypeOK'
    BY <2>1, <2>2, <2>4 DEF TypeOK, lookups, Indices
  <2>6. Phases'
    BY <2>1, <2>2 DEF Phases, TypeOK, Indices
  <2>7. Extents'
    <3> SUFFICES ASSUME NEW o \in Storages, NEW k \in Indices
                 PROVE  data_'[o][k] # Nil <=> Has(o, k)'
      BY DEF Extents
    <3>1. data_[o][k] # Nil <=> Has(o, k)
      BY DEF Extents
    <3> QED
      BY <2>1, <2>2, <2>4, <3>1 DEF Has, Involved, Indices
  <2>8. Readers'
    <3>1. \A o \in Storages \ Involved : hp_'[o] = hp_[o] /\ data_'[o] = data_[o]
      <4> SUFFICES ASSUME NEW o \in Storages, o # this PROVE data_'[o] = data_[o]
        BY <2>2 DEF Involved
      <4> QED
        BY <2>4 DEF TypeOK
    <3> QED
      BY <2>1, <2>2, <3>1, ReadersApart
  <2> QED
    BY <2>4, <2>5, <2>6, <2>7, <2>8
<1>2. CASE Grown
  <2>1. /\ step = "grow" /\ Running /\ op # "double_size" /\ other = this
        /\ this \in Storages /\ i = n + 1 /\ n \in -1..MaxHp
    BY <1>2 DEF Grown, Phases, TypeOK, Running
  <2>2. /\ hp_' = [hp_ EXCEPT ![this] = n]
        /\ op' = "none" /\ step' = "idle" /\ i' = 0
        /\ UNCHANGED <<data_, heap, made, this, other, n, lookups>>
    BY <1>2 DEF Grown, Return
  <2>3. TypeOK'
    BY <2>1, <2>2 DEF TypeOK, Steps, Operations, lookups
  <2>4. Phases'
    BY <2>2 DEF Phases
  <2>5. Extents'
    BY <2>1, <2>2 DEF Extents, Has, Involved, Indices, TypeOK
  <2>6. SegmentsAreOwnedOnce'
    BY <2>2, SegmentsUntouched
  <2>7. Readers'
    BY <2>1, <2>2, ReadersApart DEF Involved, TypeOK
  <2> QED
    BY <2>3, <2>4, <2>5, <2>6, <2>7
<1> QED
  BY <1>1, <1>2

\* change_size to a smaller hashpower.
LEMMA ShrinkKeeps ==
    ASSUME IInv, ShrinkHashpower \/ Shrink \/ Shrunk PROVE IInv'
<1> USE StorageAssumption DEF IInv
<1>1. CASE ShrinkHashpower
  <2>1. /\ step = "shrink_hp" /\ Running /\ op # "double_size" /\ other = this
        /\ this \in Storages /\ n < i /\ i = hp_[this] /\ i \in -1..MaxHp /\ n \in -1..MaxHp
    BY <1>1 DEF ShrinkHashpower, Phases, TypeOK, Running
  <2>2. /\ hp_' = [hp_ EXCEPT ![this] = n]
        /\ step' = "shrink"
        /\ UNCHANGED <<data_, heap, made, op, i, this, other, n, lookups>>
    BY <1>1 DEF ShrinkHashpower, Goto
  <2>3. TypeOK'
    BY <2>1, <2>2 DEF TypeOK, Steps, lookups
  <2>4. Phases'
    BY <2>1, <2>2 DEF Phases, TypeOK
  <2>5. Extents'
    BY <2>1, <2>2 DEF Extents, Has, Involved, Indices, TypeOK
  <2>6. SegmentsAreOwnedOnce'
    BY <2>2, SegmentsUntouched
  <2>7. Readers'
    BY <2>1, <2>2, ReadersApart DEF Involved, TypeOK
  <2> QED
    BY <2>3, <2>4, <2>5, <2>6, <2>7
<1>2. CASE Shrink
  <2>1. /\ step = "shrink" /\ Running /\ op # "double_size" /\ other = this
        /\ this \in Storages /\ n < i /\ n = hp_[this] /\ i \in Indices /\ n \in -1..MaxHp
    BY <1>2 DEF Shrink, Phases, TypeOK, Running, Indices
  <2>2. /\ heap' = heap \ {data_[this][i]}
        /\ data_' = [data_ EXCEPT ![this][i] = Nil]
        /\ i' = i - 1
        /\ UNCHANGED <<hp_, made, op, step, this, other, n, lookups>>
    BY <1>2 DEF Shrink
  <2>3. /\ data_'[this][i] = Nil
        /\ \A p \in Storages : \A l \in Indices : p # this \/ l # i => data_'[p][l] = data_[p][l]
    BY <2>1, <2>2 DEF TypeOK
  <2>4. TypeOK'
    BY <2>1, <2>2 DEF TypeOK, lookups, Indices
  <2>5. Phases'
    BY <2>1, <2>2 DEF Phases, Indices
  <2>6. Extents'
    <3> SUFFICES ASSUME NEW o \in Storages, NEW k \in Indices
                 PROVE  data_'[o][k] # Nil <=> Has(o, k)'
      BY DEF Extents
    <3>1. data_[o][k] # Nil <=> Has(o, k)
      BY DEF Extents
    <3> QED
      BY <2>1, <2>2, <2>3, <3>1 DEF Has, Involved, Indices
  <2>7. SegmentsAreOwnedOnce'
    <3> DEFINE freed == data_[this][i]
    <3>1. freed # Nil
      BY <2>1 DEF Extents, Has, Involved, Indices
    <3>2. freed \in heap /\ made[freed] = i
      BY <2>1, <3>1 DEF SegmentsAreOwnedOnce
    <3>3. ASSUME NEW p \in Storages, NEW l \in Indices, p # this \/ l # i PROVE data_[p][l] # freed
      <4> SUFFICES ASSUME data_[p][l] = freed PROVE FALSE
        OBVIOUS
      <4>1. l = i
        BY <3>1, <3>2 DEF SegmentsAreOwnedOnce
      <4> QED
        BY <2>1, <3>1, <3>3, <4>1 DEF SegmentsAreOwnedOnce
    <3>4. /\ \A p \in Storages : \A l \in Indices :
                data_'[p][l] # Nil => data_'[p][l] \in heap' /\ made'[data_'[p][l]] = l
          /\ \A p, q \in Storages : \A l \in Indices :
                data_'[p][l] # Nil /\ data_'[p][l] = data_'[q][l] => p = q
      BY <2>1, <2>2, <2>3, <3>3 DEF SegmentsAreOwnedOnce
    <3>5. \A r \in heap' : \E p \in Storages : data_'[p][made'[r]] = r
      <4> SUFFICES ASSUME NEW r \in heap, r # freed PROVE \E p \in Storages : data_'[p][made[r]] = r
        BY <2>2
      <4>1. PICK p \in Storages : data_[p][made[r]] = r
        BY DEF SegmentsAreOwnedOnce
      <4>2. made[r] \in Indices
        BY DEF TypeOK
      <4> QED
        BY <2>3, <4>1, <4>2
    <3> QED
      BY <3>4, <3>5 DEF SegmentsAreOwnedOnce
  <2>8. Readers'
    BY <2>1, <2>2, ReadersApart DEF Involved, TypeOK
  <2> QED
    BY <2>4, <2>5, <2>6, <2>7, <2>8
<1>3. CASE Shrunk
  <2>1. /\ step = "shrink" /\ Running /\ op # "double_size" /\ other = this
        /\ this \in Storages /\ n = hp_[this] /\ n \in -1..MaxHp /\ i \in -1..MaxHp + 1
        /\ i <= n /\ n <= i
    BY <1>3 DEF Shrunk, Phases, TypeOK, Running
  <2>2. /\ op' = "none" /\ step' = "idle" /\ i' = 0
        /\ UNCHANGED <<hp_, data_, heap, made, this, other, n, lookups>>
    BY <1>3 DEF Shrunk, Return, storage
  <2>3. TypeOK'
    BY <2>2 DEF TypeOK, Steps, Operations, lookups
  <2>4. Phases'
    BY <2>2 DEF Phases
  <2>5. Extents'
    BY <2>1, <2>2 DEF Extents, Has, Involved
  <2>6. SegmentsAreOwnedOnce'
    BY <2>2, SegmentsUntouched
  <2>7. Readers'
    BY <2>1, <2>2, ReadersApart
  <2> QED
    BY <2>3, <2>4, <2>5, <2>6, <2>7
<1> QED
  BY <1>1, <1>2, <1>3

\* swap: the hashpowers, then pointer by pointer.
LEMMA SwapKeeps ==
    ASSUME IInv, SwapThis \/ SwapOther \/ Swap PROVE IInv'
<1> USE StorageAssumption DEF IInv
<1>1. CASE SwapThis
  <2>1. /\ step = "swap_this" /\ Running /\ op # "double_size" /\ this # other
        /\ this \in Storages /\ other \in Storages /\ i = 0 /\ n = hp_[this]
    BY <1>1 DEF SwapThis, Phases, TypeOK, Running
  <2>2. /\ hp_' = [hp_ EXCEPT ![this] = hp_[other]]
        /\ step' = "swap_other"
        /\ UNCHANGED <<data_, heap, made, op, i, this, other, n, lookups>>
    BY <1>1 DEF SwapThis, Goto
  <2>3. TypeOK'
    BY <2>1, <2>2 DEF TypeOK, Steps, lookups
  <2>4. Phases'
    BY <2>1, <2>2 DEF Phases, TypeOK
  <2>5. Extents'
    BY <2>1, <2>2 DEF Extents, Has, Involved, TypeOK
  <2>6. SegmentsAreOwnedOnce'
    BY <2>2, SegmentsUntouched
  <2>7. Readers'
    BY <2>1, <2>2, ReadersApart DEF Involved, TypeOK
  <2> QED
    BY <2>3, <2>4, <2>5, <2>6, <2>7
<1>2. CASE SwapOther
  <2>1. /\ step = "swap_other" /\ Running /\ op # "double_size" /\ this # other
        /\ this \in Storages /\ other \in Storages /\ i = 0 /\ hp_[this] = hp_[other]
        /\ n \in -1..MaxHp /\ hp_[this] \in -1..MaxHp
    BY <1>2 DEF SwapOther, Phases, TypeOK, Running
  <2>2. /\ hp_' = [hp_ EXCEPT ![other] = n]
        /\ step' = "swap"
        /\ UNCHANGED <<data_, heap, made, op, i, this, other, n, lookups>>
    BY <1>2 DEF SwapOther, Goto
  <2>3. TypeOK'
    BY <2>1, <2>2 DEF TypeOK, Steps, lookups
  <2>4. Phases'
    BY <2>1, <2>2 DEF Phases, TypeOK, Larger
  <2>5. Extents'
    <3> SUFFICES ASSUME NEW o \in Storages, NEW k \in Indices
                 PROVE  data_'[o][k] # Nil <=> Has(o, k)'
      BY DEF Extents
    <3>1. data_[o][k] # Nil <=> Has(o, k)
      BY DEF Extents
    <3>2. hp_'[this] = hp_[this] /\ hp_'[other] = n /\ (o # other => hp_'[o] = hp_[o])
      BY <2>1, <2>2 DEF TypeOK
    <3> QED
      BY <2>1, <2>2, <3>1, <3>2 DEF Has, Involved, Partner, Indices
  <2>6. SegmentsAreOwnedOnce'
    BY <2>2, SegmentsUntouched
  <2>7. Readers'
    BY <2>1, <2>2, ReadersApart DEF Involved, TypeOK
  <2> QED
    BY <2>3, <2>4, <2>5, <2>6, <2>7
<1>3. CASE Swap
  <2>1. /\ step = "swap" /\ Running /\ op # "double_size" /\ this # other
        /\ this \in Storages /\ other \in Storages
        /\ hp_[this] \in -1..MaxHp /\ hp_[other] \in -1..MaxHp
        /\ i \in 0..MaxHp + 1 /\ i <= Larger(hp_[this], hp_[other]) + 1
    BY <1>3 DEF Swap, Phases, TypeOK, Running
  <2>2. UNCHANGED <<hp_, heap, made, this, other, n, lookups>> /\ op' \in {op, "none"}
    BY <1>3 DEF Swap, Return
  <2>3. CASE i > Larger(hp_[this], hp_[other])
    <3>1. op' = "none" /\ step' = "idle" /\ i' = 0 /\ UNCHANGED data_
      BY <1>3, <2>3 DEF Swap, Return
    <3>2. hp_[this] < i /\ hp_[other] < i
      BY <2>1, <2>3 DEF Larger
    <3>3. TypeOK'
      BY <2>2, <3>1 DEF TypeOK, Steps, Operations, lookups
    <3>4. Phases'
      BY <3>1 DEF Phases
    <3>5. Extents'
      BY <2>1, <2>2, <3>1, <3>2 DEF Extents, Has, Involved, Indices, Partner
    <3>6. SegmentsAreOwnedOnce'
      BY <2>2, <3>1, SegmentsUntouched
    <3>7. Readers'
      BY <2>1, <2>2, <3>1, ReadersApart
    <3> QED
      BY <3>3, <3>4, <3>5, <3>6, <3>7
  <2>4. CASE ~(i > Larger(hp_[this], hp_[other]))
    <3>1. i' = i + 1 /\ UNCHANGED <<op, step>>
      BY <1>3, <2>4 DEF Swap
    <3>2. i <= Larger(hp_[this], hp_[other]) /\ i \in Indices
      BY <2>1, <2>4 DEF Larger, Indices
    <3>3. /\ data_'[this][i] = data_[other][i] /\ data_'[other][i] = data_[this][i]
          /\ \A p \in Storages : \A l \in Indices :
                p \notin Involved \/ l # i => data_'[p][l] = data_[p][l]
          /\ \A p \in Storages \ Involved : data_'[p] = data_[p]
          /\ data_' \in [Storages -> [Indices -> Segments \cup {Nil}]]
      <4>1. data_[this][i] \in Segments \cup {Nil}
        BY <2>1, <3>2 DEF TypeOK
      <4>2. data_' = [data_ EXCEPT ![this][i] = data_[other][i], ![other][i] = data_[this][i]]
        BY <1>3, <2>4 DEF Swap
      <4> QED
        BY <2>1, <3>2, <4>1, <4>2, PointerHandedOver
    <3>4. TypeOK'
      BY <2>1, <2>2, <3>1, <3>2, <3>3 DEF TypeOK, lookups, Indices
    <3>5. Phases'
      BY <2>1, <2>2, <3>1, <3>2 DEF Phases, Larger
    <3>6. Extents'
      <4> SUFFICES ASSUME NEW o \in Storages, NEW k \in Indices
                   PROVE  data_'[o][k] # Nil <=> Has(o, k)'
        BY DEF Extents
      <4>1. /\ data_[o][k] # Nil <=> Has(o, k)
            /\ data_[this][k] # Nil <=> Has(this, k)
            /\ data_[other][k] # Nil <=> Has(other, k)
        BY <2>1 DEF Extents
      <4>2. CASE o \notin Involved \/ k # i
        BY <2>1, <2>2, <3>1, <3>3, <4>1, <4>2 DEF Has, Involved, Indices, Partner
      <4>3. CASE o \in Involved /\ k = i
        BY <2>1, <2>2, <3>1, <3>3, <4>1, <4>3 DEF Has, Involved, Indices, Partner
      <4> QED
        BY <4>2, <4>3
    <3>7. SegmentsAreOwnedOnce'
      <4> DEFINE From(p, l) == IF l = i THEN IF p = this THEN other ELSE IF p = other THEN this ELSE p ELSE p
      <4>1. \A p \in Storages : \A l \in Indices :
               From(p, l) \in Storages /\ data_'[p][l] = data_[From(p, l)][l]
        BY <2>1, <3>3 DEF Involved
      <4>2. \A p, q \in Storages : \A l \in Indices :
               /\ From(p, l) = From(q, l) => p = q
               /\ From(From(p, l), l) = p
        BY <2>1
      <4> HIDE DEF From
      <4>3. \A p \in Storages : \A l \in Indices :
               data_'[p][l] # Nil => data_'[p][l] \in heap /\ made[data_'[p][l]] = l
        BY <4>1 DEF SegmentsAreOwnedOnce
      <4>4. \A p, q \in Storages : \A l \in Indices :
               data_'[p][l] # Nil /\ data_'[p][l] = data_'[q][l] => p = q
        BY <4>1, <4>2 DEF SegmentsAreOwnedOnce
      <4>5. ASSUME NEW r \in heap PROVE \E p \in Storages : data_'[p][made[r]] = r
        <5>1. PICK p \in Storages : data_[p][made[r]] = r
          BY DEF SegmentsAreOwnedOnce
        <5>2. made[r] \in Indices
          BY DEF TypeOK
        <5>3. data_'[From(p, made[r])][made[r]] = r /\ From(p, made[r]) \in Storages
          BY <4>1, <4>2, <5>1, <5>2
        <5> QED
          BY <5>3
      <4> QED
        BY <2>2, <4>3, <4>4, <4>5 DEF SegmentsAreOwnedOnce
    <3>8. Readers'
      BY <2>1, <2>2, <3>1, <3>3, ReadersApart
    <3> QED
      BY <3>4, <3>5, <3>6, <3>7, <3>8
  <2> QED
    BY <2>3, <2>4
<1> QED
  BY <1>1, <1>2, <1>3

\* move_pointers.
LEMMA MoveKeeps ==
    ASSUME IInv, MovePointer \/ Moved PROVE IInv'
<1> USE StorageAssumption DEF IInv
<1>0. /\ step = "move" /\ Running /\ op # "double_size" /\ this # other
      /\ this \in Storages /\ other \in Storages
      /\ hp_[this] = -1 /\ n = hp_[other] /\ n \in -1..MaxHp
      /\ i \in 0..MaxHp + 1 /\ i <= n + 1
  BY DEF MovePointer, Moved, Phases, TypeOK, Running
<1>1. CASE MovePointer
  <2>1. /\ i' = i + 1 /\ i <= n
        /\ UNCHANGED <<hp_, heap, made, op, step, this, other, n, lookups>>
    BY <1>1 DEF MovePointer
  <2>2. i \in Indices
    BY <1>0, <2>1 DEF Indices
  <2>3. /\ data_'[this][i] = data_[other][i] /\ data_'[other][i] = Nil
        /\ \A p \in Storages : \A l \in Indices :
              p \notin Involved \/ l # i => data_'[p][l] = data_[p][l]
        /\ \A p \in Storages \ Involved : data_'[p] = data_[p]
        /\ data_' \in [Storages -> [Indices -> Segments \cup {Nil}]]
    <3>1. data_' = [data_ EXCEPT ![this][i] = data_[other][i], ![other][i] = Nil]
      BY <1>1 DEF MovePointer
    <3> QED
      BY <1>0, <2>2, <3>1, PointerHandedOver
  <2>4. data_[this][i] = Nil
    BY <1>0, <2>2 DEF Extents, Has, Involved, Indices
  <2>5. TypeOK'
    BY <1>0, <2>1, <2>2, <2>3 DEF TypeOK, lookups, Indices
  <2>6. Phases'
    BY <1>0, <2>1, <2>2 DEF Phases
  <2>7. Extents'
    <3> SUFFICES ASSUME NEW o \in Storages, NEW k \in Indices
                 PROVE  data_'[o][k] # Nil <=> Has(o, k)'
      BY DEF Extents
    <3>1. /\ data_[o][k] # Nil <=> Has(o, k)
          /\ data_[other][k] # Nil <=> Has(other, k)
      BY <1>0 DEF Extents
    <3>2. CASE o \notin Involved \/ k # i
      BY <1>0, <2>1, <2>3, <3>1, <3>2 DEF Has, Involved, Indices
    <3>3. CASE o \in Involved /\ k = i
      BY <1>0, <2>1, <2>3, <3>1, <3>3 DEF Has, Involved, Indices
    <3> QED
      BY <3>2, <3>3
  <2>8. SegmentsAreOwnedOnce'
    <3>1. ASSUME NEW p \in Storages, NEW l \in Indices, data_'[p][l] # Nil
          PROVE  \E q \in Storages :
                    /\ data_'[p][l] = data_[q][l]
                    /\ (l = i /\ p = this /\ q = other) \/ (q = p /\ ~(l = i /\ p \in {this, other}))
      BY <1>0, <2>3, <3>1 DEF Involved
    <3>2. \A p \in Storages : \A l \in Indices :
             data_'[p][l] # Nil => data_'[p][l] \in heap /\ made[data_'[p][l]] = l
      BY <3>1 DEF SegmentsAreOwnedOnce
    <3>3. ASSUME NEW p \in Storages, NEW q \in Storages, NEW l \in Indices,
                 data_'[p][l] # Nil, data_'[p][l] = data_'[q][l]
          PROVE  p = q
      <4>1. PICK r \in Storages :
              /\ data_'[p][l] = data_[r][l]
              /\ (l = i /\ p = this /\ r = other) \/ (r = p /\ ~(l = i /\ p \in {this, other}))
        BY <3>1, <3>3
      <4>2. PICK u \in Storages :
              /\ data_'[q][l] = data_[u][l]
              /\ (l = i /\ q = this /\ u = other) \/ (u = q /\ ~(l = i /\ q \in {this, other}))
        BY <3>1, <3>3
      <4>3. data_[r][l] # Nil /\ data_[r][l] = data_[u][l]
        BY <3>3, <4>1, <4>2
      <4>4. r = u
        BY <4>3 DEF SegmentsAreOwnedOnce
      <4> QED
        BY <4>1, <4>2, <4>4
    <3>4. ASSUME NEW r \in heap PROVE \E p \in Storages : data_'[p][made[r]] = r
      <4>1. PICK p \in Storages : data_[p][made[r]] = r
        BY DEF SegmentsAreOwnedOnce
      <4>2. made[r] \in Indices /\ r # Nil
        BY DEF TypeOK
      <4>3. CASE p = other /\ made[r] = i
        BY <1>0, <2>3, <4>1, <4>3
      <4>4. CASE p = this /\ made[r] = i
        BY <2>4, <4>1, <4>2, <4>4
      <4>5. CASE p \notin Involved \/ made[r] # i
        BY <2>3, <4>1, <4>2, <4>5
      <4> QED
        BY <4>3, <4>4, <4>5 DEF Involved
    <3> QED
      BY <2>1, <3>2, <3>3, <3>4 DEF SegmentsAreOwnedOnce
  <2>9. Readers'
    BY <1>0, <2>1, <2>3, ReadersApart
  <2> QED
    BY <2>5, <2>6, <2>7, <2>8, <2>9
<1>2. CASE Moved
  <2>1. /\ hp_' = [hp_ EXCEPT ![this] = hp_[other], ![other] = -1]
        /\ op' = "none" /\ step' = "idle" /\ i' = 0 /\ i > n
        /\ UNCHANGED <<data_, heap, made, this, other, n, lookups>>
    BY <1>2 DEF Moved, Return
  <2>2. hp_'[this] = n /\ hp_'[other] = -1
        /\ \A o \in Storages \ Involved : hp_'[o] = hp_[o]
    BY <1>0, <2>1 DEF TypeOK, Involved
  <2>3. TypeOK'
    BY <1>0, <2>1 DEF TypeOK, Steps, Operations, lookups
  <2>4. Phases'
    BY <2>1 DEF Phases
  <2>5. Extents'
    <3> SUFFICES ASSUME NEW o \in Storages, NEW k \in Indices
                 PROVE  data_'[o][k] # Nil <=> Has(o, k)'
      BY DEF Extents
    <3>1. data_[o][k] # Nil <=> Has(o, k)
      BY DEF Extents
    <3>2. i = n + 1 /\ k \in 0..MaxHp
      BY <1>0, <2>1 DEF Indices
    <3>3. CASE o \notin Involved
      BY <2>1, <2>2, <3>1, <3>3 DEF Has, Involved
    <3>4. CASE o = this
      BY <1>0, <2>1, <2>2, <3>1, <3>2, <3>4 DEF Has, Involved
    <3>5. CASE o = other
      BY <1>0, <2>1, <2>2, <3>1, <3>2, <3>5 DEF Has, Involved
    <3> QED
      BY <3>3, <3>4, <3>5 DEF Involved
  <2>6. SegmentsAreOwnedOnce'
    BY <2>1, SegmentsUntouched
  <2>7. Readers'
    BY <1>0, <2>1, <2>2, ReadersApart
  <2> QED
    BY <2>3, <2>4, <2>5, <2>6, <2>7
<1> QED
  BY <1>1, <1>2

-----------------------------------------------------------------------------
\* A step of a lookup.
LEMMA LookupsKeep ==
    ASSUME IInv, NEW t \in Threads, Lookup(t) PROVE IInv'
<1> USE StorageAssumption, LookupAssumption DEF IInv
<1>1. UNCHANGED <<storage, owner>>
  BY DEF Lookup, LoadHashpower, LoadPointer, ReadElement
<1>2. Phases' /\ Extents' /\ SegmentsAreOwnedOnce'
  BY <1>1 DEF storage, owner, Phases, Extents, Has, Involved, Partner, SegmentsAreOwnedOnce
<1>3. ASSUME NEW o \in Storages, LoadHashpower(t, o) PROVE TypeOK' /\ Readers'
  <2>1. TypeOK'
    BY <1>1, <1>3 DEF LoadHashpower, TypeOK, storage, owner
  <2>2. Reads(t)'
    BY <1>1, <1>3 DEF LoadHashpower, TypeOK, storage, owner, Reads, Running, Involved
  <2>3. ASSUME NEW u \in Threads, u # t, pc[u] # "idle" PROVE Reads(u)'
    BY <1>1, <1>3, <2>3 DEF LoadHashpower, TypeOK, storage, owner, Readers, Reads, Running, Involved
  <2> QED
    BY <1>3, <2>1, <2>2, <2>3 DEF Readers, LoadHashpower, TypeOK
<1>4. CASE LoadPointer(t)
  <2>1. PICK k \in 0..seen[t] :
          /\ pc[t] = "pointer"
          /\ pc' = [pc EXCEPT ![t] = "element"]
          /\ seg' = [seg EXCEPT ![t] = k]
          /\ ptr' = [ptr EXCEPT ![t] = data_[at[t]][k]]
          /\ UNCHANGED <<at, seen>>
    BY <1>4 DEF LoadPointer
  <2>2. k \in Indices /\ k <= seen[t] /\ at[t] \in Storages /\ data_[at[t]][k] \in Segments \cup {Nil}
    BY <2>1 DEF TypeOK, Indices
  <2>3. TypeOK'
    BY <1>1, <2>1, <2>2 DEF TypeOK, storage, owner
  <2>4. Reads(t)'
    BY <1>1, <2>1, <2>2 DEF TypeOK, storage, owner, Readers, Reads, Running, Involved
  <2>5. ASSUME NEW u \in Threads, u # t, pc[u] # "idle" PROVE Reads(u)'
    BY <1>1, <2>1, <2>5 DEF TypeOK, storage, owner, Readers, Reads, Running, Involved
  <2>6. Readers'
    BY <2>1, <2>4, <2>5 DEF Readers, TypeOK
  <2> QED
    BY <1>2, <2>3, <2>6
<1>5. CASE ReadElement(t)
  <2>1. PICK l \in {"pointer", "idle"} :
          /\ pc[t] = "element"
          /\ pc' = [pc EXCEPT ![t] = l]
          /\ UNCHANGED <<at, seen, seg, ptr>>
    BY <1>5 DEF ReadElement
  <2>2. TypeOK'
    BY <1>1, <2>1 DEF TypeOK, storage, owner
  <2>3. ASSUME NEW u \in Threads, pc'[u] # "idle" PROVE Reads(u)'
    <3>1. pc[u] # "idle" /\ (pc'[u] = "element" => pc[u] = "element")
      BY <2>1, <2>3 DEF TypeOK
    <3>2. Reads(u)
      BY <3>1 DEF Readers
    <3> QED
      BY <1>1, <2>1, <3>1, <3>2 DEF storage, owner, Reads, Running, Involved
  <2>4. Readers'
    BY <2>3 DEF Readers
  <2> QED
    BY <1>2, <2>2, <2>4
<1> QED
  BY <1>2, <1>3, <1>4, <1>5 DEF Lookup

\* The invariant is inductive.
LEMMA InvNext == IInv /\ [Next]_vars => IInv'
<1> SUFFICES ASSUME IInv, [Next]_vars PROVE IInv'
  OBVIOUS
<1>1. CASE Calls
  BY <1>1, CallsKeep
<1>2. CASE Work
  BY <1>2, DoubleKeeps, GrowKeeps, ShrinkKeeps, SwapKeeps, MoveKeeps DEF Work
<1>3. CASE \E t \in Threads : Lookup(t)
  BY <1>3, LookupsKeep
<1>4. CASE UNCHANGED vars
  BY <1>4 DEF vars, storage, owner, lookups, IInv, TypeOK, Phases, Extents, Has, Involved, Partner,
              SegmentsAreOwnedOnce, Readers, Reads, Running
<1> QED
  BY <1>1, <1>2, <1>3, <1>4 DEF Next

-----------------------------------------------------------------------------
\* The invariant holds in every state: it ties the pointers to the hashpower
\* statement by statement (data_storage.hpp:113-166, 194-198).
THEOREM Invariance == Spec => []IInv
BY InvInit, InvNext, PTL DEF Spec

\* Every variable keeps its type; no loop leaves the array of pointers.
THEOREM TypeCorrect == Spec => []TypeOK
<1>1. IInv => TypeOK
  BY DEF IInv
<1> QED
  BY <1>1, Invariance, PTL

\* What a lookup reads is allocated, and of the size it expects, although
\* the storage doubles meanwhile.
THEOREM LookupsAreSafe == Spec => []LookupsReadLiveSegments
<1>1. IInv => LookupsReadLiveSegments
  BY InvImplies
<1> QED
  BY <1>1, Invariance, PTL

\* No sequence of operations leaks a segment or gives it two owners.
THEOREM SegmentsAreSafe == Spec => []SegmentsAreOwnedOnce
<1>1. IInv => SegmentsAreOwnedOnce
  BY DEF IInv
<1> QED
  BY <1>1, Invariance, PTL

\* Between two operations the hashpower says which segments there are.
THEOREM HashpowerIsRight == Spec => []HashpowerCountsSegments
<1>1. IInv => HashpowerCountsSegments
  BY InvImplies
<1> QED
  BY <1>1, Invariance, PTL

=============================================================================
