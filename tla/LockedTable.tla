----------------------------- MODULE LockedTable -----------------------------
(***************************************************************************)
(* locked_table of cuckoohash_map.hpp: a handle that owns all locks of a   *)
(* map, its constructor that finishes the migration with worker threads,   *)
(* its iterators, and its modifiers, which look through no lock; and       *)
(* cuckoo_change_capacity, which rehash and reserve use with and without   *)
(* the handle, copying the elements into a new map with worker threads.    *)
(*                                                                         *)
(* The other threads' calls are single steps here, taken while the locks   *)
(* they need are free: module CuckooMap opens them.  A mapped value goes   *)
(* wherever its key goes and is left out.                                  *)
(***************************************************************************)
EXTENDS ParallelExec, FiniteSetsExt, Functions

CONSTANTS
    Keys,         \* the keys
    Hash, Alt,    \* of a key: its low bits are index_hash and alt_index
    Slots,        \* SLOT_PER_BUCKET
    MaxDrift,     \* bound of TLC's runs: how far a counter may go below zero
    LockPow,      \* kMaxNumLocksPow
    MaxHp,        \* maximum_hashpower of the map
    MinLoad,      \* minimum_load_factor of the map, in percent
    NewMinLoad,   \* DEFAULT_MINIMUM_LOAD_FACTOR, in percent: the one of a new map
    HpBound,      \* bound of TLC's runs: how far a new map, which has no maximum, grows
    Sizes,        \* the hashpowers asked for by rehash(n) of the map
    LockedSizes,  \* the hashpowers asked for by rehash(n) of the handle
    Empty, None   \* no key in a slot; no map, no iterator, no argument

ASSUME TableAssumption ==
    /\ Slots \in Nat \ {0} /\ LockPow \in Nat /\ MinLoad \in 0..100
    /\ HpBound \in Nat /\ MaxHp \in 0..HpBound /\ NewMinLoad \in 0..100
    /\ MaxDrift \in Nat
    /\ Hash \in [Keys -> Nat] /\ Alt \in [Keys -> Nat]
    /\ Sizes \subseteq Nat /\ LockedSizes \subseteq Nat
    /\ Empty \notin Keys

VARIABLES
    map,      \* buckets_ and locks_ of the map: its hashpower, its slots, its locks
    temp,     \* new_map of cuckoo_change_capacity
    handle,   \* a locked_table exists
    doing,    \* what the owner of all locks, or the thread that takes them, does
    arg,      \* the key it inserts or the hashpower it changes to
    turn,     \* how many locks it has taken, or released
    it,       \* the position of an iterator, or None when it is not valid
    visited,  \* ghost: the keys the iterator has passed since begin()
    content   \* ghost: the keys of the map

tableVars == <<map, temp, handle, doing, arg, turn, it, visited, content>>
vars == <<execVars, tableVars>>

SlotIds == 1..Slots

\* hashsize, index_hash, alt_index and lock_ind.
HashSize(hp) == 2^hp
I1(k, hp) == Hash[k] % HashSize(hp)
I2(k, hp) == Alt[k] % HashSize(hp)
Homes(k, hp) == {I1(k, hp), I2(k, hp)}
Other(k, b, hp) == IF b = I1(k, hp) THEN I2(k, hp) ELSE I1(k, hp)
LockInd(b) == b % HashSize(LockPow)
LocksOf(B) == {LockInd(b) : b \in B}
NumLocks(hp) == HashSize(IF hp < LockPow THEN hp ELSE LockPow)

\* The law of powers, which the provers do not know.
ASSUME PowerAssumption ==
    HashSize(0) = 1 /\ \A n \in 0..HpBound + LockPow : HashSize(n + 1) = 2 * HashSize(n)

LockIds(m) == DOMAIN m.locks
FreeSlots(m, b) == {i \in SlotIds : m.slots[b][i] = Empty}
Where(m, k) == {p \in (DOMAIN m.slots) \X SlotIds : m.slots[p[1]][p[2]] = k}
KeysOf(m) == {k \in Keys : Where(m, k) # {}}
Size(m) == SumFunction([l \in LockIds(m) |-> m.locks[l].count])

\* The constructor of a map.
NewMap(hp) ==
    [hp |-> hp,
     slots |-> [b \in 0..HashSize(hp) - 1 |-> [i \in SlotIds |-> Empty]],
     locks |-> [l \in 0..NumLocks(hp) - 1 |-> [held |-> FALSE, migrated |-> TRUE, count |-> 0]]]

WithLocks(m, L, held) ==
    [m EXCEPT !.locks = [l \in LockIds(m) |->
        IF l \in L THEN [m.locks[l] EXCEPT !.held = held] ELSE m.locks[l]]]

-----------------------------------------------------------------------------
\* need_to_move_elem and move_bucket: the keys of the buckets B that belong to
\* the new half move there, to the slots from the first one on.
NeedToMove(k, b, hp) ==
    LET new == b + HashSize(hp)
    IN  \/ b = I1(k, hp) /\ I1(k, hp + 1) = new
        \/ b = I2(k, hp) /\ I2(k, hp + 1) = new

Moving(m, b) == {i \in SlotIds : m.slots[b][i] # Empty /\ NeedToMove(m.slots[b][i], b, m.hp - 1)}
Nth(S, j) == CHOOSE i \in S : Cardinality({x \in S : x <= i}) = j

MoveBuckets(m, B) ==
    LET old(c) == c - HashSize(m.hp - 1)
    IN  [m EXCEPT !.slots = [c \in DOMAIN m.slots |-> [j \in SlotIds |->
            CASE c \in B /\ j \in Moving(m, c) -> Empty
              [] old(c) \in B /\ j <= Cardinality(Moving(m, old(c))) ->
                    m.slots[old(c)][Nth(Moving(m, old(c)), j)]
              [] OTHER -> m.slots[c][j]]]]

OldBuckets(m) == 0..HashSize(m.hp - 1) - 1

\* lock_and_rehash of the locks L: what their last doubling left is moved.
Touch(m, L) ==
    LET left == {l \in L : ~m.locks[l].migrated}
    IN  IF left = {} THEN m
        ELSE [MoveBuckets(m, {b \in OldBuckets(m) : LockInd(b) \in left}) EXCEPT !.locks =
                [l \in LockIds(m) |-> [m.locks[l] EXCEPT !.migrated = @ \/ l \in L]]]

\* Mutant: the locks do not grow with the buckets.
GrownWithoutLocks(m) ==
    [hp |-> m.hp + 1,
     slots |-> [b \in 0..HashSize(m.hp + 1) - 1 |->
                  IF b \in DOMAIN m.slots THEN m.slots[b] ELSE [i \in SlotIds |-> Empty]],
     locks |-> m.locks]

\* double_size, and maybe_resize_locks: the new locks are held like the old
\* ones and born migrated.
Grown(m) ==
    [hp |-> m.hp + 1,
     slots |-> [b \in 0..HashSize(m.hp + 1) - 1 |->
                  IF b \in DOMAIN m.slots THEN m.slots[b] ELSE [i \in SlotIds |-> Empty]],
     locks |-> [l \in 0..NumLocks(m.hp + 1) - 1 |->
                  IF l \in LockIds(m) THEN m.locks[l]
                  ELSE [held |-> m.locks[0].held, migrated |-> TRUE, count |-> 0]]]

\* The eager half of cuckoo_fast_double moves all keys and counts them at
\* their new locks.
Spread(m) ==
    LET n == MoveBuckets(m, OldBuckets(m))
        gain(b) == Cardinality(FreeSlots(m, b)) - Cardinality(FreeSlots(n, b))
    IN  [n EXCEPT !.locks = [l \in LockIds(m) |-> [m.locks[l] EXCEPT !.count = @ + gain(l)]]]

\* cuckoo_fast_double under all locks, up to rehash_with_workers: a table with
\* as many locks as there may be is left to be migrated.
Doubled(m) ==
    IF m.hp < LockPow THEN Spread(Grown(m))
    ELSE LET n == Grown(m)
         IN  [n EXCEPT !.locks = [l \in LockIds(n) |-> [n.locks[l] EXCEPT !.migrated = FALSE]]]

-----------------------------------------------------------------------------
\* setKV and the counter: the key is counted at lock l.
Put(m, k, b, i, l) ==
    [m EXCEPT !.slots[b][i] = k, !.locks[l].count = @ + 1]

Moved(m, b, i, d, j) ==
    [m EXCEPT !.slots = [@ EXCEPT ![d][j] = m.slots[b][i], ![b][i] = Empty]]

\* The maps an insertion of k may leave when m has room for it: in the last
\* free slot of its first bucket, else of its second, else where a key has
\* moved to its other bucket (paths of one move stand for cuckoo paths).
\* Calls of normal_mode look through the locks and count at lock1 of
\* lock_two, calls of locked_table_mode count at the lock of the bucket.
Placements(m, k, normal) ==
    LET hp == m.hp
        See(n, B) == IF normal THEN Touch(n, LocksOf(B)) ELSE n
        Counter(b) == IF normal THEN Min(LocksOf(Homes(k, hp))) ELSE LockInd(b)
        n == See(m, Homes(k, hp))
        Last(b) == Put(n, k, b, Max(FreeSlots(n, b)), Counter(b))
        Displaced(b, i) ==
            LET d == Other(n.slots[b][i], b, hp)
                o == See(n, {d})
            IN  {Put(Moved(o, b, i, d, j), k, b, i, Counter(b)) : j \in FreeSlots(o, d)}
    IN  IF FreeSlots(n, I1(k, hp)) # {} THEN {Last(I1(k, hp))}
        ELSE IF FreeSlots(n, I2(k, hp)) # {} THEN {Last(I2(k, hp))}
        ELSE UNION {UNION {Displaced(b, i) : i \in SlotIds} : b \in Homes(k, hp)}

\* check_resize_validity for an automatic doubling, of the map and of the new
\* map of cuckoo_change_capacity, which has the default limits.
TooEmpty(m, load) == Size(m) * 100 < load * Slots * HashSize(m.hp)
Refused == map.hp + 1 > MaxHp \/ TooEmpty(map, MinLoad)
NewMapRefused == TooEmpty(temp, NewMinLoad)

\* cuckoo_fast_double in normal_mode ends the migration before it doubles.
RehashAll(m) == IF m.hp > LockPow THEN Touch(m, LockIds(m)) ELSE m

\* Positions count the slots of all buckets from 0.
EndPos(m) == HashSize(m.hp) * Slots
KeyAt(m, pos) == m.slots[pos \div Slots][(pos % Slots) + 1]
Occupied(m) == {pos \in 0..EndPos(m) - 1 : KeyAt(m, pos) # Empty}

\* Mutant: operator++ does not go back to slot 0 in the next bucket.
SettleInBucket(m, pos) ==
    Min({p \in Occupied(m) : p >= pos /\ p % Slots >= pos % Slots} \cup {EndPos(m)})

\* operator++ and the constructor of an iterator: the first position from pos
\* on that holds a key, or the end.
Settle(m, pos) == Min({p \in Occupied(m) : p >= pos} \cup {EndPos(m)})

Init ==
    /\ ExecInit
    /\ \E hp \in Sizes : hp <= MaxHp /\ map = NewMap(hp)
    /\ temp = None /\ handle = FALSE /\ doing = "nothing" /\ arg = None /\ turn = 0
    /\ it = None /\ visited = {} /\ content = {}

-----------------------------------------------------------------------------
\* The calls of other threads.
Free(L) == \A l \in L : ~map.locks[l].held
AllFree == Free(LockIds(map))

\* The bound of the runs on the counters.
DriftBounded(m) == \A l \in LockIds(m) : m.locks[l].count >= -MaxDrift

OtherInsert(k) ==
    /\ k \notin content
    /\ Free(LocksOf(Homes(k, map.hp)))
    /\ \E m \in Placements(map, k, TRUE) :
          /\ \A b \in DOMAIN map.slots : m.slots[b] # map.slots[b] => Free({LockInd(b)})
          /\ map' = m
    /\ content' = content \cup {k}
    /\ UNCHANGED <<execVars, temp, handle, doing, arg, turn, it, visited>>

\* The table is full: cuckoo_fast_double in normal_mode, then a retry.
OtherDouble(k) ==
    /\ k \notin content /\ AllFree
    /\ Placements(map, k, TRUE) = {} /\ ~Refused
    /\ map' = Doubled(RehashAll(map))
    /\ UNCHANGED <<execVars, temp, handle, doing, arg, turn, it, visited, content>>

OtherErase(k) ==
    /\ Free(LocksOf(Homes(k, map.hp)))
    /\ LET l == Min(LocksOf(Homes(k, map.hp)))
           m == Touch(map, LocksOf(Homes(k, map.hp)))
       IN  map' = IF k \in content
                  THEN LET p == CHOOSE p \in Where(m, k) : TRUE
                       IN  [m EXCEPT !.slots[p[1]][p[2]] = Empty, !.locks[l].count = @ - 1]
                  ELSE m
    /\ DriftBounded(map')
    /\ content' = content \ {k}
    /\ UNCHANGED <<execVars, temp, handle, doing, arg, turn, it, visited>>

OtherThread == \E k \in Keys : OtherInsert(k) \/ OtherDouble(k) \/ OtherErase(k)

-----------------------------------------------------------------------------
\* lock_table(), and rehash or reserve of the map: lock_all.
LockTable ==
    /\ doing = "nothing" /\ ~handle
    /\ doing' = "lock_all" /\ handle' = TRUE /\ turn' = 0
    /\ UNCHANGED <<execVars, map, temp, arg, it, visited, content>>

\* Nothing happens unless the hashpower is a new one.
Rehash(n) ==
    /\ doing = "nothing" /\ ~handle /\ n # map.hp
    /\ doing' = "lock_all" /\ arg' = n /\ turn' = 0
    /\ UNCHANGED <<execVars, map, temp, handle, it, visited, content>>

LockNext ==
    /\ doing = "lock_all" /\ turn \in LockIds(map) /\ Free({turn})
    /\ map' = WithLocks(map, {turn}, TRUE)
    /\ turn' = turn + 1
    /\ UNCHANGED <<execVars, temp, handle, doing, arg, it, visited, content>>

\* Once all locks are held, the constructor of locked_table runs
\* rehash_with_workers.
AllLocked ==
    /\ doing = "lock_all" /\ turn \notin LockIds(map)
    /\ IF handle THEN StartExec(Cardinality(LockIds(map))) /\ doing' = "settle"
                 ELSE UNCHANGED execVars /\ doing' = "capacity"
    /\ turn' = 0
    /\ UNCHANGED <<map, temp, handle, arg, it, visited, content>>

\* A worker of rehash_with_workers migrates the data of one lock.
Migrating == doing \in {"settle", "finish_copy", "finish_double", "spread"}

MigrateLock(w) ==
    /\ Migrating
    /\ HandleIndex(w)
    /\ map' = Touch(map, {next[w]})
    /\ UNCHANGED <<temp, handle, doing, arg, turn, it, visited, content>>

MigrationDone ==
    /\ Migrating
    /\ Return
    /\ doing' = CASE doing = "settle" -> "nothing"
                  [] doing = "finish_copy" -> "start_copy"
                  [] doing = "finish_double" -> "double"
                  [] doing = "spread" -> "insert"
    /\ UNCHANGED <<map, temp, handle, arg, turn, it, visited, content>>

\* The threads of parallel_exec that do not touch the map.
Threading ==
    /\ Spawn \/ OwnRange \/ Join
    /\ UNCHANGED tableVars

-----------------------------------------------------------------------------
Idle == handle /\ doing = "nothing"

\* insert, and operator[] without a value: it invalidates all iterators.
LockedInsert(k) ==
    /\ Idle
    /\ doing' = "insert" /\ arg' = k /\ it' = None /\ visited' = {}
    /\ UNCHANGED <<execVars, map, temp, handle, turn, content>>

Found(m, k) == \E b \in Homes(k, m.hp) : \E i \in SlotIds : m.slots[b][i] = k

\* cuckoo_insert_loop in locked_table_mode: the key is there, it fits, or the
\* table is doubled unless check_resize_validity throws.
InsertDuplicate ==
    /\ doing = "insert" /\ Found(map, arg)
    /\ doing' = "nothing" /\ arg' = None
    /\ UNCHANGED <<execVars, map, temp, handle, turn, it, visited, content>>

InsertPlaces ==
    /\ doing = "insert" /\ ~Found(map, arg)
    /\ map' \in Placements(map, arg, FALSE)
    /\ content' = content \cup {arg}
    /\ doing' = "nothing" /\ arg' = None
    /\ UNCHANGED <<execVars, temp, handle, turn, it, visited>>

InsertThrows ==
    /\ doing = "insert" /\ ~Found(map, arg)
    /\ Placements(map, arg, FALSE) = {} /\ Refused
    /\ doing' = "nothing" /\ arg' = None
    /\ UNCHANGED <<execVars, map, temp, handle, turn, it, visited, content>>

InsertExpands ==
    /\ doing = "insert" /\ ~Found(map, arg)
    /\ Placements(map, arg, FALSE) = {} /\ ~Refused
    /\ IF map.hp > LockPow
       THEN StartExec(Cardinality(LockIds(map))) /\ doing' = "finish_double"
       ELSE UNCHANGED execVars /\ doing' = "double"
    /\ UNCHANGED <<map, temp, handle, arg, turn, it, visited, content>>

\* Mutant: the doubling leaves the data to be migrated, as in normal_mode.
DoubleLazily ==
    /\ doing = "double"
    /\ map' = Doubled(map)
    /\ UNCHANGED execVars /\ doing' = "insert"
    /\ UNCHANGED <<temp, handle, arg, turn, it, visited, content>>

\* cuckoo_fast_double in locked_table_mode migrates at once, with workers.
LockedDouble ==
    /\ doing = "double"
    /\ map' = Doubled(map)
    /\ IF map.hp < LockPow THEN UNCHANGED execVars /\ doing' = "insert"
       ELSE StartExec(Cardinality(LockIds(map))) /\ doing' = "spread"
    /\ UNCHANGED <<temp, handle, arg, turn, it, visited, content>>

\* Mutant: the element is not counted out.
RemovedUncounted(m, pos) ==
    [m EXCEPT !.slots[pos \div Slots][(pos % Slots) + 1] = Empty]

\* del_from_bucket(index, slot).
Removed(m, pos) ==
    LET b == pos \div Slots
    IN  [m EXCEPT !.slots[b][(pos % Slots) + 1] = Empty, !.locks[LockInd(b)].count = @ - 1]

\* erase(pos) returns an iterator to the next element.
LockedEraseAt ==
    /\ Idle /\ it # None /\ it # EndPos(map)
    /\ map' = Removed(map, it) /\ DriftBounded(map')
    /\ content' = content \ {KeyAt(map, it)}
    /\ it' = Settle(map', it)
    /\ UNCHANGED <<execVars, temp, handle, doing, arg, turn, visited>>

\* erase(key): an iterator to the element is no longer valid.
LockedErase(k) ==
    /\ Idle /\ Found(map, k)
    /\ \E pos \in Occupied(map) :
          /\ KeyAt(map, pos) = k /\ pos \div Slots \in Homes(k, map.hp)
          /\ map' = Removed(map, pos) /\ DriftBounded(map')
          /\ it' = IF it = pos THEN None ELSE it
    /\ content' = content \ {k}
    /\ visited' = IF it' = None THEN {} ELSE visited \ {k}
    /\ UNCHANGED <<execVars, temp, handle, doing, arg, turn>>

\* clear(): cuckoo_clear.
LockedClear ==
    /\ Idle
    /\ map' = [NewMap(map.hp) EXCEPT !.locks =
                 [l \in LockIds(map) |-> [map.locks[l] EXCEPT !.count = 0, !.migrated = TRUE]]]
    /\ content' = {} /\ it' = None /\ visited' = {}
    /\ UNCHANGED <<execVars, temp, handle, doing, arg, turn>>

\* begin(), ++ and --; -- is undefined at the first element.
IterBegin ==
    /\ Idle
    /\ it' = Settle(map, 0) /\ visited' = {}
    /\ UNCHANGED <<execVars, map, temp, handle, doing, arg, turn, content>>

IterNext ==
    /\ Idle /\ it # None /\ it # EndPos(map)
    /\ visited' = visited \cup {KeyAt(map, it)}
    /\ it' = Settle(map, it + 1)
    /\ UNCHANGED <<execVars, map, temp, handle, doing, arg, turn, content>>

IterPrev ==
    /\ Idle /\ it # None /\ \E p \in Occupied(map) : p < it
    /\ it' = Max({p \in Occupied(map) : p < it})
    /\ visited' = visited \ {KeyAt(map, it')}
    /\ UNCHANGED <<execVars, map, temp, handle, doing, arg, turn, content>>

-----------------------------------------------------------------------------
\* rehash(n) and reserve of the handle.
LockedRehash(n) ==
    /\ Idle /\ n # map.hp
    /\ doing' = "capacity" /\ arg' = n /\ it' = None /\ visited' = {}
    /\ UNCHANGED <<execVars, map, temp, handle, turn, content>>

\* Where a call that holds all locks goes when it is over.
Done == IF handle THEN "nothing" ELSE "unlock"

\* cuckoo_change_capacity: the maximum is checked, and the migration ended.
CapacityThrows ==
    /\ doing = "capacity" /\ arg > MaxHp
    /\ doing' = Done /\ arg' = None /\ turn' = 0
    /\ UNCHANGED <<execVars, map, temp, handle, it, visited, content>>

Capacity ==
    /\ doing = "capacity" /\ arg <= MaxHp
    /\ IF map.hp > LockPow
       THEN StartExec(Cardinality(LockIds(map))) /\ doing' = "finish_copy"
       ELSE UNCHANGED execVars /\ doing' = "start_copy"
    /\ UNCHANGED <<map, temp, handle, arg, turn, it, visited, content>>

StartCopy ==
    /\ doing = "start_copy"
    /\ temp' = NewMap(arg)
    /\ StartExec(HashSize(map.hp))
    /\ doing' = "copy"
    /\ UNCHANGED <<map, handle, arg, turn, it, visited, content>>

\* The keys of the bucket a worker is at that it has yet to copy.
Uncopied(w) == {i \in SlotIds : LET k == map.slots[next[w]][i]
                                IN  k # Empty /\ Where(temp, k) = {}}
NextToCopy(w) == map.slots[next[w]][Min(Uncopied(w))]

\* new_map.insert: it finds room, doubles new_map, or throws.
CopyKey(w) ==
    /\ doing = "copy" /\ Running(w) /\ Uncopied(w) # {}
    /\ \/ temp' \in Placements(temp, NextToCopy(w), TRUE)
       \/ /\ Placements(temp, NextToCopy(w), TRUE) = {}
          /\ ~NewMapRefused /\ temp.hp < HpBound
          /\ temp' = Doubled(RehashAll(temp))
    /\ UNCHANGED <<execVars, map, handle, doing, arg, turn, it, visited, content>>

CopyThrows(w) ==
    /\ doing = "copy" /\ Running(w) /\ Uncopied(w) # {}
    /\ Placements(temp, NextToCopy(w), TRUE) = {} /\ NewMapRefused
    /\ Throw(w)
    /\ UNCHANGED tableVars

CopyNextBucket(w) ==
    /\ doing = "copy" /\ Running(w) /\ Uncopied(w) = {}
    /\ HandleIndex(w)
    /\ UNCHANGED tableVars

\* Mutant: the exception is not thrown again before the swap.
CopyDoneAnyway ==
    /\ doing = "copy"
    /\ Return
    /\ map' = WithLocks(temp, LockIds(temp), TRUE)
    /\ temp' = None
    /\ doing' = Done /\ arg' = None /\ turn' = 0
    /\ UNCHANGED <<handle, it, visited, content>>

\* Mutant: the locks of the new storage are not taken.
CopyDoneUnlocked ==
    /\ doing = "copy"
    /\ Return
    /\ map' = IF failed = {} THEN temp ELSE map
    /\ temp' = None
    /\ doing' = Done /\ arg' = None /\ turn' = 0
    /\ UNCHANGED <<handle, it, visited, content>>

\* The storages are swapped, the locks of the new one being held; after an
\* exception the map keeps its own.
CopyDone ==
    /\ doing = "copy"
    /\ Return
    /\ map' = IF failed = {} THEN WithLocks(temp, LockIds(temp), TRUE) ELSE map
    /\ temp' = None
    /\ doing' = Done /\ arg' = None /\ turn' = 0
    /\ UNCHANGED <<handle, it, visited, content>>

-----------------------------------------------------------------------------
\* unlock(), the destructor or a move assignment of the handle: AllUnlocker.
Unlock ==
    /\ Idle
    /\ doing' = "unlock" /\ turn' = 0 /\ it' = None /\ visited' = {}
    /\ UNCHANGED <<execVars, map, temp, handle, arg, content>>

UnlockNext ==
    /\ doing = "unlock" /\ turn \in LockIds(map)
    /\ map' = WithLocks(map, {turn}, FALSE)
    /\ turn' = turn + 1
    /\ UNCHANGED <<execVars, temp, handle, doing, arg, it, visited, content>>

Unlocked ==
    /\ doing = "unlock" /\ turn \notin LockIds(map)
    /\ doing' = "nothing" /\ handle' = FALSE /\ turn' = 0
    /\ UNCHANGED <<execVars, map, temp, arg, it, visited, content>>

-----------------------------------------------------------------------------
Owner ==
    \/ LockTable \/ LockNext \/ AllLocked \/ MigrationDone
    \/ \E n \in Sizes : Rehash(n)
    \/ \E w \in Workers : MigrateLock(w) \/ CopyKey(w) \/ CopyThrows(w) \/ CopyNextBucket(w)
    \/ Threading
    \/ \E k \in Keys : LockedInsert(k) \/ LockedErase(k)
    \/ InsertDuplicate \/ InsertPlaces \/ InsertThrows \/ InsertExpands \/ LockedDouble
    \/ LockedEraseAt \/ LockedClear \/ IterBegin \/ IterNext \/ IterPrev
    \/ \E n \in LockedSizes : LockedRehash(n)
    \/ CapacityThrows \/ Capacity \/ StartCopy \/ CopyDone
    \/ Unlock \/ UnlockNext \/ Unlocked

Next == Owner \/ OtherThread

Spec == Init /\ [][Next]_vars

-----------------------------------------------------------------------------
MapOK(m) ==
    /\ m.slots \in [0..HashSize(m.hp) - 1 -> [SlotIds -> Keys \cup {Empty}]]
    /\ m.locks \in [0..NumLocks(m.hp) - 1 -> [held : BOOLEAN, migrated : BOOLEAN, count : Int]]

TypeOK ==
    /\ map.hp \in 0..HpBound /\ MapOK(map)
    /\ temp # None => temp.hp \in 0..HpBound /\ MapOK(temp)
    /\ handle \in BOOLEAN
    /\ doing \in {"nothing", "lock_all", "settle", "insert", "finish_double", "double",
                  "spread", "capacity", "finish_copy", "start_copy", "copy", "unlock"}
    /\ it # None => it \in 0..EndPos(map)
    /\ visited \subseteq Keys /\ content \subseteq Keys

\* Every key of the map is in exactly one slot, where a call that looks
\* through the locks finds it, and nothing else is: over insertions, migration
\* by several workers, doublings and a change of the capacity whose copying
\* threads may throw (860-892, 1869-1911).
KeysAreStored ==
    /\ KeysOf(map) = content
    /\ \A k \in content : Cardinality(Where(map, k)) = 1
    /\ \A k \in content : \A p \in Where(map, k) :
          p[1] \in Homes(k, IF map.locks[LockInd(p[1])].migrated THEN map.hp ELSE map.hp - 1)

\* The lookups of a handle, which look through no lock, find exactly the keys
\* of the map: all data have been rehashed whenever the handle is used
\* (2508-2535, 2648-2655).
LockedLookupsAreRight == Idle => \A k \in Keys : Found(map, k) <=> k \in content

\* Between lock_all and AllUnlocker every lock of the storage the map has is
\* held, even when the storage has been replaced or has grown; when nobody
\* holds them all, none is left locked (834-840, 1005-1019, 1906-1909).
LocksFollowTheHandle ==
    /\ (handle /\ doing \notin {"lock_all", "unlock"}) \/ doing \notin {"nothing", "lock_all", "unlock"}
          => \A l \in LockIds(map) : map.locks[l].held
    /\ ~handle /\ doing = "nothing" => AllFree

\* The counters of all locks add up to the number of keys, although calls of
\* the two modes count a key at different locks (1299-1318, 1744-1749,
\* 1989-1996).
SizeIsExact == Size(map) = Cardinality(content)

\* An iteration that only erases through the iterator meets every key once:
\* the keys passed and the keys ahead are all keys of the map, and the
\* iterator is at a key or at the end (2150-2210, 2479-2487).
IterationIsComplete ==
    Idle /\ it # None =>
        LET ahead == {KeyAt(map, p) : p \in {q \in Occupied(map) : q >= it}}
        IN  /\ it \in Occupied(map) \cup {EndPos(map)}
            /\ visited \cup ahead = content
            /\ visited \cap ahead = {}

=============================================================================
