------------------------------ MODULE CuckooMap ------------------------------
(***************************************************************************)
(* The concurrent cuckoo hash map (include/hash_maps/cuckoo/               *)
(* cuckoohash_map.hpp): writers lock the locks of a key's two buckets in   *)
(* ascending order, make room by moving keys along a cuckoo path, double   *)
(* the table under all locks and migrate the data of each lock when it is  *)
(* next taken; find takes no lock and validates the epochs of the two      *)
(* locks.  A bucket slot, a lock and hashpower() are read and written in   *)
(* one step; module Seqlock opens those steps for one lock.                *)
(***************************************************************************)
EXTENDS Integers, Sequences, FiniteSets, FiniteSetsExt, Functions

CONSTANTS
    Threads,      \* the threads that call the map
    Keys,         \* the keys
    Vals,         \* the mapped values
    Hash,         \* Hash[k]: the hash of a key; its low bits are index_hash
    Alt,          \* Alt[k]: the hash XOR the multiplied partial key, whose low bits
                  \* are alt_index; the partial key is a function of the hash
    Slots,        \* SLOT_PER_BUCKET
    PathLen,      \* MAX_BFS_PATH_LEN
    LockPow,      \* kMaxNumLocksPow
    MaxHp,        \* maximum_hashpower
    MinLoad,      \* minimum_load_factor, in percent
    Programs,     \* the programs that run: a map [hp, entries] and the calls
                  \* [op, key, val] each thread makes, one after the other
    Empty, Absent \* no entry in a slot; no value for a key

OpKinds == {"find", "insert", "insert_or_assign", "uprase", "update", "erase",
            "rehash_concurrent", "clear"}
Inserts == {"insert", "insert_or_assign", "uprase"}
Stores == Inserts \cup {"update"}
SlotIds == 1..Slots

\* hashsize, index_hash, alt_index and lock_ind.
HashSize(hp) == 2^hp
I1(k, hp) == Hash[k] % HashSize(hp)
I2(k, hp) == Alt[k] % HashSize(hp)
Other(k, b, hp) == IF b = I1(k, hp) THEN I2(k, hp) ELSE I1(k, hp)
Homes(k, hp) == {I1(k, hp), I2(k, hp)}
LockInd(b) == b % HashSize(LockPow)
LocksOf(B) == {LockInd(b) : b \in B}
SameHash(k, l) == Hash[k] = Hash[l]

\* The calls a thread may make: what is stored is a mapped value.
Calls == {c \in [op : OpKinds, key : Keys, val : Int] : c.op \in Stores => c.val \in Vals}

ASSUME MapAssumption ==
    /\ Slots \in Nat \ {0} /\ PathLen \in Nat \ {0} /\ LockPow \in Nat
    /\ MaxHp \in Nat /\ MinLoad \in 0..100
    /\ Hash \in [Keys -> Nat] /\ Alt \in [Keys -> Nat]
    /\ \A k, l \in Keys : Hash[k] = Hash[l] => Alt[k] = Alt[l]
    /\ Empty \notin [key : Keys, val : Vals]

ASSUME ProgramAssumption ==
    \A p \in Programs :
        /\ p.hp \in 0..MaxHp /\ IsFiniteSet(p.entries)
        /\ \A e \in p.entries : /\ e.key \in Keys /\ e.val \in Vals
                                /\ e.bucket \in Homes(e.key, p.hp) /\ e.slot \in SlotIds
        /\ \A e, f \in p.entries :
              e.key = f.key \/ (e.bucket = f.bucket /\ e.slot = f.slot) => e = f
        /\ p.calls \in [Threads -> Seq(Calls)]

\* The law of powers, which the provers do not know.
ASSUME PowerAssumption ==
    HashSize(0) = 1 /\ \A n \in 0..MaxHp + LockPow : HashSize(n + 1) = 2 * HashSize(n)

VARIABLES
    hp_,     \* the hashpower of buckets_
    table,   \* buckets_
    locks,   \* locks_: flag, epoch, migrated bit and elem_counter of each
    pc,      \* the step each thread is at
    todo,    \* the calls of each thread: the one it executes, then the next ones
    locking, \* the locking state of each thread
    search,  \* the cuckoo path state of each thread
    lookup,  \* the lock-free lookup state of each thread
    legal    \* ghost: the values a running find may return

shared == <<hp_, table, locks>>
vars == <<shared, pc, todo, locking, search, lookup, legal>>

Results == Vals \cup {Absent}
Entry(k, v) == [key |-> k, val |-> v]

NumLocks(hp) == HashSize(IF hp < LockPow THEN hp ELSE LockPow)
LockIds == DOMAIN locks
Locked(l) == locks[l].epoch % 2 = 1

\* The slots of a bucket that hold a key, and the ones that are free.
SlotsWith(tab, b, k) == {i \in SlotIds : tab[b][i] # Empty /\ tab[b][i].key = k}
FreeSlots(tab, b) == {i \in SlotIds : tab[b][i] = Empty}
Where(tab, k, B) == {p \in B \X SlotIds : p[2] \in SlotsWith(tab, p[1], k)}
Entries(tab) == {p \in (DOMAIN tab) \X SlotIds : tab[p[1]][p[2]] # Empty}

\* The value of each key; Empty is no value: the key lies in two slots.
Contents ==
    LET all == Entries(table)
    IN  [k \in Keys |-> LET at == {p \in all : table[p[1]][p[2]].key = k}
    IN  CASE at = {} -> Absent
          [] Cardinality(at) = 1 -> LET p == CHOOSE p \in at : TRUE IN table[p[1]][p[2]].val
          [] OTHER -> Empty]

NoLocking == [hp |-> 0, want |-> {}, own |-> {}, drop |-> {}, lock1 |-> 0, go |-> "idle",
              modified |-> TRUE, answer |-> Empty]
NoSearch == [queue |-> <<>>, slots |-> <<>>, next |-> 0, path |-> <<>>]
NoRead == [epoch1 |-> 0, epoch2 |-> 0, at |-> <<>>, got |-> Absent]

-----------------------------------------------------------------------------
\* The map of a program: the entries [key, val, bucket, slot] are where
\* insertions put them; each was counted at the first lock of lock_two.
InitTable(p) ==
    [b \in 0..HashSize(p.hp) - 1 |-> [i \in SlotIds |->
        IF \E e \in p.entries : e.bucket = b /\ e.slot = i
        THEN LET e == CHOOSE e \in p.entries : e.bucket = b /\ e.slot = i
             IN  Entry(e.key, e.val)
        ELSE Empty]]

InitLocks(p) ==
    [l \in 0..NumLocks(p.hp) - 1 |->
        [flag |-> FALSE, epoch |-> 0, migrated |-> TRUE,
         count |-> Cardinality({e \in p.entries : l = Min(LocksOf(Homes(e.key, p.hp)))})]]

Init ==
    /\ \E p \in Programs :
          /\ hp_ = p.hp
          /\ table = InitTable(p)
          /\ locks = InitLocks(p)
          /\ todo = p.calls
    /\ pc = [t \in Threads |-> "idle"]
    /\ locking = [t \in Threads |-> NoLocking]
    /\ search = [t \in Threads |-> NoSearch]
    /\ lookup = [t \in Threads |-> NoRead]
    /\ legal = [t \in Threads |-> {}]

Goto(t, l) == pc' = [pc EXCEPT ![t] = l]
Call(t) == Head(todo[t])
Key(t) == Call(t).key
Hp(t) == locking[t].hp

\* The value of a key becomes v: every running find of that key may return it
\* from now on.
Becomes(k, v) ==
    legal' = [t \in Threads |->
                 IF legal[t] # {} /\ Key(t) = k THEN legal[t] \cup {v} ELSE legal[t]]

-----------------------------------------------------------------------------
\* need_to_move_elem: doubling adds one bit on top of both indexes.
NeedToMove(k, b, hp) ==
    LET new == b + HashSize(hp)
    IN  \/ b = I1(k, hp) /\ I1(k, hp + 1) = new
        \/ b = I2(k, hp) /\ I2(k, hp + 1) = new

\* The slots of bucket b whose entries move, and the j-th of them.
Moving(tab, b, hp) == {i \in SlotIds : tab[b][i] # Empty /\ NeedToMove(tab[b][i].key, b, hp)}
Nth(S, j) == CHOOSE i \in S : Cardinality({x \in S : x <= i}) = j

\* move_bucket for the buckets B, from hashpower hp to hp + 1: an entry that
\* moves goes to the next slot, from the first one on, of the bucket in the
\* new half.
MoveBuckets(tab, B, hp) ==
    LET old(c) == c - HashSize(hp)
    IN  [c \in DOMAIN tab |-> [j \in SlotIds |->
            CASE c \in B /\ j \in Moving(tab, c, hp) -> Empty
              [] old(c) \in B /\ j <= Cardinality(Moving(tab, old(c), hp)) ->
                    tab[old(c)][Nth(Moving(tab, old(c), hp), j)]
              [] OTHER -> tab[c][j]]]

\* The old buckets whose data belong to a lock.
OldBuckets(l) == {b \in 0..HashSize(hp_ - 1) - 1 : LockInd(b) = l}

\* migrate_lock, when the lock is not migrated.
Migrate(l) ==
    IF locks[l].migrated THEN table ELSE MoveBuckets(table, OldBuckets(l), hp_ - 1)

\* lock_and_rehash: the lock is taken and its data migrated.
LockAndRehash(l) ==
    /\ ~locks[l].flag
    /\ table' = Migrate(l)
    /\ locks' = [locks EXCEPT ![l].flag = TRUE, ![l].epoch = @ + 1, ![l].migrated = TRUE]

\* A lock that is taken, its data migrated, and released with unlock().
LockAndRelease(l) ==
    /\ ~locks[l].flag
    /\ table' = Migrate(l)
    /\ locks' = [locks EXCEPT ![l].epoch = @ + 2, ![l].migrated = TRUE]

\* unlock() or unlock_no_modified().
Unlocked(l, modified) ==
    [locks EXCEPT ![l].flag = FALSE, ![l].epoch = IF modified THEN @ + 1 ELSE @ - 1]

-----------------------------------------------------------------------------
\* A call starts: the reader goes lock-free, clear and rehash_concurrent take
\* all locks, every other operation takes the locks of its key.
Begin(t) ==
    /\ pc[t] = "idle"
    /\ todo[t] # <<>>
    /\ Goto(t, CASE Call(t).op = "find" -> "read"
                 [] Call(t).op = "clear" -> "lock_all"
                 [] Call(t).op = "rehash_concurrent" -> "expand"
                 [] OTHER -> "snapshot")
    /\ locking' = [locking EXCEPT ![t].go = Call(t).op]
    /\ legal' = [legal EXCEPT ![t] = IF Call(t).op = "find" THEN {Contents[Key(t)]} ELSE {}]
    /\ UNCHANGED <<shared, todo, search, lookup>>

\* The call returns, or its exception leaves the map.
Return(t) ==
    /\ pc[t] = "return"
    /\ Goto(t, "idle")
    /\ todo' = [todo EXCEPT ![t] = Tail(@)]
    /\ locking' = [locking EXCEPT ![t] = NoLocking]
    /\ search' = [search EXCEPT ![t] = NoSearch]
    /\ lookup' = [lookup EXCEPT ![t] = NoRead]
    /\ legal' = [legal EXCEPT ![t] = {}]
    /\ UNCHANGED shared

\* snapshot_and_lock_two: hashpower() is read before any lock is taken.
Snapshot(t) ==
    /\ pc[t] = "snapshot"
    /\ LET L == LocksOf(Homes(Key(t), hp_))
       IN  locking' = [locking EXCEPT ![t] = [NoLocking EXCEPT
                   !.hp = hp_, !.want = L, !.lock1 = Min(L), !.go = "body"]]
    /\ Goto(t, "lock")
    /\ search' = [search EXCEPT ![t] = NoSearch]
    /\ UNCHANGED <<shared, todo, lookup, legal>>

\* Mutant: the lock of the first bucket is taken first.
NextUnordered(t) ==
    LET first == LockInd(I1(Key(t), Hp(t)))
    IN  IF first \in locking[t].want THEN first ELSE Min(locking[t].want)

\* The locks are sorted by their index.
NextLock(t) == Min(locking[t].want)

\* Mutant: hashpower() is not compared.
TakeLockUnchecked(t) ==
    /\ pc[t] = "lock"
    /\ NextLock(t) \in LockIds
    /\ LockAndRehash(NextLock(t))
    /\ locking' = [locking EXCEPT ![t].want = @ \ {NextLock(t)}, ![t].own = @ \cup {NextLock(t)}]
    /\ Goto(t, IF locking[t].want = {NextLock(t)} THEN locking[t].go ELSE "lock")
    /\ UNCHANGED <<hp_, todo, search, lookup, legal>>

\* lock_two and lock_three: the next lock in ascending order.  Only after the
\* first one is hashpower() compared; a mismatch releases it and the caller
\* starts over from a new snapshot.
TakeLock(t) ==
    /\ pc[t] = "lock"
    /\ LET l == NextLock(t)
           last == locking[t].want = {l}
       IN  /\ l \in LockIds
           /\ \/ /\ locking[t].own = {} /\ hp_ # Hp(t)
                 /\ LockAndRelease(l)
                 /\ Goto(t, "snapshot")
                 /\ UNCHANGED locking
              \/ /\ locking[t].own # {} \/ hp_ = Hp(t)
                 /\ LockAndRehash(l)
                 /\ locking' = [locking EXCEPT ![t].want = @ \ {l}, ![t].own = @ \cup {l}]
                 /\ Goto(t, IF last THEN locking[t].go ELSE "lock")
    /\ UNCHANGED <<hp_, todo, search, lookup, legal>>

\* Locks go out of scope or are unlocked one after the other.
StartRelease(t, L, modified, go) ==
    /\ locking' = [locking EXCEPT ![t].drop = L, ![t].modified = modified, ![t].go = go]
    /\ Goto(t, "release")

\* The operation answers, TRUE, FALSE or with an exception (Absent), and its
\* locks are released.
Answer(t, answer, modified) ==
    /\ locking' = [locking EXCEPT ![t].drop = locking[t].own, ![t].modified = modified,
                                  ![t].answer = answer, ![t].go = "return"]
    /\ Goto(t, "release")

Release(t) ==
    /\ pc[t] = "release"
    /\ \E l \in locking[t].drop :
          /\ locks' = Unlocked(l, locking[t].modified)
          /\ locking' = [locking EXCEPT ![t].drop = @ \ {l}, ![t].own = @ \ {l}]
          /\ Goto(t, IF locking[t].drop = {l} THEN locking[t].go ELSE "release")
    /\ UNCHANGED <<hp_, table, todo, search, lookup, legal>>

-----------------------------------------------------------------------------
\* The bodies of the operations, under the locks of both buckets.
Here(t) == Where(table, Key(t), Homes(Key(t), Hp(t)))

StoreValue(t, p) ==
    /\ table' = [table EXCEPT ![p[1]][p[2]].val = Call(t).val]
    /\ Becomes(Key(t), Call(t).val)
    /\ UNCHANGED locks

\* Mutant: the element is not counted out.
DelUncounted(t, p) ==
    /\ table' = [table EXCEPT ![p[1]][p[2]] = Empty]
    /\ Becomes(Key(t), Absent)
    /\ UNCHANGED locks

DelFromBucket(t, p) ==
    /\ table' = [table EXCEPT ![p[1]][p[2]] = Empty]
    /\ locks' = [locks EXCEPT ![locking[t].lock1].count = @ - 1]
    /\ Becomes(Key(t), Absent)

AddToBucket(t, b, i) ==
    /\ table' = [table EXCEPT ![b][i] = Entry(Key(t), Call(t).val)]
    /\ locks' = [locks EXCEPT ![locking[t].lock1].count = @ + 1]
    /\ Becomes(Key(t), Call(t).val)

\* update_fn and erase_fn.
Update(t) ==
    /\ pc[t] = "body" /\ Call(t).op = "update"
    /\ \E p \in Here(t) : StoreValue(t, p)
    /\ Answer(t, TRUE, TRUE)
    /\ UNCHANGED <<hp_, todo, search, lookup>>

Erase(t) ==
    /\ pc[t] = "body" /\ Call(t).op = "erase"
    /\ \E p \in Here(t) : DelFromBucket(t, p)
    /\ Answer(t, TRUE, TRUE)
    /\ UNCHANGED <<hp_, todo, search, lookup>>

NotFound(t) ==
    /\ pc[t] = "body" /\ Call(t).op \in {"update", "erase"}
    /\ Here(t) = {}
    /\ Answer(t, FALSE, FALSE)
    /\ UNCHANGED <<shared, todo, search, lookup, legal>>

\* uprase_fn finds the key, before or after cuckooing: the function of insert
\* leaves the value alone, the one of insert_or_assign stores a new value,
\* and the one of uprase asks for the element to be erased.
Duplicate(t) ==
    /\ pc[t] \in {"body", "recheck"} /\ Call(t).op \in Inserts
    /\ \E p \in Here(t) :
          CASE Call(t).op = "insert" -> UNCHANGED <<table, locks, legal>>
            [] Call(t).op = "insert_or_assign" -> StoreValue(t, p)
            [] Call(t).op = "uprase" -> DelFromBucket(t, p)
    /\ Answer(t, FALSE, Call(t).op = "uprase")
    /\ UNCHANGED <<hp_, todo, search, lookup>>

\* cuckoo_insert: the last free slot of the first bucket that has one.
AddToFreeSlot(t) ==
    /\ pc[t] = "body" /\ Call(t).op \in Inserts
    /\ Here(t) = {}
    /\ LET b1 == I1(Key(t), Hp(t))
           b2 == I2(Key(t), Hp(t))
           b == IF FreeSlots(table, b1) # {} THEN b1 ELSE b2
       IN  /\ FreeSlots(table, b) # {}
           /\ AddToBucket(t, b, Max(FreeSlots(table, b)))
    /\ Answer(t, TRUE, TRUE)
    /\ UNCHANGED <<hp_, todo, search, lookup>>

\* Mutant: only the first lock is released.
KeepsSecondLock(t) ==
    /\ pc[t] = "body" /\ Call(t).op \in Inserts
    /\ Here(t) = {}
    /\ \A b \in Homes(Key(t), Hp(t)) : FreeSlots(table, b) = {}
    /\ StartRelease(t, {locking[t].lock1}, TRUE, "search")
    /\ UNCHANGED <<shared, todo, search, lookup, legal>>

\* Both buckets are full: run_cuckoo unlocks them and searches a path.
NoFreeSlot(t) ==
    /\ pc[t] = "body" /\ Call(t).op \in Inserts
    /\ Here(t) = {}
    /\ \A b \in Homes(Key(t), Hp(t)) : FreeSlots(table, b) = {}
    /\ StartRelease(t, locking[t].own, TRUE, "search")
    /\ UNCHANGED <<shared, todo, search, lookup, legal>>

\* Mutant: the key is not looked up again.
AddWithoutLookup(t) ==
    /\ pc[t] = "recheck" /\ Call(t).op \in Inserts
    /\ AddToBucket(t, search[t].path[1].bucket, search[t].path[1].slot)
    /\ Answer(t, TRUE, TRUE)
    /\ UNCHANGED <<hp_, todo, search, lookup>>

\* The slot a successful run_cuckoo has freed; the key was looked up again.
AddToFreedSlot(t) ==
    /\ pc[t] = "recheck" /\ Call(t).op \in Inserts
    /\ Here(t) = {}
    /\ AddToBucket(t, search[t].path[1].bucket, search[t].path[1].slot)
    /\ Answer(t, TRUE, TRUE)
    /\ UNCHANGED <<hp_, todo, search, lookup>>

-----------------------------------------------------------------------------
\* slot_search: a breadth-first search from both buckets.
Search(t) ==
    /\ pc[t] = "search"
    /\ search' = [search EXCEPT ![t] = [NoSearch EXCEPT !.queue =
                <<[bucket |-> I1(Key(t), Hp(t)), root |-> 0, slots |-> <<>>],
                  [bucket |-> I2(Key(t), Hp(t)), root |-> 1, slots |-> <<>>]>>]]
    /\ Goto(t, "bfs")
    /\ UNCHANGED <<shared, todo, locking, lookup, legal>>

\* lock_one finds another hashpower while a path is searched: the insertion
\* starts over (failure_under_expansion).
SearchInterrupted(t) ==
    /\ pc[t] \in {"bfs", "path"}
    /\ hp_ # Hp(t)
    /\ LockAndRelease(LockInd(IF pc[t] = "bfs" THEN Head(search[t].queue).bucket
                                               ELSE search[t].next))
    /\ Goto(t, "snapshot")
    /\ UNCHANGED <<hp_, todo, locking, search, lookup, legal>>

\* The j-th slot that the search looks at in the bucket of node x.
Rotated(x, j) ==
    LET start == IF x.slots = <<>> THEN x.root ELSE x.slots[Len(x.slots)] - 1
    IN  ((start + j - 1) % Slots) + 1

\* One bucket of the search: a free slot ends it, a full bucket adds one node
\* for every slot, an empty queue means that the table is full.
Bfs(t) ==
    /\ pc[t] = "bfs"
    /\ hp_ = Hp(t)
    /\ LET x == Head(search[t].queue)
           free == {j \in SlotIds : Rotated(x, j) \in FreeSlots(table', x.bucket)}
           child(j) == [bucket |-> Other(table'[x.bucket][Rotated(x, j)].key, x.bucket, Hp(t)),
                        root |-> x.root, slots |-> Append(x.slots, Rotated(x, j))]
           children == IF Len(x.slots) < PathLen - 1 THEN [j \in SlotIds |-> child(j)] ELSE <<>>
           queue == Tail(search[t].queue) \o children
       IN  /\ LockAndRelease(LockInd(x.bucket))
           /\ \/ /\ free # {}
                 /\ search' = [search EXCEPT ![t] = [NoSearch EXCEPT
                            !.slots = Append(x.slots, Rotated(x, Min(free))),
                            !.next = IF x.root = 0 THEN I1(Key(t), Hp(t)) ELSE I2(Key(t), Hp(t))]]
                 /\ Goto(t, "path") /\ UNCHANGED locking
              \/ /\ free = {} /\ queue # <<>>
                 /\ search' = [search EXCEPT ![t].queue = queue]
                 /\ UNCHANGED <<pc, locking>>
              \/ /\ free = {} /\ queue = <<>>
                 /\ search' = [search EXCEPT ![t] = NoSearch]
                 /\ locking' = [locking EXCEPT ![t].go = "double"]
                 /\ Goto(t, "lock_all")
    /\ UNCHANGED <<hp_, todo, lookup, legal>>

\* cuckoopath_search: the path is walked again from its root to note which
\* key lies in each slot now; it ends early at a slot that became free.
Path(t) ==
    /\ pc[t] = "path"
    /\ hp_ = Hp(t)
    /\ LET b == search[t].next
           i == Head(search[t].slots)
           e == table'[b][i]
           ends == e = Empty \/ Tail(search[t].slots) = <<>>
       IN  /\ LockAndRelease(LockInd(b))
           /\ search' = [search EXCEPT ![t] = [NoSearch EXCEPT
                      !.path = Append(search[t].path, [bucket |-> b, slot |-> i,
                                  key |-> IF e = Empty THEN Key(t) ELSE e.key]),
                      !.slots = IF ends THEN <<>> ELSE Tail(search[t].slots),
                      !.next = IF ends THEN 0 ELSE Other(e.key, b, Hp(t))]]
           /\ Goto(t, IF ends THEN "move" ELSE "path")
    /\ UNCHANGED <<hp_, todo, locking, lookup, legal>>

\* cuckoopath_move works from the end of the path to its root; for the last
\* key it takes the locks of both insert buckets as well (lock_three), and
\* the first lock it holds is then the one of the first bucket.
Depth(t) == Len(search[t].path) - 1

Move(t) ==
    /\ pc[t] = "move"
    /\ LET homes == Homes(Key(t), Hp(t))
           ends == {search[t].path[j].bucket : j \in {Depth(t), Depth(t) + 1} \ {0}}
           L == LocksOf(CASE Depth(t) = 0 -> homes
                          [] Depth(t) = 1 -> homes \cup ends
                          [] OTHER -> ends)
       IN  locking' = [locking EXCEPT ![t].want = L, ![t].own = {},
                   ![t].lock1 = IF Depth(t) = 1 THEN LockInd(I1(Key(t), Hp(t)))
                                                ELSE Min(LocksOf(homes)),
                   ![t].go = IF Depth(t) = 0 THEN "check" ELSE "shift"]
    /\ Goto(t, "lock")
    /\ UNCHANGED <<shared, todo, search, lookup, legal>>

\* Mutant: the slot is not looked at again.
CheckTrusts(t) ==
    /\ pc[t] = "check"
    /\ Goto(t, "recheck")
    /\ UNCHANGED <<shared, todo, locking, search, lookup, legal>>

\* A path of one slot: the slot is still free, or the search starts again.
Check(t) ==
    /\ pc[t] = "check"
    /\ LET p == search[t].path[1]
       IN  IF table[p.bucket][p.slot] = Empty
           THEN Goto(t, "recheck") /\ UNCHANGED locking
           ELSE StartRelease(t, locking[t].own, TRUE, "search")
    /\ UNCHANGED <<shared, todo, search, lookup, legal>>

\* One key moves one step along the path, when the path is still valid.
StillValid(from, to) ==
    /\ table[to.bucket][to.slot] = Empty
    /\ table[from.bucket][from.slot] # Empty
    /\ SameHash(table[from.bucket][from.slot].key, from.key)

Shift(t) ==
    /\ pc[t] = "shift"
    /\ LET from == search[t].path[Depth(t)]
           to == search[t].path[Depth(t) + 1]
           extra == locking[t].own \ LocksOf(Homes(Key(t), Hp(t)))
       IN  /\ StillValid(from, to)
           /\ table' = [table EXCEPT
                 ![to.bucket][to.slot] = table[from.bucket][from.slot],
                 ![from.bucket][from.slot] = Empty]
           /\ search' = [search EXCEPT ![t].path = SubSeq(@, 1, Depth(t))]
           /\ CASE Depth(t) > 1 -> StartRelease(t, locking[t].own, TRUE, "move")
                [] Depth(t) = 1 /\ extra # {} -> StartRelease(t, extra, TRUE, "recheck")
                [] OTHER -> Goto(t, "recheck") /\ UNCHANGED locking
    /\ UNCHANGED <<hp_, locks, todo, lookup, legal>>

ShiftFails(t) ==
    /\ pc[t] = "shift"
    /\ ~StillValid(search[t].path[Depth(t)], search[t].path[Depth(t) + 1])
    /\ StartRelease(t, locking[t].own, TRUE, "search")
    /\ UNCHANGED <<shared, todo, search, lookup, legal>>

-----------------------------------------------------------------------------
\* Mutant: the number of locks is taken from the hashpower the caller saw.
TakeNextOfSeen(t) ==
    /\ pc[t] = "lock_all"
    /\ LET l == Cardinality(locking[t].own)
       IN  /\ ~locks[l].flag
           /\ locks' = [locks EXCEPT ![l].flag = TRUE, ![l].epoch = @ + 1]
           /\ locking' = [locking EXCEPT ![t].own = @ \cup {l}]
           /\ Goto(t, IF l + 1 < NumLocks(Hp(t)) THEN "lock_all" ELSE locking[t].go)
    /\ UNCHANGED <<hp_, table, todo, search, lookup, legal>>

\* lock_all: every lock in ascending order, neither hashpower() nor the
\* migrated bit is looked at; locks_.end() is read again after each lock.
TakeNextOfAll(t) ==
    /\ pc[t] = "lock_all"
    /\ LET l == Cardinality(locking[t].own)
       IN  /\ ~locks[l].flag
           /\ locks' = [locks EXCEPT ![l].flag = TRUE, ![l].epoch = @ + 1]
           /\ locking' = [locking EXCEPT ![t].own = @ \cup {l}]
           /\ Goto(t, IF l + 1 \in LockIds THEN "lock_all" ELSE locking[t].go)
    /\ UNCHANGED <<hp_, table, todo, search, lookup, legal>>

\* size() and the comparison of load_factor() with the minimum.
Size == SumFunction([l \in LockIds |-> locks[l].count])
LoadTooLow == Size * 100 < MinLoad * Slots * HashSize(hp_)

Automatic(t) == Call(t).op \in Inserts

\* Mutant: the maximum is compared with the old hashpower.
RefusedLate(t) == Hp(t) > MaxHp \/ (Automatic(t) /\ LoadTooLow)

\* cuckoo_fast_double, check_resize_validity: the exceptions come before the
\* comparison of the hashpower the caller has seen.
Refused(t) == Hp(t) + 1 > MaxHp \/ (Automatic(t) /\ LoadTooLow)

DoubleThrows(t) ==
    /\ pc[t] = "double"
    /\ Refused(t)
    /\ Answer(t, Absent, TRUE)
    /\ UNCHANGED <<shared, todo, search, lookup, legal>>

DoubleRaced(t) ==
    /\ pc[t] = "double"
    /\ ~Refused(t) /\ hp_ # Hp(t)
    /\ StartRelease(t, locking[t].own, TRUE, "snapshot")
    /\ UNCHANGED <<shared, todo, search, lookup, legal>>

\* Mutant: the new hashpower is published before the locks grow.
HashpowerFirst(t) ==
    /\ pc[t] = "double"
    /\ ~Refused(t) /\ hp_ = Hp(t)
    /\ hp_' = hp_ + 1
    /\ Goto(t, "resize")
    /\ UNCHANGED <<table, locks, todo, locking, search, lookup, legal>>

\* maybe_resize_locks: the new locks are born locked and migrated, and they
\* exist before the hashpower that makes threads use them.
GrowLocks(t) ==
    /\ pc[t] = "double"
    /\ ~Refused(t) /\ hp_ = Hp(t)
    /\ locks' = [l \in 0..NumLocks(IF hp_ < LockPow THEN hp_ + 1 ELSE hp_) - 1 |->
                   IF l \in LockIds THEN locks[l]
                   ELSE [flag |-> TRUE, epoch |-> 1, migrated |-> TRUE, count |-> 0]]
    /\ locking' = [locking EXCEPT ![t].own = DOMAIN locks']
    /\ Goto(t, "resize")
    /\ UNCHANGED <<hp_, table, todo, search, lookup, legal>>

\* rehash_all moves what is left from the last doubling, double_size adds the
\* new half of the buckets and publishes the new hashpower.
Resize(t) ==
    /\ pc[t] = "resize"
    /\ LET left == {l \in LockIds : ~locks[l].migrated}
           rehash == Hp(t) > LockPow
           tab == IF rehash THEN MoveBuckets(table, UNION {OldBuckets(l) : l \in left}, hp_ - 1)
                            ELSE table
       IN  /\ table' = [b \in 0..HashSize(hp_ + 1) - 1 |->
                          IF b \in DOMAIN table THEN tab[b] ELSE [i \in SlotIds |-> Empty]]
           /\ locks' = IF rehash THEN [l \in LockIds |-> [locks[l] EXCEPT !.migrated = TRUE]]
                                 ELSE locks
    /\ hp_' = hp_ + 1
    /\ Goto(t, "spread")
    /\ UNCHANGED <<todo, locking, search, lookup, legal>>

\* The data are moved at once while there are fewer buckets than locks may
\* be, and by rehash_with_workers when the caller holds all locks already;
\* otherwise the locks are marked and whoever takes one moves its data.
Spread(t) ==
    /\ pc[t] = "spread"
    /\ LET old == 0..HashSize(Hp(t)) - 1
           tab == MoveBuckets(table, old, Hp(t))
           moved(b) == Cardinality(FreeSlots(tab, b)) - Cardinality(FreeSlots(table, b))
       IN  CASE Hp(t) < LockPow ->
                  /\ table' = tab
                  /\ locks' = [l \in LockIds |-> [locks[l] EXCEPT !.count =
                       @ + moved(IF l \in old THEN l ELSE l - HashSize(Hp(t))) *
                           (IF l \in old THEN -1 ELSE 1)]]
             [] Hp(t) >= LockPow /\ Automatic(t) ->
                  /\ locks' = [l \in LockIds |-> [locks[l] EXCEPT !.migrated = FALSE]]
                  /\ UNCHANGED table
             [] OTHER -> table' = tab /\ UNCHANGED locks
    /\ IF Automatic(t) THEN StartRelease(t, locking[t].own, TRUE, "snapshot")
                       ELSE Goto(t, "expand_next") /\ UNCHANGED locking
    /\ UNCHANGED <<hp_, todo, search, lookup, legal>>

\* cuckoo_rehash_concurrent(n): nothing to do unless n is larger; then
\* cuckoo_expand_simple asserts it again and takes all locks.
Expand(t) ==
    /\ pc[t] = "expand"
    /\ Goto(t, IF Call(t).val <= hp_ THEN "return" ELSE "expand_assert")
    /\ locking' = [locking EXCEPT ![t].answer = IF Call(t).val <= hp_ THEN FALSE ELSE Empty]
    /\ UNCHANGED <<shared, todo, search, lookup, legal>>

ExpandAssert(t) ==
    /\ pc[t] = "expand_assert"
    /\ Goto(t, "lock_all")
    /\ locking' = [locking EXCEPT ![t].go = "expand_next"]
    /\ UNCHANGED <<shared, todo, search, lookup, legal>>

\* The loop of cuckoo_expand_simple under all locks.
ExpandNext(t) ==
    /\ pc[t] = "expand_next"
    /\ IF hp_ < Call(t).val
       THEN locking' = [locking EXCEPT ![t].hp = hp_] /\ Goto(t, "double")
       ELSE Answer(t, TRUE, TRUE)
    /\ UNCHANGED <<shared, todo, search, lookup, legal>>

\* clear(): cuckoo_clear under all locks.
Clear(t) ==
    /\ pc[t] = "clear"
    /\ table' = [b \in DOMAIN table |-> [i \in SlotIds |-> Empty]]
    /\ locks' = [l \in LockIds |-> [locks[l] EXCEPT !.count = 0, !.migrated = TRUE]]
    /\ legal' = [u \in Threads |-> IF legal[u] = {} THEN {} ELSE legal[u] \cup {Absent}]
    /\ Answer(t, TRUE, TRUE)
    /\ UNCHANGED <<hp_, todo, search, lookup>>

-----------------------------------------------------------------------------
\* read_value, the lock-free lookup of find.
Home(t, j) == IF j = 1 THEN I1(Key(t), Hp(t)) ELSE I2(Key(t), Hp(t))
LockOf(t, j) == LockInd(Home(t, j))

Read(t) ==
    /\ pc[t] = "read"
    /\ locking' = [locking EXCEPT ![t].hp = hp_]
    /\ lookup' = [lookup EXCEPT ![t] = NoRead]
    /\ Goto(t, "epoch1")
    /\ UNCHANGED <<shared, todo, search, legal>>

\* read_and_rehash: a locked epoch restarts the lookup, a lock that is not
\* migrated is migrated first.
LoadEpoch(t, j, next) ==
    /\ LET l == LockOf(t, j)
       IN  /\ l \in LockIds
           /\ lookup' = [lookup EXCEPT ![t].at = <<1, 1>>,
                      ![t].epoch1 = IF j = 1 THEN locks[l].epoch ELSE @,
                      ![t].epoch2 = IF j = 2 THEN locks[l].epoch ELSE @]
           /\ locking' = [locking EXCEPT ![t].lock1 = l]
           /\ Goto(t, IF Locked(l) THEN "read"
                      ELSE IF ~locks[l].migrated THEN "rehash" ELSE next)
    /\ UNCHANGED <<shared, todo, search, legal>>

Epoch1(t) == pc[t] = "epoch1" /\ LoadEpoch(t, 1, "check_hp")
Epoch2(t) == pc[t] = "epoch2" /\ LoadEpoch(t, 2, "scan")

ReadRehash(t) ==
    /\ pc[t] = "rehash"
    /\ LockAndRelease(locking[t].lock1)
    /\ Goto(t, "read")
    /\ UNCHANGED <<hp_, todo, locking, search, lookup, legal>>

\* Mutant: hashpower() is not loaded again.
CheckHpTrusts(t) ==
    /\ pc[t] = "check_hp"
    /\ Goto(t, IF LockOf(t, 1) = LockOf(t, 2) THEN "scan" ELSE "epoch2")
    /\ UNCHANGED <<shared, todo, locking, search, lookup, legal>>

CheckHp(t) ==
    /\ pc[t] = "check_hp"
    /\ Goto(t, IF hp_ # Hp(t) THEN "read"
               ELSE IF LockOf(t, 1) = LockOf(t, 2) THEN "scan" ELSE "epoch2")
    /\ UNCHANGED <<shared, todo, locking, search, lookup, legal>>

\* cuckoo_find without locks: one slot after the other of both buckets.
Scan(t) ==
    /\ pc[t] = "scan"
    /\ LET j == lookup[t].at[1]
           i == lookup[t].at[2]
           e == table[Home(t, j)][i]
       IN  IF e # Empty /\ e.key = Key(t) THEN Goto(t, "value") /\ UNCHANGED lookup
           ELSE IF i < Slots THEN lookup' = [lookup EXCEPT ![t].at = <<j, i + 1>>] /\ UNCHANGED pc
           ELSE IF j = 1 THEN lookup' = [lookup EXCEPT ![t].at = <<2, 1>>] /\ UNCHANGED pc
           ELSE Goto(t, "validate1") /\ UNCHANGED lookup
    /\ UNCHANGED <<shared, todo, locking, search, legal>>

\* The value is loaded after the key: the slot may hold something else now.
Value(t) ==
    /\ pc[t] = "value"
    /\ LET e == table[Home(t, lookup[t].at[1])][lookup[t].at[2]]
       IN  lookup' = [lookup EXCEPT ![t].got = IF e = Empty THEN Empty ELSE e.val]
    /\ Goto(t, "validate1")
    /\ UNCHANGED <<shared, todo, locking, search, legal>>

\* The epochs are loaded again, one after the other.
SameEpoch(l, e) == locks[l].epoch = e /\ locks[l].migrated

Validate1(t) ==
    /\ pc[t] = "validate1"
    /\ Goto(t, IF ~SameEpoch(LockOf(t, 1), lookup[t].epoch1) THEN "read"
               ELSE IF LockOf(t, 1) = LockOf(t, 2) THEN "return" ELSE "validate2")
    /\ UNCHANGED <<shared, todo, locking, search, lookup, legal>>

Validate2(t) ==
    /\ pc[t] = "validate2"
    /\ Goto(t, IF SameEpoch(LockOf(t, 2), lookup[t].epoch2) THEN "return" ELSE "read")
    /\ UNCHANGED <<shared, todo, locking, search, lookup, legal>>

-----------------------------------------------------------------------------
Operate(t) ==
    \/ Update(t) \/ Erase(t) \/ NotFound(t) \/ Duplicate(t)
    \/ AddToFreeSlot(t) \/ NoFreeSlot(t) \/ AddToFreedSlot(t)

Cuckoo(t) ==
    \/ Search(t) \/ SearchInterrupted(t) \/ Bfs(t) \/ Path(t)
    \/ Move(t) \/ Check(t) \/ Shift(t) \/ ShiftFails(t)

AllLocked(t) ==
    \/ TakeNextOfAll(t) \/ DoubleThrows(t) \/ DoubleRaced(t) \/ GrowLocks(t)
    \/ Resize(t) \/ Spread(t) \/ Expand(t) \/ ExpandAssert(t)
    \/ ExpandNext(t) \/ Clear(t)

Lookup(t) ==
    \/ Read(t) \/ Epoch1(t) \/ ReadRehash(t) \/ CheckHp(t) \/ Epoch2(t)
    \/ Scan(t) \/ Value(t) \/ Validate1(t) \/ Validate2(t)

Step(t) ==
    \/ Snapshot(t) \/ TakeLock(t) \/ Release(t) \/ Return(t)
    \/ Operate(t) \/ Cuckoo(t) \/ AllLocked(t) \/ Lookup(t)

\* All threads have made their calls.
Finished ==
    /\ \A t \in Threads : pc[t] = "idle" /\ todo[t] = <<>>
    /\ UNCHANGED vars

Next == (\E t \in Threads : Begin(t) \/ Step(t)) \/ Finished

Spec == Init /\ [][Next]_vars

\* A thread inside a call is scheduled again and again.
FairSpec == Spec /\ \A t \in Threads : WF_vars(Step(t))

-----------------------------------------------------------------------------
EntryRecords == [key : Keys, val : Vals]

TypeOK ==
    /\ hp_ \in 0..MaxHp
    /\ table \in [0..HashSize(hp_) - 1 -> [SlotIds -> EntryRecords \cup {Empty}]]
    /\ \A l \in LockIds : /\ locks[l].flag \in BOOLEAN /\ locks[l].migrated \in BOOLEAN
                          /\ locks[l].epoch \in Nat /\ locks[l].count \in Int
    /\ \A t \in Threads : /\ locking[t].own \subseteq LockIds
                          /\ locking[t].drop \subseteq locking[t].own

\* A key is where a lookup searches it, before and after its data have been
\* migrated: under a lock that is not migrated the buckets are those of the
\* last hashpower and the new half is still empty.
Spreading == \E t \in Threads : pc[t] = "spread"

WellPlaced == ~Spreading =>
    \A p \in Entries(table) :
        LET k == table[p[1]][p[2]].key
        IN  p[1] \in Homes(k, IF locks[LockInd(p[1])].migrated THEN hp_ ELSE hp_ - 1)

\* No circle of threads waits for each other's locks (909-910, 938-939): a
\* call that owns one lock waits for another while others move keys over
\* three locks, take all of them, or migrate one of them for a lookup.
Wanted(t) ==
    CASE pc[t] = "lock" -> {NextLock(t)}
      [] pc[t] = "lock_all" -> {Cardinality(locking[t].own)}
      [] pc[t] = "bfs" -> {LockInd(Head(search[t].queue).bucket)}
      [] pc[t] = "path" -> {LockInd(search[t].next)}
      [] pc[t] = "rehash" -> {locking[t].lock1}
      [] OTHER -> {}

WaitsFor(t, u) == Wanted(t) \cap locking[u].own # {}

NoCircularWait ==
    \A T \in (SUBSET Threads) \ {{}} : \E t \in T : \A u \in T : ~WaitsFor(t, u)

\* No thread computes the index of a lock that does not exist yet
\* (1697-1700: the locks grow before the hashpower does).
LocksExist ==
    \A t \in Threads :
        /\ pc[t] = "lock" => NextLock(t) \in LockIds
        /\ pc[t] = "epoch1" => LockOf(t, 1) \in LockIds
        /\ pc[t] = "epoch2" => LockOf(t, 2) \in LockIds

\* What the assertions of cuckoo_insert and run_cuckoo claim after a
\* successful cuckoo path (1271-1278, 1402-1407): both insert buckets are
\* locked, the hashpower is the one the path was found with, and the freed
\* slot is free and in one of the two buckets.
FreedSlotIsUsable ==
    \A t \in Threads : pc[t] = "recheck" =>
        LET p == search[t].path[1]
        IN  /\ hp_ = Hp(t)
            /\ locking[t].own = LocksOf(Homes(Key(t), hp_))
            /\ p.bucket \in Homes(Key(t), hp_)
            /\ table[p.bucket][p.slot] = Empty

\* The counters of the locks add up to the number of elements, although one
\* counter alone may be negative (1299-1305, 1744-1749, 1987-1990).
CountersAddUp == Size = Cardinality(Entries(table))

\* The map keeps the promises of module ConcurrentMap (457-560, 580-693):
\* an insertion answers TRUE, and stores its value, exactly when its key is
\* absent at that step, an update or an erasure answers FALSE exactly when it
\* is, an exception changes nothing, and cuckoo moves (1511-1553), doublings
\* and migrations (1736-1808) leave the content of the whole table as it is.
Promise == INSTANCE ConcurrentMap WITH
    Calls <- [op : OpKinds, key : Keys, val : Int],
    NoCall <- Empty, Pending <- Empty, Thrown <- Absent,
    content <- Contents,
    call <- [t \in Threads |-> IF pc[t] = "idle" THEN Empty ELSE Call(t)],
    seen <- legal,
    answer <- [t \in Threads |->
        IF pc[t] = "idle" \/ Call(t).op # "find" THEN locking[t].answer
        ELSE IF pc[t] = "return" THEN lookup[t].got ELSE Empty]

KeepsPromises == Promise!Spec

\* What a lookup without locks relies on (1070-1118): a bucket changes only
\* while its lock is locked or in a step that moves the epoch on, and the
\* hashpower only while all locks are locked.
ChangesAreUnderLocks ==
    [][/\ \A b \in DOMAIN table :
             table'[b] # table[b] => LET l == LockInd(b)
                                     IN  Locked(l) \/ locks'[l].epoch > locks[l].epoch
       /\ hp_' # hp_ => hp_' = hp_ + 1 /\ \A l \in LockIds : Locked(l)]_vars

\* Every call returns: no deadlock among the locks and no livelock between
\* the retries of lookups, snapshots and cuckoo paths.
CallsReturn == \A t \in Threads : (pc[t] # "idle") ~> (pc[t] = "idle")

=============================================================================
