# Verification of the seqlock hash tables

TLA+ models, model-checking configurations and machine-checked proofs for
seqlock-concurrent-hash-tables: a header-only C++ library with two open-addressed
concurrent hash maps, a cuckoo map (derived from libcuckoo) and a robin hood map. In both, writers
lock buckets or groups of buckets and readers take no lock: they copy what they need and
accept the copy if the *epochs* of the locks involved have not moved.

Paths below are relative to `src/include/` unless they start with `src/`.

## 1. The system

| component | state | operations | what makes it correct |
|---|---|---|---|
| sequence lock, `common/seqlock.hpp`, with the copies of `common/atomic_buffer.hpp` | a flag, a plain epoch for the holder, an atomic epoch for readers whose top bit is `is_migrated`, an element counter | `lock`, `try_lock`, `unlock`, `unlock_no_modified`, `set_migrated`, `get_epoch`; `atomic_store_memcpy`, `atomic_load_memcpy` piece by piece | one holder at a time; whatever is half stored hides behind an odd epoch; an accepted copy is one whole content |
| cuckoo map, `hash_maps/cuckoo/cuckoohash_map.hpp` | `buckets_`, `locks_`, the limits | `find`, `insert`, `insert_or_assign`, `upsert`/`uprase_fn`, `update`, `erase`, `clear`, `rehash`, `reserve`, `rehash_concurrent`, the setters | every operation takes effect in one step between its call and its return; a key lies where lookups search it; locks are taken in an order without circles; counters add up; calls return |
| doubling and lazy migration, same file 847-894, 1687-1832 | the `is_migrated` bit of every lock | `cuckoo_fast_double`, `migrate_lock`, `lock_and_rehash`, `rehash_all` | every bucket is migrated once, before anybody uses it, and before the next doubling |
| worker threads, same file 1922-1981 | a partition of a range | `parallel_exec`, `parallel_exec_noexcept`, `rehash_with_workers` | every index is handled once, an exception of a worker is thrown again |
| `locked_table` and its iterators, same file 2108-2675 | ownership of all locks | construction, `unlock`, iteration, the unlocked variants of the operations | it owns every lock from construction to `unlock`, and finds every key without looking at one |
| storage, `common/data_storage.hpp` | segments 0..hp, segment i of 2^(i-1) elements | `operator[]`, `get_iterator`, `double_size`, `change_size`, `swap`, moves | every index below `size()` has one place, which never moves while the storage doubles |
| containers, `common/bucket_container.hpp`, `common/lock_container.hpp`, `common/bucket.hpp` | buckets of slots; locks | copy, move, `setKV`, `deoccupy`, `clear` | slots are typed storage with an `occupied` bit |
| robin hood map, `hash_maps/rh/rhhash_map.hpp` | buckets which are their own locks, a distance in every slot | `find`, `insert`, `insert_or_assign`, `upsert`, `update`, `erase`, doubling | every key is reachable from its home over slots without a gap; every operation takes effect in one step |
| benchmarks, tests, scripts, `src/bench`, `src/tests`, `src/scripts` | | | not part of the system |

**Interactions.** Any number of threads call one map. They share the buckets, the locks, and the
hashpower of `buckets_`. Writers use `snapshot_and_lock_two`: read the hashpower, compute two
buckets, lock their locks in ascending order, compare the hashpower under the first one.
Readers (`read_value`) load the hashpower, the first epoch, the hashpower again, the second
epoch, scan both buckets, and load the epochs again. A doubling holds all locks, so it excludes
writers, and lookups notice it by the epochs. After a lazy doubling (`is_migrated` cleared in every
lock) the first thread that takes a lock, be it a lookup, moves its data.

**What is hard.** Readers race with everything. `run_cuckoo` gives up its locks to search a path
and moves keys under other locks. The lock container grows while other threads index it. Locks
differ in their migration state. `unlock_no_modified` puts an old epoch back. Nothing is
persisted and nothing is sent, so crashes, loss and timeouts do not occur; user functions may
throw, and two exceptions leave an insertion when the table may not grow.

## 2. The modules

### `AtomicRegister`, `Seqlock`, `MCSeqlock`, `SeqlockProofs`

`AtomicRegister` says what the data behind one lock promise: they change as a whole, and a read
returns what they are at some instant of the read. `Seqlock` is one lock and the bytes behind it,
at the grain of single memory accesses:

- `lock_` is the atomic flag, `cur_epoch_` the holder's epoch, `epoch_` the atomic one; a word
  is a counter with the `is_migrated` bit;
- `data` are the pieces in which `atomic_store_memcpy` stores a value;
- `Spin`, `TryLock`, `Open` are `lock` and `try_lock`; `Unlock`, `UnlockNoModified` store the epoch
  and `Clear` clears the flag, the two statements of `unlock_atomics`;
- `Store` is the body of an operation that changes the value, `Demote` is what
  `cuckoo_fast_double` does to every lock, `Move` and `Migrated` are `migrate_lock`;
- `LoadEpoch`, `CopyChunk`, `Accept`, `Retry` are the lookup of `read_value`.

The kinds of operation in `Ops` are the critical sections the map has. "upsert" is `uprase_fn` with
a key that is present: it changes the value and calls `unlock_no_modified`. That breaks the
contract of the lock, so it has a run of its own (section 4) and the other runs and the proofs
leave it out.

### `SeqlockWeak`, `MCSeqlockWeak`, `SeqlockWeakProofs`

The same lock under the memory model of C++, with the memory orders of the code. A location (the
flag, the epoch, each piece) has a history of messages; a thread has a *view*, the newest message of
each location it must not look behind, and a message carries the view of a releasing writer. `Load`,
`Store`, `Exchange` and the two fences are the usual view semantics (external: the language, not the
repository); everything else is the code: `TakeFlag` (acquire), `Announce` (the odd epoch, relaxed), `Fence`
(the release fence an operation starts with), `StorePiece` (relaxed), `Publish` (the even epoch, relaxed), `Clear`
(release), `LoadEpoch` (acquire), `LoadPiece` (relaxed), `Barrier` (the acquire fence of `read_value`), `Check` (relaxed).
The kinds of operation are "update", "miss" (released as not modified), "move", which stands for
the places that change buckets without a fence of their own, and "lookup".

### `ConcurrentMap`

What a concurrent map promises: an operation that changes it does so in one step between its call
and its return and answers by the content at that step; a find answers what its key had at some
time during the call; an exception changes nothing. Both maps are checked to implement it
(`KeepsPromises`). The refinement mapping computes the content from the whole table (`Contents`), so
a move, a migration, a displacement, a shift or a doubling has to be a stutter: a key that is lost
or lies in two slots for one step violates it. `call` is the operation a thread is in, `answer` what it has
answered while it still releases its locks, `seen` the history variable `legal` of the detailed module.

### `CuckooMap`, `MCCuckooGrow`, `MCCuckooPaths`, `CuckooMapProofs`, `SumProofs`

The whole map: the reader's view of one lock is now one step, which the theorems about
`Seqlock` justify, and the model looks at many locks and buckets.

| state | in the code |
|---|---|
| `hp_` | `buckets_.hashpower()` |
| `table` | `buckets_`: bucket, slot, entry or `Empty` |
| `locks` | `locks_`: flag, epoch, migrated bit, `elem_counter` |
| `pc`, `todo` | where each thread is, the calls it still has to make |
| `locking` | the locks a thread wants, owns, is releasing; the hashpower it has seen; the lock whose counter it uses; its answer |
| `search` | the queue of `slot_search` and the path with the hash values found on it |
| `lookup` | the epochs and the value of `read_value` |
| `legal` | history: the values a running find may return |

Actions and code: `Snapshot`, `TakeLock`, `Release` are `snapshot_and_lock_two`, `lock_two`,
`lock_three` and the destructors of the lock holders; `Update`, `Erase`, `NotFound`, `Duplicate`,
`AddToFreeSlot`, `NoFreeSlot`, `AddToFreedSlot` are the bodies of the operations and of
`cuckoo_insert`; `Search`, `Bfs`, `Path`, `SearchInterrupted` are `slot_search` and
`cuckoopath_search`, which lock one bucket at a time; `Move`, `Check`, `Shift`, `ShiftFails` are
`cuckoopath_move` and the second half of `run_cuckoo`; `TakeNextOfAll` is `lock_all`; `DoubleThrows`,
`DoubleRaced`, `GrowLocks`, `Resize`, `Spread` are `cuckoo_fast_double`; `Expand`, `ExpandAssert`,
`ExpandNext` are `rehash_concurrent`; `Clear` is `clear`; `Read`, `Epoch1`, `CheckHp`, `Epoch2`,
`ReadRehash`, `Scan`, `Value`, `Validate1`, `Validate2` are `read_value`.

Abstractions: a hash value is a number, its low bits are `index_hash` and the low bits of
`Alt[k]` are `alt_index`, so that doubling adds one bit to both as in the code. Keys with equal
hashes have equal `Alt`, as the partial key is a function of the hash. A slot is read or written in
one step; changes made under a lock and invisible to others until it is released (a
migration, the body of an operation) are one step; the steps of a doubling are kept apart
where a thread without a lock can look in between.

### `ParallelExec`, `LockedTable`, `MCLockedTable`, `LockedTableProofs`

`ParallelExec` is `parallel_exec` and `parallel_exec_noexcept`: `StartExec` reads the number of extra threads and
divides the range, `Spawn` hands a share to each extra thread, which may run at once, `OwnRange` leaves the rest to the
caller, `HandleIndex` is one index of one worker, `Throw` a worker that stores its exception, `Join` and
`Return` the end. What happens to an index is conjoined by the module that extends it.

`LockedTable` extends it with the map under all locks: `map` and `temp` are records of a hashpower,
slots and locks (`temp` is `new_map` of `cuckoo_change_capacity`), `doing` says where the owner of all locks is, `it`
is an iterator as a position over all slots. `LockTable`, `LockNext`, `AllLocked` are the constructor of `locked_table` and
`lock_all`; `MigrateLock` is a worker of `rehash_with_workers`; `LockedInsert`, `InsertDuplicate`, `InsertPlaces`,
`InsertThrows`, `InsertExpands`, `LockedDouble` are `insert` and `cuckoo_fast_double` in `locked_table_mode`;
`LockedEraseAt`, `LockedErase`, `LockedClear`, `IterBegin`, `IterNext`, `IterPrev` the other operations of the handle;
`Rehash`, `LockedRehash`, `CapacityThrows`, `Capacity`, `StartCopy`, `CopyKey`, `CopyThrows`, `CopyNextBucket`, `CopyDone` are
`cuckoo_change_capacity` with and without the handle; `Unlock`, `UnlockNext`, `Unlocked` give the locks back. The calls of
other threads (`OtherInsert`, `OtherDouble`, `OtherErase`) are single steps taken while the locks they need are free: `CuckooMap` opens
them. Cuckoo paths are paths of one move. `new_map`, which no other thread knows yet but whose insertions
the workers run in parallel, is filled key by key in any order of the workers. It is built with the constructor's
defaults: no maximum hashpower and `DEFAULT_MINIMUM_LOAD_FACTOR`. So the growth of the map is refused by `Refused` (its own maximum and minimum
load factor), that of the new map by `NewMapRefused` (the default load factor alone), and `rehash` may leave a map above its maximum, which then no longer doubles.

### `RobinHoodMap`, `MCRobinHood`, `MCRobinHoodEdge`, `RobinHoodProofs`, `RobinHoodOrderProofs`

| state | in the code |
|---|---|
| `hp_` | `hashpower()`: that of `buckets_` plus `SLOT_PER_BUCKET_POW` |
| `table` | the slots of `buckets_`, numbered through; an entry is a key, a value and its `distance` |
| `locks` | the sequence lock every bucket is: flag, epoch, `elem_counter` |
| `walk` | the list of locks of an operation, the hashpower it has seen, the slot it is at; the loop of a doubling |
| `lookup` | the epochs of `collect_epochs` and the value of `find` |
| `legal` | history, as in `CuckooMap` |

Actions and code: `Start` is `get_rh_data`; `LockFirst`, `LockNext`, `Probe` are `lock_first`,
`before_next_bucket` and `abstract_cycle`; `Found`, `NotFound`, `Add`, `FindPath`, `MovePath` are
`insert_fn`, `add_to_bucket`, `path_exists` and `move_path`; `Erase`, `Shift` are `erase` and `set_on_prev`;
`Release` is the end of a list of locks; `RehashRequired`, `LockAll`, `DoubleRaced`, `Grow`,
`SkipFree`, `MoveFar`, `MoveNear`, `Stay`, `Doubled` are `rehash_required`, `lock_all` and `rh_fast_double`, slot
by slot; `Epoch`, `CheckHp`, `Scan`, `Value`, `CheckEpochs` are `find`, `collect_epochs` and
`check_epochs`.

Abstractions: what a thread does to buckets it has locked between two lock operations is one
step (a probe of a bucket, a path, a shift inside a bucket), as nobody can see less than all of
it through an even epoch; the locks of a list are released in any order, because the order in which
a standard list is destroyed is not specified, except where `AllUnlocker` releases them.
`upsert` and `update_fn` are the walks of `insert_or_assign` and `update` with another
function. `MaxWindow` scales `MAX_WINDOW_SIZE` down, `FreeMod` the width of `free_behind`.

### `DataStorage`, `MCDataStorage`, `DataStorageProofs`

The storage under both maps, statement by statement: `hp_` and `data_` are the members of each
storage, `heap` and `made` say which segments are allocated and for which index. One thread at a time
works on the storages (`CallDoubleSize`, `DoubleSegment`, `DoubleHashpower`: `double_size`; `CallGrow`,
`Grow`, `Grown`, `CallShrink`, `ShrinkHashpower`, `Shrink`, `Shrunk`: `change_size`; `CallSwap`, `SwapThis`,
`SwapOther`, `Swap`: `swap`; `CallMove`, `MovePointer`, `Moved`: `move_pointers`); constructors, assignments and
destructors of the containers are sequences of these. Meanwhile lookups load the hashpower,
later a pointer, later the element (`LoadHashpower`, `LoadPointer`, `ReadElement`). `Shared` says which operations
lookups may overlap: "double_size", by the design of the maps; the run `storage_swap` adds
"swap", which `cuckoo_change_capacity` does in fact. `Place` is `find_value`, `Successor` and `Predecessor` are the
iterator.

### How the levels fit

`Seqlock` opens what `CuckooMap` and `RobinHoodMap` take as one step: loading an epoch, loading a slot,
storing one. Its theorems say that a copy accepted by an unchanged even epoch is a whole
published content. The maps use that for every bucket, add further locks, the hashpower and
the moves of keys, and ask whether the *combination* implements `ConcurrentMap`. `DataStorage` opens the other
step they take for granted: that the table doubles at once for those who do not hold locks.
`LockedTable` takes what `CuckooMap` shows of the concurrent calls as steps, and has `ParallelExec` inside.
`SeqlockWeak` says how far the memory orders of the code give what the other modules assume, sequential consistency.

## 3. Properties

Sequence lock: `MutualExclusion`; `ChangesAreAnnounced` (half-stored data lie behind an odd
epoch); `AcceptedCopyIsPublished` (what a reader is about to accept is the published content,
however many critical sections ran meanwhile); `LookupsReturnStoredValues`; `ImplementsRegister`
(refinement); `OperationsEnd` (liveness).

Under weak memory: `HolderIsUpToDate` (the flag alone makes a holder see the plain epoch, the atomic one
and every piece); `AcceptedPiecesAreNotAhead` (no accepted piece is newer than the epoch: this is
what the fence at the start of an operation is for); `AcceptedPiecesMissOneUpdateAtMost` (nor is one older than the
update before); `AcceptedCopyIsWhole` (what is promised; refuted).

Both maps: `KeepsPromises`, the refinement of `ConcurrentMap`; `NoCircularWait`; `CallsReturn` (liveness); one
`TypeOK` each.

Cuckoo map: `WellPlaced` (the slot of a key is one lookups search, for the hashpower before or
after the migration of its lock); `ChangesAreUnderLocks` (action property: what lookups rely on);
`LocksExist` (nobody computes a lock that has not been allocated); `FreedSlotIsUsable` (the
assertions after a successful cuckoo path); `CountersAddUp`; `TypeOK` includes that the table stays
within `maximum_hashpower`.

Robin hood map: `EntriesAreReachable` (every entry lies in its window, behind occupied slots none of
which holds an entry nearer to its home, whenever none of the buckets concerned is locked);
`CountersMatch`; `WalksStayInside` (nothing in the code compares a bucket with the end of the table).

locked_table: `KeysAreStored` (every key lies in one slot of the map, through migrations, copies and
exceptions, with the calls of other threads before and after); `LockedLookupsAreRight` (between two operations of the handle
a search that looks through no lock finds exactly the keys of the map); `LocksFollowTheHandle` (all
locks are held while a handle exists, those that were swapped in too, and none is left held after);
`SizeIsExact` (the counters, counted at different locks by the two kinds of calls, moved by doublings, add up in every state);
`IterationIsComplete` (what an iterator has passed since `begin()` are the keys before it, with erasures in between);
`EveryIndexOnce` (the workers).

Storage: `LookupsReadLiveSegments` (what a lookup reads is allocated and of the size it expects);
`SegmentsAreOwnedOnce` (no leak, no second owner, and a segment is freed with the size it
was allocated with, between any two statements); `HashpowerCountsSegments`;
`IterationMeetsEveryElement` (the iterator agrees with `operator[]`); `TypeOK`.

## 4. The runs

| run | what it shows | size and bounds |
|---|---|---|
| `seqlock` | safety of the lock, refinement of `AtomicRegister`, liveness | 3 threads, 2 values, 2 pieces, at most 3 operations |
| `seqlock_upsert` | **violation**: `uprase_fn` and a lookup | 2 threads, 2 operations |
| `weak` | the lock with the memory orders of the code | 3 threads, 2 pieces, at most 4 operations |
| `weak_torn` | **violation**: the relaxed even epoch | 2 threads, 2 pieces, 2 operations |
| `cuckoo_grow` | growth: an eager doubling with a new lock, lazy doublings, two in a row, refused ones, `rehash_concurrent`, `clear`, against lookups and writers | 9 programs of 3 threads, 1 slot, 1 to 2 locks, hashpower up to 3 |
| `cuckoo_paths` | cuckoo paths that become stale in every way the code checks; every call returns | 5 programs of 2 or 3 threads, 2 slots, 4 locks, hashpower 2 to 3 |
| `locked` | `locked_table`, `rehash`, `reserve`, worker threads, exceptions | 4 keys, 2 slots, 2 locks, hashpower 0 to 3 (4 is refused), up to 3 workers |
| `locked_rehash` | **violation**: `rehash` of the handle leaves the data to be migrated | the same with up to 2 workers |
| `rh` | insertions that displace, backward shifts over three buckets, doublings, against lookups and each other; every call returns | 11 programs of up to 3 threads, 2 slots to a bucket, hashpower 4 to 5 |
| `rh_displacing` | **violation**: a doubling pushes an entry out of its window | 1 program, 1 thread |
| `storage` | the life of two storages, with lookups during doublings | 2 storages, 6 segments, hashpower up to 2, 1 lookup |
| `storage_swap` | **violation**: `rehash` swaps what lookups read | 2 storages, hashpower up to 1, 1 lookup |

**Bounds.** Two pieces are enough to tell a whole value from a mixture. Three threads put two
critical sections inside one lookup, which is what restores an epoch or moves it by two. In the maps the operations of a behaviour
are fixed per thread by a *program*; every interleaving of their steps is explored. The
programs were chosen so that each guard of the code fires both ways; without
them the number of initial tables alone is out of reach. Keys, hash values and tables are
chosen so that `kMaxNumLocksPow` is crossed (the doublings below it are eager and add locks, above it
lazy), that keys share a lock without sharing a bucket, and that a path has up to three buckets.
In `RobinHoodMap` 16 slots are 9 homes and a window of 5 (6 after the doubling); the keys are chosen
so that homes are folded back, paths and shifts cross buckets, a window is full, a free slot lies
just outside, and a doubling moves some keys and not others. In `DataStorage` hashpower 2 gives segments of
one, one and two elements, the three cases of `find_value`; lookups change nothing that is
shared, so one stands for any number.
In `SeqlockWeak` four operations are two updates, a critical section without a change and a lookup around them, or three updates around one lookup: what the lookup accepts could then miss two. In `LockedTable` hashpower 0
doubles eagerly, 1 and 2 lazily; two locks and one to eight buckets divide evenly and unevenly among one, two and three
workers; the hash values of three of the keys agree in their low bits, so that buckets fill, copies double and throw. `HpBound` is one above the maximum and
never cuts a copy off: a new map at it that had to double would have no next step, and the run would report a deadlock.
`MaxOps` (sequence locks), `Programs` and `MaxHp` (cuckoo map), `Programs` (robin hood map), `HpBound` (how far the new map of
a copy may grow, which has no maximum), `MaxDrift` (how far a counter may go below zero), `Sizes`, `LockedSizes` and `MaxExtra` (locked table, where
`MaxHp` is `maximum_hashpower` itself), `MaxHp` and `Segments`
(storage) are the only bounds. The epoch is not bounded otherwise: the code gives it 63 bits.

**Fairness.** Weak fairness of each thread's steps: the scheduler keeps running every
thread that can take a step. Spinning is modelled by a step that is disabled until the flag is
clear; a test-and-set lock is not fair, so a thread may be overtaken for ever if the others never
stop calling. The liveness properties hold because the number of calls of a behaviour is bounded, and this
is what they say: no deadlock, and no livelock among calls that are already running.

**Deadlock.** TLC's deadlock check is on for both maps and `LockedTable`; in the maps `Finished` is the only state in which nothing
happens. It is on for the storage. In the two modules of the sequence lock the system stops when `MaxOps` operations are over.

## 5. Proofs

`SeqlockProofs` proves, for every set of threads and values and every number of pieces:

- `Invariance`: `Spec => []IndInv`; from it `TypeCorrect`, `MutualExclusionHolds`,
  `ChangesAreAnnouncedHolds`, `AcceptedCopyHolds`, `LookupsHold`;
- `Refinement`: `Spec => ImplementsRegister`, step by step: `Publish` maps to `Replace`, `Accept` to
  `Read`, `Call` to `Call`, everything else to a stutter.

*Assumptions*: `SeqlockAssumption` (at least one piece, the initial value is a value),
`PendingAssumption` (the "no result yet" mark is not a content) and `ContractAssumption`
("upsert" is not in `Ops`: a critical section which changes the data does not end in
`unlock_no_modified`). Without the last one the theorems are false, as the run `seqlock_upsert` shows.

*Why an inductive invariant is needed.* That the epoch is equal before and after a copy says
nothing by itself: `unlock_no_modified` restores old epochs. `ReaderInv` says what a reader may
conclude: the counter never falls below an even epoch that was loaded; while it is equal or one
above with a holder that is about to restore it, the pieces copied so far are those of the
published content; when it is one above, nobody is moving data. `EpochInv` ties the parity of
the epoch to the position of the holder, `DataInv` says that what is published is whole, and
`MigratedInv` that a body runs on migrated data only.

`DataStorageProofs` proves, for every set of threads, storages and segments and every maximal
hashpower:

- `Invariance`: `Spec => []IInv`; from it `TypeCorrect`, `LookupsAreSafe`, `SegmentsAreSafe`,
  `HashpowerIsRight`.

*Assumptions*: `StorageAssumption` (types of the constants) and `LookupAssumption` (lookups overlap
nothing but "double_size"). Without the second one `LookupsAreSafe` is false, as the run `storage_swap` shows.

*The inductive invariant.* Between two operations the hashpower says which pointers there are, in
the middle of one it does not. `Has` says it for every step of every operation (`swap`, for example:
below `i` a storage has its own segments already, from `i` on still those of its partner), `Phases`
what the loop variables mean there, `Extents` that the pointers agree with `Has`; with
`SegmentsAreOwnedOnce` a freed pointer is nobody else's. `Readers` says that only a doubling works on a
storage that is looked at and that a pointer once loaded stays.

`LockedTableProofs` proves about the workers, for every range and every number of threads (`ExtraAssumption`, a natural number):
`ExecHandlesEveryIndexOnce`: `ExecSpec => []EveryIndexOnce`. The inductive invariant says that the ranges handed out are adjacent and
end where the next one begins (`RangesPartition`), that the shares still to come fit below the end (`SharesFit`:
this is where the rounding of `work_per_thread` matters), that `handled` is what the workers have passed
(`HandledInv`) and that a joined thread has finished (`JoinInv`). `WorkersShareTheLocks` is the same formula where the
indexes are locks and buckets.

It proves about the locked table, for all keys and hash values, any number of slots, every hashpower the map and its locks may have,
and any number of workers:

- `TableInvariant`: `Spec => [](IInv /\ TableInv)`; from it `TableTypeOK` (`TypeOK`) and `LocksAreHeld` (`LocksFollowTheHandle`);
- `DataInvariant`: `Spec /\ []NewMapsKeepTheirSize => []DataInv`; from it, under the same hypothesis, `KeysStayStored` (`KeysAreStored`),
  `LockedLookupsStayRight` (`LockedLookupsAreRight`) and `IterationsAreComplete` (`IterationIsComplete`);
- `SizeStaysExact` (`SizeIsExact`), also under that hypothesis;
- `DataWithoutRehash`: when `LockedSizes = {}`, that is, when `rehash` and `reserve` of the handle are not called, the same four without the hypothesis.

*Assumptions*: `TableAssumption` (types of the constants, and that the mark of an empty slot is no key) and `PowerAssumption`, the law 2^(n+1) = 2 * 2^n for
the hashpowers the constants allow, which TLC evaluates. `NewMapsKeepTheirSize` says that the new map into which `rehash` of the handle copies does not
have to double. It holds in every reachable state of the run `locked`; without it the theorems are false, as finding 8 and the run `locked_rehash` show: a
new map that doubles lazily leaves keys where the handle does not look. `rehash` and `reserve` of the map itself need no such thing:
there the keys that are left behind are migrated by whoever takes their lock.

*The inductive invariant.* `TableInv` says for everything the owner of all locks may be doing which locks are held (`HeldOK`), and that every index its workers have
handled is a migrated lock (`WorkOK`); so when `rehash_with_workers` returns, nothing is left to migrate, whichever worker came last. `DataInv` says what the
slots hold. `Holds(m, C)`: the keys of the map `m` are those of the set `C`, each in one slot, in a bucket of its own for the
hashpower of the bucket's lock, the old one while the lock waits for its migration (`Basis`). One lemma per operator says what it does to such a map, and they
carry the argument: `TouchHolds` (the migration of any set of locks) and `DoubledHolds` (an eager or a lazy doubling) leave it holding `C`; `PutHolds`, `MoveHolds`, `PlacementsHold`
(an insertion, with or without moving another key) add a key; `TakeHolds` takes one. For a migration the point is that `MoveBuckets` renumbers: the keys that move are packed into the first
slots of a bucket that must be empty, so none is overwritten (`RoomAbove`, `NoKeyIsLost`), and none is copied twice (`MovedOnce`, over `Nth`, the slot
that comes j-th). `CopyOK`: the new map holds some of the keys, and all those of the buckets the workers have passed; with `EveryIndexOnce` it holds them all
when the call returns without an exception. `IterOK`: what is at or behind the iterator (`AheadOf`) and what it has visited are together the content, and have nothing in common.
`CountInv` says that the counters of the map add up to its content, and those of the new map to the keys it has so far. Here too there is one lemma per operator (`TouchSize`,
`PlacementSize`, `RemovedSize`, `GrownSize`, `SpreadSize`, ...), over the lemmas on sums of `SumProofs`. In `SpreadSize` a bucket of the old half frees as many slots as keys move, and they
fill as many of the new one (`FreedByMoves`), so each pair of counters keeps its sum. That an insertion counts one *more* key needs `DataInv`: the key it has not found is not in the map.

`SeqlockWeakProofs` proves under the memory orders of the code, for every set of threads, every number of pieces and
of calls and every kind of operation: `HolderIsAlwaysUpToDate`: `Spec => []HolderIsUpToDate`, and `OneHolderOnly`. *The inductive invariant*
says, beyond the two, that every view points at messages there are (`Bounded`, `Carried`) and that a clear flag has
nobody in a critical section and hands on the newest of everything (`ClearFlagIsUpToDate`): the message that
clears it carries the view of the last holder, and nothing is stored while it is clear.
`WeakTypes`: `Spec => []TypeOK`, says that every number stored is natural, which is a statement about `unlock_no_modified`: it counts the epoch
back from the one its holder reads, which is the newest, and odd exactly where the critical section is open (`Parity`). With it goes
that a message carries its own index (`Numbered`) and that what is handed on has been seen (`Ordered`).

It also proves `NothingAheadIsAccepted`: `Spec => []AcceptedPiecesAreNotAhead`, from `WeakAssumption` and
`"move" \notin Ops`: every operation has the release fence behind its locks. Without that it is false (section 6). *The inductive
invariant* follows a number through the memory: a piece hands on a view behind which every epoch is that of its update or a later
one (`PiecesFollow`), since it is stored behind the fence which has the odd epoch (`Fenced`); a lookup that
loaded the piece gets this view at its acquire fence (`CopiesFollow`), so that the epoch it compares with is
one of these (`ChecksFollow`), and it is even (`SeenIsEven`). `Rooms` bounds what has been
stored by the epoch, in every place of a critical section: an epoch that `unlock_no_modified` counts back is
not behind an update. It uses the invariant above: what the holder adds to is the newest epoch.
`OneUpdateIsMissedAtMost`: `Spec => []AcceptedPiecesMissOneUpdateAtMost`, under the same assumption, is the bound from below. The store
of the even epoch hands on no more than its holder had seen at the fence, so the pieces of the very update it publishes may be missing,
those of the update before may not (`EpochsHandOn`); `HolderLow` follows what a critical section has stored from the fence to the even epoch, `LookupLow`
what a lookup has read and may still read.

`CuckooMapProofs` proves about the concurrent cuckoo map, for every set of threads and keys, any number of slots,
every hash function, maximal hashpower, hashpower at which the locks stop growing, and all programs:

- `LocksInvariant`: `Spec => []LocksInv`; from it `MapTypes`, `LocksAreAcyclic` (`NoCircularWait`), `LocksAreThere`
  (`LocksExist`) and `BucketsChangeUnderLocks` (`ChangesAreUnderLocks`, an action property).

*Assumptions*: `MapAssumption` (types of the constants; `Empty` is no entry; keys with equal hashes have equal partial keys),
`ProgramAssumption` (the initial maps are maps an insertion could have made: no two entries share a key or a slot; the calls are calls) and
`PowerAssumption`: 2^0 = 1 and 2^(n+1) = 2 * 2^n up to the bounds. The provers know no powers; TLC evaluates the law.

*The inductive invariant.* `Typed`; `LockRange`: the locks are those of the hashpower, or of the next one between the two
steps of a doubling which add locks and buckets; `LocksOK`: the flag is set exactly while the epoch is odd, and a lock waits
for its migration only above `kMaxNumLocksPow`; `Exclusive`: a set flag has one owner. `OwnOK` says which locks a call owns at each step:
none, all, those of its key's buckets or of the two or three buckets of a move, or in `lock_all` all below the next one; and
that what it still wants lies above what it owns, from which the absence of circles follows: the call of a circle that owns the
greatest lock waits for a greater one. `HpOK` says what a call knows of the hashpower: what it read may be out of date, until it owns the first
lock of its key; from then on no doubling gets all locks. `PathOK` ties the path an insertion found to the homes of the
keys on it, also while no lock is held. The step which needs most of this is `lock_two` taken for a move while the map doubles: the locks of the
buckets were computed from a hashpower that is compared only under the first of them.

The same module proves, from the same assumptions, where the entries are and how many:

- `PlacesInvariant`: `Spec => []PlacesInv`; from it `EntriesAreWellPlaced` (`WellPlaced`) and `FreedSlotsAreUsable` (`FreedSlotIsUsable`);
- `CountersStayRight`: `Spec => []CountersAddUp`.

`PlacesInv` gives each bucket its `Basis`, the hashpower whose indexes tell where its entries belong: the old one while its lock
is to be migrated or the doubling is between `Resize` and `Spread`, otherwise the new one (`Placed`). A call that owns locks of its key or
of a move owns migrated ones (`Migrated`); and from the last move to the insertion the first slot of the path stays free
(`Freed`), since the locks of the two buckets are not given up in between. The arithmetic of a migration, that an index of the doubled table is the old one or that plus the old
size, and that both have one lock, is in the lemmas `DoubledHome`, `DoubledLock` and `StaysOrMoves`.

`CountInv` needs to say beyond `CountersAddUp` only that the lock in which an operation counts is one of those of its key
(`CountsHere`): what an erasure subtracts need not be where the insertion added it, since a move takes an entry to a
bucket of another lock and counts nothing, so no statement about single counters is inductive. Each step then changes the sum and the number of entries alike: a body
writes one slot and one counter (`BodyPuts`); a move frees one slot and fills another (`ShiftEntries`); a migration
carries entries one to one into the new half (`MigrateCount`, over `MovingSlots`); `Spread` gives the counter of a lock to two (`SpreadCount`).
`SumProofs` has what is needed about sums over finite sets. `SumFunction` of the community modules is a
fold, which the provers cannot unfold; that there is one function on the subsets of a finite set which satisfies its equation is proved by a smallest
counterexample among these subsets (`SmallestSet`), and from the equation that a sum adds what one element changes, that two sums with equal terms are
equal, and that sums over two halves can be taken in pairs.

`RobinHoodProofs` proves about the robin hood map, for every set of threads and keys, every hash function, window and size
of a bucket, and all programs:

- `LocksInvariant`: `Spec => []RHInv`; from it `MapTypes`, `CountersAreRight` (`CountersMatch`), `BucketsHaveOneOwner`
  (`[]OneOwner`: no bucket has two owners, and while one thread doubles the others own nothing) and `LocksAreAcyclic`.

*Assumptions*: `RobinHoodAssumption` (types of the constants; `Empty` and `Absent` are none of the entries, calls, values and answers; a table is at least twice as large as the window, as the
constructor makes it) and, as a hypothesis of the theorems, `PowerLaw`: 2^0 = 1 and 2^(n+1) = 2 * 2^n for all naturals. It is true of the
power of the integers, but the provers know no powers; and TLC cannot evaluate it as an `ASSUME`, since it ranges over all naturals:
the hashpower of this map has no maximum.
`LocksAreAcyclic` has a hypothesis of its own, `Spec /\ []NestedInsertsFit => []NoCircularWait`: every entry that a doubling puts
further on finds a place in its window. Without it the theorem is false: the thread asks for another doubling and
waits for a bucket it owns (finding 5).

*The inductive invariant.* `SizesOK` and `Typed`; `LocksOK`: the flag of a bucket is set exactly while its epoch is odd and
exactly while a thread owns it; `Exclusive`: one thread. `OwnOK` says what a thread owns: a walk the buckets from that of its home to the one it locked
last, without a gap; `lock_all` those below the next one; a doubling all of them. Since a walk owns its home's bucket, no doubling changes
the table under it. `SlotsOK` says what it knows of the slots it owns,
while others change theirs: where `abstract_cycle` stopped, that `path_exists` found a free slot behind it, so that `move_path`,
which does not look for the end of the table, ends in a bucket that is locked; that the slot before the next shift is
free. `Match`, that every counter is the number of the entries in its bucket, holds in locked buckets too; it needs `SlotsOK`: what is displaced or shifted back
over several buckets fills one free slot and frees one.

*Circles.* Among the buckets that the threads of a circle own is a greatest one; its owner waits for one that is greater still, as
all walks and doublings lock upwards, and that bucket too is owned in the circle.

`RobinHoodOrderProofs` proves about the same map, for the same constants, that its order survives displacements, backward shifts
and doublings. Each theorem is of the form `PowerLaw => (Spec /\ []AsExpected => [](...))`:

- `OrderInvariant`: `OrderInv`; from it `KeysAreStoredOnce` (`KeysOnce(table)`: two insertions of a key never both store it),
  `ReachableEntries` (`EntriesAreReachable`: a key that is in the table is found by a walk that meets no lock) and
  `InsideTheTable` (`WalksStayInside`: neither a writer nor a lookup goes past the end of the table);
- `MapKeepsPromises`: `Spec /\ []AsExpected => KeepsPromises`, the refinement of `ConcurrentMap`: an insertion, update or
  erasure takes effect in one step between its call and its return and answers by the content at that step; a lookup,
  which takes no lock, answers what its key had at some moment of its call; all other steps are stutters.

*Assumptions*: those of `RobinHoodProofs`; `InitialTables`, that the initial tables are tables insertions can have left (TLC evaluates it);
and `AsExpected`, four things the code relies on and does not check. `SmallWindows`: the window of a key, hashpower + 1 slots, is smaller than
`MAX_WINDOW_SIZE`, the slots no home lies in (64 in the code). `DoublingsKeepWindows`: what a doubling displaces stays in its window (it need not: finding 4).
`DoublingsStayInside`: what it displaces past the end of the old half comes to lie at its home (it need not: finding 9).
`FreeSlotsAreCounted`: `free_behind` does not wrap (it may: end of section 6). All four hold in every reachable state of the run `rh`. They bound what a
doubling meets in its table, say nothing of the other operations, and a map that does not double needs the first one only.

*The inductive invariant.* Not the distances but the homes are what is easily said of a table in order: an entry's home, its slot minus its
distance, is right and within a window (`Housed`); homes do not decrease from one slot to the next (`Rising`); and no free slot lies between an entry and
its home (`Gap`) but the one before the next backward shift of some erasure (`Hole`). That no entry on a walk is nearer to its home than the
walk follows. `PathOK` says what a writer knows of the slots it has walked over: it owns them, they are full, their homes are not behind its own, their keys are not its key
(`Passed`); so a key it has not met up to a free slot, or up to an entry whose home is further on, is not in the table, and storing it keeps `KeysOnce`.
`SpreadOK` is the invariant of the loop of `rh_fast_double`: entries before slot `q` have their new homes, those from `q` on their new or old ones; gaps lie only
among the `free_behind` slots before `q` (`Halfway`). An insertion inside the doubling fills one of the slots
ahead and keeps all this; moving back closes the gaps. A second invariant, `WalkInv`, follows a lookup: what it has read of epochs and
of the hashpower keeps it inside the table although the table doubles under it.

*The refinement.* The content is `ContentsOf(table)`, the value of each key; `KeysOnce` makes it one value, so the lemma `ContentIsStored`
reads it off any slot with the key, and a step that moves entries from slot to slot without changing the set `Stored` of keys with their values
leaves the content alone (backward shifts and the steps of a doubling), and a path that displaces entries to store a new one changes the content of that key only.
For writers `PathOK` says which case of `ConcurrentMap` the deciding step is: the entry was met, or the key is nowhere in the table. For lookups a third invariant, `PromiseInv`, is needed.
`EpochsOK`: an epoch a lookup has read is even and not ahead of its bucket's; if the first one still stands, the hashpower is the one the
lookup uses. `SeenOK`: every slot it has passed holds an entry with another key *as long as the epoch of its bucket stands*, and, once it has
its answer: if all its epochs stand, that answer is one its key had during the call. What a bucket whose epoch stands is worth is the lemma `StepIsCalm`: no step
of another thread changes a slot of a bucket, or the hashpower, and leaves the epoch of the bucket as it was. This carries `SeenOK` over the steps of other
threads, where neither "the bucket is unlocked" nor "the slot is unchanged" would be inductive. A bucket between the lookup's home and its
last slot cannot be left out: an entry displaced from one read bucket into another one is seen in neither, and only the comparison of *all* epochs in
`check_epochs` finds it out; the mutant `CheckLastEpoch` drops that and breaks `KeepsPromises`.

Only model-checked: the refinement `KeepsPromises` of `CuckooMap`, what `Place` and the iterator compute
(`IterationMeetsEveryElement`); and liveness and `ENABLED`, which the prover does not treat.

## 6. Disagreements between the code and what it says

1. `uprase_fn`, key present (`cuckoohash_map.hpp:549-556`): the value is changed and the lock
   released as "not modified". A lookup which copies a value of several pieces
   meanwhile accepts a mixture. `insert_or_assign` and `upsert` go this way.
2. The same release after a cuckoo path (1282-1286): keys were moved, the insertion found its own
   key inserted by another thread, the epoch is put back. A lookup of the moved key whose two
   buckets share a lock reports it absent.
3. `assert(hashpower() < new_hp)` (1849) repeats, without a lock, a comparison made before;
   two concurrent calls of `rehash_concurrent` make it fail.

4. `rh_fast_double` inserts entries anew without looking whether the entries it displaces stay in their
   windows (`rhhash_map.hpp:517-525`): a key that is in the table is not found any more. Reproduced with
   the compiled map.
5. When such an insertion meets a full window it asks for another doubling and waits for a bucket its
   own thread has locked (510-512, 593-601). Reproduced with the compiled map.
6. `cuckoo_change_capacity` (`rehash`, `reserve`) swaps buckets and locks and frees the old ones
   (`cuckoohash_map.hpp:1908-1909`, `data_storage.hpp:162-165`) while lookups without locks read
   them. In the compiled map a `find` beside a `rehash` crashes.

7. The even epoch is stored relaxed (`seqlock.hpp:93`): under the C++ memory model a lookup may see
   it before the pieces it announces, and accept half an update. A release store would do; a
   processor that keeps stores in order does not show it.
8. `rehash` and `reserve` of a `locked_table` (`cuckoohash_map.hpp:1896`, `1908-1909`): if the temporary map
   doubled lazily, the map is left to be migrated, and the handle, which looks through no lock, misses
   keys and stores them twice. Reproduced with the compiled map.
9. The loop of `rh_fast_double` covers the slots of the old table (`rhhash_map.hpp:616-617`). An entry which an insertion inside the
   doubling has displaced past them is not moved back when the entries before it move back later, and the slot they leave free
   cuts it off from its home: the key is not found although no window was left. Reproduced with the compiled map: 68 insertions into a new map with the
   identity as hash, 61 to 127 in a certain order and then 2, lose the keys 124 to 127. It came up as the step in which the invariant of
   `RobinHoodOrderProofs` fails; `DoublingsStayInside` is the hypothesis that excludes it.

Runs show 1, 4, 6, 7 and 8. The other four were met while modelling and proving, and the programs of the passing
runs keep clear of them: those of `cuckoo_paths` with two insertions of one key have no lookup of a
key that both buckets of share a lock (2); the assertion of (3) is no property of a run; no window of `rh` fills up
inside a doubling (5), nor do three entries move to one home in one (4), nor is one left away from home in the new half (9). In the maps a value is one piece, so the
first one is not visible there. The operations without an entry fence (`cuckoopath_move`, 1511-1570, the second locking in
`cuckoo_insert_loop`, `cuckoo_clear`, `before_next_bucket` of the robin hood map, `rhhash_map.hpp:386-394`) are the
kind "move" of `SeqlockWeak`: with `Ops = {"move", "lookup"}` `AcceptedPiecesAreNotAhead` fails, so under the C++ memory model
they may tear a copy too; run `weak` has the operations with the fence.
`free_behind` (`rhhash_map.hpp:615`) has 16 bits: after 65536 free slots in a row it is 0
and `rh_fast_double` leaves an entry behind a hole; the model shows it for a small `FreeMod`, no run
does, as no configuration of the library has so small a counter.

## 7. What is not modelled, and the plan

Not modelled, on purpose:

- the wrap of the 63-bit epoch, allocators and C++ object lifetime, hash functions, `operator==`, the
  benchmarks and the tests;
- the setters of the limits, which change a choice between two calls; a user function that throws and an `erase_fn` that
  declines, which end like the operations that find their key and change nothing;
- `size()` read counter by counter: single counters are negative, so a `size()` beside a `clear()` or an eager
  doubling may add up to less than zero, and its assertion fail;
- a thread of `parallel_exec` that cannot be created: the extra threads already running are not joined, and
  the program ends in `std::terminate`;
- lookups without locks during `rehash` and `reserve`: `DataStorage` shows what happens to them;
- `bucket_container`, `lock_container`: data, and sequences of the operations of `DataStorage`.

The plan, in the order of what matters most:

1. *(done)* `Seqlock`, `AtomicRegister` and their proofs.
2. *(done)* `CuckooMap` with growth, paths, liveness.
3. *(done)* `DataStorage`: `find_value`, the iterator, `double_size` and the other life-cycle operations.
4. *(done)* `RobinHoodMap`: chains of locked buckets, displaced elements, backward shift, lookups over a
   probe sequence, doubling under all locks.
5. *(done)* `ConcurrentMap`, the atomic dictionary that `CuckooMap` and `RobinHoodMap` implement.
6. *(done)* `LockedTable`: `cuckoo_change_capacity` and `locked_table`, with the partition of `ParallelExec`.
7. *(done)* `SeqlockWeak`: the memory orders.
8. Proofs: *(done)* `DataStorage`, `ParallelExec`, `SeqlockWeak`, the locks, the places and the counters of `CuckooMap`, the locks and the
   counters of `RobinHoodMap`, the order of its table, the refinement of `ConcurrentMap` by `RobinHoodMap`, all invariants of `LockedTable`.
   Next: the refinement by `CuckooMap`, whose lookups compare two epochs instead of a row of them.
