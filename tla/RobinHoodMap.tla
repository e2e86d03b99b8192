---------------------------- MODULE RobinHoodMap ----------------------------
(***************************************************************************)
(* The concurrent robin hood map (include/hash_maps/rh/rhhash_map.hpp):    *)
(* linear probing in which every entry knows its distance from home and an *)
(* insertion displaces entries that are nearer to theirs.  Every bucket is *)
(* its own sequence lock; writers lock the buckets they walk over one      *)
(* after the other, find walks without locks and validates the epochs of   *)
(* all buckets it has seen.  A slot and a lock are read and written in one *)
(* step; module Seqlock opens those steps.                                 *)
(***************************************************************************)
EXTENDS Integers, Sequences, FiniteSets, FiniteSetsExt

CONSTANTS
    Threads,      \* the threads that call the map
    Keys,         \* the keys
    Vals,         \* the mapped values
    Hash,         \* Hash[k]: the hash of a key
    SlotPow,      \* SLOT_PER_BUCKET_POW
    MaxWindow,    \* MAX_WINDOW_SIZE
    FreeMod,      \* free_behind is counted modulo this number (2^16)
    Programs,     \* the programs that run: a map [hp, entries] and the calls
                  \* [op, key, val] each thread makes, one after the other
    Empty, Absent \* no entry in a slot; no value for a key

OpKinds == {"find", "insert", "insert_or_assign", "update", "erase"}
Inserts == {"insert", "insert_or_assign"}
CallRecords == [op : OpKinds, key : Keys, val : Int]
EntryRecords == [key : Keys, val : Vals, dist : Nat]

\* The constructor makes room for MAX_WINDOW_SIZE + 1 more slots than asked
\* for: the smallest power of two above MAX_WINDOW_SIZE is twice as large.
\* Empty is no entry, call, value or answer; Absent is no value.
ASSUME RobinHoodAssumption ==
    /\ SlotPow \in Nat /\ MaxWindow \in Nat \ {0} /\ FreeMod \in Nat \ {0}
    /\ Hash \in [Keys -> Nat]
    /\ Empty \notin EntryRecords \cup CallRecords \cup Vals \cup BOOLEAN \cup {Absent}
    /\ Absent \notin Vals
    /\ \A p \in Programs :
          /\ p.hp \in Nat /\ p.hp >= SlotPow /\ 2^p.hp >= 2 * MaxWindow
          /\ p.entries \in Seq([key : Keys, val : Vals])
          /\ p.calls \in [Threads -> Seq(CallRecords)]
          /\ \A t \in Threads : \A i \in DOMAIN p.calls[t] :
                p.calls[t][i].op \notin {"find", "erase"} => p.calls[t][i].val \in Vals

VARIABLES
    hp_,     \* the hashpower: buckets_.hashpower() + SLOT_PER_BUCKET_POW
    table,   \* the slots of buckets_, numbered through
    locks,   \* the lock of each bucket: flag, epoch and elem_counter
    pc,      \* the step each thread is at
    todo,    \* the calls of each thread: the one it executes, then the next ones
    walk,    \* the walk of each thread over locked buckets
    lookup,  \* the lock-free lookup of each thread
    legal    \* ghost: the values a running find may return

shared == <<hp_, table, locks>>
vars == <<shared, pc, todo, walk, lookup, legal>>

Results == Vals \cup {Absent}
Entry(k, v, d) == [key |-> k, val |-> v, dist |-> d]

\* calc_window_size, get_bucket_index.
Window(hp) == hp + 1
Slots == 2^SlotPow
BucketOf(i) == i \div Slots
First(b) == b * Slots
SlotsOf(b) == First(b)..First(b) + Slots - 1
BucketIds == DOMAIN locks
Locked(b) == locks[b].epoch % 2 = 1

\* Mutant: the last slots are homes like all others.
HomeUnfolded(k, hp) == Hash[k] % 2^hp

\* get_original_index: no home lies in the last MAX_WINDOW_SIZE slots, their
\* hashes are folded back on the first ones.
Home(k, hp) ==
    LET index == Hash[k] % 2^hp
        border == 2^hp - 1 - MaxWindow
    IN  IF index <= border THEN index ELSE index - border

Occupied(tab, b) == {i \in SlotsOf(b) : tab[i] # Empty}
Entries(tab) == {i \in DOMAIN tab : tab[i] # Empty}

\* The value of each key; Empty is no value: the key lies in two slots.
ContentsOf(tab) ==
    LET all == Entries(tab)
    IN  [k \in Keys |-> LET at == {i \in all : tab[i].key = k}
    IN  CASE at = {} -> Absent
          [] Cardinality(at) = 1 -> LET i == CHOOSE i \in at : TRUE IN tab[i].val
          [] OTHER -> Empty]

Contents == ContentsOf(table)

NoWalk == [seen |-> 0, own |-> {}, bucket |-> 0, pos |-> 0, free |-> 0, go |-> "idle",
           answer |-> Empty]
NoRead == [at |-> 0, epochs |-> <<>>, got |-> Absent]

-----------------------------------------------------------------------------
\* Where the walk for a key ends, and why: at distance d from home, in slot i
\* (abstract_cycle).
Status(tab, k, i, d, hp) ==
    CASE d > Window(hp) -> "out_of_window"
      [] d <= Window(hp) /\ tab[i] = Empty -> "not_occupied"
      [] d <= Window(hp) /\ tab[i] # Empty ->
            IF tab[i].dist < d THEN "less_dist"
            ELSE IF tab[i].key = k THEN "equal" ELSE "next"

\* The first free slot from i on, or the end of the table: move_path does not
\* look for the end.
FreeFrom(tab, i) == Min({j \in DOMAIN tab : j >= i /\ tab[j] = Empty} \cup {Cardinality(DOMAIN tab)})

\* move_path: the entry e is put into slot i; whatever is nearer to its home
\* than what arrives is carried on, up to the first free slot.
Aged(e) == [e EXCEPT !.dist = @ + 1]

Nearer(tab, j, c) == tab[j] # Empty /\ tab[j].dist < c.dist

\* What arrives at each slot from i on.
Carried(tab, i, e) ==
    LET carried[j \in i..FreeFrom(tab, i)] ==
            IF j = i THEN e
            ELSE Aged(IF Nearer(tab, j - 1, carried[j - 1]) THEN tab[j - 1] ELSE carried[j - 1])
    IN  carried

Put(tab, i, e) ==
    LET free == FreeFrom(tab, i)
        carried == Carried(tab, i, e)
    IN  [j \in DOMAIN tab |->
            IF j \in i..free /\ (j = free \/ Nearer(tab, j, carried[j])) THEN carried[j] ELSE tab[j]]

\* The entries from slot `from` up to `to` move one slot down (set_on_prev).
ShiftDown(tab, from, to) ==
    [j \in DOMAIN tab |->
        IF j \in from - 1..to - 1 THEN [tab[j + 1] EXCEPT !.dist = @ - 1]
        ELSE IF j = to /\ from <= to THEN Empty ELSE tab[j]]

-----------------------------------------------------------------------------
\* The map of a program: its entries, inserted one after the other.
InitTable(p) ==
    LET tab[n \in 0..Len(p.entries)] ==
            IF n = 0 THEN [i \in 0..2^p.hp - 1 |-> Empty]
            ELSE LET e == p.entries[n]
                 IN  Put(tab[n - 1], Home(e.key, p.hp), Entry(e.key, e.val, 0))
    IN  tab[Len(p.entries)]

\* An entry is where walks from its home pass: at its distance from home and
\* within the window, over occupied slots only, none of which holds an entry
\* nearer to its own home.
InPlace(tab, hp, i) ==
    LET h == i - tab[i].dist
    IN  /\ h = Home(tab[i].key, hp) /\ tab[i].dist <= Window(hp)
        /\ \A j \in h..i - 1 : tab[j] # Empty /\ tab[j].dist >= j - h

KeysOnce(tab) == \A i, j \in Entries(tab) : tab[i].key = tab[j].key => i = j

\* A program starts with a map that insertions can leave behind: none of its
\* keys came twice, and none needed a larger table.
ASSUME InitialTables ==
    \A p \in Programs :
        LET tab == InitTable(p)
        IN  KeysOnce(tab) /\ \A i \in Entries(tab) : InPlace(tab, p.hp, i)

Init ==
    /\ \E p \in Programs :
          /\ hp_ = p.hp
          /\ table = InitTable(p)
          /\ locks = [b \in 0..2^(p.hp - SlotPow) - 1 |->
                        [flag |-> FALSE, epoch |-> 0, count |-> Cardinality(Occupied(table, b))]]
          /\ todo = p.calls
    /\ pc = [t \in Threads |-> "idle"]
    /\ walk = [t \in Threads |-> NoWalk]
    /\ lookup = [t \in Threads |-> NoRead]
    /\ legal = [t \in Threads |-> {}]

Goto(t, l) == pc' = [pc EXCEPT ![t] = l]
Call(t) == Head(todo[t])
Key(t) == Call(t).key
HomeOf(t) == Home(Key(t), walk[t].seen)
WindowOf(t) == Window(walk[t].seen)

\* The value of a key becomes v: every running find of that key may return it
\* from now on.
Becomes(k, v) ==
    legal' = [t \in Threads |->
                 IF legal[t] # {} /\ Key(t) = k THEN legal[t] \cup {v} ELSE legal[t]]

Begin(t) ==
    /\ pc[t] = "idle"
    /\ todo[t] # <<>>
    /\ Goto(t, "start")
    /\ legal' = [legal EXCEPT ![t] = IF Call(t).op = "find" THEN {Contents[Key(t)]} ELSE {}]
    /\ UNCHANGED <<shared, todo, walk, lookup>>

\* get_rh_data: hashpower() is read and the walk starts at home.
Start(t) ==
    /\ pc[t] = "start"
    /\ walk' = [walk EXCEPT ![t] = [NoWalk EXCEPT !.seen = hp_,
                                      !.bucket = BucketOf(Home(Key(t), hp_))]]
    /\ lookup' = [lookup EXCEPT ![t] = [NoRead EXCEPT !.at = Home(Key(t), hp_)]]
    /\ Goto(t, IF Call(t).op = "find" THEN "epoch" ELSE "lock_first")
    /\ UNCHANGED <<shared, todo, legal>>

Return(t) ==
    /\ pc[t] = "return"
    /\ Goto(t, "idle")
    /\ todo' = [todo EXCEPT ![t] = Tail(@)]
    /\ walk' = [walk EXCEPT ![t] = NoWalk]
    /\ lookup' = [lookup EXCEPT ![t] = NoRead]
    /\ legal' = [legal EXCEPT ![t] = {}]
    /\ UNCHANGED shared

-----------------------------------------------------------------------------
\* A bucket is locked and joins the list of locks.
LockBucket(t, b) ==
    /\ b \in BucketIds
    /\ ~locks[b].flag
    /\ locks' = [locks EXCEPT ![b].flag = TRUE, ![b].epoch = @ + 1]

\* lock_first: under the lock of the home bucket hashpower() is compared; a
\* mismatch unlocks it and the operation starts over.
LockFirst(t) ==
    /\ pc[t] = "lock_first"
    /\ LET b == walk[t].bucket
       IN  IF hp_ = walk[t].seen
           THEN /\ LockBucket(t, b)
                /\ walk' = [walk EXCEPT ![t].own = {b}]
                /\ Goto(t, "probe")
           ELSE /\ ~locks[b].flag
                /\ locks' = [locks EXCEPT ![b].epoch = @ + 2]
                /\ Goto(t, "start")
                /\ UNCHANGED walk
    /\ UNCHANGED <<hp_, table, todo, lookup, legal>>

\* before_next_bucket: the walk goes on at the first slot of the next bucket.
ToNextBucket(t, go) ==
    /\ walk' = [walk EXCEPT ![t].bucket = @ + 1, ![t].go = go]
    /\ Goto(t, "lock_next")

LockNext(t) ==
    /\ pc[t] = "lock_next"
    /\ LockBucket(t, walk[t].bucket)
    /\ walk' = [walk EXCEPT ![t].own = @ \cup {walk[t].bucket}]
    /\ Goto(t, walk[t].go)
    /\ UNCHANGED <<hp_, table, todo, lookup, legal>>

\* abstract_cycle over the slots of the bucket that was locked last.
Probe(t) ==
    /\ pc[t] = "probe"
    /\ LET b == walk[t].bucket
           status(i) == Status(table, Key(t), i, i - HomeOf(t), walk[t].seen)
           stops == {i \in SlotsOf(b) : i >= HomeOf(t) /\ status(i) # "next"}
       IN  IF stops # {}
           THEN /\ walk' = [walk EXCEPT ![t].pos = Min(stops)]
                /\ Goto(t, status(Min(stops)))
           ELSE IF First(b + 1) - HomeOf(t) > WindowOf(t)
           THEN Goto(t, "out_of_window") /\ UNCHANGED walk
           ELSE ToNextBucket(t, "probe")
    /\ UNCHANGED <<shared, todo, lookup, legal>>

\* The list of locks is destroyed or cleared.
StartRelease(t, go) ==
    /\ walk' = [walk EXCEPT ![t].go = go]
    /\ Goto(t, "release")

\* The operation answers and its locks are released.
Answer(t, answer) ==
    /\ walk' = [walk EXCEPT ![t].go = "return", ![t].answer = answer]
    /\ Goto(t, "release")

\* AllUnlocker unlocks from the first bucket on, before the next attempt; the
\* order in which a list of locks is destroyed is not fixed.
Release(t) ==
    /\ pc[t] = "release"
    /\ \E b \in walk[t].own :
          /\ walk[t].go = "start" => b = Min(walk[t].own)
          /\ locks' = [locks EXCEPT ![b].flag = FALSE, ![b].epoch = @ + 1]
          /\ walk' = [walk EXCEPT ![t].own = @ \ {b}, ![t].bucket = 0]
          /\ Goto(t, IF walk[t].own = {b} THEN walk[t].go ELSE "release")
    /\ UNCHANGED <<hp_, table, todo, lookup, legal>>

-----------------------------------------------------------------------------
\* The key is found: the function of insert leaves the value alone, the ones
\* of insert_or_assign and update store a new value.
Found(t) ==
    /\ pc[t] = "equal" /\ Call(t).op # "erase"
    /\ IF Call(t).op = "insert" THEN UNCHANGED <<table, legal>>
       ELSE /\ table' = [table EXCEPT ![walk[t].pos].val = Call(t).val]
            /\ Becomes(Key(t), Call(t).val)
    /\ Answer(t, Call(t).op = "update")
    /\ UNCHANGED <<hp_, locks, todo, lookup>>

NotFound(t) ==
    /\ pc[t] \in {"out_of_window", "not_occupied", "less_dist"}
    /\ Call(t).op \notin Inserts
    /\ Answer(t, FALSE)
    /\ UNCHANGED <<shared, todo, lookup, legal>>

\* add_to_bucket in the free slot the walk has found.
Add(t) ==
    /\ pc[t] = "not_occupied" /\ Call(t).op \in Inserts
    /\ table' = [table EXCEPT ![walk[t].pos] =
                    Entry(Key(t), Call(t).val, walk[t].pos - HomeOf(t))]
    /\ locks' = [locks EXCEPT ![walk[t].bucket].count = @ + 1]
    /\ Becomes(Key(t), Call(t).val)
    /\ Answer(t, TRUE)
    /\ UNCHANGED <<hp_, todo, lookup>>

\* Mutant: the path may leave the window.
FindPathUnbounded(t) ==
    /\ pc[t] = "less_dist" /\ Call(t).op \in Inserts
    /\ IF \E j \in SlotsOf(walk[t].bucket) : j > walk[t].pos /\ table[j] = Empty
       THEN Goto(t, "move_path") /\ UNCHANGED walk
       ELSE ToNextBucket(t, "less_dist")
    /\ UNCHANGED <<shared, todo, lookup, legal>>

\* path_exists: a free slot in the window of the new key, in the bucket that
\* was locked last.
FindPath(t) ==
    /\ pc[t] = "less_dist" /\ Call(t).op \in Inserts
    /\ LET b == walk[t].bucket
       IN  IF \E j \in SlotsOf(b) :
                j > walk[t].pos /\ j - HomeOf(t) <= WindowOf(t) /\ table[j] = Empty
           THEN Goto(t, "move_path") /\ UNCHANGED walk
           ELSE IF First(b + 1) - HomeOf(t) > WindowOf(t)
           THEN Goto(t, "out_of_window") /\ UNCHANGED walk
           ELSE ToNextBucket(t, "less_dist")
    /\ UNCHANGED <<shared, todo, lookup, legal>>

MovePath(t) ==
    /\ pc[t] = "move_path"
    /\ LET i == walk[t].pos
       IN  /\ table' = Put(table, i, Entry(Key(t), Call(t).val, i - HomeOf(t)))
           /\ locks' = [locks EXCEPT ![BucketOf(FreeFrom(table, i))].count = @ + 1]
    /\ Becomes(Key(t), Call(t).val)
    /\ Answer(t, TRUE)
    /\ UNCHANGED <<hp_, todo, lookup>>

\* erase: the entry goes and those behind it shift back.
Erase(t) ==
    /\ pc[t] = "equal" /\ Call(t).op = "erase"
    /\ table' = [table EXCEPT ![walk[t].pos] = Empty]
    /\ locks' = [locks EXCEPT ![walk[t].bucket].count = @ - 1]
    /\ Becomes(Key(t), Absent)
    /\ walk' = [walk EXCEPT ![t].pos = @ + 1, ![t].answer = TRUE]
    /\ Goto(t, "shift")
    /\ UNCHANGED <<hp_, todo, lookup>>

\* What shifts back in the bucket that was locked last: up to the first slot
\* that is free or whose entry is at home.
ShiftEnd(t) ==
    LET b == walk[t].bucket
        stops == {i \in SlotsOf(b) : i >= walk[t].pos /\ (table[i] = Empty \/ table[i].dist = 0)}
    IN  IF stops = {} THEN First(b + 1) ELSE Min(stops)

\* The counters, when the first entry shifted comes from the next bucket.
CountsShifted(t) ==
    LET b == walk[t].bucket
    IN  IF walk[t].pos = First(b) /\ ShiftEnd(t) > First(b)
        THEN [locks EXCEPT ![b - 1].count = @ + 1, ![b].count = @ - 1] ELSE locks

\* Mutant: set_on_prev counts the entry twice.
ShiftUncounted(t) ==
    /\ pc[t] = "shift"
    /\ table' = ShiftDown(table, walk[t].pos, ShiftEnd(t) - 1)
    /\ IF ShiftEnd(t) < First(walk[t].bucket + 1)
       THEN StartRelease(t, "return")
       ELSE /\ walk' = [walk EXCEPT ![t].bucket = @ + 1, ![t].pos = ShiftEnd(t), ![t].go = "shift"]
            /\ Goto(t, "lock_next")
    /\ UNCHANGED <<hp_, locks, todo, lookup, legal>>

Shift(t) ==
    /\ pc[t] = "shift"
    /\ table' = ShiftDown(table, walk[t].pos, ShiftEnd(t) - 1)
    /\ locks' = CountsShifted(t)
    /\ IF ShiftEnd(t) < First(walk[t].bucket + 1)
       THEN StartRelease(t, "return")
       ELSE /\ walk' = [walk EXCEPT ![t].bucket = @ + 1, ![t].pos = ShiftEnd(t), ![t].go = "shift"]
            /\ Goto(t, "lock_next")
    /\ UNCHANGED <<hp_, todo, lookup, legal>>

-----------------------------------------------------------------------------
\* Mutant: the locks are kept while the table is doubled.
RehashKeepsLocks(t) ==
    /\ pc[t] = "out_of_window" /\ Call(t).op \in Inserts
    /\ walk' = [walk EXCEPT ![t].bucket = 0]
    /\ Goto(t, "lock_all")
    /\ UNCHANGED <<shared, todo, lookup, legal>>

\* rehash_required: the window is full; the locks are released, the table is
\* doubled and the insertion starts over.
RehashRequired(t) ==
    /\ pc[t] = "out_of_window" /\ Call(t).op \in Inserts
    /\ StartRelease(t, "lock_all")
    /\ UNCHANGED <<shared, todo, lookup, legal>>

\* lock_all: the buckets in their order; end() is looked up at every turn.
LockAll(t) ==
    /\ pc[t] = "lock_all"
    /\ LET b == walk[t].bucket
       IN  /\ LockBucket(t, b)
           /\ walk' = [walk EXCEPT ![t].own = @ \cup {b}, ![t].bucket = b + 1]
           /\ Goto(t, IF b + 1 \in BucketIds THEN "lock_all" ELSE "double")
    /\ UNCHANGED <<hp_, table, todo, lookup, legal>>

\* rh_fast_double: somebody else has doubled the table.
DoubleRaced(t) ==
    /\ pc[t] = "double"
    /\ hp_ # walk[t].seen
    /\ StartRelease(t, "start")
    /\ UNCHANGED <<shared, todo, lookup, legal>>

\* double_size(true): the new buckets are born locked.
Grow(t) ==
    /\ pc[t] = "double"
    /\ hp_ = walk[t].seen
    /\ hp_' = hp_ + 1
    /\ table' = [i \in 0..2^(hp_ + 1) - 1 |-> IF i \in DOMAIN table THEN table[i] ELSE Empty]
    /\ locks' = [b \in 0..2^(hp_ + 1 - SlotPow) - 1 |->
                   IF b \in BucketIds THEN locks[b]
                   ELSE [flag |-> TRUE, epoch |-> 1, count |-> 0]]
    /\ walk' = [walk EXCEPT ![t].own = DOMAIN locks', ![t].pos = 0, ![t].free = 0]
    /\ Goto(t, "spread")
    /\ UNCHANGED <<todo, lookup, legal>>

\* The loop of rh_fast_double over the slots of the old table: the slot it is
\* at, its entry, the home of that under the new hashpower.
At(t) == walk[t].pos
Here(t) == table[At(t)]
NewHome(t) == Home(Here(t).key, hp_)
Spreading(t) == pc[t] = "spread" /\ At(t) < 2^walk[t].seen

\* The table is changed and the counters follow; the loop goes on with `free`
\* slots known to be free before the next one.
Rearrange(t, tab, free) ==
    /\ table' = tab
    /\ locks' = [b \in BucketIds |-> [locks[b] EXCEPT !.count =
                   @ + Cardinality(Occupied(table', b)) - Cardinality(Occupied(table, b))]]
    /\ walk' = [walk EXCEPT ![t].pos = @ + 1, ![t].free = free]
    /\ UNCHANGED <<hp_, pc, todo, lookup, legal>>

SkipFree(t) ==
    /\ Spreading(t)
    /\ Here(t) = Empty
    /\ Rearrange(t, table, (walk[t].free + 1) % FreeMod)

\* The walk of insert_fn<LOCKED> from the new home ends at this slot.
NestedEnd(t) ==
    LET h == NewHome(t)
    IN  Min({j \in h..h + Window(hp_) + 1 : Status(table, Here(t).key, j, j - h, hp_) # "next"})

WindowIsFull(t) ==
    Status(table, Here(t).key, NestedEnd(t), NestedEnd(t) - NewHome(t), hp_) = "out_of_window"

\* Where the entry goes when its home is further on.
PutFar(t) == Put(table, NewHome(t), Entry(Here(t).key, Here(t).val, 0))

\* An entry whose home is further on is inserted anew; nobody looks whether
\* the ones it displaces stay in their windows.  When its own window is full,
\* insert_fn<LOCKED> calls rehash_required, which waits for the first bucket.
MoveFar(t) ==
    /\ Spreading(t)
    /\ Here(t) # Empty
    /\ NewHome(t) > At(t)
    /\ IF WindowIsFull(t)
       THEN /\ walk' = [walk EXCEPT ![t].bucket = 0]
            /\ Goto(t, "lock_all")
            /\ UNCHANGED <<shared, todo, lookup, legal>>
       ELSE Rearrange(t, [PutFar(t) EXCEPT ![At(t)] = Empty], (walk[t].free + 1) % FreeMod)

\* An entry that is not at home moves back over the free slots before it.
MoveNear(t) ==
    /\ Spreading(t)
    /\ Here(t) # Empty
    /\ NewHome(t) <= At(t) /\ Here(t).dist # 0 /\ walk[t].free > 0
    /\ LET best == IF NewHome(t) > At(t) - walk[t].free THEN NewHome(t)
                   ELSE At(t) - walk[t].free
       IN  Rearrange(t, [table EXCEPT ![best] = [Here(t) EXCEPT !.dist = best - NewHome(t)],
                                      ![At(t)] = Empty], At(t) - best)

Stay(t) ==
    /\ Spreading(t)
    /\ Here(t) # Empty
    /\ NewHome(t) <= At(t) /\ (Here(t).dist = 0 \/ walk[t].free = 0)
    /\ Rearrange(t, table, 0)

\* The end of the loop; the locks are released and the insertion starts over.
Doubled(t) ==
    /\ pc[t] = "spread"
    /\ At(t) = 2^walk[t].seen
    /\ StartRelease(t, "start")
    /\ UNCHANGED <<shared, todo, lookup, legal>>

-----------------------------------------------------------------------------
\* find, collect_epochs: the epoch of the next bucket.
ReadBucket(t) == BucketOf(HomeOf(t)) + Len(lookup[t].epochs)

Epoch(t) ==
    /\ pc[t] = "epoch"
    /\ LET b == ReadBucket(t)
       IN  /\ b \in BucketIds
           /\ lookup' = [lookup EXCEPT ![t].epochs = Append(@, locks[b].epoch)]
           /\ Goto(t, IF Locked(b) THEN "start"
                      ELSE IF lookup[t].epochs = <<>> THEN "check_hp" ELSE "scan")
    /\ UNCHANGED <<shared, todo, walk, legal>>

CheckHp(t) ==
    /\ pc[t] = "check_hp"
    /\ Goto(t, IF hp_ # walk[t].seen THEN "start" ELSE "scan")
    /\ UNCHANGED <<shared, todo, walk, lookup, legal>>

\* One slot: no_further_data, then the key.
Scan(t) ==
    /\ pc[t] = "scan"
    /\ LET i == lookup[t].at
           d == i - HomeOf(t)
           e == table[i]
       IN  IF d > WindowOf(t) \/ e = Empty \/ e.dist + 1 < d
           THEN Goto(t, "check_epochs") /\ UNCHANGED lookup
           ELSE IF e.key = Key(t) THEN Goto(t, "value") /\ UNCHANGED lookup
           ELSE /\ lookup' = [lookup EXCEPT ![t].at = i + 1]
                /\ Goto(t, IF BucketOf(i + 1) = BucketOf(i) THEN "scan"
                           ELSE IF d + 1 > WindowOf(t) THEN "check_epochs" ELSE "epoch")
    /\ UNCHANGED <<shared, todo, walk, legal>>

\* The value is loaded after the key: the slot may hold something else now.
Value(t) ==
    /\ pc[t] = "value"
    /\ LET e == table[lookup[t].at]
       IN  lookup' = [lookup EXCEPT ![t].got = IF e = Empty THEN Empty ELSE e.val]
    /\ Goto(t, "check_epochs")
    /\ UNCHANGED <<shared, todo, walk, legal>>

\* Mutant: only the bucket of the entry is looked at again.
CheckLastEpoch(t) ==
    /\ pc[t] = "check_epochs"
    /\ LET n == Len(lookup[t].epochs)
           b == ReadBucket(t) - 1
       IN  Goto(t, IF locks[b].epoch # lookup[t].epochs[n] THEN "start" ELSE "return")
    /\ UNCHANGED <<shared, todo, walk, lookup, legal>>

\* check_epochs: from the last bucket back to the first.
CheckEpochs(t) ==
    /\ pc[t] = "check_epochs"
    /\ LET n == Len(lookup[t].epochs)
           b == ReadBucket(t) - 1
       IN  IF locks[b].epoch # lookup[t].epochs[n]
           THEN Goto(t, "start") /\ UNCHANGED lookup
           ELSE IF n = 1 THEN Goto(t, "return") /\ UNCHANGED lookup
           ELSE /\ lookup' = [lookup EXCEPT ![t].epochs = SubSeq(@, 1, n - 1)]
                /\ UNCHANGED pc
    /\ UNCHANGED <<shared, todo, walk, legal>>

-----------------------------------------------------------------------------
Write(t) ==
    \/ LockFirst(t) \/ LockNext(t) \/ Probe(t) \/ Release(t)
    \/ Found(t) \/ NotFound(t) \/ Add(t) \/ FindPath(t) \/ MovePath(t)
    \/ Erase(t) \/ Shift(t)

Double(t) ==
    \/ RehashRequired(t) \/ LockAll(t) \/ DoubleRaced(t) \/ Grow(t)
    \/ SkipFree(t) \/ MoveFar(t) \/ MoveNear(t) \/ Stay(t) \/ Doubled(t)

Find(t) == Epoch(t) \/ CheckHp(t) \/ Scan(t) \/ Value(t) \/ CheckEpochs(t)

Step(t) == Start(t) \/ Return(t) \/ Write(t) \/ Double(t) \/ Find(t)

\* All threads have made their calls.
Finished ==
    /\ \A t \in Threads : pc[t] = "idle" /\ todo[t] = <<>>
    /\ UNCHANGED vars

Next == (\E t \in Threads : Begin(t) \/ Step(t)) \/ Finished

Spec == Init /\ [][Next]_vars

\* A thread inside a call is scheduled again and again.
FairSpec == Spec /\ \A t \in Threads : WF_vars(Step(t))

-----------------------------------------------------------------------------
TypeOK ==
    /\ hp_ \in Nat
    /\ \A i \in DOMAIN table : table[i] \in EntryRecords \cup {Empty}
    /\ DOMAIN table = 0..2^hp_ - 1
    /\ DOMAIN locks = 0..2^(hp_ - SlotPow) - 1
    /\ \A b \in BucketIds : /\ locks[b].flag \in BOOLEAN /\ locks[b].flag <=> Locked(b)
                            /\ locks[b].epoch \in Nat /\ locks[b].count \in 0..Slots
    /\ \A t \in Threads : walk[t].own \subseteq {b \in BucketIds : locks[b].flag}

\* Every entry is where walks from its home pass (InPlace).  Insertions that
\* displace, backward shifts (rhhash_map.hpp:256-272) and doublings (609-643)
\* disturb it only behind locks that a walk would have to take, or whose
\* epochs it compares.
EntriesAreReachable ==
    \A i \in Entries(table) :
        (\A b \in BucketOf(i - table[i].dist)..BucketOf(i) : ~Locked(b)) => InPlace(table, hp_, i)

\* The counter of an unlocked bucket is the number of its entries, although
\* entries cross buckets when they are displaced or shift back (463-464).
CountersMatch ==
    \A b \in BucketIds : ~Locked(b) => locks[b].count = Cardinality(Occupied(table, b))

\* No circle of threads waits for each other's buckets, and none waits for
\* its own: insertions and erasures extend their walk while they hold locks,
\* doublings take all locks (391-392, 485, 565-566, 593-601).
Wanted(t) ==
    IF pc[t] \in {"lock_first", "lock_next", "lock_all"} THEN {walk[t].bucket} ELSE {}

WaitsFor(t, u) == Wanted(t) \cap walk[u].own # {}

NoCircularWait ==
    \A T \in (SUBSET Threads) \ {{}} : \E t \in T : \A u \in T : ~WaitsFor(t, u)

\* No walk leaves the table: nothing compares a bucket with the end of the
\* table, the folded homes alone keep walks, paths and shifts inside (365-370).
WalksStayInside ==
    \A t \in Threads :
        /\ Wanted(t) \subseteq BucketIds
        /\ pc[t] = "epoch" => ReadBucket(t) \in BucketIds
        /\ pc[t] = "scan" => lookup[t].at \in DOMAIN table

\* A find returns a value its key had at some time during the call, or its
\* absence if it was absent at some time (194-222), while the entries it walks
\* over move from bucket to bucket.
FindIsLinearizable ==
    \A t \in Threads :
        pc[t] = "return" /\ Call(t).op = "find" => lookup[t].got \in legal[t]

\* The call a thread is in, and its answer from the step on that decides it.
CallOf(t) == IF pc[t] = "idle" THEN Empty ELSE Call(t)
AnswerOf(t) ==
    IF pc[t] = "idle" \/ Call(t).op # "find" THEN walk[t].answer
    ELSE IF pc[t] = "return" THEN lookup[t].got ELSE Empty

\* The map keeps the promises of module ConcurrentMap (133-276): an insertion
\* answers TRUE, and stores its value, exactly when its key is absent at that
\* step, an update or an erasure answers FALSE exactly when it is, a find
\* answers what its key had during the call, and paths that move (563-591),
\* entries that shift back (457-469) and doublings leave the content as it is.
Promise == INSTANCE ConcurrentMap WITH
    Calls <- CallRecords,
    NoCall <- Empty, Pending <- Empty, Thrown <- Absent,
    content <- Contents,
    call <- [t \in Threads |-> CallOf(t)],
    seen <- legal,
    answer <- [t \in Threads |-> AnswerOf(t)]

KeepsPromises == Promise!Spec

\* Every call returns: no deadlock, and no livelock between the retries of
\* lookups, of first locks and of insertions that double.
CallsReturn == \A t \in Threads : (pc[t] # "idle") ~> (pc[t] = "idle")

=============================================================================
