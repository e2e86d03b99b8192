------------------------------- MODULE Seqlock -------------------------------
(***************************************************************************)
(* One sequence lock (include/common/seqlock.hpp) and the bytes it         *)
(* protects, as the cuckoo map uses them: a writer takes the flag, makes   *)
(* the epoch odd, stores the data piece by piece and publishes an even     *)
(* epoch before it clears the flag; a reader takes no lock, it loads the   *)
(* epoch, copies the data piece by piece and accepts the copy when the     *)
(* epoch has not changed.  Every access to shared memory is a step of its  *)
(* own and memory is sequentially consistent.                              *)
(***************************************************************************)
EXTENDS Naturals

CONSTANTS
    Threads,    \* the threads that use the lock
    Values,     \* what a thread can store
    InitValue,  \* what is stored at the start
    NumChunks,  \* the pieces a value is stored and loaded in
    Ops,        \* the operations the threads call
    MaxOps,     \* bound: operations started in a behaviour
    Pending     \* the result of a read that has not returned

\* The critical sections of the map, by what they do to the protected data:
\*  write   changes it and calls unlock (update_fn, erase_fn, an insertion)
\*  inspect leaves it alone and calls unlock_no_modified (a key not found)
\*  upsert  changes it and calls unlock_no_modified (uprase_fn, key found)
\*  demote  clears the migrated bit (cuckoo_fast_double, under all locks)
\*  try     takes the lock with try_lock
\*  read    the lock-free lookup of read_value
OpKinds == {"write", "inspect", "upsert", "demote", "try", "read"}

Chunks == 1..NumChunks

ASSUME SeqlockAssumption ==
    /\ InitValue \in Values
    /\ NumChunks \in Nat \ {0}
    /\ Ops \subseteq OpKinds
    /\ MaxOps \in Nat

\* A value as it lies in memory once all its pieces are stored.
Whole(v) == [c \in Chunks |-> v]
Contents == {Whole(v) : v \in Values}

ASSUME PendingAssumption == Pending \notin [Chunks -> Values]

VARIABLES
    lock_,       \* the atomic_flag
    cur_epoch_,  \* the plain epoch, used by the holder of the flag only
    epoch_,      \* the atomic epoch, loaded by readers
    data,        \* the protected pieces
    pc,          \* the step each thread is at
    op,          \* the operation each thread executes
    arg,         \* the value each thread stores
    pos,         \* the piece each thread stores or loads next
    seen,        \* the epoch each reader has loaded
    copy,        \* the pieces each reader has loaded
    result,      \* what the last read of each thread returned
    started,     \* the number of operations started
    published    \* ghost: the data when the lock was last released

lockVars == <<lock_, cur_epoch_, epoch_>>
readVars == <<seen, copy, result>>
callVars == <<op, arg, started>>
vars == <<lockVars, data, pc, callVars, pos, readVars, published>>

\* An epoch word: the counter and the is_migrated bit above it.
Word(n, m) == [n |-> n, migrated |-> m]
IsLocked(w) == w.n % 2 = 1
Words == [n : Nat, migrated : BOOLEAN]

Labels == {"idle", "spin", "try", "open", "move", "moved", "store", "demote",
           "unlock", "unlock_no_modified", "clear", "load", "copy", "validate"}

TypeOK ==
    /\ lock_ \in BOOLEAN
    /\ cur_epoch_ \in Words
    /\ epoch_ \in Words
    /\ data \in [Chunks -> Values]
    /\ pc \in [Threads -> Labels]
    /\ op \in [Threads -> OpKinds]
    /\ arg \in [Threads -> Values]
    /\ pos \in [Threads -> Chunks]
    /\ seen \in [Threads -> Words]
    /\ copy \in [Threads -> [Chunks -> Values]]
    /\ result \in [Threads -> [Chunks -> Values] \cup {Pending}]
    /\ started \in Nat
    /\ published \in [Chunks -> Values]

-----------------------------------------------------------------------------
Init ==
    /\ lock_ = FALSE
    /\ cur_epoch_ = Word(0, TRUE)
    /\ epoch_ = cur_epoch_
    /\ data = Whole(InitValue)
    /\ pc = [t \in Threads |-> "idle"]
    /\ op = [t \in Threads |-> "read"]
    /\ arg = [t \in Threads |-> InitValue]
    /\ pos = [t \in Threads |-> 1]
    /\ seen = [t \in Threads |-> Word(0, TRUE)]
    /\ copy = [t \in Threads |-> Whole(InitValue)]
    /\ result = [t \in Threads |-> Pending]
    /\ started = 0
    /\ published = data

Goto(t, l) == pc' = [pc EXCEPT ![t] = l]

\* The thread calls an operation of the map that ends up at this lock.
Call(t, o, v) ==
    /\ pc[t] = "idle"
    /\ started < MaxOps
    /\ started' = started + 1
    /\ op' = [op EXCEPT ![t] = o]
    /\ arg' = [arg EXCEPT ![t] = v]
    /\ result' = [result EXCEPT ![t] = Pending]
    /\ Goto(t, CASE o = "read" -> "load" [] o = "try" -> "try" [] OTHER -> "spin")
    /\ UNCHANGED <<lockVars, data, pos, seen, copy, published>>

\* Mutant of Spin: the loop around test_and_set is lost.
SpinOnce(t) ==
    /\ pc[t] = "spin"
    /\ lock_' = TRUE
    /\ Goto(t, "open")
    /\ UNCHANGED <<cur_epoch_, epoch_, data, callVars, pos, readVars, published>>

\* lock(): the test_and_set that finds the flag clear.
Spin(t) ==
    /\ pc[t] = "spin"
    /\ ~lock_
    /\ lock_' = TRUE
    /\ Goto(t, "open")
    /\ UNCHANGED <<cur_epoch_, epoch_, data, callVars, pos, readVars, published>>

\* try_lock(): one test_and_set, whatever it finds.
TryLock(t) ==
    /\ pc[t] = "try"
    /\ lock_' = TRUE
    /\ Goto(t, IF lock_ THEN "idle" ELSE "open")
    /\ UNCHANGED <<cur_epoch_, epoch_, data, callVars, pos, readVars, published>>

\* Where the critical section of an operation starts.
Body(o) ==
    CASE o \in {"write", "upsert", "try"} -> "store"
      [] o = "inspect" -> "unlock_no_modified"
      [] o = "demote" -> "demote"
      [] o = "read" -> "unlock"

\* Mutant of Open: lock() stores the epoch without adding one.
OpenKeepsEpoch(t) ==
    /\ pc[t] = "open"
    /\ pos' = [pos EXCEPT ![t] = 1]
    /\ Goto(t, IF cur_epoch_.migrated THEN Body(op[t]) ELSE "move")
    /\ UNCHANGED <<lockVars, data, callVars, readVars, published>>

\* lock(): the epoch becomes odd.  lock_and_rehash and read_and_rehash move
\* the data of a lock that is not migrated before anything else.
Open(t) ==
    /\ pc[t] = "open"
    /\ cur_epoch_' = Word(cur_epoch_.n + 1, cur_epoch_.migrated)
    /\ epoch_' = cur_epoch_'
    /\ pos' = [pos EXCEPT ![t] = 1]
    /\ Goto(t, IF cur_epoch_.migrated THEN Body(op[t]) ELSE "move")
    /\ UNCHANGED <<lock_, data, callVars, readVars, published>>

\* The walk over the pieces: `after` is the step that follows the last one.
NextChunk(t, after) ==
    \/ /\ pos[t] < NumChunks
       /\ pos' = [pos EXCEPT ![t] = pos[t] + 1]
       /\ UNCHANGED pc
    \/ /\ pos[t] = NumChunks
       /\ pos' = [pos EXCEPT ![t] = 1]
       /\ Goto(t, after)

\* One piece is stored.
StoreChunk(t, after) ==
    /\ data' = [data EXCEPT ![pos[t]] = arg[t]]
    /\ NextChunk(t, after)
    /\ UNCHANGED <<lockVars, callVars, readVars, published>>

\* migrate_lock rewrites the protected buckets.
Move(t) == pc[t] = "move" /\ StoreChunk(t, "moved")

\* set_migrated(b): the holder changes the bit of both epochs.
SetMigrated(t, m, after) ==
    /\ cur_epoch_' = Word(cur_epoch_.n, m)
    /\ epoch_' = cur_epoch_'
    /\ Goto(t, after)
    /\ UNCHANGED <<lock_, data, callVars, pos, readVars, published>>

Migrated(t) == pc[t] = "moved" /\ SetMigrated(t, TRUE, Body(op[t]))
Demote(t) == pc[t] = "demote" /\ SetMigrated(t, FALSE, "unlock")

\* The body of an operation that changes the data.
Store(t) ==
    /\ pc[t] = "store"
    /\ StoreChunk(t, IF op[t] = "upsert" THEN "unlock_no_modified" ELSE "unlock")

\* unlock_atomics(), the store of the epoch: the data is published.
Publish(t, n) ==
    /\ cur_epoch_' = Word(n, cur_epoch_.migrated)
    /\ epoch_' = cur_epoch_'
    /\ published' = data
    /\ Goto(t, "clear")
    /\ UNCHANGED <<lock_, data, callVars, pos, readVars>>

\* Mutant of Unlock: the lock is released as if nothing had changed.
UnlockRestores(t) == pc[t] = "unlock" /\ Publish(t, cur_epoch_.n - 1)

Unlock(t) == pc[t] = "unlock" /\ Publish(t, cur_epoch_.n + 1)
UnlockNoModified(t) == pc[t] = "unlock_no_modified" /\ Publish(t, cur_epoch_.n - 1)

\* Mutant of Clear: the flag is never cleared.
ClearKeepsFlag(t) ==
    /\ pc[t] = "clear"
    /\ Goto(t, IF op[t] = "read" THEN "load" ELSE "idle")
    /\ UNCHANGED <<lockVars, data, callVars, pos, readVars, published>>

\* unlock_atomics(), the clear of the flag; a reader that took the lock to
\* migrate it starts over.
Clear(t) ==
    /\ pc[t] = "clear"
    /\ lock_' = FALSE
    /\ Goto(t, IF op[t] = "read" THEN "load" ELSE "idle")
    /\ UNCHANGED <<cur_epoch_, epoch_, data, callVars, pos, readVars, published>>

-----------------------------------------------------------------------------
\* Mutant of LoadEpoch: an odd epoch is as good as an even one.
LoadAnyEpoch(t) ==
    /\ pc[t] = "load"
    /\ seen' = [seen EXCEPT ![t] = epoch_]
    /\ pos' = [pos EXCEPT ![t] = 1]
    /\ Goto(t, IF epoch_.migrated THEN "copy" ELSE "spin")
    /\ UNCHANGED <<lockVars, data, callVars, copy, result, published>>

\* The reader loads the epoch and tries again while it is odd; when the lock
\* is not migrated it takes the lock to migrate it.
LoadEpoch(t) ==
    /\ pc[t] = "load"
    /\ ~IsLocked(epoch_)
    /\ seen' = [seen EXCEPT ![t] = epoch_]
    /\ pos' = [pos EXCEPT ![t] = 1]
    /\ Goto(t, IF epoch_.migrated THEN "copy" ELSE "spin")
    /\ UNCHANGED <<lockVars, data, callVars, copy, result, published>>

\* The reader copies one piece.
CopyChunk(t) ==
    /\ pc[t] = "copy"
    /\ copy' = [copy EXCEPT ![t] = [copy[t] EXCEPT ![pos[t]] = data[pos[t]]]]
    /\ NextChunk(t, "validate")
    /\ UNCHANGED <<lockVars, data, callVars, seen, result, published>>

\* Mutant of Accept: the copy is returned without a second look.
AcceptUnchecked(t) ==
    /\ pc[t] = "validate"
    /\ result' = [result EXCEPT ![t] = copy[t]]
    /\ Goto(t, "idle")
    /\ UNCHANGED <<lockVars, data, callVars, pos, seen, copy, published>>

\* The reader loads the epoch again: the copy counts when it is the same.
Accept(t) ==
    /\ pc[t] = "validate"
    /\ seen[t] = epoch_
    /\ result' = [result EXCEPT ![t] = copy[t]]
    /\ Goto(t, "idle")
    /\ UNCHANGED <<lockVars, data, callVars, pos, seen, copy, published>>

\* Otherwise the reader starts over.
Retry(t) ==
    /\ pc[t] = "validate"
    /\ seen[t] # epoch_
    /\ Goto(t, "load")
    /\ UNCHANGED <<lockVars, data, callVars, pos, readVars, published>>

-----------------------------------------------------------------------------
Begin(t) == \E o \in Ops, v \in Values : Call(t, o, v)

Step(t) ==
    \/ Spin(t) \/ TryLock(t) \/ Open(t) \/ Move(t) \/ Migrated(t)
    \/ Demote(t) \/ Store(t) \/ Unlock(t) \/ UnlockNoModified(t) \/ Clear(t)
    \/ LoadEpoch(t) \/ CopyChunk(t) \/ Accept(t) \/ Retry(t)

Next == \E t \in Threads : Begin(t) \/ Step(t)

Spec == Init /\ [][Next]_vars

\* A thread inside an operation is scheduled again and again.
Fairness == \A t \in Threads : WF_vars(Step(t))

FairSpec == Spec /\ Fairness

-----------------------------------------------------------------------------
\* A thread that has taken the flag and not cleared it yet.
Inside(t) == pc[t] \in {"open", "move", "moved", "store", "demote", "unlock",
                        "unlock_no_modified", "clear"}

\* Two threads are never between lock() (seqlock.hpp:33-41) and the end of
\* unlock() or unlock_no_modified() (seqlock.hpp:52-60), so the plain
\* cur_epoch_ and the element counter have one user at a time.
MutualExclusion ==
    /\ \A s, t \in Threads : Inside(s) /\ Inside(t) => s = t
    /\ (\E t \in Threads : Inside(t)) => lock_

\* What a reader can load through an even epoch is what the last critical
\* section left: half-stored data always lies behind an odd epoch
\* (seqlock.hpp:38, 52-60, 92-95), migration and expansion included.
ChangesAreAnnounced == data # published => IsLocked(epoch_)

\* A copy that is about to be accepted (cuckoohash_map.hpp:1108-1116) is the
\* published data as a whole, not pieces of two contents, however many
\* critical sections ran during the copy and although unlock_no_modified
\* puts an old epoch back.
AcceptedCopyIsPublished ==
    \A t \in Threads :
        pc[t] = "validate" /\ seen[t] = epoch_ => copy[t] = published

\* What a lookup returns was stored as a whole by somebody.  The map promises
\* it for every mix of operations: "They are safe to call concurrently with
\* each other" (cuckoohash_map.hpp:417-423).
LookupsReturnStoredValues == \A t \in Threads : result[t] \in Contents \cup {Pending}

\* Every operation ends: the spinning thread gets the flag (seqlock.hpp:34)
\* and the reader stops retrying (cuckoohash_map.hpp:1074) once the other
\* operations are over.
OperationsEnd == \A t \in Threads : (pc[t] # "idle") ~> (pc[t] = "idle")

\* The lock and the data it protects implement the atomic register: a
\* critical section takes effect where unlock_atomics stores the epoch, a
\* read where its second load of the epoch succeeds.
Register == INSTANCE AtomicRegister WITH
    Initial <- Whole(InitValue), content <- published

ImplementsRegister == Register!Spec

=============================================================================
