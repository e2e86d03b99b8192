---------------------------- MODULE SeqlockProofs ----------------------------
(***************************************************************************)
(* Proofs about the sequence lock, for any number of threads, values and   *)
(* pieces and for every mix of operations in which a critical section that *)
(* changes the data of a migrated lock ends in unlock().                   *)
(***************************************************************************)
EXTENDS Seqlock, TLAPS

\* The operations that keep the contract of unlock_no_modified.
ASSUME ContractAssumption == "upsert" \notin Ops

-----------------------------------------------------------------------------
\* The steps of a thread that holds the flag while the epoch is odd.
Odd(t) == pc[t] \in {"move", "moved", "store", "demote", "unlock",
                     "unlock_no_modified"}

\* Only operations of the instance run.
OpsInv == \A t \in Threads : op[t] # "upsert"

\* Both epochs agree and are odd exactly while a thread is at one of the
\* steps between opening and publishing.
EpochInv ==
    /\ epoch_ = cur_epoch_
    /\ IsLocked(cur_epoch_) <=> \E t \in Threads : Odd(t)

\* A lock is migrated when the body of an operation runs, and not migrated
\* when its data are being moved.
MigratedInv ==
    \A t \in Threads :
        /\ pc[t] \in {"store", "unlock_no_modified", "demote"} => cur_epoch_.migrated
        /\ pc[t] \in {"move", "moved"} => ~cur_epoch_.migrated

\* Data that differ from what was published are complete where the critical
\* section publishes them.
DataInv ==
    /\ data # published => \E t \in Threads : Odd(t)
    /\ published \in Contents
    /\ \A t \in Threads :
         /\ pc[t] \in {"moved", "demote", "unlock", "unlock_no_modified"} => data \in Contents
         /\ pc[t] = "moved" => pos[t] = 1
         /\ pc[t] \in {"move", "store"} =>
              \A c \in Chunks : c < pos[t] => data[c] = arg[t]

\* The pieces a reader has copied.
Copied(t) == {c \in Chunks : pc[t] = "validate" \/ c < pos[t]}

Reading(t) == pc[t] \in {"copy", "validate"}

\* The epoch a reader has loaded can still be the epoch it loads again.
Current(t) ==
    \/ cur_epoch_.n = seen[t].n
    \/ /\ cur_epoch_.n = seen[t].n + 1
       /\ \E s \in Threads : pc[s] = "unlock_no_modified"

\* The heart of the protocol.  The epoch never comes back to a word a reader
\* has loaded unless nothing was changed in between, because the critical
\* section that follows either adds two to the counter or leaves the data
\* alone, and clearing the migrated bit adds two as well.
ReaderInv ==
    \A t \in Threads : Reading(t) =>
        /\ ~IsLocked(seen[t])
        /\ seen[t].migrated
        /\ seen[t].n <= cur_epoch_.n
        /\ cur_epoch_.n = seen[t].n => cur_epoch_.migrated
        /\ cur_epoch_.n = seen[t].n + 1 =>
             \A s \in Threads :
                 /\ pc[s] \notin {"move", "moved"}
                 /\ pc[s] = "unlock_no_modified" => data = published
        /\ Current(t) => \A c \in Copied(t) : copy[t][c] = published[c]

\* The inductive invariant behind every theorem of this module: each part
\* speaks of one mechanism of the lock.
IndInv ==
    /\ TypeOK
    /\ OpsInv
    /\ MutualExclusion
    /\ EpochInv
    /\ MigratedInv
    /\ DataInv
    /\ ReaderInv
    /\ LookupsReturnStoredValues

-----------------------------------------------------------------------------
\* A whole value is a content and a content is a function on the pieces.
LEMMA WholeTyped ==
    /\ \A v \in Values : Whole(v) \in Contents /\ Whole(v) \in [Chunks -> Values]
    /\ Contents \subseteq [Chunks -> Values]
    /\ 1 \in Chunks /\ NumChunks \in Chunks
  BY SeqlockAssumption DEF Whole, Contents, Chunks

\* Data whose pieces all hold one value are a content.
LEMMA AllPieces ==
    ASSUME NEW d \in [Chunks -> Values], NEW v \in Values,
           \A c \in Chunks : d[c] = v
    PROVE  d \in Contents
  BY DEF Whole, Contents

\* Adding or taking one changes the parity of an epoch.
LEMMA Parity ==
    ASSUME NEW n \in Nat, NEW m \in BOOLEAN, NEW w \in Words
    PROVE  /\ n = w.n + 1 => (IsLocked(Word(n, m)) <=> ~IsLocked(w))
           /\ IsLocked(w) => w.n - 1 \in Nat /\ ~IsLocked(Word(w.n - 1, m))
           /\ IsLocked(Word(w.n, m)) <=> IsLocked(w)
  BY DEF IsLocked, Word, Words

\* An epoch that is one ahead of an even epoch is odd.
LEMMA OneAhead ==
    ASSUME NEW v \in Words, NEW w \in Words, ~IsLocked(v)
    PROVE  /\ w.n = v.n + 1 => IsLocked(w)
           /\ w.n = v.n => ~IsLocked(w)
  BY DEF IsLocked, Words

\* The walk over the pieces stays within them.
LEMMA NextChunkTyped ==
    ASSUME TypeOK, NEW t \in Threads, NEW l \in Labels, NextChunk(t, l)
    PROVE  /\ pos' \in [Threads -> Chunks]
           /\ pc' \in [Threads -> Labels]
  <1>1. 1 \in Chunks /\ (pos[t] < NumChunks => pos[t] + 1 \in Chunks)
    BY SeqlockAssumption DEF Chunks, TypeOK
  <1> QED BY <1>1 DEF NextChunk, Goto, TypeOK

\* Storing the next piece extends the stored prefix; after the last piece the
\* data are whole.
LEMMA StoreChunkData ==
    ASSUME TypeOK, NEW t \in Threads, NEW l \in Labels, StoreChunk(t, l),
           \A c \in Chunks : c < pos[t] => data[c] = arg[t]
    PROVE  /\ data' \in [Chunks -> Values]
           /\ pos[t] < NumChunks => \A c \in Chunks : c < pos'[t] => data'[c] = arg[t]
           /\ pos[t] = NumChunks => data' \in Contents
  <1>1. /\ data' = [data EXCEPT ![pos[t]] = arg[t]]
        /\ data \in [Chunks -> Values] /\ arg[t] \in Values /\ pos[t] \in Chunks
    BY DEF StoreChunk, TypeOK
  <1>2. data' \in [Chunks -> Values]
    BY <1>1
  <1>3. \A c \in Chunks : c < pos[t] + 1 => data'[c] = arg[t]
    BY <1>1, SeqlockAssumption DEF Chunks
  <1>4. pos[t] < NumChunks => pos'[t] = pos[t] + 1
    BY SeqlockAssumption DEF StoreChunk, NextChunk, TypeOK, Chunks
  <1>5. ASSUME pos[t] = NumChunks PROVE data' \in Contents
    <2>1. \A c \in Chunks : data'[c] = arg[t]
      BY <1>3, <1>5, SeqlockAssumption DEF Chunks
    <2> QED BY <2>1, <1>1, <1>2, AllPieces
  <1> QED BY <1>2, <1>3, <1>4, <1>5

\* The step at which the body of an operation starts.
LEMMA BodyLabels ==
    ASSUME NEW o \in OpKinds
    PROVE  Body(o) \in {"store", "unlock_no_modified", "demote", "unlock"}
  BY DEF Body, OpKinds

\* The initial state satisfies the inductive invariant.
LEMMA InitIndInv == Init => IndInv
  <1> SUFFICES ASSUME Init PROVE IndInv
    OBVIOUS
  <1> USE SeqlockAssumption, WholeTyped
  <1>1. TypeOK
    BY DEF Init, TypeOK, Word, Words, Labels, OpKinds
  <1>2. OpsInv /\ MutualExclusion /\ MigratedInv
    BY DEF Init, OpsInv, MutualExclusion, MigratedInv, Inside
  <1>3. EpochInv
    BY DEF Init, EpochInv, Odd, IsLocked, Word
  <1>4. DataInv
    BY DEF Init, DataInv
  <1>5. ReaderInv /\ LookupsReturnStoredValues
    BY DEF Init, ReaderInv, Reading, LookupsReturnStoredValues
  <1> QED BY <1>1, <1>2, <1>3, <1>4, <1>5 DEF IndInv

\* The flag is taken: nothing a reader sees changes.
LEMMA SpinStep ==
    ASSUME IndInv, NEW t \in Threads, Spin(t)
    PROVE  IndInv'
  <1> USE SeqlockAssumption DEF IndInv, lockVars, readVars, callVars
  <1>1. TypeOK'
    BY DEF Spin, Goto, Words, Word, Labels, Chunks, TypeOK
  <1>2. OpsInv'
    BY DEF Spin, Goto, OpsInv, TypeOK
  <1>3. MutualExclusion'
    BY DEF Spin, Goto, MutualExclusion, Inside, TypeOK
  <1>4. EpochInv'
    BY DEF Spin, Goto, EpochInv, Odd, MutualExclusion, Inside, TypeOK
  <1>5. MigratedInv'
    BY DEF Spin, Goto, MigratedInv, Word, MutualExclusion, Inside, TypeOK
  <1>6. DataInv'
    BY AllPieces, WholeTyped DEF Spin, Goto, DataInv, Odd, MutualExclusion, Inside, Chunks,
       TypeOK
  <1>7. ReaderInv'
    BY OneAhead, <1>1 DEF Spin, Goto, ReaderInv, Reading, Current, Copied, Word, Words,
       Inside, EpochInv, MigratedInv, MutualExclusion, Odd, DataInv, Chunks, TypeOK
  <1>8. LookupsReturnStoredValues'
    BY DEF Spin, Goto, LookupsReturnStoredValues, TypeOK
  <1> QED BY <1>1, <1>2, <1>3, <1>4, <1>5, <1>6, <1>7, <1>8

\* A failed try_lock changes nothing, a successful one takes the flag.
LEMMA TryLockStep ==
    ASSUME IndInv, NEW t \in Threads, TryLock(t)
    PROVE  IndInv'
  <1> USE SeqlockAssumption DEF IndInv, lockVars, readVars, callVars
  <1>1. TypeOK'
    BY DEF TryLock, Goto, Words, Word, Labels, Chunks, TypeOK
  <1>2. OpsInv'
    BY DEF TryLock, Goto, OpsInv, TypeOK
  <1>3. MutualExclusion'
    BY DEF TryLock, Goto, MutualExclusion, Inside, TypeOK
  <1>4. EpochInv'
    BY DEF TryLock, Goto, EpochInv, Odd, MutualExclusion, Inside, TypeOK
  <1>5. MigratedInv'
    BY DEF TryLock, Goto, MigratedInv, Word, MutualExclusion, Inside, TypeOK
  <1>6. DataInv'
    BY AllPieces, WholeTyped DEF TryLock, Goto, DataInv, Odd, MutualExclusion, Inside,
       Chunks, TypeOK
  <1>7. ReaderInv'
    BY OneAhead, <1>1 DEF TryLock, Goto, ReaderInv, Reading, Current, Copied, Word, Words,
       Inside, EpochInv, MigratedInv, MutualExclusion, Odd, DataInv, Chunks, TypeOK
  <1>8. LookupsReturnStoredValues'
    BY DEF TryLock, Goto, LookupsReturnStoredValues, TypeOK
  <1> QED BY <1>1, <1>2, <1>3, <1>4, <1>5, <1>6, <1>7, <1>8

\* The epoch becomes odd: every reader that loaded it stops being current unless the
\* body leaves the data alone.
LEMMA OpenStep ==
    ASSUME IndInv, NEW t \in Threads, Open(t)
    PROVE  IndInv'
  <1> USE SeqlockAssumption DEF IndInv, lockVars, readVars, callVars
  <1>a. Body(op[t]) \in {"store", "unlock_no_modified", "demote", "unlock"}
    BY BodyLabels DEF TypeOK
  <1>b. cur_epoch_'.n = cur_epoch_.n + 1 /\ cur_epoch_' \in Words
    BY DEF Open, Goto, TypeOK, Word, Words
  <1>c. IsLocked(cur_epoch_') <=> ~IsLocked(cur_epoch_)
    BY <1>b, Parity DEF Open, Goto, TypeOK, Word, Words
  <1>1. TypeOK'
    BY <1>a, <1>b, <1>c DEF Open, Goto, Words, Word, Labels, Chunks, TypeOK
  <1>2. OpsInv'
    BY <1>a, <1>b, <1>c DEF Open, Goto, OpsInv, TypeOK
  <1>3. MutualExclusion'
    BY <1>a, <1>b, <1>c DEF Open, Goto, MutualExclusion, Inside, TypeOK
  <1>4. EpochInv'
    BY <1>a, <1>b, <1>c DEF Open, Goto, EpochInv, Odd, MutualExclusion, Inside, TypeOK
  <1>5. MigratedInv'
    BY <1>a, <1>b, <1>c DEF Open, Goto, MigratedInv, Word, MutualExclusion, Inside, TypeOK
  <1>6. DataInv'
    <2>1. data = published
      BY DEF Open, DataInv, Odd, MutualExclusion, Inside
    <2>2. pos'[t] = 1 /\ \A s \in Threads : s # t => pc[s] = pc'[s] /\ ~Inside(s)
      BY DEF Open, Goto, TypeOK, MutualExclusion, Inside
    <2>3. \A c \in Chunks : ~(c < 1)
      BY DEF Chunks
    <2> QED BY <1>a, <2>1, <2>2, <2>3 DEF Open, Goto, DataInv, Inside, TypeOK
  <1>7. ReaderInv'
    BY <1>a, <1>b, <1>c, OneAhead, <1>1 DEF Open, Goto, ReaderInv, Reading, Current, Copied,
       Word, Words, Inside, EpochInv, MigratedInv, MutualExclusion, Odd, DataInv, Chunks,
       TypeOK
  <1>8. LookupsReturnStoredValues'
    BY <1>a, <1>b, <1>c DEF Open, Goto, LookupsReturnStoredValues, TypeOK
  <1> QED BY <1>1, <1>2, <1>3, <1>4, <1>5, <1>6, <1>7, <1>8

\* A piece is rewritten while the lock is not migrated: no reader is current.
LEMMA MoveStep ==
    ASSUME IndInv, NEW t \in Threads, Move(t)
    PROVE  IndInv'
  <1> USE SeqlockAssumption DEF IndInv, lockVars, readVars, callVars
  <1>0. StoreChunk(t, "moved")
    BY DEF Move
  <1>a. StoreChunk(t, "moved") /\ NextChunk(t, "moved") /\ "moved" \in Labels
    BY <1>0 DEF StoreChunk, Labels
  <1>b. \A c \in Chunks : c < pos[t] => data[c] = arg[t]
    BY DEF Move, DataInv
  <1>c. data' \in [Chunks -> Values] /\ pos' \in [Threads -> Chunks] /\ pc' \in [Threads -> Labels]
    BY <1>a, <1>b, StoreChunkData, NextChunkTyped
  <1>1. TypeOK'
    BY <1>a, <1>c DEF StoreChunk, TypeOK
  <1>2. OpsInv'
    BY DEF Move, StoreChunk, NextChunk, Goto, OpsInv, TypeOK
  <1>3. MutualExclusion'
    BY DEF Move, StoreChunk, NextChunk, Goto, MutualExclusion, Inside, TypeOK
  <1>4. EpochInv'
    BY DEF Move, StoreChunk, NextChunk, Goto, EpochInv, Odd, MutualExclusion, Inside, TypeOK
  <1>5. MigratedInv'
    BY DEF Move, StoreChunk, NextChunk, Goto, MigratedInv, Word, MutualExclusion, Inside,
       TypeOK
  <1>6. DataInv'
    <2>1. Odd(t) /\ \A s \in Threads : s # t => ~Inside(s) /\ pc'[s] = pc[s] /\ pos'[s] = pos[s]
      BY <1>a DEF Move, NextChunk, Goto, MutualExclusion, Inside, Odd, TypeOK
    <2>2. Odd(t)'
      BY <1>a DEF Move, NextChunk, Goto, Odd, TypeOK
    <2>3. CASE pos[t] < NumChunks
      <3>1. \A c \in Chunks : c < pos'[t] => data'[c] = arg'[t]
        BY <1>a, <1>b, <2>3, StoreChunkData DEF StoreChunk
      <3>2. pc'[t] = pc[t]
        BY <1>a, <2>3 DEF NextChunk, TypeOK, Chunks
      <3> QED BY <1>a, <2>1, <2>2, <3>1, <3>2 DEF Move, StoreChunk, DataInv, Inside
    <2>4. CASE pos[t] = NumChunks
      <3>1. data' \in Contents
        BY <1>a, <1>b, <2>4, StoreChunkData
      <3>2. pc'[t] = "moved" /\ pos'[t] = 1
        BY <1>a, <2>4 DEF NextChunk, Goto, TypeOK, Chunks
      <3> QED BY <1>a, <2>1, <2>2, <3>1, <3>2 DEF StoreChunk, DataInv, Inside
    <2> QED BY <2>3, <2>4 DEF TypeOK, Chunks
  <1>7. ReaderInv'
    BY OneAhead, <1>1 DEF Move, StoreChunk, NextChunk, Goto, ReaderInv, Reading, Current,
       Copied, Word, Words, Inside, EpochInv, MigratedInv, MutualExclusion, Odd, DataInv,
       Chunks, TypeOK
  <1>8. LookupsReturnStoredValues'
    BY DEF Move, StoreChunk, NextChunk, Goto, LookupsReturnStoredValues, TypeOK
  <1> QED BY <1>1, <1>2, <1>3, <1>4, <1>5, <1>6, <1>7, <1>8

\* The bit is set again by the holder.
LEMMA MigratedStep ==
    ASSUME IndInv, NEW t \in Threads, Migrated(t)
    PROVE  IndInv'
  <1> USE SeqlockAssumption DEF IndInv, lockVars, readVars, callVars
  <1>a. Body(op[t]) \in {"store", "unlock_no_modified", "demote", "unlock"}
    BY BodyLabels DEF TypeOK
  <1>b. cur_epoch_'.n = cur_epoch_.n /\ cur_epoch_' \in Words
    BY DEF Migrated, SetMigrated, Goto, TypeOK, Word, Words
  <1>c. IsLocked(cur_epoch_') <=> IsLocked(cur_epoch_)
    BY <1>b, Parity DEF Migrated, SetMigrated, Goto, TypeOK, Word, Words
  <1>1. TypeOK'
    BY <1>a, <1>b, <1>c DEF Migrated, SetMigrated, Goto, Words, Word, Labels, Chunks, TypeOK
  <1>2. OpsInv'
    BY <1>a, <1>b, <1>c DEF Migrated, SetMigrated, Goto, OpsInv, TypeOK
  <1>3. MutualExclusion'
    BY <1>a, <1>b, <1>c DEF Migrated, SetMigrated, Goto, MutualExclusion, Inside, TypeOK
  <1>4. EpochInv'
    BY <1>a, <1>b, <1>c DEF Migrated, SetMigrated, Goto, EpochInv, Odd, MutualExclusion,
       Inside, TypeOK
  <1>5. MigratedInv'
    BY <1>a, <1>b, <1>c DEF Migrated, SetMigrated, Goto, MigratedInv, Word, MutualExclusion,
       Inside, TypeOK
  <1>6. DataInv'
    <2>1. data \in Contents /\ data' = data /\ published' = published
      BY DEF Migrated, SetMigrated, DataInv
    <2>2. Odd(t)' /\ \A s \in Threads : s # t => ~Inside(s) /\ pc'[s] = pc[s]
      BY <1>a DEF Migrated, SetMigrated, Goto, MutualExclusion, Inside, Odd, TypeOK
    <2>3. pos[t] = 1
      BY DEF Migrated, DataInv
    <2>4. \A c \in Chunks : ~(c < 1)
      BY DEF Chunks
    <2> QED
      BY <1>a, <2>1, <2>2, <2>3, <2>4 DEF Migrated, SetMigrated, Goto, DataInv, Inside,
         TypeOK
  <1>7. ReaderInv'
    BY <1>a, <1>b, <1>c, OneAhead, <1>1 DEF Migrated, SetMigrated, Goto, ReaderInv, Reading,
       Current, Copied, Word, Words, Inside, EpochInv, MigratedInv, MutualExclusion, Odd,
       DataInv, Chunks, TypeOK
  <1>8. LookupsReturnStoredValues'
    BY <1>a, <1>b, <1>c DEF Migrated, SetMigrated, Goto, LookupsReturnStoredValues, TypeOK
  <1> QED BY <1>1, <1>2, <1>3, <1>4, <1>5, <1>6, <1>7, <1>8

\* The bit is cleared by a holder that goes on to unlock().
LEMMA DemoteStep ==
    ASSUME IndInv, NEW t \in Threads, Demote(t)
    PROVE  IndInv'
  <1> USE SeqlockAssumption DEF IndInv, lockVars, readVars, callVars
  <1>b. cur_epoch_'.n = cur_epoch_.n /\ cur_epoch_' \in Words
    BY DEF Demote, SetMigrated, Goto, TypeOK, Word, Words
  <1>c. IsLocked(cur_epoch_') <=> IsLocked(cur_epoch_)
    BY <1>b, Parity DEF Demote, SetMigrated, Goto, TypeOK, Word, Words
  <1>1. TypeOK'
    BY <1>b, <1>c DEF Demote, SetMigrated, Goto, Words, Word, Labels, Chunks, TypeOK
  <1>2. OpsInv'
    BY <1>b, <1>c DEF Demote, SetMigrated, Goto, OpsInv, TypeOK
  <1>3. MutualExclusion'
    BY <1>b, <1>c DEF Demote, SetMigrated, Goto, MutualExclusion, Inside, TypeOK
  <1>4. EpochInv'
    BY <1>b, <1>c DEF Demote, SetMigrated, Goto, EpochInv, Odd, MutualExclusion, Inside,
       TypeOK
  <1>5. MigratedInv'
    BY <1>b, <1>c DEF Demote, SetMigrated, Goto, MigratedInv, Word, MutualExclusion, Inside,
       TypeOK
  <1>6. DataInv'
    <2>1. data \in Contents /\ data' = data /\ published' = published /\ Odd(t)'
      BY DEF Demote, Goto, Odd, TypeOK, SetMigrated, DataInv
    <2>2. \A s \in Threads : s # t => ~Inside(s) /\ pc'[s] = pc[s]
      BY DEF Demote, SetMigrated, Goto, MutualExclusion, Inside, TypeOK
    <2> QED BY <2>1, <2>2 DEF Demote, SetMigrated, Goto, DataInv, Inside, TypeOK
  <1>7. ReaderInv'
    BY <1>b, <1>c, OneAhead, <1>1 DEF Demote, SetMigrated, Goto, ReaderInv, Reading,
       Current, Copied, Word, Words, Inside, EpochInv, MigratedInv, MutualExclusion, Odd,
       DataInv, Chunks, TypeOK
  <1>8. LookupsReturnStoredValues'
    BY <1>b, <1>c DEF Demote, SetMigrated, Goto, LookupsReturnStoredValues, TypeOK
  <1> QED BY <1>1, <1>2, <1>3, <1>4, <1>5, <1>6, <1>7, <1>8

\* A piece is stored by a holder that goes on to unlock().
LEMMA StoreStep ==
    ASSUME IndInv, NEW t \in Threads, Store(t)
    PROVE  IndInv'
  <1> USE SeqlockAssumption DEF IndInv, lockVars, readVars, callVars
  <1>0. StoreChunk(t, "unlock")
    BY DEF Store, OpsInv
  <1>a. StoreChunk(t, "unlock") /\ NextChunk(t, "unlock") /\ "unlock" \in Labels
    BY <1>0 DEF StoreChunk, Labels
  <1>b. \A c \in Chunks : c < pos[t] => data[c] = arg[t]
    BY DEF Store, DataInv
  <1>c. data' \in [Chunks -> Values] /\ pos' \in [Threads -> Chunks] /\ pc' \in [Threads -> Labels]
    BY <1>a, <1>b, StoreChunkData, NextChunkTyped
  <1>1. TypeOK'
    BY <1>a, <1>c DEF StoreChunk, TypeOK
  <1>2. OpsInv'
    BY DEF Store, StoreChunk, NextChunk, Goto, OpsInv, TypeOK
  <1>3. MutualExclusion'
    BY DEF Store, StoreChunk, NextChunk, Goto, MutualExclusion, Inside, TypeOK
  <1>4. EpochInv'
    BY DEF Store, StoreChunk, NextChunk, Goto, EpochInv, Odd, MutualExclusion, Inside,
       TypeOK
  <1>5. MigratedInv'
    BY DEF Store, StoreChunk, NextChunk, Goto, MigratedInv, Word, MutualExclusion, Inside,
       TypeOK
  <1>6. DataInv'
    <2>1. Odd(t) /\ \A s \in Threads : s # t => ~Inside(s) /\ pc'[s] = pc[s] /\ pos'[s] = pos[s]
      BY <1>a DEF Store, NextChunk, Goto, MutualExclusion, Inside, Odd, TypeOK
    <2>2. Odd(t)'
      BY <1>a DEF Store, NextChunk, Goto, Odd, TypeOK
    <2>3. CASE pos[t] < NumChunks
      <3>1. \A c \in Chunks : c < pos'[t] => data'[c] = arg'[t]
        BY <1>a, <1>b, <2>3, StoreChunkData DEF StoreChunk
      <3>2. pc'[t] = pc[t]
        BY <1>a, <2>3 DEF NextChunk, TypeOK, Chunks
      <3> QED BY <1>a, <2>1, <2>2, <3>1, <3>2 DEF Store, StoreChunk, DataInv, Inside
    <2>4. CASE pos[t] = NumChunks
      <3>1. data' \in Contents
        BY <1>a, <1>b, <2>4, StoreChunkData
      <3>2. pc'[t] = "unlock"
        BY <1>a, <2>4 DEF NextChunk, Goto, TypeOK, Chunks
      <3> QED BY <1>a, <2>1, <2>2, <3>1, <3>2 DEF StoreChunk, DataInv, Inside
    <2> QED BY <2>3, <2>4 DEF TypeOK, Chunks
  <1>7. ReaderInv'
    <2>1. pc'[t] \in {"store", "unlock"} /\ \A s \in Threads : s # t => ~Inside(s) /\ pc'[s] = pc[s]
      BY <1>a DEF Store, NextChunk, Goto, MutualExclusion, Inside, TypeOK
    <2>2. IsLocked(cur_epoch_) /\ cur_epoch_' = cur_epoch_
      BY <1>a DEF Store, StoreChunk, EpochInv, Odd
    <2>3. \A s \in Threads : pc'[s] \notin {"move", "moved", "unlock_no_modified"}
      BY <2>1 DEF Inside
    <2>4. \A r \in Threads : Reading(r) => cur_epoch_.n # seen[r].n
      BY <2>2, OneAhead DEF ReaderInv, TypeOK
    <2>5. \A r \in Threads : Reading(r)' => Reading(r) /\ ~Current(r)'
      BY <1>a, <2>1, <2>2, <2>3, <2>4 DEF Reading, Current, StoreChunk, readVars
    <2> QED BY <1>a, <2>2, <2>3, <2>5 DEF ReaderInv, StoreChunk
  <1>8. LookupsReturnStoredValues'
    BY DEF Store, StoreChunk, NextChunk, Goto, LookupsReturnStoredValues, TypeOK
  <1> QED BY <1>1, <1>2, <1>3, <1>4, <1>5, <1>6, <1>7, <1>8

\* The data are published under an epoch no reader has loaded.
LEMMA UnlockStep ==
    ASSUME IndInv, NEW t \in Threads, Unlock(t)
    PROVE  IndInv'
  <1> USE SeqlockAssumption DEF IndInv, lockVars, readVars, callVars
  <1>b. cur_epoch_'.n = cur_epoch_.n + 1 /\ cur_epoch_' \in Words
    BY DEF Unlock, Publish, Goto, TypeOK, Word, Words
  <1>c. IsLocked(cur_epoch_') <=> ~IsLocked(cur_epoch_)
    BY <1>b, Parity DEF Unlock, Publish, Goto, TypeOK, Word, Words
  <1>1. TypeOK'
    BY <1>b, <1>c, WholeTyped DEF Unlock, Publish, Goto, Words, Word, Labels, Chunks, TypeOK
  <1>2. OpsInv'
    BY <1>b, <1>c DEF Unlock, Publish, Goto, OpsInv, TypeOK
  <1>3. MutualExclusion'
    BY <1>b, <1>c DEF Unlock, Publish, Goto, MutualExclusion, Inside, TypeOK
  <1>4. EpochInv'
    BY <1>b, <1>c DEF Unlock, Publish, Goto, EpochInv, Odd, MutualExclusion, Inside, TypeOK
  <1>5. MigratedInv'
    BY <1>b, <1>c DEF Unlock, Publish, Goto, MigratedInv, Word, MutualExclusion, Inside,
       TypeOK
  <1>6. DataInv'
    BY <1>b, <1>c, AllPieces, WholeTyped DEF Unlock, Publish, Goto, DataInv, Odd,
       MutualExclusion, Inside, Chunks, TypeOK
  <1>7. ReaderInv'
    BY <1>b, <1>c, OneAhead, <1>1 DEF Unlock, Publish, Goto, ReaderInv, Reading, Current,
       Copied, Word, Words, Inside, EpochInv, MigratedInv, MutualExclusion, Odd, DataInv,
       Chunks, TypeOK
  <1>8. LookupsReturnStoredValues'
    BY <1>b, <1>c DEF Unlock, Publish, Goto, LookupsReturnStoredValues, TypeOK
  <1> QED BY <1>1, <1>2, <1>3, <1>4, <1>5, <1>6, <1>7, <1>8

\* The old epoch is back, and so is what it stood for.
LEMMA UnlockNoModifiedStep ==
    ASSUME IndInv, NEW t \in Threads, UnlockNoModified(t)
    PROVE  IndInv'
  <1> USE SeqlockAssumption DEF IndInv, lockVars, readVars, callVars
  <1>b. IsLocked(cur_epoch_)
    BY DEF UnlockNoModified, Publish, Goto, EpochInv, Odd
  <1>c. cur_epoch_'.n = cur_epoch_.n - 1 /\ cur_epoch_' \in Words
    BY <1>b, Parity DEF UnlockNoModified, Publish, Goto, TypeOK, Word, Words
  <1>d. ~IsLocked(cur_epoch_')
    BY <1>b, Parity DEF UnlockNoModified, Publish, Goto, TypeOK, Word, Words
  <1>1. TypeOK'
    BY <1>b, <1>c, <1>d, WholeTyped DEF UnlockNoModified, Publish, Goto, Words, Word,
       Labels, Chunks, TypeOK
  <1>2. OpsInv'
    BY <1>b, <1>c, <1>d DEF UnlockNoModified, Publish, Goto, OpsInv, TypeOK
  <1>3. MutualExclusion'
    BY <1>b, <1>c, <1>d DEF UnlockNoModified, Publish, Goto, MutualExclusion, Inside, TypeOK
  <1>4. EpochInv'
    BY <1>b, <1>c, <1>d DEF UnlockNoModified, Publish, Goto, EpochInv, Odd, MutualExclusion,
       Inside, TypeOK
  <1>5. MigratedInv'
    BY <1>b, <1>c, <1>d DEF UnlockNoModified, Publish, Goto, MigratedInv, Word,
       MutualExclusion, Inside, TypeOK
  <1>6. DataInv'
    BY <1>b, <1>c, <1>d, AllPieces, WholeTyped DEF UnlockNoModified, Publish, Goto, DataInv,
       Odd, MutualExclusion, Inside, Chunks, TypeOK
  <1>7. ReaderInv'
    <2>1. \A s \in Threads : s # t => ~Inside(s) /\ pc'[s] = pc[s]
      BY DEF UnlockNoModified, Publish, Goto, MutualExclusion, Inside, TypeOK
    <2>2. \A s \in Threads : pc'[s] \notin {"move", "moved", "unlock_no_modified"}
      BY <2>1 DEF UnlockNoModified, Publish, Goto, Inside, TypeOK
    <2>3. cur_epoch_'.migrated = cur_epoch_.migrated /\ cur_epoch_.migrated
      BY DEF UnlockNoModified, Publish, Word, MigratedInv
    <2>4. /\ data' = data /\ published' = data /\ copy' = copy /\ seen' = seen /\ pos' = pos
          /\ pc[t] = "unlock_no_modified"
      BY DEF UnlockNoModified, Publish
    <2> SUFFICES ASSUME NEW r \in Threads, Reading(r)'
                 PROVE  /\ ~IsLocked(seen[r]) /\ seen[r].migrated
                        /\ seen[r].n <= cur_epoch_'.n
                        /\ cur_epoch_'.n # seen[r].n + 1
                        /\ Current(r)' => \A c \in Copied(r)' : copy[r][c] = data[c]
      BY <2>2, <2>3, <2>4 DEF ReaderInv, Reading
    <2>5. Reading(r) /\ r # t /\ pc'[r] = pc[r]
      BY <2>1 DEF UnlockNoModified, Publish, Goto, Reading, TypeOK
    <2>6. /\ ~IsLocked(seen[r]) /\ seen[r].migrated /\ seen[r].n <= cur_epoch_.n
          /\ seen[r] \in Words
      BY <2>5 DEF ReaderInv, TypeOK
    <2>7. seen[r].n # cur_epoch_.n /\ cur_epoch_'.n # seen[r].n + 1
      BY <1>b, <1>c, <1>d, <2>6, OneAhead DEF TypeOK
    <2>8. seen[r].n <= cur_epoch_'.n
      <3>1. cur_epoch_.n \in Nat /\ seen[r].n \in Nat
        BY <2>6 DEF TypeOK, Words
      <3> QED BY <1>c, <2>6, <2>7, <3>1
    <2>9. ASSUME Current(r)' PROVE \A c \in Copied(r)' : copy[r][c] = data[c]
      <3>1. cur_epoch_.n = seen[r].n + 1
        BY <1>c, <2>2, <2>4, <2>9, <2>6 DEF Current, TypeOK, Words
      <3>2. Current(r) /\ data = published
        BY <2>4, <2>5, <3>1 DEF Current, ReaderInv
      <3> QED BY <2>4, <2>5, <3>2 DEF ReaderInv, Copied
    <2> QED BY <2>6, <2>7, <2>8, <2>9
  <1>8. LookupsReturnStoredValues'
    BY <1>b, <1>c, <1>d DEF UnlockNoModified, Publish, Goto, LookupsReturnStoredValues,
       TypeOK
  <1> QED BY <1>1, <1>2, <1>3, <1>4, <1>5, <1>6, <1>7, <1>8

\* The flag is cleared.
LEMMA ClearStep ==
    ASSUME IndInv, NEW t \in Threads, Clear(t)
    PROVE  IndInv'
  <1> USE SeqlockAssumption DEF IndInv, lockVars, readVars, callVars
  <1>1. TypeOK'
    BY DEF Clear, Goto, Words, Word, Labels, Chunks, TypeOK
  <1>2. OpsInv'
    BY DEF Clear, Goto, OpsInv, TypeOK
  <1>3. MutualExclusion'
    BY DEF Clear, Goto, MutualExclusion, Inside, TypeOK
  <1>4. EpochInv'
    BY DEF Clear, Goto, EpochInv, Odd, MutualExclusion, Inside, TypeOK
  <1>5. MigratedInv'
    BY DEF Clear, Goto, MigratedInv, Word, MutualExclusion, Inside, TypeOK
  <1>6. DataInv'
    BY AllPieces, WholeTyped DEF Clear, Goto, DataInv, Odd, MutualExclusion, Inside, Chunks,
       TypeOK
  <1>7. ReaderInv'
    BY OneAhead, <1>1 DEF Clear, Goto, ReaderInv, Reading, Current, Copied, Word, Words,
       Inside, EpochInv, MigratedInv, MutualExclusion, Odd, DataInv, Chunks, TypeOK
  <1>8. LookupsReturnStoredValues'
    BY DEF Clear, Goto, LookupsReturnStoredValues, TypeOK
  <1> QED BY <1>1, <1>2, <1>3, <1>4, <1>5, <1>6, <1>7, <1>8

\* A reader starts a copy.
LEMMA LoadEpochStep ==
    ASSUME IndInv, NEW t \in Threads, LoadEpoch(t)
    PROVE  IndInv'
  <1> USE SeqlockAssumption DEF IndInv, lockVars, readVars, callVars
  <1>1. TypeOK'
    BY DEF LoadEpoch, Goto, Words, Word, Labels, Chunks, TypeOK
  <1>2. OpsInv'
    BY DEF LoadEpoch, Goto, OpsInv, TypeOK
  <1>3. MutualExclusion'
    BY DEF LoadEpoch, Goto, MutualExclusion, Inside, TypeOK
  <1>4. EpochInv'
    BY DEF LoadEpoch, Goto, EpochInv, Odd, MutualExclusion, Inside, TypeOK
  <1>5. MigratedInv'
    BY DEF LoadEpoch, Goto, MigratedInv, Word, MutualExclusion, Inside, TypeOK
  <1>6. DataInv'
    BY AllPieces, WholeTyped DEF LoadEpoch, Goto, DataInv, Odd, MutualExclusion, Inside,
       Chunks, TypeOK
  <1>7. ReaderInv'
    BY OneAhead, <1>1 DEF LoadEpoch, Goto, ReaderInv, Reading, Current, Copied, Word, Words,
       Inside, EpochInv, MigratedInv, MutualExclusion, Odd, DataInv, Chunks, TypeOK
  <1>8. LookupsReturnStoredValues'
    BY DEF LoadEpoch, Goto, LookupsReturnStoredValues, TypeOK
  <1> QED BY <1>1, <1>2, <1>3, <1>4, <1>5, <1>6, <1>7, <1>8

\* A reader copies one piece of the published data.
LEMMA CopyChunkStep ==
    ASSUME IndInv, NEW t \in Threads, CopyChunk(t)
    PROVE  IndInv'
  <1> USE SeqlockAssumption DEF IndInv, lockVars, readVars, callVars
  <1>a. NextChunk(t, "validate") /\ "validate" \in Labels
    BY DEF CopyChunk, Labels
  <1>1. TypeOK'
    BY <1>a, NextChunkTyped DEF CopyChunk, NextChunk, Goto, Words, Word, Labels, Chunks,
       TypeOK
  <1>2. OpsInv'
    BY DEF CopyChunk, NextChunk, Goto, OpsInv, TypeOK
  <1>3. MutualExclusion'
    BY DEF CopyChunk, NextChunk, Goto, MutualExclusion, Inside, TypeOK
  <1>4. EpochInv'
    BY DEF CopyChunk, NextChunk, Goto, EpochInv, Odd, MutualExclusion, Inside, TypeOK
  <1>5. MigratedInv'
    BY DEF CopyChunk, NextChunk, Goto, MigratedInv, Word, MutualExclusion, Inside, TypeOK
  <1>6. DataInv'
    <2>1. UNCHANGED <<lockVars, data, published, arg>>
      BY DEF CopyChunk
    <2>2. /\ pc[t] = "copy" /\ pc'[t] \in {"copy", "validate"}
          /\ \A s \in Threads : s # t => pc'[s] = pc[s] /\ pos'[s] = pos[s]
      BY DEF CopyChunk, NextChunk, Goto, TypeOK
    <2> QED BY <2>1, <2>2 DEF DataInv, Odd
  <1>7. ReaderInv'
    <2>1. /\ UNCHANGED <<lockVars, data, seen, published>>
          /\ pc'[t] \in {"copy", "validate"} /\ pc[t] = "copy"
          /\ \A s \in Threads : s # t => pc'[s] = pc[s] /\ pos'[s] = pos[s] /\ copy'[s] = copy[s]
      BY DEF CopyChunk, NextChunk, Goto, TypeOK
    <2>2. \A s \in Threads : /\ Reading(s)' <=> Reading(s)
                             /\ pc'[s] \in {"move", "moved", "unlock_no_modified"} => pc'[s] = pc[s]
                             /\ Current(s)' => Current(s)
      BY <2>1 DEF Reading, Current
    <2>3. ASSUME Current(t) PROVE data = published
      <3>1. CASE cur_epoch_.n = seen[t].n
        BY <3>1, OneAhead DEF CopyChunk, Reading, ReaderInv, EpochInv, DataInv, TypeOK
      <3>2. CASE cur_epoch_.n # seen[t].n
        BY <2>1, <2>3, <3>2 DEF Current, ReaderInv, Reading
      <3> QED BY <3>1, <3>2
    <2>4. ASSUME Current(t), NEW c \in Copied(t)' PROVE copy'[t][c] = published[c]
      <3>1. c \in Chunks /\ (c = pos[t] \/ c < pos[t])
        BY <2>4 DEF Copied, CopyChunk, NextChunk, Goto, TypeOK, Chunks
      <3>2. c # pos[t] => c \in Copied(t) /\ copy'[t][c] = copy[t][c]
        BY <3>1 DEF Copied, CopyChunk, TypeOK
      <3>3. c = pos[t] => copy'[t][c] = data[c]
        BY <3>1 DEF CopyChunk, TypeOK
      <3> QED BY <2>1, <2>3, <2>4, <3>2, <3>3 DEF ReaderInv, Reading
    <2>5. \A s \in Threads : s # t => Copied(s)' = Copied(s)
      BY <2>1 DEF Copied
    <2> QED BY <2>1, <2>2, <2>4, <2>5 DEF ReaderInv
  <1>8. LookupsReturnStoredValues'
    BY DEF CopyChunk, NextChunk, Goto, LookupsReturnStoredValues, TypeOK
  <1> QED BY <1>1, <1>2, <1>3, <1>4, <1>5, <1>6, <1>7, <1>8

\* A reader accepts its copy.
LEMMA AcceptStep ==
    ASSUME IndInv, NEW t \in Threads, Accept(t)
    PROVE  IndInv'
  <1> USE SeqlockAssumption DEF IndInv, lockVars, readVars, callVars
  <1>1. TypeOK'
    BY WholeTyped DEF Accept, Goto, Words, Word, Labels, Chunks, TypeOK
  <1>2. OpsInv'
    BY DEF Accept, Goto, OpsInv, TypeOK
  <1>3. MutualExclusion'
    BY DEF Accept, Goto, MutualExclusion, Inside, TypeOK
  <1>4. EpochInv'
    BY DEF Accept, Goto, EpochInv, Odd, MutualExclusion, Inside, TypeOK
  <1>5. MigratedInv'
    BY DEF Accept, Goto, MigratedInv, Word, MutualExclusion, Inside, TypeOK
  <1>6. DataInv'
    BY AllPieces, WholeTyped DEF Accept, Goto, DataInv, Odd, MutualExclusion, Inside,
       Chunks, TypeOK
  <1>7. ReaderInv'
    BY OneAhead, <1>1 DEF Accept, Goto, ReaderInv, Reading, Current, Copied, Word, Words,
       Inside, EpochInv, MigratedInv, MutualExclusion, Odd, DataInv, Chunks, TypeOK
  <1>8. LookupsReturnStoredValues'
    <2>1. Reading(t) /\ Current(t) /\ Copied(t) = Chunks
      BY DEF Accept, Reading, Current, Copied, EpochInv
    <2>2. \A c \in Chunks : copy[t][c] = published[c]
      BY <2>1 DEF ReaderInv
    <2>3. copy[t] = published
      BY <2>2 DEF TypeOK
    <2>4. copy[t] \in Contents
      BY <2>3 DEF DataInv
    <2> QED BY <2>4 DEF Accept, LookupsReturnStoredValues, TypeOK
  <1> QED BY <1>1, <1>2, <1>3, <1>4, <1>5, <1>6, <1>7, <1>8

\* A reader starts over.
LEMMA RetryStep ==
    ASSUME IndInv, NEW t \in Threads, Retry(t)
    PROVE  IndInv'
  <1> USE SeqlockAssumption DEF IndInv, lockVars, readVars, callVars
  <1>1. TypeOK'
    BY DEF Retry, Goto, Words, Word, Labels, Chunks, TypeOK
  <1>2. OpsInv'
    BY DEF Retry, Goto, OpsInv, TypeOK
  <1>3. MutualExclusion'
    BY DEF Retry, Goto, MutualExclusion, Inside, TypeOK
  <1>4. EpochInv'
    BY DEF Retry, Goto, EpochInv, Odd, MutualExclusion, Inside, TypeOK
  <1>5. MigratedInv'
    BY DEF Retry, Goto, MigratedInv, Word, MutualExclusion, Inside, TypeOK
  <1>6. DataInv'
    BY AllPieces, WholeTyped DEF Retry, Goto, DataInv, Odd, MutualExclusion, Inside, Chunks,
       TypeOK
  <1>7. ReaderInv'
    BY OneAhead, <1>1 DEF Retry, Goto, ReaderInv, Reading, Current, Copied, Word, Words,
       Inside, EpochInv, MigratedInv, MutualExclusion, Odd, DataInv, Chunks, TypeOK
  <1>8. LookupsReturnStoredValues'
    BY DEF Retry, Goto, LookupsReturnStoredValues, TypeOK
  <1> QED BY <1>1, <1>2, <1>3, <1>4, <1>5, <1>6, <1>7, <1>8

\* A call changes nothing the invariant speaks of, except that the thread
\* leaves idle.
LEMMA CallStep ==
    ASSUME IndInv, NEW t \in Threads, NEW o \in Ops, NEW v \in Values, Call(t, o, v)
    PROVE  IndInv'
  <1> USE SeqlockAssumption DEF IndInv, lockVars, readVars, callVars
  <1>a. o \in OpKinds /\ o # "upsert"
    BY ContractAssumption
  <1>b. \E l \in {"load", "try", "spin"} : pc' = [pc EXCEPT ![t] = l]
    BY <1>a DEF Call, Goto
  <1>1. TypeOK'
    BY <1>a, <1>b DEF Call, TypeOK, Labels
  <1>2. OpsInv'
    BY <1>a DEF Call, OpsInv, TypeOK
  <1>3. MutualExclusion'
    BY <1>b DEF Call, MutualExclusion, Inside, TypeOK
  <1>4. EpochInv'
    BY <1>b DEF Call, EpochInv, Odd, TypeOK
  <1>5. MigratedInv'
    BY <1>b DEF Call, MigratedInv, TypeOK
  <1>6. DataInv'
    BY <1>b DEF Call, DataInv, Odd, TypeOK
  <1>7. ReaderInv'
    BY <1>b DEF Call, ReaderInv, Reading, Current, Copied, TypeOK
  <1>8. LookupsReturnStoredValues'
    BY DEF Call, LookupsReturnStoredValues, TypeOK
  <1> QED BY <1>1, <1>2, <1>3, <1>4, <1>5, <1>6, <1>7, <1>8

-----------------------------------------------------------------------------
\* The inductive invariant holds in every behaviour of the lock.
THEOREM Invariance == Spec => []IndInv
  <1>1. Init => IndInv
    BY InitIndInv
  <1>2. IndInv /\ [Next]_vars => IndInv'
    <2> SUFFICES ASSUME IndInv, [Next]_vars PROVE IndInv'
      OBVIOUS
    <2>1. ASSUME NEW t \in Threads, Begin(t) PROVE IndInv'
      BY <2>1, CallStep DEF Begin
    <2>2. ASSUME NEW t \in Threads, Step(t) PROVE IndInv'
      BY <2>2, SpinStep, TryLockStep, OpenStep, MoveStep, MigratedStep,
         DemoteStep, StoreStep, UnlockStep, UnlockNoModifiedStep, ClearStep,
         LoadEpochStep, CopyChunkStep, AcceptStep, RetryStep
         DEF Step
    <2>3. CASE UNCHANGED vars
      BY <2>3 DEF vars, lockVars, readVars, callVars, IndInv, TypeOK, OpsInv,
         MutualExclusion, Inside, EpochInv, Odd, MigratedInv, DataInv,
         ReaderInv, Reading, Current, Copied, LookupsReturnStoredValues
    <2> QED BY <2>1, <2>2, <2>3 DEF Next
  <1> QED BY <1>1, <1>2, PTL DEF Spec

\* Every variable keeps its type.
THEOREM TypeCorrect == Spec => []TypeOK
  BY Invariance, PTL DEF IndInv

\* At most one thread is between taking and clearing the flag, however many
\* threads call lock() and try_lock().
THEOREM MutualExclusionHolds == Spec => []MutualExclusion
  BY Invariance, PTL DEF IndInv

\* Data that are being changed lie behind an odd epoch.
THEOREM ChangesAreAnnouncedHolds == Spec => []ChangesAreAnnounced
  <1>1. IndInv => ChangesAreAnnounced
    BY DEF IndInv, ChangesAreAnnounced, DataInv, EpochInv
  <1> QED BY <1>1, Invariance, PTL

\* A copy that is accepted is the published content.
LEMMA AcceptedCopy == IndInv => AcceptedCopyIsPublished
  <1> SUFFICES ASSUME IndInv, NEW t \in Threads, pc[t] = "validate", seen[t] = epoch_
               PROVE  copy[t] = published
    BY DEF AcceptedCopyIsPublished
  <1>1. Reading(t) /\ Current(t) /\ Copied(t) = Chunks
    BY DEF Reading, Current, Copied, EpochInv, IndInv
  <1>2. \A c \in Chunks : copy[t][c] = published[c]
    BY <1>1 DEF ReaderInv, IndInv
  <1> QED BY <1>2, WholeTyped DEF TypeOK, IndInv

\* The lock-free reader is consistent: for every number of threads and pieces
\* the copy it accepts is what the last critical section published.
THEOREM AcceptedCopyHolds == Spec => []AcceptedCopyIsPublished
  BY AcceptedCopy, Invariance, PTL

\* No lookup returns a value nobody stored.
THEOREM LookupsHold == Spec => []LookupsReturnStoredValues
  BY Invariance, PTL DEF IndInv

-----------------------------------------------------------------------------
\* An operation that is running has no result yet.
PendingInv == \A t \in Threads : pc[t] # "idle" => result[t] = Pending

\* Only a call resets the result and only the end of a lookup sets it.
LEMMA PendingStep ==
    ASSUME TypeOK, PendingInv, [Next]_vars
    PROVE  PendingInv'
  <1> USE DEF PendingInv, TypeOK, Goto
  <1>1. ASSUME NEW t \in Threads, NEW o \in Ops, NEW v \in Values, Call(t, o, v)
        PROVE  PendingInv'
    BY <1>1 DEF Call
  <1>2. ASSUME NEW t \in Threads, Step(t) PROVE PendingInv'
    <2>1. CASE Accept(t)
      BY <2>1 DEF Accept
    <2>2. CASE Spin(t) \/ TryLock(t) \/ Open(t) \/ Clear(t) \/ LoadEpoch(t) \/ Retry(t)
      BY <2>2 DEF Spin, TryLock, Open, Clear, LoadEpoch, Retry, readVars
    <2>3. CASE Move(t) \/ Store(t) \/ CopyChunk(t)
      BY <2>3 DEF Move, Store, StoreChunk, CopyChunk, NextChunk, readVars
    <2>4. CASE Migrated(t) \/ Demote(t)
      BY <2>4 DEF Migrated, Demote, SetMigrated, readVars
    <2>5. CASE Unlock(t) \/ UnlockNoModified(t)
      BY <2>5 DEF Unlock, UnlockNoModified, Publish, readVars
    <2> QED BY <1>2, <2>1, <2>2, <2>3, <2>4, <2>5 DEF Step
  <1>3. CASE UNCHANGED vars
    BY <1>3 DEF vars, readVars
  <1> QED BY <1>1, <1>2, <1>3 DEF Next, Begin

\* The step that publishes replaces the content of the register.
LEMMA PublishReplaces ==
    ASSUME IndInv, NEW t \in Threads, Unlock(t) \/ UnlockNoModified(t)
    PROVE  \E c \in Contents : Register!Replace(c)
  <1>1. data \in Contents
    BY DEF IndInv, DataInv, Unlock, UnlockNoModified
  <1>2. published' = data /\ result' = result
    BY DEF Unlock, UnlockNoModified, Publish, readVars
  <1> QED BY <1>1, <1>2 DEF Register!Replace

\* A call forgets the last result.
LEMMA CallCalls ==
    ASSUME NEW t \in Threads, NEW o \in Ops, NEW v \in Values, Call(t, o, v)
    PROVE  Register!Call(t)
  BY DEF Call, Register!Call

\* An accepted copy is a read of the register at that instant.
LEMMA AcceptReads ==
    ASSUME IndInv, NEW t \in Threads, PendingInv, Accept(t)
    PROVE  Register!Read(t)
  <1>1. copy[t] = published
    BY AcceptedCopy DEF Accept, AcceptedCopyIsPublished
  <1> QED BY <1>1 DEF Accept, Register!Read, PendingInv

\* Every step of the lock is a step of the register or leaves it unchanged.
LEMMA StepRefines ==
    ASSUME IndInv, PendingInv, [Next]_vars
    PROVE  [Register!Next]_Register!vars
  <1> USE DEF Register!Next, Register!vars
  <1>1. ASSUME NEW t \in Threads, NEW o \in Ops, NEW v \in Values, Call(t, o, v)
        PROVE  Register!Next
    BY <1>1, CallCalls
  <1>2. ASSUME NEW t \in Threads, Step(t)
        PROVE  Register!Next \/ UNCHANGED Register!vars
    <2>1. CASE Accept(t)
      BY <2>1, AcceptReads
    <2>2. CASE Unlock(t) \/ UnlockNoModified(t)
      BY <2>2, PublishReplaces
    <2>3. CASE Spin(t) \/ TryLock(t) \/ Open(t) \/ Clear(t) \/ LoadEpoch(t) \/ Retry(t)
      BY <2>3 DEF Spin, TryLock, Open, Clear, LoadEpoch, Retry, readVars
    <2>4. CASE Move(t) \/ Store(t) \/ CopyChunk(t)
      BY <2>4 DEF Move, Store, StoreChunk, CopyChunk, readVars
    <2>5. CASE Migrated(t) \/ Demote(t)
      BY <2>5 DEF Migrated, Demote, SetMigrated, readVars
    <2> QED BY <1>2, <2>1, <2>2, <2>3, <2>4, <2>5 DEF Step
  <1>3. CASE UNCHANGED vars
    BY <1>3 DEF vars, readVars
  <1> QED BY <1>1, <1>2, <1>3 DEF Next, Begin

\* The lock and its data implement the atomic register: what the users of
\* this lock see could have been seen with reads and writes that happen at
\* one instant.
THEOREM Refinement == Spec => ImplementsRegister
  <1>1. Init => Register!Init
    BY DEF Init, Register!Init
  <1>2. Init => PendingInv
    BY DEF Init, PendingInv
  <1>3. IndInv /\ PendingInv /\ [Next]_vars => PendingInv'
    BY PendingStep DEF IndInv
  <1>4. IndInv /\ PendingInv /\ [Next]_vars => [Register!Next]_Register!vars
    BY StepRefines
  <1> QED BY <1>1, <1>2, <1>3, <1>4, Invariance, PTL
          DEF Spec, ImplementsRegister, Register!Spec

=============================================================================
