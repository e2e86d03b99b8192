---------------------------- MODULE SeqlockWeak ----------------------------
(***************************************************************************)
(* The sequence lock of common/seqlock.hpp with the memory orders the code *)
(* gives its accesses, under the C++20 memory model: a store is a message, *)
(* and a thread that has not synchronised with the writer may go on        *)
(* reading an older one.  Module Seqlock has the same lock in a memory     *)
(* where every access takes effect at once.                                *)
(*                                                                         *)
(* The memory is the usual one of views.  Every location has the messages  *)
(* stored to it, in modification order.  A thread has a view: of every     *)
(* location, the oldest message it may still read.  A message carries the  *)
(* view which a thread obtains that reads it with acquire order; with      *)
(* relaxed order the thread obtains it at its next acquire fence.  A       *)
(* release store carries the view of the thread, a relaxed store the view  *)
(* the thread had at its last release fence.  Stores go to the end of the  *)
(* modification order, as only holders of the lock store.                  *)
(***************************************************************************)
EXTENDS Integers, Sequences

CONSTANTS
    Threads,
    NumPieces,   \* pieces in which atomic_store_memcpy stores an element
    Ops,         \* the operations called, a set of {"update", "move", "miss", "lookup"}
    MaxOps       \* bound: calls in a behaviour

ASSUME WeakAssumption == NumPieces \in Nat \ {0} /\ MaxOps \in Nat

Flag   == -1               \* lock_
Epoch  == 0                \* epoch_
Pieces == 1 .. NumPieces   \* the element behind the lock
Locations == Flag .. NumPieces

VARIABLES
    mem,    \* of a location, its messages; the value of a piece is the number of the update that stored it
    cur,    \* the view of a thread
    acq,    \* the view it will have after an acquire fence
    rel,    \* the view it had at its last release fence
    pc,     \* what a thread does next, <<label>> or <<label, piece>>
    op,     \* the operation it performs
    seen,   \* the epoch a lookup has loaded
    copy,   \* the pieces a lookup has loaded
    calls   \* operations called so far

views == <<cur, acq, rel>>
vars  == <<mem, cur, acq, rel, pc, op, seen, copy, calls>>

View    == [Locations -> Nat]
Message == [val : Nat, view : View]

Join(v, w) == [l \in Locations |-> IF v[l] < w[l] THEN w[l] ELSE v[l]]

Newest(l) == mem[l][Len(mem[l])]

Goto(t, where) == pc' = [pc EXCEPT ![t] = where]

(***************************************************************************)
(* The accesses.                                                           *)
(***************************************************************************)
\* A load returns message i: not one that is older than the thread's view.
Load(t, l, i, order) ==
    /\ i \in cur[t][l] .. Len(mem[l])
    /\ cur' = [cur EXCEPT ![t] = IF order = "acquire" THEN Join(@, mem[l][i].view)
                                                      ELSE [@ EXCEPT ![l] = i]]
    /\ acq' = [acq EXCEPT ![t] = Join(@, mem[l][i].view)]
    /\ UNCHANGED <<mem, rel>>

Store(t, l, val, order) ==
    LET i       == Len(mem[l]) + 1
        carried == IF order = "release" THEN cur[t] ELSE rel[t]
    IN  /\ mem' = [mem EXCEPT ![l] = Append(@, [val |-> val, view |-> [carried EXCEPT ![l] = i]])]
        /\ cur' = [cur EXCEPT ![t][l] = i]
        /\ acq' = [acq EXCEPT ![t][l] = i]
        /\ UNCHANGED rel

\* An exchange reads the newest message and hands on the view it carries.
Exchange(t, l, val, order) ==
    LET i   == Len(mem[l]) + 1
        m   == Newest(l).view
        mine == IF order = "acquire" THEN Join(cur[t], m) ELSE cur[t]
    IN  /\ mem' = [mem EXCEPT ![l] = Append(@, [val |-> val, view |-> [Join(rel[t], m) EXCEPT ![l] = i]])]
        /\ cur' = [cur EXCEPT ![t] = [mine EXCEPT ![l] = i]]
        /\ acq' = [acq EXCEPT ![t] = [Join(@, m) EXCEPT ![l] = i]]
        /\ UNCHANGED rel

ReleaseFence(t) == rel' = [rel EXCEPT ![t] = cur[t]] /\ UNCHANGED <<mem, cur, acq>>
AcquireFence(t) == cur' = [cur EXCEPT ![t] = acq[t]] /\ UNCHANGED <<mem, acq, rel>>

\* cur_epoch_ is a plain member which changes together with epoch_: what the
\* holder reads of it is what its view has of epoch_.
CurEpoch(t) == mem[Epoch][cur[t][Epoch]].val

(***************************************************************************)
(* The critical sections.                                                  *)
(***************************************************************************)
Call(t) ==
    /\ pc[t] = <<"idle">>
    /\ calls < MaxOps
    /\ calls' = calls + 1
    /\ \E o \in Ops :
          /\ op' = [op EXCEPT ![t] = o]
          /\ Goto(t, IF o = "lookup" THEN <<"epoch">> ELSE <<"spin">>)
    /\ UNCHANGED <<mem, views, seen, copy>>

\* lock: test_and_set(acquire) until the flag was clear ...
TakeFlag(t) ==
    /\ pc[t] = <<"spin">>
    /\ Newest(Flag).val = 0
    /\ Exchange(t, Flag, 1, "acquire")
    /\ Goto(t, <<"announce">>)
    /\ UNCHANGED <<op, seen, copy, calls>>

\* ... then epoch_.store(++cur_epoch_, relaxed).
Announce(t) ==
    /\ pc[t] = <<"announce">>
    /\ Store(t, Epoch, CurEpoch(t) + 1, "relaxed")
    /\ Goto(t, CASE op[t] = "move" -> <<"store", 1>> [] OTHER -> <<"fence">>)
    /\ UNCHANGED <<op, seen, copy, calls>>

\* Mutant: an operation without the fence.
WithoutFence(t) ==
    /\ pc[t] = <<"fence">>
    /\ UNCHANGED <<mem, views, op, seen, copy, calls>>
    /\ Goto(t, IF op[t] = "miss" THEN <<"publish">> ELSE <<"store", 1>>)

\* The operations follow the locks with a release fence.  cuckoopath_move and
\* before_next_bucket ("move") change what they have locked without one.
Fence(t) ==
    /\ pc[t] = <<"fence">>
    /\ ReleaseFence(t)
    /\ Goto(t, IF op[t] = "miss" THEN <<"publish">> ELSE <<"store", 1>>)
    /\ UNCHANGED <<op, seen, copy, calls>>

\* atomic_store_memcpy: piece after piece, relaxed.  CurEpoch is odd here.
StorePiece(t) ==
    \E p \in Pieces :
        /\ pc[t] = <<"store", p>>
        /\ Store(t, p, (CurEpoch(t) + 1) \div 2, "relaxed")
        /\ Goto(t, IF p < NumPieces THEN <<"store", p + 1>> ELSE <<"publish">>)
        /\ UNCHANGED <<op, seen, copy, calls>>

\* Mutant: unlock_no_modified counts back twice.
PublishTwoBack(t) ==
    /\ pc[t] = <<"publish">>
    /\ Store(t, Epoch, CurEpoch(t) + (IF op[t] = "miss" THEN -2 ELSE 1), "relaxed")
    /\ Goto(t, <<"clear">>)
    /\ UNCHANGED <<op, seen, copy, calls>>

\* unlock and unlock_no_modified: the epoch goes up or back ...
Publish(t) ==
    /\ pc[t] = <<"publish">>
    /\ Store(t, Epoch, CurEpoch(t) + (IF op[t] = "miss" THEN -1 ELSE 1), "relaxed")
    /\ Goto(t, <<"clear">>)
    /\ UNCHANGED <<op, seen, copy, calls>>

\* Mutant: lock_.clear(relaxed).
ClearRelaxed(t) ==
    /\ pc[t] = <<"clear">>
    /\ Store(t, Flag, 0, "relaxed")
    /\ Goto(t, <<"idle">>)
    /\ UNCHANGED <<op, seen, copy, calls>>

\* ... and lock_.clear(release).
Clear(t) ==
    /\ pc[t] = <<"clear">>
    /\ Store(t, Flag, 0, "release")
    /\ Goto(t, <<"idle">>)
    /\ UNCHANGED <<op, seen, copy, calls>>

(***************************************************************************)
(* The lookup.                                                             *)
(***************************************************************************)
\* Mutant: get_epoch(relaxed).
LoadEpochRelaxed(t) ==
    /\ pc[t] = <<"epoch">>
    /\ \E i \in 1 .. Len(mem[Epoch]) :
          /\ Load(t, Epoch, i, "relaxed")
          /\ seen' = [seen EXCEPT ![t] = mem[Epoch][i].val]
          /\ Goto(t, IF mem[Epoch][i].val % 2 = 1 THEN <<"epoch">> ELSE <<"load", 1>>)
    /\ UNCHANGED <<op, copy, calls>>

\* get_epoch(): a lookup starts again while the lock is taken.
LoadEpoch(t) ==
    /\ pc[t] = <<"epoch">>
    /\ \E i \in 1 .. Len(mem[Epoch]) :
          /\ Load(t, Epoch, i, "acquire")
          /\ seen' = [seen EXCEPT ![t] = mem[Epoch][i].val]
          /\ Goto(t, IF mem[Epoch][i].val % 2 = 1 THEN <<"epoch">> ELSE <<"load", 1>>)
    /\ UNCHANGED <<op, copy, calls>>

\* atomic_load_memcpy: piece after piece, relaxed.
LoadPiece(t) ==
    \E p \in Pieces :
        /\ pc[t] = <<"load", p>>
        /\ \E i \in 1 .. Len(mem[p]) :
              /\ Load(t, p, i, "relaxed")
              /\ copy' = [copy EXCEPT ![t][p] = mem[p][i].val]
        /\ Goto(t, IF p < NumPieces THEN <<"load", p + 1>> ELSE <<"barrier">>)
        /\ UNCHANGED <<op, seen, calls>>

\* atomic_thread_fence(acquire).
Barrier(t) ==
    /\ pc[t] = <<"barrier">>
    /\ AcquireFence(t)
    /\ Goto(t, <<"check">>)
    /\ UNCHANGED <<op, seen, copy, calls>>

\* get_epoch(relaxed) has to be the epoch loaded first.
Check(t) ==
    /\ pc[t] = <<"check">>
    /\ \E i \in 1 .. Len(mem[Epoch]) :
          /\ Load(t, Epoch, i, "relaxed")
          /\ Goto(t, IF mem[Epoch][i].val = seen[t] THEN <<"accepted">> ELSE <<"epoch">>)
    /\ UNCHANGED <<op, seen, copy, calls>>

Return(t) ==
    /\ pc[t] = <<"accepted">>
    /\ Goto(t, <<"idle">>)
    /\ UNCHANGED <<mem, views, op, seen, copy, calls>>

Init ==
    LET first == [l \in Locations |-> 1]
    IN  /\ mem = [l \in Locations |-> << [val |-> 0, view |-> first] >>]
        /\ cur = [t \in Threads |-> first]
        /\ acq = [t \in Threads |-> first]
        /\ rel = [t \in Threads |-> first]
        /\ pc = [t \in Threads |-> <<"idle">>]
        /\ op = [t \in Threads |-> "lookup"]
        /\ seen = [t \in Threads |-> 0]
        /\ copy = [t \in Threads |-> [p \in Pieces |-> 0]]
        /\ calls = 0

Next ==
    \E t \in Threads :
        \/ Call(t)
        \/ TakeFlag(t)
        \/ Announce(t)
        \/ Fence(t)
        \/ StorePiece(t)
        \/ Publish(t)
        \/ Clear(t)
        \/ LoadEpoch(t)
        \/ LoadPiece(t)
        \/ Barrier(t)
        \/ Check(t)
        \/ Return(t)

Spec == Init /\ [][Next]_vars

(***************************************************************************)
(* Properties.                                                             *)
(***************************************************************************)
Sections == {<<"announce">>, <<"fence">>, <<"publish">>, <<"clear">>} \cup ({"store"} \X Pieces)
Labels   == Sections \cup {<<"idle">>, <<"spin">>, <<"epoch">>, <<"barrier">>, <<"check">>, <<"accepted">>}
                     \cup ({"load"} \X Pieces)

\* The type of the state; no view points behind the newest message.
TypeOK ==
    /\ mem \in [Locations -> Seq(Message)]
    /\ \A t \in Threads : /\ cur[t] \in [Locations -> Nat \ {0}]
                          /\ acq[t] \in [Locations -> Nat \ {0}]
                          /\ rel[t] \in [Locations -> Nat \ {0}]
    /\ \A t \in Threads, l \in Locations : rel[t][l] <= cur[t][l] /\ cur[t][l] <= acq[t][l]
                                           /\ acq[t][l] <= Len(mem[l])
    /\ pc \in [Threads -> Labels]
    /\ op \in [Threads -> Ops \cup {"lookup"}]
    /\ seen \in [Threads -> Nat]
    /\ copy \in [Threads -> [Pieces -> Nat]]
    /\ calls \in 0 .. MaxOps

Holding(t) == pc[t] \in Sections

\* The flag hands the whole critical section on: who holds the lock sees the
\* newest epoch and the newest pieces, so that plain members (cur_epoch_,
\* elem_counter_) and exclusive searches never read anything stale.
HolderIsUpToDate ==
    \A t \in Threads : Holding(t) =>
        \A l \in Locations : cur[t][l] = Len(mem[l])

\* The entry of a critical section is ordered: a lookup that accepts has read
\* nothing of an update that is later than the epoch it accepts.  This is what
\* the release fence of the operations and the acquire fence of the lookups do.
AcceptedPiecesAreNotAhead ==
    \A t \in Threads : pc[t] = <<"accepted">> =>
        \A p \in Pieces : copy[t][p] <= seen[t] \div 2

\* The end of a critical section is ordered up to the last update: an accepted
\* copy has every update but the one that published the epoch, of which it may
\* have some pieces.
AcceptedPiecesMissOneUpdateAtMost ==
    \A t \in Threads : pc[t] = <<"accepted">> =>
        \A p \in Pieces : copy[t][p] >= (seen[t] \div 2) - 1

\* What the lookups of the maps rely on: an accepted copy is whole, all of its
\* pieces come from one update.
AcceptedCopyIsWhole ==
    \A t \in Threads : pc[t] = <<"accepted">> =>
        \A p, q \in Pieces : copy[t][p] = copy[t][q]
=============================================================================
