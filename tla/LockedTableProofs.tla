-------------------------- MODULE LockedTableProofs --------------------------
(***************************************************************************)
(* Proofs about parallel_exec and about the handle that owns all locks.    *)
(*                                                                         *)
(* parallel_exec, for any number of extra threads and any range: the       *)
(* shares handed out are adjacent and never exceed the range, so the       *)
(* ranges of two workers are disjoint and together reach from 0 to start;  *)
(* an index has been handled iff the worker it belongs to has passed it.   *)
(*                                                                         *)
(* The handle, for all keys, hash values and sizes.  TableInv: what is     *)
(* locked and what the workers have migrated follow from what the owner of *)
(* all locks is doing.  DataInv: a key is in one slot, in a bucket of its  *)
(* own for the hashpower of the bucket's lock; what a worker has passed is *)
(* copied; what an iterator has not passed is ahead of it.  The lemmas say *)
(* what each operator on maps does to a map that holds a set of keys: a    *)
(* migration and an eager doubling leave it that set (MoveBuckets moves a  *)
(* key to the bucket its next hashpower gives), an insertion adds a key to *)
(* it, also where another one moves away, an erasure takes one.            *)
(* CountInv: the counters of all locks add up to the number of keys; the   *)
(* lemmas on Size say what the same operators do to that sum, which an     *)
(* eager doubling shifts within each pair of buckets only.                 *)
(***************************************************************************)
EXTENDS LockedTable, SumProofs

ExecTypeOK ==
    /\ stage \in {"idle", "spawn", "join"}
    /\ extra \in 0..MaxExtra /\ start \in Nat /\ end \in Nat /\ share \in Nat
    /\ spawned \in 0..Caller /\ joined \in 0..extra
    /\ from \in [Workers -> Nat] /\ next \in [Workers -> Nat] /\ to \in [Workers -> Nat]
    /\ failed \subseteq Workers /\ handled \subseteq Nat

\* What is left of the range is enough for the threads not yet created and
\* for the caller.
SharesFit ==
    /\ stage = "spawn" => /\ spawned <= extra
                          /\ start + share * (extra - spawned + 1) <= end
    /\ stage = "join" => spawned = Caller /\ start = end

\* The ranges of the workers are in order and cover 0..start-1.
RangesPartition ==
    /\ \A w \in 1..spawned : from[w] <= next[w] /\ next[w] <= to[w] /\ to[w] <= start
    /\ \A v, w \in 1..spawned : v < w => to[v] <= from[w]
    /\ \A i \in 0..start - 1 : \E w \in 1..spawned : from[w] <= i /\ i < to[w]

\* An index has been handled iff its worker has passed it.
HandledInv ==
    /\ \A i \in handled : \E w \in 1..spawned : from[w] <= i /\ i < next[w]
    /\ \A w \in 1..spawned : \A i \in from[w]..next[w] - 1 : i \in handled

\* The threads that were joined are finished; before a call there are none.
JoinInv ==
    /\ \A w \in 1..joined : HasFinished(w)
    /\ stage = "idle" => spawned = 0

IInv == ExecTypeOK /\ SharesFit /\ RangesPartition /\ HandledInv /\ JoinInv

-----------------------------------------------------------------------------
LEMMA TimesSucc ==
    ASSUME NEW s \in Nat, NEW r \in Nat
    PROVE  s * (r + 1) = s * r + s /\ s * r \in Nat
  BY Z3

LEMMA DivFits ==
    ASSUME NEW n \in Nat, NEW k \in Nat \ {0}
    PROVE  n \div k \in Nat /\ (n \div k) * k <= n
  BY Z3

-----------------------------------------------------------------------------
LEMMA ExecInitInv == ExecInit => IInv
  BY ExtraAssumption DEF ExecInit, IInv, ExecTypeOK, SharesFit, RangesPartition, HandledInv,
     JoinInv, Workers, Caller, Running, HasFinished

LEMMA StartInv ==
    ASSUME IInv, NEW n \in Nat, StartExec(n)
    PROVE  IInv'
  <1>1. PICK e \in 0..MaxExtra : extra' = e
    BY DEF StartExec
  <1> DEFINE s == WorkPerThread(n, e)
  <1>2. /\ stage' = "spawn" /\ start' = 0 /\ end' = n /\ share' = s /\ spawned' = 0
        /\ joined' = 0 /\ failed' = {} /\ handled' = {}
        /\ from' = [w \in Workers |-> 0] /\ next' = from' /\ to' = from'
    BY <1>1 DEF StartExec
  <1>3. e \in Nat /\ e + 1 \in Nat \ {0} /\ s \in Nat /\ 0 + s * (e - 0 + 1) <= n
    <2>1. e \in Nat /\ e + 1 \in Nat \ {0} /\ e - 0 + 1 = e + 1
      BY ExtraAssumption
    <2>2. s \in Nat /\ s * (e + 1) <= n
      BY <2>1, DivFits DEF WorkPerThread
    <2>3. s * (e + 1) \in Nat
      BY <2>1, <2>2
    <2> HIDE DEF s
    <2>4. 0 + s * (e + 1) <= n
      BY <2>2, <2>3
    <2> QED BY <2>1, <2>2, <2>4
  <1> HIDE DEF s
  <1>4. ExecTypeOK' /\ SharesFit'
    <2>1. ExecTypeOK'
      BY <1>1, <1>2, <1>3 DEF ExecTypeOK, Caller
    <2>2. SharesFit'
      BY <1>1, <1>2, <1>3 DEF SharesFit
    <2> QED BY <2>1, <2>2
  <1>5. RangesPartition' /\ HandledInv'
    BY DEF StartExec, RangesPartition, HandledInv
  <1>6. JoinInv'
    BY DEF StartExec, JoinInv
  <1> QED BY <1>4, <1>5, <1>6 DEF IInv

\* Handing out start..upto-1 to the next worker keeps the ranges in order.
LEMMA HandOutInv ==
    ASSUME ExecTypeOK, RangesPartition, HandledInv,
           NEW w \in Workers, w = spawned + 1, NEW upto \in Nat, start <= upto,
           HandOut(w, upto), handled' = handled
    PROVE  RangesPartition' /\ HandledInv'
  <1>1. /\ spawned \in Nat /\ spawned' = spawned + 1
        /\ \A v \in 1..spawned : v \in Workers /\ from'[v] = from[v] /\ next'[v] = next[v]
                                 /\ to'[v] = to[v]
        /\ from'[w] = start /\ next'[w] = start /\ to'[w] = upto /\ start' = upto
        /\ 1..spawned' = (1..spawned) \cup {w}
        /\ start \in Nat
    BY ExtraAssumption, SMTT(60) DEF HandOut, ExecTypeOK, Workers, Caller
  <1>2. \A v \in 1..spawned' : from'[v] <= next'[v] /\ next'[v] <= to'[v] /\ to'[v] <= start'
    <2> TAKE v \in 1..spawned'
    <2>1. CASE v = w
      BY <1>1, <2>1
    <2>2. CASE v \in 1..spawned
      <3>1. to[v] \in Nat
        BY <1>1, <2>2 DEF ExecTypeOK
      <3> QED BY <1>1, <2>2, <3>1 DEF RangesPartition
    <2> QED BY <1>1, <2>1, <2>2
  <1>3. \A u, v \in 1..spawned' : u < v => to'[u] <= from'[v]
    BY <1>1 DEF RangesPartition
  <1>4. \A i \in 0..start' - 1 : \E v \in 1..spawned' : from'[v] <= i /\ i < to'[v]
    <2> TAKE i \in 0..start' - 1
    <2>1. CASE i < start
      BY <1>1, <2>1 DEF RangesPartition
    <2>2. CASE start <= i
      BY <1>1, <2>2
    <2> QED BY <1>1, <2>1, <2>2
  <1>5. \A i \in handled' : \E v \in 1..spawned' : from'[v] <= i /\ i < next'[v]
    BY <1>1 DEF HandledInv
  <1>6. \A v \in 1..spawned' : \A i \in from'[v]..next'[v] - 1 : i \in handled'
    <2> TAKE v \in 1..spawned'
    <2>1. CASE v = w
      BY <1>1, <2>1
    <2>2. CASE v \in 1..spawned
      BY <1>1, <2>2 DEF HandledInv
    <2> QED BY <1>1, <2>1, <2>2
  <1> QED BY <1>2, <1>3, <1>4, <1>5, <1>6 DEF RangesPartition, HandledInv

LEMMA SpawnInv ==
    ASSUME IInv, Spawn
    PROVE  IInv'
  <1> DEFINE w == spawned + 1
  <1>1. /\ ExecTypeOK /\ RangesPartition /\ HandledInv /\ w \in Workers /\ w <= extra
        /\ spawned \in Nat /\ extra \in Nat /\ start \in Nat /\ share \in Nat /\ end \in Nat
        /\ extra - w \in Nat /\ w \in 1..Caller
    <2>1. ExecTypeOK /\ RangesPartition /\ HandledInv
      BY DEF IInv
    <2>2. /\ spawned \in Nat /\ extra \in Nat /\ start \in Nat /\ share \in Nat /\ end \in Nat
          /\ extra <= MaxExtra /\ spawned < extra
      BY <2>1, ExtraAssumption DEF ExecTypeOK, Spawn, Caller
    <2> QED BY <2>1, <2>2, ExtraAssumption DEF Workers, Caller
  <1>2. HandOut(w, start + share) /\ handled' = handled
    BY DEF Spawn
  <1>3. RangesPartition' /\ HandledInv'
    <2>1. start + share \in Nat /\ start <= start + share
      BY <1>1
    <2> HIDE DEF w
    <2>2. w = spawned + 1
      BY DEF w
    <2> QED BY <1>1, <1>2, <2>1, <2>2, HandOutInv
  <1>4. start' + share * (extra - w + 1) <= end
    <2>1. share * ((extra - w + 1) + 1) = share * (extra - w + 1) + share
          /\ share * (extra - w + 1) \in Nat
      BY <1>1, TimesSucc
    <2>2. start + share * (extra - spawned + 1) <= end
      BY DEF IInv, SharesFit, Spawn
    <2>3. extra - spawned + 1 = (extra - w + 1) + 1
      BY <1>1
    <2>4. start' = start + share
      BY <1>2 DEF HandOut
    <2> QED BY <2>1, <2>2, <2>3, <2>4, <1>1
  <1>5. SharesFit'
    BY <1>1, <1>2, <1>4 DEF Spawn, SharesFit, HandOut
  <1>6. ExecTypeOK'
    <2>1. start + share \in Nat /\ spawned' \in 0..Caller
      BY <1>1, <1>2 DEF HandOut, Caller
    <2> QED BY <1>1, <1>2, <2>1 DEF Spawn, ExecTypeOK, HandOut, Caller
  <1>7. JoinInv'
    <2>1. joined \in Nat /\ stage' = "spawn" /\ joined' = joined /\ joined <= extra
          /\ extra <= MaxExtra
      BY ExtraAssumption DEF Spawn, IInv, ExecTypeOK
    <2>2. \A v \in 1..joined : v <= spawned /\ v \in Workers
      <3> TAKE v \in 1..joined
      <3>1. v <= spawned
        BY DEF IInv, JoinInv, HasFinished
      <3>2. v \in Nat /\ 1 <= v /\ v <= joined
        BY <2>1
      <3> HIDE DEF w
      <3>3. v <= MaxExtra + 1
        BY <1>1, <2>1, <3>2, ExtraAssumption
      <3> QED BY <2>1, <3>1, <3>2, <3>3 DEF Workers
    <2>3. \A v \in 1..joined : next'[v] = next[v] /\ to'[v] = to[v] /\ failed' = failed
                               /\ v <= spawned' /\ ~Running(v)
      BY <1>1, <1>2, <2>2 DEF IInv, JoinInv, HasFinished, HandOut, Spawn, ExecTypeOK
    <2> QED BY <2>1, <2>2, <2>3 DEF JoinInv, HasFinished, Running
  <1> QED BY <1>3, <1>5, <1>6, <1>7 DEF IInv

LEMMA OwnRangeInv ==
    ASSUME IInv, OwnRange
    PROVE  IInv'
  <1>1. /\ ExecTypeOK /\ RangesPartition /\ HandledInv /\ Caller \in Workers
        /\ Caller = spawned + 1 /\ spawned \in Nat /\ extra \in Nat /\ spawned = extra
        /\ start \in Nat /\ share \in Nat /\ end \in Nat
    BY ExtraAssumption, SMTT(60) DEF IInv, ExecTypeOK, OwnRange, Workers, Caller
  <1>2. HandOut(Caller, end) /\ handled' = handled
    BY DEF OwnRange
  <1>3. start <= end
    <2>1. start + share * (extra - spawned + 1) <= end
      BY DEF IInv, SharesFit, OwnRange
    <2>2. share * (extra - spawned + 1) = share
      BY <1>1
    <2> QED BY <2>1, <2>2, <1>1
  <1>4. RangesPartition' /\ HandledInv'
    BY <1>1, <1>2, <1>3, HandOutInv
  <1>5. SharesFit'
    BY <1>1, <1>2 DEF OwnRange, SharesFit, HandOut, Caller
  <1>6. ExecTypeOK'
    BY <1>1, <1>2 DEF OwnRange, ExecTypeOK, HandOut, Caller
  <1>7. JoinInv'
    <2>1. joined \in Nat /\ stage' = "join" /\ joined' = joined
      BY DEF OwnRange, IInv, ExecTypeOK
    <2>2. \A v \in 1..joined : v <= spawned /\ v \in Workers
      BY <1>1, <2>1, ExtraAssumption DEF IInv, JoinInv, HasFinished, ExecTypeOK, Workers, Caller
    <2>3. \A v \in 1..joined : next'[v] = next[v] /\ to'[v] = to[v] /\ failed' = failed
                               /\ v <= spawned' /\ ~Running(v)
      BY <1>1, <1>2, <2>2 DEF IInv, JoinInv, HasFinished, HandOut, OwnRange, ExecTypeOK
    <2> QED BY <2>1, <2>2, <2>3 DEF JoinInv, HasFinished, Running
  <1> QED BY <1>4, <1>5, <1>6, <1>7 DEF IInv

LEMMA HandleInv ==
    ASSUME IInv, NEW w \in Workers, HandleIndex(w)
    PROVE  IInv'
  <1>1. /\ ExecTypeOK /\ w \in 1..spawned /\ spawned \in Nat /\ 1..spawned \subseteq Workers
        /\ next[w] \in Nat /\ to[w] \in Nat /\ from[w] \in Nat /\ next[w] < to[w]
        /\ joined \in Nat
    BY ExtraAssumption, SMTT(60) DEF IInv, ExecTypeOK, HandleIndex, Running, Workers, Caller
  <1>2. /\ next'[w] = next[w] + 1
        /\ \A v \in Workers : v # w => next'[v] = next[v]
        /\ handled' = handled \cup {next[w]} /\ from' = from /\ to' = to
        /\ spawned' = spawned /\ start' = start /\ failed' = failed /\ stage' = stage
    BY <1>1 DEF HandleIndex, ExecTypeOK
  <1>3. ExecTypeOK'
    <2>1. next' \in [Workers -> Nat] /\ handled' \subseteq Nat
      <3>1. next[w] + 1 \in Nat
        BY <1>1
      <3> QED BY <1>1, <1>2, <3>1 DEF HandleIndex, ExecTypeOK
    <2> QED BY <2>1, <1>1 DEF HandleIndex, ExecTypeOK, Caller
  <1>4. SharesFit'
    BY DEF HandleIndex, IInv, SharesFit, Caller
  <1>5. RangesPartition'
    <2>1. \A v \in 1..spawned : from[v] <= next'[v] /\ next'[v] <= to[v] /\ to[v] <= start
      BY <1>1, <1>2 DEF IInv, RangesPartition
    <2> QED BY <2>1, <1>2 DEF IInv, RangesPartition
  <1>6. HandledInv'
    <2>1. \A i \in handled' : \E v \in 1..spawned : from[v] <= i /\ i < next'[v]
      <3> TAKE i \in handled'
      <3>1. CASE i = next[w]
        BY <1>1, <1>2, <3>1 DEF IInv, RangesPartition
      <3>2. CASE i \in handled
        <4>1. PICK v \in 1..spawned : from[v] <= i /\ i < next[v]
          BY <3>2 DEF IInv, HandledInv
        <4>2. i \in Nat /\ next[v] \in Nat
          BY <1>1, <3>2 DEF ExecTypeOK
        <4> QED BY <1>1, <1>2, <4>1, <4>2
      <3> QED BY <1>2, <3>1, <3>2
    <2>2. \A v \in 1..spawned : \A i \in from[v]..next'[v] - 1 : i \in handled'
      <3> TAKE v \in 1..spawned
      <3>1. CASE v = w
        BY <1>1, <1>2, <3>1 DEF IInv, HandledInv
      <3>2. CASE v # w
        BY <1>1, <1>2, <3>2 DEF IInv, HandledInv
      <3> QED BY <3>1, <3>2
    <2> QED BY <2>1, <2>2, <1>2 DEF HandledInv
  <1>7. JoinInv'
    <2>1. \A v \in 1..joined : v # w /\ v \in Workers /\ HasFinished(v)
      BY <1>1 DEF IInv, JoinInv, HasFinished, HandleIndex, Workers, ExecTypeOK
    <2>2. \A v \in 1..joined : HasFinished(v)'
      BY <2>1, <1>2 DEF HasFinished, Running
    <2>3. stage # "idle"
      BY <1>1 DEF IInv, JoinInv
    <2> QED BY <2>2, <2>3, <1>2 DEF JoinInv, HandleIndex
  <1> QED BY <1>3, <1>4, <1>5, <1>6, <1>7 DEF IInv

LEMMA ThrowInv ==
    ASSUME IInv, NEW w \in Workers, Throw(w)
    PROVE  IInv'
  <1>1. ExecTypeOK'
    BY DEF Throw, IInv, ExecTypeOK, Caller
  <1>2. SharesFit' /\ RangesPartition' /\ HandledInv'
    BY DEF Throw, IInv, SharesFit, RangesPartition, HandledInv, Caller
  <1>3. \A v : Running(v)' => Running(v)
    BY DEF Throw, Running
  <1>4. JoinInv'
    BY <1>3 DEF Throw, IInv, JoinInv, HasFinished
  <1> QED BY <1>1, <1>2, <1>4 DEF IInv

LEMMA JoinStepInv ==
    ASSUME IInv, Join
    PROVE  IInv'
  <1>1. joined \in Nat /\ extra \in Nat
    BY ExtraAssumption DEF IInv, ExecTypeOK
  <1>2. ExecTypeOK'
    BY <1>1 DEF Join, IInv, ExecTypeOK, Caller
  <1>3. SharesFit' /\ RangesPartition' /\ HandledInv'
    BY DEF Join, IInv, SharesFit, RangesPartition, HandledInv, Caller
  <1>4. \A v : HasFinished(v)' <=> HasFinished(v)
    BY DEF Join, HasFinished, Running
  <1>5. \A v \in 1..joined' : HasFinished(v)
    <2> TAKE v \in 1..joined'
    <2>1. v \in 1..joined \/ v = joined + 1
      BY <1>1 DEF Join
    <2> QED BY <2>1 DEF Join, IInv, JoinInv
  <1>6. JoinInv'
    BY <1>4, <1>5 DEF Join, JoinInv
  <1> QED BY <1>2, <1>3, <1>6 DEF IInv

LEMMA ReturnInv ==
    ASSUME IInv, Return
    PROVE  IInv'
  BY ExtraAssumption DEF Return, ExecInit, IInv, ExecTypeOK, SharesFit, RangesPartition,
     HandledInv, JoinInv, Workers, Caller, Running, HasFinished

LEMMA ExecStepInv == IInv /\ [ExecNext]_execVars => IInv'
  <1> SUFFICES ASSUME IInv, [ExecNext]_execVars PROVE IInv'
    OBVIOUS
  <1>1. ASSUME NEW n \in Nat, StartExec(n) PROVE IInv'
    BY <1>1, StartInv
  <1>2. CASE Spawn
    BY <1>2, SpawnInv
  <1>3. CASE OwnRange
    BY <1>3, OwnRangeInv
  <1>4. CASE Join
    BY <1>4, JoinStepInv
  <1>5. CASE Return
    BY <1>5, ReturnInv
  <1>6. ASSUME NEW w \in Workers, HandleIndex(w) PROVE IInv'
    BY <1>6, HandleInv
  <1>7. ASSUME NEW w \in Workers, Throw(w) PROVE IInv'
    BY <1>7, ThrowInv
  <1>8. CASE UNCHANGED execVars
    BY <1>8 DEF execVars, IInv, ExecTypeOK, SharesFit, RangesPartition, HandledInv, JoinInv,
       HasFinished, Running, Caller
  <1> QED BY <1>1, <1>2, <1>3, <1>4, <1>5, <1>6, <1>7, <1>8 DEF ExecNext

\* What the invariant says when the call has returned without an exception:
\* every worker is at the end of its range, so the ranges handled are all.
LEMMA InvImplies == IInv => EveryIndexOnce
  <1> SUFFICES ASSUME IInv PROVE EveryIndexOnce
    OBVIOUS
  <1>1. /\ ExecTypeOK /\ spawned \in Nat /\ 1..spawned \subseteq Workers
        /\ \A w \in Workers : next[w] \in Nat /\ from[w] \in Nat /\ to[w] \in Nat
    BY ExtraAssumption DEF IInv, ExecTypeOK, Workers, Caller
  <1>2. \A w \in Workers : Running(w) => next[w] \notin handled
    <2> SUFFICES ASSUME NEW w \in Workers, Running(w), next[w] \in handled PROVE FALSE
      OBVIOUS
    <2>1. w \in 1..spawned /\ next[w] < to[w]
      BY <1>1 DEF Running, Workers
    <2>2. PICK v \in 1..spawned : from[v] <= next[w] /\ next[w] < next[v]
      BY DEF IInv, HandledInv
    <2>3. next[v] <= to[v] /\ from[w] <= next[w]
      BY <2>1 DEF IInv, RangesPartition
    <2>4. CASE v < w
      <3>1. to[v] <= from[w]
        BY <2>1, <2>4 DEF IInv, RangesPartition
      <3> QED BY <1>1, <2>2, <2>3, <3>1
    <2>5. CASE w < v
      <3>1. to[w] <= from[v]
        BY <2>1, <2>5 DEF IInv, RangesPartition
      <3> QED BY <1>1, <2>1, <2>2, <2>3, <3>1
    <2>6. CASE v = w
      BY <1>1, <2>2, <2>6
    <2> QED BY <2>1, <2>2, <2>4, <2>5, <2>6
  <1>3. ASSUME AllJoined PROVE \A w \in Workers : ~Running(w)
    <2> SUFFICES ASSUME NEW w \in Workers, Running(w) PROVE FALSE
      OBVIOUS
    <2>1. /\ w \in Nat /\ 1 <= w /\ w <= extra + 1 /\ extra \in Nat /\ joined = extra
      BY <1>1, <1>3, ExtraAssumption DEF AllJoined, IInv, SharesFit, ExecTypeOK, Running,
         Caller, Workers
    <2>2. CASE w = extra + 1
      BY <1>3, <2>2 DEF AllJoined, HasFinished, Caller
    <2>3. CASE w \in 1..joined
      BY <2>3 DEF IInv, JoinInv, HasFinished
    <2> QED BY <2>1, <2>2, <2>3
  <1>4. ASSUME AllJoined, failed = {} PROVE handled = 0..end - 1
    <2>1. start = end
      BY <1>4 DEF AllJoined, IInv, SharesFit
    <2>2. \A w \in 1..spawned : next[w] = to[w]
      <3> TAKE w \in 1..spawned
      <3>1. ~(next[w] < to[w]) /\ next[w] <= to[w]
        BY <1>1, <1>3, <1>4 DEF Running, IInv, RangesPartition
      <3> QED BY <1>1, <3>1
    <2>3. ASSUME NEW i \in handled PROVE i \in 0..end - 1
      <3>1. PICK w \in 1..spawned : from[w] <= i /\ i < next[w]
        BY DEF IInv, HandledInv
      <3>2. next[w] <= to[w] /\ to[w] <= start /\ spawned # 0
        BY DEF IInv, RangesPartition
      <3>3. i \in Nat /\ start \in Nat /\ end \in Nat
        BY DEF IInv, ExecTypeOK
      <3> QED BY <1>1, <2>1, <3>1, <3>2, <3>3
    <2>4. ASSUME NEW i \in 0..end - 1 PROVE i \in handled
      <3>1. PICK w \in 1..spawned : from[w] <= i /\ i < to[w]
        BY <2>1 DEF IInv, RangesPartition
      <3> QED BY <1>1, <2>2, <3>1 DEF IInv, HandledInv
    <2> QED BY <2>3, <2>4
  <1> QED BY <1>2, <1>3, <1>4 DEF EveryIndexOnce

-----------------------------------------------------------------------------
\* Every index of the range is handled exactly once, by some worker, before
\* parallel_exec returns, for any number of threads and any range (1922-1964).
THEOREM ExecHandlesEveryIndexOnce == ExecSpec => []EveryIndexOnce
  <1>1. ExecSpec => []IInv
    BY ExecInitInv, ExecStepInv, PTL DEF ExecSpec
  <1> QED BY <1>1, InvImplies, PTL
-----------------------------------------------------------------------------
Buckets(h) == 0..HashSize(h) - 1
Rows == [SlotIds -> Keys \cup {Empty}]
LockRecords == [held : BOOLEAN, migrated : BOOLEAN, count : Int]
Maps(h) == [hp : {h}, slots : [Buckets(h) -> Rows], locks : [0..NumLocks(h) - 1 -> LockRecords]]
IsMap(m) == m.hp \in 0..HpBound /\ m \in Maps(m.hp)

AllMigrated(m) == \A l \in LockIds(m) : m.locks[l].migrated

\* Only a doubling that adds no locks leaves data to be migrated.
Settled(m) == m.hp <= LockPow => AllMigrated(m)

HeldLocks(m) == {l \in LockIds(m) : m.locks[l].held}

Inserting == {"insert", "finish_double", "double", "spread"}
Copying == {"finish_copy", "start_copy", "copy"}
Working == {"settle", "finish_copy", "finish_double", "spread", "copy"}

Typed ==
    /\ IsMap(map) /\ Settled(map)
    /\ IF doing = "copy" THEN IsMap(temp) /\ Settled(temp) /\ HeldLocks(temp) = {} ELSE temp = None
    /\ handle \in BOOLEAN /\ turn \in Nat
    /\ doing \in {"nothing", "lock_all", "capacity", "unlock"} \cup Inserting \cup Copying \cup Working
    /\ doing \in Inserting => handle /\ arg \in Keys
    /\ doing \in Copying \cup {"capacity"} \/ (doing = "lock_all" /\ ~handle) => arg \in Nat
    /\ doing \in Copying => arg <= HpBound
    /\ doing = "settle" => handle
    /\ doing \in {"finish_double", "double"} => map.hp < HpBound
    /\ it # None => it \in Occupied(map) \cup {EndPos(map)} /\ Idle
    /\ visited \subseteq Keys /\ content \subseteq Keys

\* The workers are at work exactly while the owner of all locks waits for them;
\* what they have handled is migrated.
WorkOK ==
    /\ stage = "idle" <=> doing \notin Working
    /\ Migrating => /\ end = Cardinality(LockIds(map)) /\ failed = {}
                    /\ \A l \in handled : map.locks[l].migrated
    /\ doing = "copy" => end = HashSize(map.hp)

\* Which locks the owner of all locks has.
HeldOK ==
    /\ doing = "lock_all" => turn <= NumLocks(map.hp) /\ HeldLocks(map) = 0..turn - 1
    /\ doing = "unlock" => HeldLocks(map) \in {{}, turn..NumLocks(map.hp) - 1}
    /\ doing = "nothing" /\ ~handle => HeldLocks(map) = {}
    /\ doing \notin {"lock_all", "unlock"} /\ (handle \/ doing # "nothing") => HeldLocks(map) = LockIds(map)

TableInv == Typed /\ WorkOK /\ HeldOK

-----------------------------------------------------------------------------
\* The hashpower whose indexes tell where the keys of a bucket belong.
Basis(m, b) == IF m.locks[LockInd(b)].migrated THEN m.hp ELSE m.hp - 1

\* The keys of a map are those of C, where their bucket has them, and each is
\* in one slot.
AtHome(m, C) ==
    \A b \in DOMAIN m.slots, i \in SlotIds : m.slots[b][i] # Empty =>
        m.slots[b][i] \in C /\ b \in Homes(m.slots[b][i], Basis(m, b))
Stored(m, C) == \A k \in C : \E b \in DOMAIN m.slots, i \in SlotIds : m.slots[b][i] = k
OneSlotEach(m) ==
    \A b, c \in DOMAIN m.slots, i, j \in SlotIds :
        m.slots[b][i] = m.slots[c][j] /\ m.slots[b][i] # Empty => b = c /\ i = j
Holds(m, C) == AtHome(m, C) /\ Stored(m, C) /\ OneSlotEach(m)

\* A worker that copies has copied the buckets it has passed.
CopyOK ==
    doing = "copy" =>
        /\ arg <= temp.hp /\ (temp.hp = arg => AllMigrated(temp))
        /\ KeysOf(temp) \subseteq content /\ Holds(temp, KeysOf(temp))
        /\ \A b \in handled, i \in SlotIds :
              map.slots[b][i] # Empty => map.slots[b][i] \in KeysOf(temp)

\* The keys from a position on: those an iterator at it has yet to meet.
AheadOf(m, p) == {KeyAt(m, q) : q \in {x \in Occupied(m) : x >= p}}

IterOK == it # None => visited \cup AheadOf(map, it) = content /\ visited \cap AheadOf(map, it) = {}

DataInv ==
    /\ Holds(map, content)
    /\ handle /\ doing \notin {"lock_all", "settle", "spread", "unlock"} => AllMigrated(map)
    /\ CopyOK /\ IterOK

\* A new map into which rehash of the handle copies the keys keeps its size.
NewMapsKeepTheirSize == doing = "copy" /\ handle => temp.hp = arg

\* A set of numbers that is not empty has a least element.
LEMMA Least == ASSUME NEW S \in SUBSET Nat, S # {} PROVE \E x \in S : \A y \in S : x <= y
  <1>1. PICK x \in S : \A y \in S : ~(<<y, x>> \in OpToRel(<, Nat))
    BY NatLessThanWellFounded, WFMin
  <1>2. \A y \in S : x <= y
    <2> SUFFICES ASSUME NEW y \in S, y < x PROVE FALSE
      OBVIOUS
    <2>1. <<y, x>> \in Nat \X Nat /\ <<y, x>>[1] < <<y, x>>[2]
      OBVIOUS
    <2>2. <<y, x>> \in OpToRel(<, Nat)
      BY <2>1 DEF OpToRel
    <2> QED BY <1>1, <2>2
  <1> QED BY <1>2

\* Min of FiniteSetsExt is that element.
LEMMA MinIsLeast ==
    ASSUME NEW S \in SUBSET Nat, S # {}
    PROVE  Min(S) \in S /\ \A y \in S : Min(S) <= y
  <1>1. \E x \in S : \A y \in S : x <= y
    BY Least
  <1> QED BY <1>1 DEF Min

\* A set of numbers below a bound has a greatest element.
LEMMA Greatest ==
    ASSUME NEW n \in Nat, NEW S \in SUBSET (0..n - 1), S # {}
    PROVE  \E x \in S : \A y \in S : y <= x
  <1> DEFINE D == {n - x : x \in S}
  <1>1. \A x \in S : n - x \in Nat /\ n - x \in D
    OBVIOUS
  <1>2. D \in SUBSET Nat /\ D # {}
    BY <1>1
  <1>3. PICK d \in D : \A e \in D : d <= e
    BY <1>2, Least
  <1>4. PICK x \in S : d = n - x
    OBVIOUS
  <1>5. \A y \in S : n - x <= n - y
    BY <1>3, <1>4
  <1> QED BY <1>5

\* The remainder is the only one.
LEMMA Remainder ==
    ASSUME NEW m \in Nat \ {0}, NEW q \in Int, NEW r \in 0..m - 1, NEW a \in Nat, a = m * q + r
    PROVE  a % m = r
  <1> DEFINE p == a \div m
  <1>1. a % m \in 0..m - 1 /\ p \in Int /\ a = m * p + (a % m)
    OBVIOUS
  <1> HIDE DEF p
  <1>2. m * (q - p) = (a % m) - r
    BY <1>1
  <1>3. \A d \in Int : d >= 1 => m * d >= m
    OBVIOUS
  <1>4. \A d \in Int : d <= -1 => m * d <= -m
    OBVIOUS
  <1>5. q - p \in Int /\ ~(q - p >= 1) /\ ~(q - p <= -1)
    BY <1>1, <1>2, <1>3, <1>4
  <1>6. q = p
    BY <1>1, <1>5
  <1> QED BY <1>1, <1>6

LEMMA ModSmall ==
    ASSUME NEW m \in Nat \ {0}, NEW a \in 0..m - 1
    PROVE  a % m = a
  BY Remainder, a = m * 0 + a

LEMMA ModAddMultiple ==
    ASSUME NEW m \in Nat \ {0}, NEW a \in Nat, NEW k \in Nat
    PROVE  (a + m * k) % m = a % m
  <1> DEFINE q == a \div m
             r == a % m
  <1>1. q \in Int /\ r \in 0..m - 1 /\ a = m * q + r
    OBVIOUS
  <1> HIDE DEF q, r
  <1>2. a + m * k = m * (q + k) + r
    BY <1>1
  <1>3. a + m * k \in Nat
    OBVIOUS
  <1>4. (a + m * k) % m = r
    BY <1>1, <1>2, <1>3, Remainder
  <1> QED BY <1>4 DEF r

\* One more bit of a number.
LEMMA ModDouble ==
    ASSUME NEW m \in Nat \ {0}, NEW a \in Nat
    PROVE  a % (2 * m) \in {a % m, (a % m) + m}
  <1> DEFINE q == a \div (2 * m)
             r == a % (2 * m)
  <1>1. 2 * m \in Nat \ {0}
    OBVIOUS
  <1>2. q \in Int /\ r \in 0..2 * m - 1 /\ a = (2 * m) * q + r
    <2> DEFINE M == 2 * m
    <2>1. \A M_ \in Nat \ {0} : a \div M_ \in Int /\ a % M_ \in 0..M_ - 1 /\ a = M_ * (a \div M_) + (a % M_)
      OBVIOUS
    <2> QED BY <1>1, <2>1
  <1> HIDE DEF q, r
  <1>3. CASE r < m
    <2>1. a = m * (2 * q) + r
      BY <1>2
    <2>2. a % m = r
      BY <1>2, <1>3, <2>1, Remainder
    <2> QED BY <2>2 DEF r
  <1>4. CASE r >= m
    <2>1. a = m * (2 * q + 1) + (r - m) /\ 2 * q + 1 \in Int /\ r - m \in 0..m - 1
      BY <1>2, <1>4
    <2> DEFINE p == 2 * q + 1
             s == r - m
    <2>2. p \in Int /\ s \in 0..m - 1 /\ a = m * p + s
      BY <2>1
    <2> HIDE DEF p, s
    <2>3. a % m = s
      BY <2>2, Remainder
    <2> USE DEF s
    <2>4. r = (a % m) + m
      BY <1>2, <2>3
    <2> QED BY <2>4 DEF r
  <1> QED BY <1>2, <1>3, <1>4

-----------------------------------------------------------------------------
\* The sizes are multiples of one another.
MaxPow == HpBound + LockPow + 1

LEMMA PowersDivide ==
    ASSUME NEW m \in 0..MaxPow, NEW n \in m..MaxPow
    PROVE  /\ HashSize(m) \in Nat \ {0}
           /\ \E k \in Nat \ {0} : HashSize(n) = HashSize(m) * k
  <1> USE TableAssumption
  <1> DEFINE Bad == {i \in 0..MaxPow : ~(HashSize(i) \in Nat \ {0})}
  <1>1. MaxPow \in Nat /\ \A i \in 0..MaxPow : i # 0 => i - 1 \in 0..HpBound + LockPow /\ i - 1 + 1 = i
    BY DEF MaxPow
  <1>2. Bad = {}
    <2> SUFFICES ASSUME Bad # {} PROVE FALSE
      OBVIOUS
    <2>1. Bad \in SUBSET Nat /\ Bad # {}
      OBVIOUS
    <2>2. PICK i \in Bad : \A j \in Bad : i <= j
      <3> HIDE DEF Bad
      <3> QED BY <2>1, Least
    <2>3. i # 0
      BY PowerAssumption
    <2>4. i - 1 \in 0..MaxPow /\ i - 1 \notin Bad
      BY <1>1, <2>2, <2>3
    <2>5. HashSize(i) = 2 * HashSize(i - 1)
      BY <1>1, <2>3, PowerAssumption
    <2> QED BY <2>4, <2>5
  <1>3. \A i \in 0..MaxPow : HashSize(i) \in Nat \ {0}
    BY <1>2
  <1> DEFINE Odd == {i \in m..MaxPow : ~\E k \in Nat \ {0} : HashSize(i) = HashSize(m) * k}
  <1>4. Odd = {}
    <2> SUFFICES ASSUME Odd # {} PROVE FALSE
      OBVIOUS
    <2>1. Odd \in SUBSET Nat /\ Odd # {}
      OBVIOUS
    <2>2. PICK i \in Odd : \A j \in Odd : i <= j
      <3> HIDE DEF Odd
      <3> QED BY <2>1, Least
    <2>3. i # m
      <3> SUFFICES ASSUME i = m PROVE FALSE
        OBVIOUS
      <3>1. HashSize(m) = HashSize(m) * 1
        BY <1>3
      <3> QED BY <2>2, <3>1
    <2>4. i - 1 \in m..MaxPow /\ i - 1 \notin Odd
      BY <1>1, <2>2, <2>3
    <2>5. PICK k \in Nat \ {0} : HashSize(i - 1) = HashSize(m) * k
      BY <2>4
    <2>6. HashSize(i) = 2 * HashSize(i - 1)
      BY <1>1, <2>3, PowerAssumption
    <2>7. HashSize(i) = HashSize(m) * (2 * k) /\ 2 * k \in Nat \ {0}
      BY <1>3, <2>5, <2>6
    <2> QED BY <2>2, <2>7
  <1> QED BY <1>3, <1>4

LEMMA SizeNat == \A n \in 0..HpBound + LockPow + 1 : HashSize(n) \in Nat \ {0}
  BY TableAssumption, PowersDivide DEF MaxPow

LEMMA SizeMonotone ==
    ASSUME NEW n \in 0..HpBound + LockPow + 1, NEW m \in 0..n
    PROVE  HashSize(m) <= HashSize(n)
  <1>1. PICK k \in Nat \ {0} : HashSize(n) = HashSize(m) * k
    BY TableAssumption, PowersDivide DEF MaxPow
  <1>2. \A a \in Nat, b \in Nat \ {0} : a <= a * b
    OBVIOUS
  <1>3. HashSize(m) \in Nat
    BY TableAssumption, SizeNat
  <1> QED BY <1>1, <1>2, <1>3

LEMMA SizeDoubles ==
    ASSUME NEW n \in 0..HpBound
    PROVE  HashSize(n + 1) = 2 * HashSize(n)
  BY TableAssumption, PowerAssumption

\* The buckets of a key exist.
LEMMA HomesAreBuckets ==
    ASSUME NEW k \in Keys, NEW h \in 0..HpBound
    PROVE  /\ I1(k, h) \in Buckets(h) /\ I2(k, h) \in Buckets(h)
           /\ Homes(k, h) \subseteq Buckets(h)
  <1>1. HashSize(h) \in Nat \ {0} /\ Hash[k] \in Nat /\ Alt[k] \in Nat
    BY TableAssumption, SizeNat
  <1>2. \A a \in Nat, m \in Nat \ {0} : a % m \in 0..m - 1
    OBVIOUS
  <1> QED BY <1>1, <1>2 DEF I1, I2, Homes, Buckets

LEMMA OtherIsHome ==
    ASSUME NEW k, NEW b, NEW h PROVE Other(k, b, h) \in Homes(k, h)
  BY DEF Other, Homes

\* A smaller table has fewer buckets.
LEMMA HomesMonotone ==
    ASSUME NEW n \in 0..HpBound, NEW m \in 0..n PROVE Buckets(m) \subseteq Buckets(n)
  <1>1. HashSize(m) <= HashSize(n) /\ HashSize(m) \in Nat /\ HashSize(n) \in Nat
    BY TableAssumption, SizeMonotone, SizeNat
  <1> QED BY <1>1 DEF Buckets

\* The number of locks, and the lock of a bucket.
LEMMA NumLocksFacts ==
    ASSUME NEW n \in 0..HpBound
    PROVE  /\ NumLocks(n) \in Nat \ {0}
           /\ NumLocks(n + 1) \in Nat \ {0}
           /\ NumLocks(n) <= NumLocks(n + 1)
           /\ \A m \in 0..n : NumLocks(m) <= NumLocks(n)
           /\ n >= LockPow => NumLocks(n + 1) = NumLocks(n)
  <1> USE TableAssumption
  <1>1. \A m \in 0..HpBound + 1 : NumLocks(m) \in Nat \ {0}
    BY SizeNat DEF NumLocks
  <1>2. \A i \in 0..HpBound + 1, m \in 0..HpBound + 1 : m <= i => NumLocks(m) <= NumLocks(i)
    BY SizeMonotone DEF NumLocks
  <1>3. n >= LockPow => NumLocks(n + 1) = NumLocks(n)
    <2> HAVE n >= LockPow
    <2>1. ~(n < LockPow) /\ ~(n + 1 < LockPow)
      OBVIOUS
    <2> QED BY <2>1 DEF NumLocks
  <1> QED BY <1>1, <1>2, <1>3

LEMMA LockIndRange ==
    ASSUME NEW n \in 0..HpBound, NEW b \in Buckets(n)
    PROVE  LockInd(b) \in 0..NumLocks(n) - 1
  <1> USE TableAssumption
  <1>1. HashSize(n) \in Nat \ {0} /\ HashSize(LockPow) \in Nat \ {0}
    BY SizeNat
  <1>2. \A a \in Nat, m \in Nat \ {0} : a % m \in 0..m - 1
    OBVIOUS
  <1>3. \A a \in Nat, m \in Nat \ {0} : a % m <= a
    OBVIOUS
  <1>4. b \in Nat /\ b < HashSize(n)
    BY <1>1 DEF Buckets
  <1>5. LockInd(b) \in 0..HashSize(LockPow) - 1 /\ LockInd(b) <= b
    BY <1>1, <1>2, <1>3, <1>4 DEF LockInd
  <1>6. CASE n < LockPow
    BY <1>1, <1>4, <1>5, <1>6 DEF NumLocks
  <1>7. CASE ~(n < LockPow)
    BY <1>1, <1>4, <1>5, <1>7 DEF NumLocks
  <1> QED BY <1>6, <1>7

\* Doubling: a key keeps its buckets or goes to the same ones of the new half,
\* and the lock of a bucket stays the same when there are all locks.
LEMMA DoubledHome ==
    ASSUME NEW k \in Keys, NEW h \in 0..HpBound
    PROVE  /\ I1(k, h + 1) \in {I1(k, h), I1(k, h) + HashSize(h)}
           /\ I2(k, h + 1) \in {I2(k, h), I2(k, h) + HashSize(h)}
  <1>1. Hash[k] \in Nat /\ Alt[k] \in Nat /\ HashSize(h) \in Nat \ {0}
    BY TableAssumption, SizeNat
  <1>2. HashSize(h + 1) = 2 * HashSize(h)
    BY SizeDoubles
  <1>3. \A a \in Nat : a % (2 * HashSize(h)) \in {a % HashSize(h), (a % HashSize(h)) + HashSize(h)}
    BY <1>1, ModDouble
  <1> QED BY <1>1, <1>2, <1>3 DEF I1, I2

LEMMA DoubledLock ==
    ASSUME NEW h \in LockPow..HpBound, NEW b \in Nat
    PROVE  LockInd(b + HashSize(h)) = LockInd(b)
  <1> USE TableAssumption
  <1>1. PICK k \in Nat \ {0} : HashSize(h) = HashSize(LockPow) * k
    BY PowersDivide DEF MaxPow
  <1>2. HashSize(LockPow) \in Nat \ {0}
    BY SizeNat
  <1> QED BY <1>1, <1>2, ModAddMultiple DEF LockInd

-----------------------------------------------------------------------------
\* The slots of a bucket are finitely many.
LEMMA SlotSets ==
    /\ SlotIds = 1..Slots /\ Slots \in Nat
    /\ \A S \in SUBSET SlotIds : IsFiniteSet(S) /\ Cardinality(S) \in Nat
  <1>1. Slots \in Nat /\ SlotIds = 1..Slots
    BY TableAssumption DEF SlotIds
  <1>2. IsFiniteSet(1..Slots)
    BY <1>1, FS_Interval
  <1>3. \A S \in SUBSET SlotIds : IsFiniteSet(S)
    BY <1>1, <1>2, FS_Subset
  <1> QED BY <1>1, <1>3, FS_CardinalityType

\* The j-th slot of a set of slots is one of them, and j of them are not above it.
LEMMA NthSlot ==
    ASSUME NEW S \in SUBSET SlotIds, NEW j \in 1..Cardinality(S)
    PROVE  Nth(S, j) \in S /\ Cardinality({x \in S : x <= Nth(S, j)}) = j
  <1> DEFINE Upto(i) == {x \in S : x <= i}
             Enough == {i \in 0..Slots : Cardinality(Upto(i)) >= j}
  <1>1. Slots \in Nat /\ S \in SUBSET (1..Slots) /\ Cardinality(S) \in Nat /\ IsFiniteSet(S)
    BY SlotSets
  <1>2. \A i : IsFiniteSet(Upto(i)) /\ Cardinality(Upto(i)) \in Nat
    <2>1. \A i : Upto(i) \in SUBSET SlotIds
      OBVIOUS
    <2> HIDE DEF Upto
    <2> QED BY <2>1, SlotSets
  <1>3. Upto(0) = {} /\ Upto(Slots) = S
    <2>1. \A x \in S : x \in Nat /\ ~(x <= 0) /\ x <= Slots
      BY <1>1
    <2> QED BY <2>1
  <1>4. \A i \in 0..Slots : i # 0 => IF i \in S THEN Upto(i) = Upto(i - 1) \cup {i} /\ i \notin Upto(i - 1)
                                              ELSE Upto(i) = Upto(i - 1)
    <2> SUFFICES ASSUME NEW i \in 0..Slots, i # 0
                 PROVE IF i \in S THEN Upto(i) = Upto(i - 1) \cup {i} /\ i \notin Upto(i - 1)
                                  ELSE Upto(i) = Upto(i - 1)
      OBVIOUS
    <2>1. i \in Nat /\ i <= i /\ ~(i <= i - 1) /\ \A x \in S : (x <= i <=> x <= i - 1 \/ x = i)
      BY <1>1
    <2> QED BY <2>1
  <1>5. \A i : Upto(i) \in SUBSET S
    OBVIOUS
  <1> HIDE DEF Upto
  <1>6. Enough \in SUBSET Nat /\ Slots \in Enough
    BY <1>1, <1>3
  <1>7. PICK i \in Enough : \A n \in Enough : i <= n
    <2> HIDE DEF Enough
    <2> QED BY <1>6, Least
  <1>8. i # 0
    <2>1. Cardinality(Upto(0)) = 0
      BY <1>3, FS_EmptySet
    <2> QED BY <1>1, <1>7, <2>1
  <1>9. i - 1 \in 0..Slots /\ Cardinality(Upto(i - 1)) < j
    BY <1>1, <1>2, <1>7, <1>8
  <1>10. i \in S
    BY <1>1, <1>2, <1>4, <1>7, <1>8, <1>9
  <1>11. Upto(i) = Upto(i - 1) \cup {i} /\ i \notin Upto(i - 1)
    BY <1>4, <1>7, <1>8, <1>10
  <1>12. Cardinality(Upto(i)) = Cardinality(Upto(i - 1)) + 1
    BY <1>2, <1>11, FS_AddElement
  <1>13. Cardinality(Upto(i)) = j
    BY <1>1, <1>2, <1>7, <1>9, <1>12
  <1> USE DEF Upto
  <1> QED BY <1>10, <1>13 DEF Nth

\* Every slot of a set is the j-th one for one j.
LEMMA SlotNth ==
    ASSUME NEW S \in SUBSET SlotIds, NEW i \in S
    PROVE  \E j \in 1..Cardinality(S) : Nth(S, j) = i
  <1> DEFINE Upto(x) == {y \in S : y <= x}
             j == Cardinality(Upto(i))
  <1>1. /\ S \subseteq Nat /\ IsFiniteSet(S) /\ Cardinality(S) \in Nat
        /\ \A x : IsFiniteSet(Upto(x)) /\ Cardinality(Upto(x)) \in Nat
                  /\ Cardinality(Upto(x)) <= Cardinality(S)
    <2>1. S \subseteq Nat /\ IsFiniteSet(S) /\ Cardinality(S) \in Nat
      BY SlotSets
    <2>2. \A x : Upto(x) \in SUBSET S
      OBVIOUS
    <2> HIDE DEF Upto
    <2>3. \A T \in SUBSET S : IsFiniteSet(T) /\ Cardinality(T) \in Nat /\ Cardinality(T) <= Cardinality(S)
      BY <2>1, FS_Subset, FS_CardinalityType
    <2> QED BY <2>1, <2>2, <2>3
  <1>2. \A x, y \in S : x < y => Upto(x) \in SUBSET Upto(y) /\ y \in Upto(y) /\ y \notin Upto(x)
    <2>1. \A x \in S : x \in Nat
      BY <1>1
    <2> QED BY <2>1
  <1>3. i \in Upto(i)
    BY <1>1
  <1> HIDE DEF Upto
  <1>4. \A x, y \in S : x < y => Cardinality(Upto(x)) # Cardinality(Upto(y))
    BY <1>1, <1>2, FS_Subset
  <1>5. j # 0
    BY <1>1, <1>3, FS_EmptySet
  <1>6. j \in 1..Cardinality(S)
    BY <1>1, <1>5
  <1> HIDE DEF j
  <1>7. Nth(S, j) \in S /\ Cardinality(Upto(Nth(S, j))) = j
    BY <1>6, NthSlot DEF Upto
  <1>8. Cardinality(Upto(i)) = j
    BY DEF j
  <1>9. Nth(S, j) = i
    <2>1. PICK x : x = Nth(S, j)
      OBVIOUS
    <2>2. x \in S /\ x \in Nat /\ i \in Nat /\ Cardinality(Upto(x)) = Cardinality(Upto(i))
      BY <1>1, <1>7, <1>8, <2>1
    <2>3. ~(x < i) /\ ~(i < x)
      BY <1>4, <2>2
    <2> QED BY <2>1, <2>2, <2>3
  <1> QED BY <1>6, <1>9

\* The greatest of some slots.
LEMMA MaxSlot ==
    ASSUME NEW S \in SUBSET SlotIds, S # {}
    PROVE  Max(S) \in S
  <1>1. Slots + 1 \in Nat /\ S \in SUBSET (0..(Slots + 1) - 1)
    BY SlotSets
  <1>2. \E x \in S : \A y \in S : y <= x
    BY <1>1, Greatest
  <1>3. \A x, y \in S : y <= x <=> x >= y
    BY <1>1
  <1> QED BY <1>2, <1>3 DEF Max

LEMMA MinSlot ==
    ASSUME NEW S \in SUBSET SlotIds, S # {}
    PROVE  Min(S) \in S
  <1>1. S \in SUBSET Nat
    BY SlotSets
  <1> QED BY <1>1, MinIsLeast

-----------------------------------------------------------------------------
\* The parts of a map.
LEMMA MapParts ==
    ASSUME NEW m, IsMap(m)
    PROVE  /\ m.hp \in 0..HpBound /\ m.slots \in [Buckets(m.hp) -> Rows] /\ DOMAIN m.slots = Buckets(m.hp)
           /\ m.locks \in [LockIds(m) -> LockRecords] /\ LockIds(m) = 0..NumLocks(m.hp) - 1
           /\ LockIds(m) # {} /\ 0 \in LockIds(m) /\ NumLocks(m.hp) \in Nat \ {0}
           /\ Cardinality(LockIds(m)) = NumLocks(m.hp)
           /\ \A b \in Buckets(m.hp) : m.slots[b] \in Rows /\ b \in Nat /\ LockInd(b) \in LockIds(m)
           /\ \A b \in Buckets(m.hp), i \in SlotIds : m.slots[b][i] \in Keys \cup {Empty}
           /\ m = [hp |-> m.hp, slots |-> m.slots, locks |-> m.locks]
  <1>1. m.hp \in 0..HpBound /\ m \in Maps(m.hp)
    BY DEF IsMap
  <1>2. /\ m.slots \in [Buckets(m.hp) -> Rows] /\ m.locks \in [0..NumLocks(m.hp) - 1 -> LockRecords]
        /\ m = [hp |-> m.hp, slots |-> m.slots, locks |-> m.locks]
    BY <1>1 DEF Maps
  <1>3. NumLocks(m.hp) \in Nat \ {0}
    BY <1>1, NumLocksFacts
  <1>4. LockIds(m) = 0..NumLocks(m.hp) - 1
    BY <1>2 DEF LockIds
  <1>5. 0 \in LockIds(m)
    BY <1>3, <1>4
  <1>6. Cardinality(LockIds(m)) = NumLocks(m.hp)
    <2>1. Cardinality(0..NumLocks(m.hp) - 1) = NumLocks(m.hp)
      BY <1>3, FS_Interval
    <2> QED BY <1>4, <2>1
  <1>7. \A b \in Buckets(m.hp) : b \in Nat /\ LockInd(b) \in LockIds(m)
    <2>1. HashSize(m.hp) \in Nat
      BY <1>1, SizeNat, TableAssumption
    <2> QED BY <1>1, <1>4, <2>1, LockIndRange DEF Buckets
  <1>8. \A b \in Buckets(m.hp), i \in SlotIds : m.slots[b] \in Rows /\ m.slots[b][i] \in Keys \cup {Empty}
    BY <1>2 DEF Rows
  <1> QED BY <1>1, <1>2, <1>3, <1>4, <1>5, <1>6, <1>7, <1>8

LEMMA MapMade ==
    ASSUME NEW h \in 0..HpBound, NEW s \in [Buckets(h) -> Rows],
           NEW L \in [0..NumLocks(h) - 1 -> LockRecords],
           NEW m, m = [hp |-> h, slots |-> s, locks |-> L]
    PROVE  IsMap(m) /\ m.hp = h /\ m.slots = s /\ m.locks = L /\ LockIds(m) = 0..NumLocks(h) - 1
  <1>1. m.hp = h /\ m.slots = s /\ m.locks = L /\ m \in Maps(h)
    BY DEF Maps
  <1> QED BY <1>1 DEF IsMap, LockIds

-----------------------------------------------------------------------------
\* Keys that move_bucket leaves or moves are where the doubled table has them.
LEMMA StaysOrMoves ==
    ASSUME NEW k \in Keys, NEW h \in 0..HpBound, NEW b \in Homes(k, h)
    PROVE  IF NeedToMove(k, b, h) THEN b + HashSize(h) \in Homes(k, h + 1)
                                  ELSE b \in Homes(k, h + 1)
  <1>1. /\ I1(k, h + 1) \in {I1(k, h), I1(k, h) + HashSize(h)}
        /\ I2(k, h + 1) \in {I2(k, h), I2(k, h) + HashSize(h)}
    BY DoubledHome
  <1> QED BY <1>1 DEF NeedToMove, Homes

\* Where what lies in a slot comes from.
Came(m, B, c, j) ==
    LET o == c - HashSize(m.hp - 1)
        S == Moving(m, o)
    IN  /\ o \in B /\ j \in 1..Cardinality(S)
        /\ MoveBuckets(m, B).slots[c][j] = m.slots[o][Nth(S, j)]
        /\ Nth(S, j) \in S /\ m.slots[o][Nth(S, j)] # Empty
        /\ NeedToMove(m.slots[o][Nth(S, j)], o, m.hp - 1)

Stayed(m, B, c, j) ==
    /\ MoveBuckets(m, B).slots[c][j] = m.slots[c][j]
    /\ c \in B /\ m.slots[c][j] # Empty => ~NeedToMove(m.slots[c][j], c, m.hp - 1)

LEMMA MovingSlots ==
    ASSUME NEW m, NEW b
    PROVE  /\ Moving(m, b) \in SUBSET SlotIds /\ Cardinality(Moving(m, b)) \in Nat
           /\ \A i \in Moving(m, b) : m.slots[b][i] # Empty /\ NeedToMove(m.slots[b][i], b, m.hp - 1)
           /\ \A i \in SlotIds \ Moving(m, b) :
                 m.slots[b][i] # Empty => ~NeedToMove(m.slots[b][i], b, m.hp - 1)
  <1>1. Moving(m, b) \in SUBSET SlotIds
    BY DEF Moving
  <1>2. Cardinality(Moving(m, b)) \in Nat
    BY <1>1, SlotSets
  <1> QED BY <1>1, <1>2 DEF Moving

LEMMA MovedParts ==
    ASSUME NEW m, IsMap(m), m.hp # 0, NEW B \in SUBSET Buckets(m.hp - 1)
    PROVE  /\ MoveBuckets(m, B) = [hp |-> m.hp, slots |-> MoveBuckets(m, B).slots, locks |-> m.locks]
           /\ HashSize(m.hp - 1) \in Nat \ {0} /\ HashSize(m.hp) = 2 * HashSize(m.hp - 1)
           /\ B \subseteq Buckets(m.hp) /\ \A b \in B : b \in Nat /\ b + HashSize(m.hp - 1) \in Buckets(m.hp) \ B
           /\ \A c \in Buckets(m.hp) :
                 MoveBuckets(m, B).slots[c] = [j \in SlotIds |-> MoveBuckets(m, B).slots[c][j]]
           /\ DOMAIN MoveBuckets(m, B).slots = Buckets(m.hp)
           /\ \A c \in Buckets(m.hp), j \in SlotIds :
                 MoveBuckets(m, B).slots[c][j] =
                    CASE c \in B /\ j \in Moving(m, c) -> Empty
                      [] c - HashSize(m.hp - 1) \in B /\ j <= Cardinality(Moving(m, c - HashSize(m.hp - 1))) ->
                            m.slots[c - HashSize(m.hp - 1)][Nth(Moving(m, c - HashSize(m.hp - 1)), j)]
                      [] OTHER -> m.slots[c][j]
  <1> DEFINE N == HashSize(m.hp - 1)
             s == [c \in DOMAIN m.slots |-> [j \in SlotIds |->
                     CASE c \in B /\ j \in Moving(m, c) -> Empty
                       [] c - N \in B /\ j <= Cardinality(Moving(m, c - N)) ->
                             m.slots[c - N][Nth(Moving(m, c - N), j)]
                       [] OTHER -> m.slots[c][j]]]
  <1>1. /\ m.hp \in 0..HpBound /\ DOMAIN m.slots = Buckets(m.hp)
        /\ m = [hp |-> m.hp, slots |-> m.slots, locks |-> m.locks]
    BY MapParts
  <1>2. MoveBuckets(m, B) = [m EXCEPT !.slots = s]
    BY DEF MoveBuckets
  <1> HIDE DEF s
  <1>3. MoveBuckets(m, B) = [hp |-> m.hp, slots |-> s, locks |-> m.locks]
    BY <1>1, <1>2
  <1>4. MoveBuckets(m, B).slots = s
    BY <1>3
  <1>5. m.hp - 1 \in 0..HpBound /\ (m.hp - 1) + 1 = m.hp
    BY <1>1, TableAssumption
  <1>6. HashSize((m.hp - 1) + 1) = 2 * N /\ N \in Nat \ {0}
    BY <1>5, SizeNat, SizeDoubles, TableAssumption
  <1>7. HashSize(m.hp) = 2 * N
    BY <1>5, <1>6
  <1>8. Buckets(m.hp) = 0..2 * N - 1 /\ Buckets(m.hp - 1) = 0..N - 1
    BY <1>7 DEF Buckets
  <1>9. \A b \in B : b \in 0..N - 1
    BY <1>8
  <1> HIDE DEF N
  <1>10. \A b \in B : b \in Nat /\ b \in 0..2 * N - 1 /\ b + N \in 0..2 * N - 1 /\ b + N \notin B
    BY <1>6, <1>9
  <1> QED BY <1>1, <1>3, <1>4, <1>6, <1>7, <1>8, <1>10 DEF s, N

\* The slots that move_bucket frees, fills and leaves.
LEMMA MovedSlots ==
    ASSUME NEW m, IsMap(m), m.hp # 0, NEW B \in SUBSET Buckets(m.hp - 1)
    PROVE  \A c \in Buckets(m.hp), j \in SlotIds :
              MoveBuckets(m, B).slots[c][j] = Empty \/ Came(m, B, c, j) \/ Stayed(m, B, c, j)
  <1> SUFFICES ASSUME NEW c \in Buckets(m.hp), NEW j \in SlotIds
               PROVE  MoveBuckets(m, B).slots[c][j] = Empty \/ Came(m, B, c, j) \/ Stayed(m, B, c, j)
    OBVIOUS
  <1> DEFINE o == c - HashSize(m.hp - 1)
             S == Moving(m, o)
             x == MoveBuckets(m, B).slots[c][j]
  <1>1. x = CASE c \in B /\ j \in Moving(m, c) -> Empty
              [] o \in B /\ j <= Cardinality(S) -> m.slots[o][Nth(S, j)]
              [] OTHER -> m.slots[c][j]
    BY MovedParts
  <1>2. CASE c \in B /\ j \in Moving(m, c)
    <2>1. o \notin B
      <3>1. \A b \in B : b \in Nat /\ b + HashSize(m.hp - 1) \notin B
        BY MovedParts
      <3>2. HashSize(m.hp - 1) \in Nat /\ c \in Nat
        BY MovedParts, <1>2
      <3>3. o + HashSize(m.hp - 1) = c
        BY <3>2
      <3> QED BY <1>2, <3>1, <3>3
    <2>2. x = Empty
      <3> HIDE DEF x, o, S
      <3> QED BY <1>1, <1>2, <2>1
    <2> QED BY <2>2
  <1>3. CASE ~(c \in B /\ j \in Moving(m, c)) /\ o \in B /\ j <= Cardinality(S)
    <2>1. x = m.slots[o][Nth(S, j)]
      <3> HIDE DEF x, o, S
      <3> QED BY <1>1, <1>3
    <2>2. /\ S \in SUBSET SlotIds /\ Cardinality(S) \in Nat
          /\ \A i \in S : m.slots[o][i] # Empty /\ NeedToMove(m.slots[o][i], o, m.hp - 1)
      BY MovingSlots
    <2>3. j \in 1..Cardinality(S)
      BY <1>3, <2>2, SlotSets
    <2>4. Nth(S, j) \in S
      BY <2>2, <2>3, NthSlot
    <2> QED BY <1>3, <2>1, <2>2, <2>3, <2>4 DEF Came
  <1>4. CASE ~(c \in B /\ j \in Moving(m, c)) /\ ~(o \in B /\ j <= Cardinality(S))
    <2>1. x = m.slots[c][j]
      <3> HIDE DEF x, o, S
      <3> QED BY <1>1, <1>4
    <2>2. c \in B /\ m.slots[c][j] # Empty => ~NeedToMove(m.slots[c][j], c, m.hp - 1)
      BY <1>4, MovingSlots
    <2> QED BY <2>1, <2>2 DEF Stayed
  <1> QED BY <1>2, <1>3, <1>4

\* move_bucket leaves a map of the same size.
LEMMA MovedMap ==
    ASSUME NEW m, IsMap(m), m.hp # 0, NEW B \in SUBSET Buckets(m.hp - 1)
    PROVE  /\ MoveBuckets(m, B).slots \in [Buckets(m.hp) -> Rows]
           /\ IsMap(MoveBuckets(m, B)) /\ MoveBuckets(m, B).hp = m.hp
           /\ MoveBuckets(m, B).locks = m.locks
           /\ LockIds(MoveBuckets(m, B)) = LockIds(m)
  <1> DEFINE n == MoveBuckets(m, B)
  <1>1. \A b \in Buckets(m.hp), i \in SlotIds : m.slots[b][i] \in Keys \cup {Empty}
    BY MapParts
  <1>2. /\ n = [hp |-> m.hp, slots |-> n.slots, locks |-> m.locks]
        /\ \A c \in Buckets(m.hp) : n.slots[c] = [j \in SlotIds |-> n.slots[c][j]]
        /\ DOMAIN n.slots = Buckets(m.hp) /\ B \subseteq Buckets(m.hp)
    BY MovedParts
  <1>3. \A c \in Buckets(m.hp), j \in SlotIds : n.slots[c][j] \in Keys \cup {Empty}
    <2> SUFFICES ASSUME NEW c \in Buckets(m.hp), NEW j \in SlotIds
                 PROVE  n.slots[c][j] \in Keys \cup {Empty}
      OBVIOUS
    <2>1. CASE Came(m, B, c, j)
      <3> DEFINE o == c - HashSize(m.hp - 1)
                 i == Nth(Moving(m, o), j)
      <3>1. o \in B /\ n.slots[c][j] = m.slots[o][i] /\ i \in Moving(m, o)
        BY <2>1 DEF Came
      <3>2. i \in SlotIds
        BY <3>1, MovingSlots
      <3> QED BY <1>1, <1>2, <3>1, <3>2
    <2>2. CASE Stayed(m, B, c, j)
      BY <1>1, <2>2 DEF Stayed
    <2> QED BY <2>1, <2>2, MovedSlots
  <1>4. \A c \in Buckets(m.hp) : n.slots[c] \in Rows
    BY <1>2, <1>3 DEF Rows
  <1>5. n.slots = [c \in Buckets(m.hp) |-> n.slots[c]]
    <2>1. \E s : n = [m EXCEPT !.slots = [c \in DOMAIN m.slots |-> s[c]]]
      <3> DEFINE old(c) == c - HashSize(m.hp - 1)
                 s == [c \in DOMAIN m.slots |-> [j \in SlotIds |->
                         CASE c \in B /\ j \in Moving(m, c) -> Empty
                           [] old(c) \in B /\ j <= Cardinality(Moving(m, old(c))) ->
                                 m.slots[old(c)][Nth(Moving(m, old(c)), j)]
                           [] OTHER -> m.slots[c][j]]]
      <3>1. n = [m EXCEPT !.slots = s]
        BY DEF MoveBuckets
      <3>2. s = [c \in DOMAIN m.slots |-> s[c]]
        OBVIOUS
      <3> HIDE DEF s
      <3> QED BY <3>1, <3>2
    <2>2. PICK s : n = [m EXCEPT !.slots = [c \in DOMAIN m.slots |-> s[c]]]
      BY <2>1
    <2>3. m = [hp |-> m.hp, slots |-> m.slots, locks |-> m.locks] /\ DOMAIN m.slots = Buckets(m.hp)
      BY MapParts
    <2> HIDE DEF n
    <2>4. n.slots = [c \in Buckets(m.hp) |-> s[c]]
      BY <2>2, <2>3
    <2> QED BY <2>4
  <1> HIDE DEF n
  <1>6. n.slots \in [Buckets(m.hp) -> Rows]
    BY <1>4, <1>5
  <1>7. m.hp \in 0..HpBound /\ m.locks \in [0..NumLocks(m.hp) - 1 -> LockRecords]
        /\ LockIds(m) = 0..NumLocks(m.hp) - 1
    BY MapParts
  <1>8. IsMap(n) /\ n.hp = m.hp /\ n.locks = m.locks /\ LockIds(n) = 0..NumLocks(m.hp) - 1
    BY <1>2, <1>6, <1>7, MapMade
  <1> QED BY <1>6, <1>7, <1>8 DEF n

\* What move_bucket moves goes to slots that are free: the buckets of the new
\* half whose data have not been moved are empty.
RoomAbove(m, B) == \A b \in B, i \in SlotIds : m.slots[b + HashSize(m.hp - 1)][i] = Empty

LEMMA NoKeyIsLost ==
    ASSUME NEW m, IsMap(m), m.hp # 0, NEW B \in SUBSET Buckets(m.hp - 1), RoomAbove(m, B),
           NEW b \in Buckets(m.hp), NEW i \in SlotIds, m.slots[b][i] # Empty
    PROVE  \E c \in Buckets(m.hp), j \in SlotIds : MoveBuckets(m, B).slots[c][j] = m.slots[b][i]
  <1> DEFINE N == HashSize(m.hp - 1)
             n == MoveBuckets(m, B)
  <1>1. /\ N \in Nat /\ b \in Nat
        /\ \A x \in B : x \in Nat /\ x + N \in Buckets(m.hp) \ B
    BY MovedParts, MapParts
  <1>2. \A c \in Buckets(m.hp), j \in SlotIds :
           n.slots[c][j] = CASE c \in B /\ j \in Moving(m, c) -> Empty
              [] c - N \in B /\ j <= Cardinality(Moving(m, c - N)) ->
                   m.slots[c - N][Nth(Moving(m, c - N), j)]
              [] OTHER -> m.slots[c][j]
    BY MovedParts
  <1> HIDE DEF n, N
  <1>3. CASE b \in B /\ i \in Moving(m, b)
    <2>1. PICK j \in 1..Cardinality(Moving(m, b)) : Nth(Moving(m, b), j) = i
      BY <1>3, MovingSlots, SlotNth
    <2>2. j \in SlotIds /\ j <= Cardinality(Moving(m, b))
      <3>1. Moving(m, b) \in SUBSET SlotIds /\ Cardinality(Moving(m, b)) \in Nat
        BY MovingSlots
      <3>2. SlotIds = 1..Slots /\ Slots \in Nat /\ IsFiniteSet(SlotIds) /\ Cardinality(SlotIds) = Slots
        BY SlotSets, FS_Interval
      <3>3. Cardinality(Moving(m, b)) <= Slots
        BY <3>1, <3>2, FS_Subset
      <3> QED BY <3>1, <3>2, <3>3
    <2>3. b + N \in Buckets(m.hp) /\ b + N \notin B /\ (b + N) - N = b
      BY <1>1, <1>3
    <2>4. n.slots[b + N][j] = m.slots[b][Nth(Moving(m, b), j)]
      <3>1. n.slots[b + N][j] = CASE b + N \in B /\ j \in Moving(m, b + N) -> Empty
              [] b \in B /\ j <= Cardinality(Moving(m, b)) -> m.slots[b][Nth(Moving(m, b), j)]
              [] OTHER -> m.slots[b + N][j]
        BY <1>2, <2>2, <2>3
      <3> QED BY <1>3, <2>2, <2>3, <3>1
    <2> QED BY <2>1, <2>2, <2>3, <2>4 DEF n
  <1>4. CASE ~(b \in B /\ i \in Moving(m, b))
    <2>1. b - N \notin B
      <3> SUFFICES ASSUME b - N \in B PROVE FALSE
        OBVIOUS
      <3>1. (b - N) + N = b
        BY <1>1
      <3> QED BY <3>1 DEF RoomAbove, N
    <2>2. n.slots[b][i] = m.slots[b][i]
      BY <1>2, <1>4, <2>1
    <2> QED BY <2>2 DEF n
  <1> QED BY <1>3, <1>4

\* A slot that has a key after move_bucket has it from one slot of before.
LEMMA MovedOnce ==
    ASSUME NEW m, IsMap(m), m.hp # 0, NEW B \in SUBSET Buckets(m.hp - 1), OneSlotEach(m)
    PROVE  OneSlotEach(MoveBuckets(m, B))
  <1> DEFINE n == MoveBuckets(m, B)
             N == HashSize(m.hp - 1)
  <1>1. /\ N \in Nat /\ DOMAIN n.slots = Buckets(m.hp) /\ DOMAIN m.slots = Buckets(m.hp)
        /\ \A c \in Buckets(m.hp) : c \in Nat
    BY MovedParts, MapParts
  <1>2. \A c \in Buckets(m.hp), j \in SlotIds :
           n.slots[c][j] # Empty => Came(m, B, c, j) \/ Stayed(m, B, c, j)
    BY MovedSlots
  <1>3. \A b, c \in Buckets(m.hp), i, j \in SlotIds :
           m.slots[b][i] = m.slots[c][j] /\ m.slots[b][i] # Empty => b = c /\ i = j
    BY <1>1 DEF OneSlotEach
  <1>4. B \subseteq Buckets(m.hp)
    BY MovedParts
  <1> SUFFICES ASSUME NEW b \in Buckets(m.hp), NEW c \in Buckets(m.hp),
                      NEW i \in SlotIds, NEW j \in SlotIds,
                      n.slots[b][i] = n.slots[c][j], n.slots[b][i] # Empty
               PROVE  b = c /\ i = j
    BY <1>1 DEF OneSlotEach
  <1>5. ASSUME NEW d \in Buckets(m.hp), NEW e \in Buckets(m.hp), NEW x \in SlotIds, NEW y \in SlotIds,
               n.slots[d][x] = n.slots[e][y], n.slots[d][x] # Empty,
               Came(m, B, d, x), Stayed(m, B, e, y)
        PROVE  FALSE
    <2> DEFINE o == d - N
               s == Nth(Moving(m, o), x)
    <2>1. /\ o \in B /\ n.slots[d][x] = m.slots[o][s] /\ s \in Moving(m, o)
          /\ NeedToMove(m.slots[o][s], o, m.hp - 1)
      BY <1>5 DEF Came
    <2>2. s \in SlotIds
      BY <2>1, MovingSlots
    <2>3. /\ n.slots[e][y] = m.slots[e][y]
          /\ e \in B /\ m.slots[e][y] # Empty => ~NeedToMove(m.slots[e][y], e, m.hp - 1)
      BY <1>5 DEF Stayed
    <2> HIDE DEF o, s, n
    <2>4. m.slots[o][s] = m.slots[e][y] /\ m.slots[o][s] # Empty
      BY <1>5, <2>1, <2>3
    <2>5. o = e /\ s = y
      BY <1>3, <1>4, <2>1, <2>2, <2>4
    <2> QED BY <2>1, <2>3, <2>4, <2>5
  <1>6. CASE Came(m, B, b, i) /\ Came(m, B, c, j)
    <2> DEFINE o == b - N
               p == c - N
               s == Nth(Moving(m, o), i)
               t == Nth(Moving(m, p), j)
    <2>1. /\ o \in B /\ n.slots[b][i] = m.slots[o][s] /\ s \in Moving(m, o)
          /\ i \in 1..Cardinality(Moving(m, o))
          /\ p \in B /\ n.slots[c][j] = m.slots[p][t] /\ t \in Moving(m, p)
          /\ j \in 1..Cardinality(Moving(m, p))
      BY <1>6 DEF Came
    <2>2. s \in SlotIds /\ t \in SlotIds
      BY <2>1, MovingSlots
    <2>3. o = p /\ s = t
      <3> HIDE DEF o, p, s, t, n
      <3>1. m.slots[o][s] = m.slots[p][t] /\ m.slots[o][s] # Empty
        BY <2>1
      <3>2. o \in Buckets(m.hp) /\ p \in Buckets(m.hp)
        BY <1>4, <2>1
      <3> QED BY <1>3, <2>2, <3>1, <3>2
    <2>4. b = c
      BY <1>1, <2>3
    <2>5. Cardinality({x \in Moving(m, o) : x <= s}) = i
      BY <2>1, MovingSlots, NthSlot
    <2>6. Cardinality({x \in Moving(m, p) : x <= t}) = j
      BY <2>1, MovingSlots, NthSlot
    <2>7. i = j
      <3> HIDE DEF o, p, s, t
      <3> QED BY <2>3, <2>5, <2>6
    <2> QED BY <2>4, <2>7
  <1>7. CASE Stayed(m, B, b, i) /\ Stayed(m, B, c, j)
    <2>1. n.slots[b][i] = m.slots[b][i] /\ n.slots[c][j] = m.slots[c][j]
      BY <1>7 DEF Stayed
    <2> HIDE DEF n
    <2>2. m.slots[b][i] = m.slots[c][j] /\ m.slots[b][i] # Empty
      BY <2>1
    <2> QED BY <1>3, <2>2
  <1> QED
    <2> HIDE DEF n
    <2> QED BY <1>2, <1>5, <1>6, <1>7

-----------------------------------------------------------------------------
\* What calls that do not double the table leave of a map's size and locks.
Kept(m, n) ==
    /\ IsMap(n) /\ n.hp = m.hp /\ LockIds(n) = LockIds(m)
    /\ \A l \in LockIds(m) :
          /\ n.locks[l].held = m.locks[l].held
          /\ m.locks[l].migrated => n.locks[l].migrated

LEMMA KeptKeeps ==
    ASSUME NEW m, NEW n, IsMap(m), Kept(m, n)
    PROVE  /\ HeldLocks(n) = HeldLocks(m)
           /\ AllMigrated(m) => AllMigrated(n)
           /\ Settled(m) => Settled(n)
           /\ \A o : Kept(n, o) => Kept(m, o)
  <1>1. HeldLocks(n) = HeldLocks(m)
    BY DEF HeldLocks, Kept
  <1>2. AllMigrated(m) => AllMigrated(n)
    BY DEF AllMigrated, Kept
  <1>3. Settled(m) => Settled(n)
    BY <1>2 DEF Settled, Kept
  <1>4. \A o : Kept(n, o) => Kept(m, o)
    BY DEF Kept
  <1> QED BY <1>1, <1>2, <1>3, <1>4

\* A map with other slots, or with other counters.
LEMMA OtherSlots ==
    ASSUME NEW m, IsMap(m), NEW s \in [Buckets(m.hp) -> Rows]
    PROVE  LET n == [m EXCEPT !.slots = s]
           IN  Kept(m, n) /\ n.slots = s /\ n.locks = m.locks
  <1>1. m = [hp |-> m.hp, slots |-> m.slots, locks |-> m.locks] /\ m.hp \in 0..HpBound
        /\ m.locks \in [0..NumLocks(m.hp) - 1 -> LockRecords] /\ LockIds(m) = 0..NumLocks(m.hp) - 1
    BY MapParts
  <1> DEFINE n == [m EXCEPT !.slots = s]
  <1>2. n = [hp |-> m.hp, slots |-> s, locks |-> m.locks]
    BY <1>1
  <1> HIDE DEF n
  <1>3. IsMap(n) /\ n.hp = m.hp /\ n.slots = s /\ n.locks = m.locks /\ LockIds(n) = LockIds(m)
    BY <1>1, <1>2, MapMade
  <1> QED BY <1>3 DEF Kept, n

LEMMA OtherLocks ==
    ASSUME NEW m, IsMap(m), NEW L \in [LockIds(m) -> LockRecords],
           \A l \in LockIds(m) : /\ L[l].held = m.locks[l].held
                                 /\ m.locks[l].migrated => L[l].migrated
    PROVE  LET n == [m EXCEPT !.locks = L]
           IN  Kept(m, n) /\ n.slots = m.slots /\ n.locks = L
  <1>1. m = [hp |-> m.hp, slots |-> m.slots, locks |-> m.locks] /\ m.hp \in 0..HpBound
        /\ m.slots \in [Buckets(m.hp) -> Rows] /\ LockIds(m) = 0..NumLocks(m.hp) - 1
    BY MapParts
  <1> DEFINE n == [m EXCEPT !.locks = L]
  <1>2. n = [hp |-> m.hp, slots |-> m.slots, locks |-> L]
    BY <1>1
  <1> HIDE DEF n
  <1>3. IsMap(n) /\ n.hp = m.hp /\ n.slots = m.slots /\ n.locks = L /\ LockIds(n) = LockIds(m)
    BY <1>1, <1>2, MapMade
  <1> QED BY <1>3 DEF Kept, n

\* lock_and_rehash of some locks: they are migrated, nothing else is changed
\* but the slots of the buckets left to be moved.
Left(m, L) == {l \in L : ~m.locks[l].migrated}
LeftBuckets(m, L) == {b \in OldBuckets(m) : LockInd(b) \in Left(m, L)}

LEMMA TouchParts ==
    ASSUME NEW m, IsMap(m), Settled(m), NEW L \in SUBSET LockIds(m)
    PROVE  /\ Kept(m, Touch(m, L))
           /\ \A l \in LockIds(m) :
                 Touch(m, L).locks[l].migrated <=> m.locks[l].migrated \/ l \in L
           /\ Left(m, L) = {} => Touch(m, L) = m
           /\ Left(m, L) # {} =>
                 /\ m.hp # 0 /\ m.hp > LockPow /\ m.hp - 1 \in LockPow..HpBound
                 /\ LeftBuckets(m, L) \in SUBSET Buckets(m.hp - 1)
                 /\ Touch(m, L).slots = MoveBuckets(m, LeftBuckets(m, L)).slots
  <1>1. /\ m.hp \in 0..HpBound /\ m.locks \in [LockIds(m) -> LockRecords]
        /\ LockPow \in Nat /\ HpBound \in Nat
    BY MapParts, TableAssumption
  <1>2. CASE Left(m, L) = {}
    <2>1. Touch(m, L) = m
      BY <1>2 DEF Touch, Left
    <2>2. \A l \in L : m.locks[l].migrated
      BY <1>2 DEF Left
    <2> QED BY <1>2, <2>1, <2>2 DEF Kept
  <1>3. CASE Left(m, L) # {}
    <2> DEFINE B == LeftBuckets(m, L)
               n == MoveBuckets(m, B)
               K == [l \in LockIds(m) |-> [m.locks[l] EXCEPT !.migrated = @ \/ l \in L]]
               o == [n EXCEPT !.locks = K]
    <2>1. m.hp > LockPow
      BY <1>1, <1>3 DEF Settled, AllMigrated, Left
    <2>2. m.hp # 0 /\ m.hp - 1 \in LockPow..HpBound
      BY <1>1, <2>1
    <2>3. B \in SUBSET Buckets(m.hp - 1)
      BY DEF LeftBuckets, OldBuckets, Buckets
    <2>4. Touch(m, L) = o
      BY <1>3 DEF Touch, Left, LeftBuckets
    <2>5. IsMap(n) /\ n.hp = m.hp /\ n.locks = m.locks /\ LockIds(n) = LockIds(m)
      BY <2>2, <2>3, MovedMap
    <2>6. /\ K \in [LockIds(m) -> LockRecords]
          /\ \A l \in LockIds(m) : /\ K[l].held = m.locks[l].held
                                   /\ K[l].migrated <=> m.locks[l].migrated \/ l \in L
      BY <1>1 DEF LockRecords
    <2> HIDE DEF B, n, K
    <2>7. Kept(n, o) /\ o.slots = n.slots /\ o.locks = K
      BY <2>5, <2>6, OtherLocks
    <2>8. Kept(m, o)
      BY <2>5, <2>7 DEF Kept
    <2> QED BY <1>3, <2>1, <2>2, <2>3, <2>4, <2>6, <2>7, <2>8 DEF n, B
  <1> QED BY <1>2, <1>3

-----------------------------------------------------------------------------
\* double_size and maybe_resize_locks: the new buckets are empty, the new locks
\* held like the first one.
LEMMA GrownParts ==
    ASSUME NEW m, IsMap(m), m.hp < HpBound
    PROVE  /\ IsMap(Grown(m)) /\ Grown(m).hp = m.hp + 1 /\ LockIds(m) \subseteq LockIds(Grown(m))
           /\ m.hp >= LockPow => LockIds(Grown(m)) = LockIds(m)
           /\ \A l \in LockIds(Grown(m)) :
                 Grown(m).locks[l] = IF l \in LockIds(m) THEN m.locks[l]
                                     ELSE [held |-> m.locks[0].held, migrated |-> TRUE, count |-> 0]
           /\ Buckets(m.hp) \subseteq Buckets(m.hp + 1)
           /\ \A b \in Buckets(m.hp + 1) :
                 Grown(m).slots[b] = IF b \in Buckets(m.hp) THEN m.slots[b] ELSE [i \in SlotIds |-> Empty]
  <1> DEFINE h == m.hp + 1
             s == [b \in 0..HashSize(h) - 1 |->
                     IF b \in DOMAIN m.slots THEN m.slots[b] ELSE [i \in SlotIds |-> Empty]]
             K == [l \in 0..NumLocks(h) - 1 |->
                     IF l \in LockIds(m) THEN m.locks[l]
                     ELSE [held |-> m.locks[0].held, migrated |-> TRUE, count |-> 0]]
  <1>1. /\ m.hp \in 0..HpBound /\ HpBound \in Nat /\ DOMAIN m.slots = Buckets(m.hp)
        /\ m.slots \in [Buckets(m.hp) -> Rows] /\ m.locks \in [LockIds(m) -> LockRecords]
        /\ LockIds(m) = 0..NumLocks(m.hp) - 1 /\ 0 \in LockIds(m) /\ LockPow \in Nat
    BY MapParts, TableAssumption
  <1>2. h \in 0..HpBound /\ m.hp \in 0..h
    BY <1>1
  <1>3. /\ NumLocks(m.hp) \in Nat /\ NumLocks(h) \in Nat /\ NumLocks(m.hp) <= NumLocks(h)
        /\ m.hp >= LockPow => NumLocks(h) = NumLocks(m.hp)
    BY <1>1, NumLocksFacts
  <1>4. s \in [Buckets(h) -> Rows]
    <2>1. [i \in SlotIds |-> Empty] \in Rows
      BY DEF Rows
    <2> QED BY <1>1, <2>1 DEF Buckets
  <1>5. K \in [0..NumLocks(h) - 1 -> LockRecords]
    <2>1. m.locks[0].held \in BOOLEAN
      BY <1>1 DEF LockRecords
    <2>2. [held |-> m.locks[0].held, migrated |-> TRUE, count |-> 0] \in LockRecords
      BY <2>1 DEF LockRecords
    <2> QED BY <1>1, <2>2
  <1>6. Grown(m) = [hp |-> h, slots |-> s, locks |-> K]
    BY DEF Grown
  <1>7. Buckets(m.hp) \subseteq Buckets(h)
    BY <1>2, HomesMonotone
  <1>8. \A b \in Buckets(h) : s[b] = IF b \in Buckets(m.hp) THEN m.slots[b] ELSE [i \in SlotIds |-> Empty]
    BY <1>1 DEF Buckets
  <1>9. \A l \in 0..NumLocks(h) - 1 :
           K[l] = IF l \in LockIds(m) THEN m.locks[l]
                  ELSE [held |-> m.locks[0].held, migrated |-> TRUE, count |-> 0]
    OBVIOUS
  <1> HIDE DEF s, K
  <1>10. /\ IsMap(Grown(m)) /\ Grown(m).hp = h /\ Grown(m).slots = s /\ Grown(m).locks = K
         /\ LockIds(Grown(m)) = 0..NumLocks(h) - 1
    BY <1>2, <1>4, <1>5, <1>6, MapMade
  <1>11. LockIds(m) \subseteq LockIds(Grown(m)) /\ (m.hp >= LockPow => LockIds(Grown(m)) = LockIds(m))
    BY <1>1, <1>3, <1>10
  <1> QED BY <1>7, <1>8, <1>9, <1>10, <1>11

\* The eager half of a doubling changes slots and counters only.
LEMMA SpreadParts ==
    ASSUME NEW m, IsMap(m), m.hp # 0
    PROVE  /\ Kept(m, Spread(m)) /\ OldBuckets(m) \in SUBSET Buckets(m.hp - 1)
           /\ Spread(m).slots = MoveBuckets(m, OldBuckets(m)).slots
           /\ \A l \in LockIds(m) : Spread(m).locks[l].migrated = m.locks[l].migrated
  <1> DEFINE n == MoveBuckets(m, OldBuckets(m))
             gain(b) == Cardinality(FreeSlots(m, b)) - Cardinality(FreeSlots(n, b))
             K == [l \in LockIds(m) |-> [m.locks[l] EXCEPT !.count = @ + gain(l)]]
             o == [n EXCEPT !.locks = K]
  <1>1. OldBuckets(m) \in SUBSET Buckets(m.hp - 1)
    BY DEF OldBuckets, Buckets
  <1>2. IsMap(n) /\ n.hp = m.hp /\ n.locks = m.locks /\ LockIds(n) = LockIds(m)
    BY <1>1, MovedMap
  <1>3. Spread(m) = o
    BY DEF Spread
  <1>4. \A b : gain(b) \in Int
    <2>1. \A x, b : FreeSlots(x, b) \in SUBSET SlotIds
      BY DEF FreeSlots
    <2>2. \A x, b : Cardinality(FreeSlots(x, b)) \in Nat
      BY <2>1, SlotSets
    <2> QED BY <2>2
  <1> HIDE DEF gain, n
  <1>5. /\ K \in [LockIds(m) -> LockRecords]
        /\ \A l \in LockIds(m) : K[l].held = m.locks[l].held /\ K[l].migrated = m.locks[l].migrated
    <2>1. m.locks \in [LockIds(m) -> LockRecords]
      BY MapParts
    <2> QED BY <1>4, <2>1 DEF LockRecords
  <1> HIDE DEF K
  <1>6. Kept(n, o) /\ o.slots = n.slots /\ o.locks = K
    BY <1>2, <1>5, OtherLocks
  <1>7. Kept(m, o)
    BY <1>2, <1>6 DEF Kept
  <1> QED BY <1>1, <1>3, <1>5, <1>6, <1>7 DEF n

\* cuckoo_fast_double: all new locks are held or none.
LEMMA DoubledParts ==
    ASSUME NEW m, IsMap(m), Settled(m), m.hp < HpBound
    PROVE  /\ IsMap(Doubled(m)) /\ Doubled(m).hp = m.hp + 1 /\ Settled(Doubled(m))
           /\ HeldLocks(m) = {} => HeldLocks(Doubled(m)) = {}
           /\ HeldLocks(m) = LockIds(m) => HeldLocks(Doubled(m)) = LockIds(Doubled(m))
           /\ m.hp < LockPow => AllMigrated(Doubled(m))
           /\ m.hp >= LockPow =>
                 /\ Doubled(m).slots = Grown(m).slots /\ LockIds(Doubled(m)) = LockIds(m)
                 /\ \A l \in LockIds(m) : ~Doubled(m).locks[l].migrated
  <1> DEFINE g == Grown(m)
             d == Doubled(m)
  <1>1. /\ IsMap(g) /\ g.hp = m.hp + 1 /\ LockIds(m) \subseteq LockIds(g)
        /\ m.hp >= LockPow => LockIds(g) = LockIds(m)
        /\ \A l \in LockIds(g) :
              g.locks[l] = IF l \in LockIds(m) THEN m.locks[l]
                           ELSE [held |-> m.locks[0].held, migrated |-> TRUE, count |-> 0]
    BY GrownParts
  <1>2. m.hp \in 0..HpBound /\ 0 \in LockIds(m) /\ LockPow \in Nat /\ HpBound \in Nat
    BY MapParts, TableAssumption
  <1>3. \A l \in LockIds(g) :
           g.locks[l].held = m.locks[IF l \in LockIds(m) THEN l ELSE 0].held
    BY <1>1
  <1>4. /\ HeldLocks(m) = {} => HeldLocks(g) = {}
        /\ HeldLocks(m) = LockIds(m) => HeldLocks(g) = LockIds(g)
    BY <1>2, <1>3 DEF HeldLocks
  <1>5. CASE m.hp < LockPow
    <2>1. d = Spread(g)
      BY <1>5 DEF Doubled
    <2>2. Kept(g, d)
      BY <1>1, <1>2, <2>1, SpreadParts
    <2>3. AllMigrated(g)
      BY <1>1, <1>2, <1>5 DEF AllMigrated, Settled
    <2>4. HeldLocks(d) = HeldLocks(g) /\ AllMigrated(d) /\ LockIds(d) = LockIds(g) /\ d.hp = g.hp /\ IsMap(d)
      BY <1>1, <2>2, <2>3, KeptKeeps DEF Kept
    <2> QED BY <1>1, <1>2, <1>4, <1>5, <2>4 DEF Settled
  <1>6. CASE m.hp >= LockPow
    <2> DEFINE K == [l \in LockIds(g) |-> [g.locks[l] EXCEPT !.migrated = FALSE]]
    <2>1. d = [g EXCEPT !.locks = K]
      BY <1>2, <1>6 DEF Doubled
    <2>2. /\ g = [hp |-> g.hp, slots |-> g.slots, locks |-> g.locks]
          /\ g.hp \in 0..HpBound /\ g.slots \in [Buckets(g.hp) -> Rows]
          /\ g.locks \in [LockIds(g) -> LockRecords] /\ LockIds(g) = 0..NumLocks(g.hp) - 1
      BY <1>1, MapParts
    <2>3. /\ K \in [LockIds(g) -> LockRecords]
          /\ \A l \in LockIds(g) : K[l].held = g.locks[l].held /\ ~K[l].migrated
      BY <2>2 DEF LockRecords
    <2> HIDE DEF K, g, d
    <2>4. d = [hp |-> g.hp, slots |-> g.slots, locks |-> K]
      BY <2>1, <2>2
    <2>5. IsMap(d) /\ d.hp = g.hp /\ d.slots = g.slots /\ d.locks = K /\ LockIds(d) = LockIds(g)
      BY <2>2, <2>3, <2>4, MapMade
    <2>6. HeldLocks(d) = HeldLocks(g)
      BY <2>3, <2>5 DEF HeldLocks
    <2>7. Settled(d)
      BY <1>1, <1>2, <1>6, <2>5 DEF Settled
    <2> QED BY <1>1, <1>2, <1>4, <1>6, <2>3, <2>5, <2>6, <2>7 DEF d, g
  <1> QED BY <1>2, <1>5, <1>6

\* The end of the migration before a doubling.
LEMMA RehashAllParts ==
    ASSUME NEW m, IsMap(m), Settled(m)
    PROVE  /\ Kept(m, RehashAll(m)) /\ AllMigrated(RehashAll(m)) /\ Settled(RehashAll(m))
           /\ RehashAll(m) \in {m, Touch(m, LockIds(m))}
  <1>1. m.hp \in Nat /\ LockPow \in Nat
    BY MapParts, TableAssumption
  <1>2. CASE m.hp > LockPow
    <2>1. RehashAll(m) = Touch(m, LockIds(m))
      BY <1>2 DEF RehashAll
    <2>2. /\ Kept(m, Touch(m, LockIds(m)))
          /\ \A l \in LockIds(m) : Touch(m, LockIds(m)).locks[l].migrated
      BY TouchParts
    <2> QED BY <2>1, <2>2 DEF AllMigrated, Settled, Kept
  <1>3. CASE m.hp <= LockPow
    <2>1. RehashAll(m) = m
      BY <1>1, <1>3 DEF RehashAll
    <2> QED BY <1>3, <2>1 DEF Kept, Settled
  <1> QED BY <1>1, <1>2, <1>3

-----------------------------------------------------------------------------
\* A map that differs from another one in one slot, and in counters.
Changed(m, n, b, i, x) ==
    /\ Kept(m, n)
    /\ \A l \in LockIds(m) : n.locks[l].migrated = m.locks[l].migrated
    /\ \A c \in Buckets(m.hp), j \in SlotIds :
          n.slots[c][j] = IF c = b /\ j = i THEN x ELSE m.slots[c][j]

LEMMA ChangedSlot ==
    ASSUME NEW m, IsMap(m), NEW b \in Buckets(m.hp), NEW i \in SlotIds, NEW x \in Keys \cup {Empty},
           NEW l \in LockIds(m), NEW c \in Int
    PROVE  Changed(m, [m EXCEPT !.slots[b][i] = x, !.locks[l].count = c], b, i, x)
  <1> DEFINE s == [m.slots EXCEPT ![b][i] = x]
             K == [m.locks EXCEPT ![l].count = c]
             n == [m EXCEPT !.slots[b][i] = x, !.locks[l].count = c]
  <1>1. /\ m = [hp |-> m.hp, slots |-> m.slots, locks |-> m.locks] /\ m.hp \in 0..HpBound
        /\ m.slots \in [Buckets(m.hp) -> Rows] /\ LockIds(m) = 0..NumLocks(m.hp) - 1
        /\ m.locks \in [LockIds(m) -> LockRecords]
    BY MapParts
  <1>2. n = [hp |-> m.hp, slots |-> s, locks |-> K]
    <2>1. m = [hp |-> m.hp, slots |-> m.slots, locks |-> m.locks]
      BY <1>1
    <2> DEFINE o == [m EXCEPT !.slots = s]
    <2>2. o = [hp |-> m.hp, slots |-> s, locks |-> m.locks]
      BY <2>1
    <2>3. n = [o EXCEPT !.locks[l].count = c]
      OBVIOUS
    <2>4. n = [o EXCEPT !.locks = [o.locks EXCEPT ![l].count = c]]
      BY <2>3
    <2> HIDE DEF o, n, s
    <2> QED BY <2>2, <2>4
  <1>3. s \in [Buckets(m.hp) -> Rows]
    BY <1>1 DEF Rows
  <1>4. \A d \in Buckets(m.hp), j \in SlotIds : s[d][j] = IF d = b /\ j = i THEN x ELSE m.slots[d][j]
    BY <1>1 DEF Rows
  <1>5. K \in [LockIds(m) -> LockRecords]
    BY <1>1 DEF LockRecords
  <1>6. \A e \in LockIds(m) : K[e].held = m.locks[e].held /\ K[e].migrated = m.locks[e].migrated
    BY <1>1 DEF LockRecords
  <1> HIDE DEF n, s, K
  <1>7. IsMap(n) /\ n.hp = m.hp /\ n.slots = s /\ n.locks = K /\ LockIds(n) = LockIds(m)
    BY <1>1, <1>2, <1>3, <1>5, MapMade
  <1>8. Kept(m, n)
    BY <1>6, <1>7 DEF Kept
  <1>9. Changed(m, n, b, i, x)
    BY <1>4, <1>6, <1>7, <1>8 DEF Changed
  <1> QED BY <1>9 DEF n

LEMMA PutParts ==
    ASSUME NEW m, IsMap(m), NEW b \in Buckets(m.hp), NEW i \in SlotIds, NEW k \in Keys,
           NEW l \in LockIds(m)
    PROVE  Changed(m, Put(m, k, b, i, l), b, i, k)
  <1>1. m.locks[l].count + 1 \in Int
    BY MapParts DEF LockRecords
  <1> DEFINE o == [m EXCEPT !.slots[b][i] = k, !.locks[l].count = m.locks[l].count + 1]
  <1>2. Put(m, k, b, i, l) = o
    BY MapParts DEF Put
  <1>3. Changed(m, o, b, i, k)
    BY <1>1, ChangedSlot
  <1> HIDE DEF o
  <1> QED BY <1>2, <1>3

LEMMA TakenParts ==
    ASSUME NEW m, IsMap(m), NEW b \in Buckets(m.hp), NEW i \in SlotIds, NEW l \in LockIds(m)
    PROVE  Changed(m, [m EXCEPT !.slots[b][i] = Empty, !.locks[l].count = @ - 1], b, i, Empty)
  <1>1. m.locks[l].count - 1 \in Int
    BY MapParts DEF LockRecords
  <1> DEFINE n == [m EXCEPT !.slots[b][i] = Empty, !.locks[l].count = @ - 1]
             o == [m EXCEPT !.slots[b][i] = Empty, !.locks[l].count = m.locks[l].count - 1]
  <1>2. n = o
    BY MapParts
  <1>3. Changed(m, o, b, i, Empty)
    BY <1>1, ChangedSlot
  <1> HIDE DEF n, o
  <1>4. Changed(m, n, b, i, Empty)
    BY <1>2, <1>3
  <1> QED BY <1>4 DEF n

Shifted(m, n, b, i, d, j) ==
    /\ Kept(m, n)
    /\ \A l \in LockIds(m) : n.locks[l].migrated = m.locks[l].migrated
    /\ \A c \in Buckets(m.hp), e \in SlotIds :
          n.slots[c][e] = IF c = b /\ e = i THEN Empty
                          ELSE IF c = d /\ e = j THEN m.slots[b][i] ELSE m.slots[c][e]

LEMMA MovedKeyParts ==
    ASSUME NEW m, IsMap(m), NEW b \in Buckets(m.hp), NEW i \in SlotIds,
           NEW d \in Buckets(m.hp), NEW j \in SlotIds
    PROVE  Shifted(m, Moved(m, b, i, d, j), b, i, d, j)
  <1> DEFINE s == [m.slots EXCEPT ![d][j] = m.slots[b][i]]
             t == [s EXCEPT ![b][i] = Empty]
             n == [m EXCEPT !.slots = t]
  <1>1. m.slots \in [Buckets(m.hp) -> Rows] /\ m.slots[b][i] \in Keys \cup {Empty}
    BY MapParts
  <1>2. Moved(m, b, i, d, j) = n
    BY DEF Moved
  <1>3. /\ s \in [Buckets(m.hp) -> Rows]
        /\ \A c \in Buckets(m.hp), e \in SlotIds :
              s[c][e] = IF c = d /\ e = j THEN m.slots[b][i] ELSE m.slots[c][e]
    BY <1>1 DEF Rows
  <1> HIDE DEF s
  <1>4. /\ t \in [Buckets(m.hp) -> Rows]
        /\ \A c \in Buckets(m.hp), e \in SlotIds :
              t[c][e] = IF c = b /\ e = i THEN Empty ELSE s[c][e]
    BY <1>3 DEF Rows
  <1> HIDE DEF t
  <1>5. Kept(m, n) /\ n.slots = t /\ n.locks = m.locks
    BY <1>4, OtherSlots
  <1> HIDE DEF n
  <1> QED BY <1>2, <1>3, <1>4, <1>5 DEF Shifted

LEMMA NewMapParts ==
    ASSUME NEW h \in 0..HpBound
    PROVE  /\ IsMap(NewMap(h)) /\ NewMap(h).hp = h /\ LockIds(NewMap(h)) = 0..NumLocks(h) - 1
           /\ AllMigrated(NewMap(h)) /\ Settled(NewMap(h)) /\ HeldLocks(NewMap(h)) = {}
           /\ \A b \in Buckets(h), i \in SlotIds : NewMap(h).slots[b][i] = Empty
           /\ NewMap(h).slots \in [Buckets(h) -> Rows]
  <1> DEFINE s == [b \in 0..HashSize(h) - 1 |-> [i \in SlotIds |-> Empty]]
             K == [l \in 0..NumLocks(h) - 1 |-> [held |-> FALSE, migrated |-> TRUE, count |-> 0]]
  <1>1. NewMap(h) = [hp |-> h, slots |-> s, locks |-> K]
    BY DEF NewMap
  <1>2. s \in [Buckets(h) -> Rows] /\ \A b \in Buckets(h), i \in SlotIds : s[b][i] = Empty
    BY DEF Buckets, Rows
  <1>3. /\ K \in [0..NumLocks(h) - 1 -> LockRecords]
        /\ \A l \in 0..NumLocks(h) - 1 : K[l].migrated /\ ~K[l].held
    BY DEF LockRecords
  <1> HIDE DEF s, K
  <1>4. /\ IsMap(NewMap(h)) /\ NewMap(h).hp = h /\ NewMap(h).slots = s /\ NewMap(h).locks = K
        /\ LockIds(NewMap(h)) = 0..NumLocks(h) - 1
    BY <1>1, <1>2, <1>3, MapMade
  <1> QED BY <1>2, <1>3, <1>4 DEF AllMigrated, Settled, HeldLocks

LEMMA WithLocksParts ==
    ASSUME NEW m, IsMap(m), NEW L, NEW on \in BOOLEAN
    PROVE  LET n == WithLocks(m, L, on)
           IN  /\ IsMap(n) /\ n.hp = m.hp /\ n.slots = m.slots /\ LockIds(n) = LockIds(m)
               /\ \A l \in LockIds(m) :
                     /\ n.locks[l].migrated = m.locks[l].migrated
                     /\ n.locks[l].held = IF l \in L THEN on ELSE m.locks[l].held
  <1> DEFINE K == [l \in LockIds(m) |->
                     IF l \in L THEN [m.locks[l] EXCEPT !.held = on] ELSE m.locks[l]]
             n == [m EXCEPT !.locks = K]
  <1>1. /\ m = [hp |-> m.hp, slots |-> m.slots, locks |-> m.locks] /\ m.hp \in 0..HpBound
        /\ m.slots \in [Buckets(m.hp) -> Rows] /\ LockIds(m) = 0..NumLocks(m.hp) - 1
        /\ m.locks \in [LockIds(m) -> LockRecords]
    BY MapParts
  <1>2. K \in [LockIds(m) -> LockRecords]
    BY <1>1 DEF LockRecords
  <1>3. \A l \in LockIds(m) : /\ K[l].migrated = m.locks[l].migrated
                              /\ K[l].held = IF l \in L THEN on ELSE m.locks[l].held
    BY <1>1 DEF LockRecords
  <1>4. WithLocks(m, L, on) = n
    BY DEF WithLocks
  <1> HIDE DEF K
  <1>5. n = [hp |-> m.hp, slots |-> m.slots, locks |-> K]
    BY <1>1
  <1> HIDE DEF n
  <1>6. IsMap(n) /\ n.hp = m.hp /\ n.slots = m.slots /\ n.locks = K /\ LockIds(n) = LockIds(m)
    BY <1>1, <1>2, <1>5, MapMade
  <1> QED BY <1>3, <1>4, <1>6

-----------------------------------------------------------------------------
\* The map an insertion sees in the buckets B.
Seen(m, B, normal) == IF normal THEN Touch(m, LocksOf(B)) ELSE m

LEMMA LocksOfBuckets ==
    ASSUME NEW m, IsMap(m), NEW B \in SUBSET Buckets(m.hp)
    PROVE  /\ LocksOf(B) \in SUBSET LockIds(m)
           /\ B # {} => Min(LocksOf(B)) \in LockIds(m)
  <1>1. \A b \in Buckets(m.hp) : LockInd(b) \in LockIds(m)
    BY MapParts
  <1>2. LocksOf(B) \in SUBSET LockIds(m)
    BY <1>1 DEF LocksOf
  <1>3. ASSUME B # {} PROVE Min(LocksOf(B)) \in LockIds(m)
    <2>1. LocksOf(B) # {}
      BY <1>3 DEF LocksOf
    <2>2. LockIds(m) \in SUBSET Nat
      BY MapParts
    <2>3. LocksOf(B) \in SUBSET Nat
      BY <1>2, <2>2
    <2> QED BY <1>2, <2>1, <2>3, MinIsLeast
  <1> QED BY <1>2, <1>3

LEMMA KeyHomes ==
    ASSUME NEW m, IsMap(m), NEW k \in Keys
    PROVE  /\ Homes(k, m.hp) \in SUBSET Buckets(m.hp) /\ Homes(k, m.hp) # {}
           /\ I1(k, m.hp) \in Homes(k, m.hp) /\ I2(k, m.hp) \in Homes(k, m.hp)
           /\ LocksOf(Homes(k, m.hp)) \in SUBSET LockIds(m)
           /\ Min(LocksOf(Homes(k, m.hp))) \in LockIds(m)
           /\ \A b \in Homes(k, m.hp) : LockInd(b) \in LocksOf(Homes(k, m.hp)) /\ LockInd(b) \in LockIds(m)
  <1>1. m.hp \in 0..HpBound
    BY MapParts
  <1>2. Homes(k, m.hp) \in SUBSET Buckets(m.hp)
    BY <1>1, HomesAreBuckets
  <1>3. I1(k, m.hp) \in Homes(k, m.hp) /\ I2(k, m.hp) \in Homes(k, m.hp)
    BY DEF Homes
  <1>4. \A b \in Homes(k, m.hp) : LockInd(b) \in LocksOf(Homes(k, m.hp))
    BY DEF LocksOf
  <1>5. /\ LocksOf(Homes(k, m.hp)) \in SUBSET LockIds(m)
        /\ Min(LocksOf(Homes(k, m.hp))) \in LockIds(m)
    BY <1>2, <1>3, LocksOfBuckets
  <1> QED BY <1>2, <1>3, <1>4, <1>5

LEMMA SeenParts ==
    ASSUME NEW m, IsMap(m), Settled(m), NEW B \in SUBSET Buckets(m.hp), NEW normal \in BOOLEAN
    PROVE  /\ Kept(m, Seen(m, B, normal)) /\ Settled(Seen(m, B, normal))
           /\ IsMap(Seen(m, B, normal)) /\ Seen(m, B, normal).hp = m.hp
           /\ LockIds(Seen(m, B, normal)) = LockIds(m)
  <1>1. LocksOf(B) \in SUBSET LockIds(m)
    BY LocksOfBuckets
  <1>2. Kept(m, Touch(m, LocksOf(B)))
    BY <1>1, TouchParts
  <1>3. Kept(m, m)
    BY DEF Kept
  <1>4. Kept(m, Seen(m, B, normal))
    BY <1>2, <1>3 DEF Seen
  <1>5. Settled(Seen(m, B, normal))
    BY <1>4, KeptKeeps
  <1> QED BY <1>4, <1>5 DEF Kept

\* What an insertion may do: it puts the key into a free slot, or into the
\* slot of a key it has moved.
PutFree(m, n, k, normal) ==
    LET p == Seen(m, Homes(k, m.hp), normal)
    IN  \E b \in Homes(k, m.hp), i \in SlotIds, l \in LockIds(m) :
           p.slots[b][i] = Empty /\ n = Put(p, k, b, i, l)

PutMoving(m, n, k, normal) ==
    LET p == Seen(m, Homes(k, m.hp), normal)
    IN  \E b \in Homes(k, m.hp), i \in SlotIds, l \in LockIds(m), j \in SlotIds :
           LET d == Other(p.slots[b][i], b, m.hp)
               o == Seen(p, {d}, normal)
           IN  /\ FreeSlots(p, b) = {} /\ o.slots[d][j] = Empty
               /\ n = Put(Moved(o, b, i, d, j), k, b, i, l)

LEMMA PlacementParts ==
    ASSUME NEW m, IsMap(m), Settled(m), NEW k \in Keys, NEW normal \in BOOLEAN,
           NEW n \in Placements(m, k, normal)
    PROVE  PutFree(m, n, k, normal) \/ PutMoving(m, n, k, normal)
  <1> DEFINE hp == m.hp
             See(x, B) == IF normal THEN Touch(x, LocksOf(B)) ELSE x
             Counter(b) == IF normal THEN Min(LocksOf(Homes(k, hp))) ELSE LockInd(b)
             p == See(m, Homes(k, hp))
             Last(b) == Put(p, k, b, Max(FreeSlots(p, b)), Counter(b))
             Displaced(b, i) ==
                 LET d == Other(p.slots[b][i], b, hp)
                     o == See(p, {d})
                 IN  {Put(Moved(o, b, i, d, j), k, b, i, Counter(b)) : j \in FreeSlots(o, d)}
  <1>1. /\ I1(k, hp) \in Homes(k, hp) /\ I2(k, hp) \in Homes(k, hp)
        /\ \A b \in Homes(k, hp) : Counter(b) \in LockIds(m)
    BY KeyHomes
  <1>2. Homes(k, hp) = {I1(k, hp), I2(k, hp)}
    BY DEF Homes
  <1>3. n \in IF FreeSlots(p, I1(k, hp)) # {} THEN {Last(I1(k, hp))}
              ELSE IF FreeSlots(p, I2(k, hp)) # {} THEN {Last(I2(k, hp))}
              ELSE UNION {UNION {Displaced(b, i) : i \in SlotIds} : b \in Homes(k, hp)}
    BY DEF Placements
  <1>4. \A x, B : See(x, B) = Seen(x, B, normal)
    BY DEF Seen
  <1>5. p = Seen(m, Homes(k, m.hp), normal)
    BY <1>4
  <1>6. \A b : FreeSlots(p, b) # {} => /\ Max(FreeSlots(p, b)) \in SlotIds
                                       /\ p.slots[b][Max(FreeSlots(p, b))] = Empty
    <2>1. \A b : FreeSlots(p, b) \in SUBSET SlotIds
      BY DEF FreeSlots
    <2>2. \A b : FreeSlots(p, b) # {} => Max(FreeSlots(p, b)) \in FreeSlots(p, b)
      BY <2>1, MaxSlot
    <2> QED BY <2>2 DEF FreeSlots
  <1> HIDE DEF Counter, p, See
  <1>7. ASSUME NEW b \in Homes(k, hp), FreeSlots(p, b) # {}, n = Last(b)
        PROVE  PutFree(m, n, k, normal)
    BY <1>1, <1>5, <1>6, <1>7 DEF PutFree
  <1>8. CASE FreeSlots(p, I1(k, hp)) # {} \/ FreeSlots(p, I2(k, hp)) # {}
    BY <1>1, <1>3, <1>7, <1>8, SMTT(60)
  <1>9. CASE FreeSlots(p, I1(k, hp)) = {} /\ FreeSlots(p, I2(k, hp)) = {}
    <2>1. n \in UNION {UNION {Displaced(b, i) : i \in SlotIds} : b \in Homes(k, hp)}
      BY <1>3, <1>9
    <2> HIDE DEF Displaced
    <2>2. PICK b \in Homes(k, hp) : n \in UNION {Displaced(b, i) : i \in SlotIds}
      BY <2>1
    <2>3. PICK i \in SlotIds : n \in Displaced(b, i)
      BY <2>2
    <2> USE DEF Displaced
    <2> DEFINE d == Other(p.slots[b][i], b, hp)
               o == See(p, {d})
    <2>4. PICK j \in FreeSlots(o, d) : n = Put(Moved(o, b, i, d, j), k, b, i, Counter(b))
      BY <2>3
    <2>5. j \in SlotIds /\ o.slots[d][j] = Empty
      BY DEF FreeSlots
    <2>6. o = Seen(p, {d}, normal)
      BY <1>4
    <2>7. FreeSlots(p, b) = {}
      BY <1>2, <1>9
    <2> QED BY <1>1, <1>5, <2>4, <2>5, <2>6, <2>7, Zenon DEF PutMoving
  <1> QED BY <1>8, <1>9

\* The key that an insertion moves, and where it moves it.
LEMMA MovingParts ==
    ASSUME NEW m, IsMap(m), Settled(m), NEW b \in Buckets(m.hp), NEW i \in SlotIds,
           NEW normal \in BOOLEAN, FreeSlots(m, b) = {}
    PROVE  LET x == m.slots[b][i]
               d == Other(x, b, m.hp)
               o == Seen(m, {d}, normal)
           IN  /\ x \in Keys /\ x # Empty /\ d \in Homes(x, m.hp) /\ d \in Buckets(m.hp)
               /\ Kept(m, o) /\ IsMap(o) /\ Settled(o) /\ o.hp = m.hp /\ LockIds(o) = LockIds(m)
  <1> DEFINE x == m.slots[b][i]
             d == Other(x, b, m.hp)
             o == Seen(m, {d}, normal)
  <1>1. x # Empty
    BY DEF FreeSlots
  <1>2. x \in Keys
    BY <1>1, MapParts
  <1>3. d \in Homes(x, m.hp)
    BY OtherIsHome
  <1>4. d \in Buckets(m.hp)
    BY <1>2, <1>3, KeyHomes
  <1>5. {d} \in SUBSET Buckets(m.hp)
    BY <1>4
  <1> HIDE DEF x, d
  <1>6. Kept(m, o) /\ IsMap(o) /\ Settled(o) /\ o.hp = m.hp /\ LockIds(o) = LockIds(m)
    BY <1>5, SeenParts
  <1> QED BY <1>1, <1>2, <1>3, <1>4, <1>6 DEF x, d

LEMMA PlacementsKeep ==
    ASSUME NEW m, IsMap(m), Settled(m), NEW k \in Keys, NEW normal \in BOOLEAN,
           NEW n \in Placements(m, k, normal)
    PROVE  Kept(m, n)
  <1> DEFINE p == Seen(m, Homes(k, m.hp), normal)
  <1>1. Homes(k, m.hp) \in SUBSET Buckets(m.hp)
    BY KeyHomes
  <1>2. Kept(m, p) /\ Settled(p) /\ IsMap(p) /\ p.hp = m.hp /\ LockIds(p) = LockIds(m)
    BY <1>1, SeenParts
  <1>3. CASE PutFree(m, n, k, normal)
    <2>1. PICK b \in Homes(k, m.hp), i \in SlotIds, l \in LockIds(m) : n = Put(p, k, b, i, l)
      BY <1>3 DEF PutFree
    <2> HIDE DEF p
    <2>2. Kept(p, n)
      <3>1. b \in Buckets(p.hp) /\ l \in LockIds(p)
        BY <1>1, <1>2
      <3> QED BY <1>2, <2>1, <3>1, PutParts DEF Changed
    <2> QED BY <1>2, <2>2, KeptKeeps
  <1>4. CASE PutMoving(m, n, k, normal)
    <2>1. PICK b \in Homes(k, m.hp), i \in SlotIds, l \in LockIds(m), j \in SlotIds :
             LET d == Other(p.slots[b][i], b, m.hp)
                 o == Seen(p, {d}, normal)
             IN  FreeSlots(p, b) = {} /\ n = Put(Moved(o, b, i, d, j), k, b, i, l)
      BY <1>4 DEF PutMoving
    <2> DEFINE d == Other(p.slots[b][i], b, p.hp)
               o == Seen(p, {d}, normal)
               q == Moved(o, b, i, d, j)
    <2> HIDE DEF p
    <2>2. b \in Buckets(p.hp)
      BY <1>1, <1>2
    <2>3. d \in Buckets(p.hp) /\ Kept(p, o) /\ IsMap(o) /\ o.hp = p.hp /\ LockIds(o) = LockIds(p)
      BY <1>2, <2>1, <2>2, MovingParts
    <2>4. n = Put(q, k, b, i, l)
      BY <1>2, <2>1
    <2> HIDE DEF d, o
    <2>5. b \in Buckets(o.hp) /\ d \in Buckets(o.hp) /\ l \in LockIds(o)
      BY <1>2, <2>2, <2>3
    <2>6. Kept(o, q)
      BY <2>3, <2>5, MovedKeyParts DEF Shifted
    <2> HIDE DEF q
    <2>7. IsMap(q) /\ b \in Buckets(q.hp) /\ l \in LockIds(q)
      BY <2>5, <2>6 DEF Kept
    <2>8. Kept(q, n)
      BY <2>4, <2>7, PutParts DEF Changed
    <2>9. Kept(p, q)
      BY <1>2, <2>3, <2>6, KeptKeeps
    <2>10. Kept(p, n)
      BY <1>2, <2>8, <2>9, KeptKeeps
    <2> QED BY <1>2, <2>10, KeptKeeps
  <1> QED BY <1>3, <1>4, PlacementParts

-----------------------------------------------------------------------------
\* Positions: the slots of all buckets counted from 0.
LEMMA TimesMonotone ==
    ASSUME NEW s \in Nat, NEW a \in Int, NEW b \in Int, a <= b
    PROVE  a * s <= b * s
  <1>1. b - a \in Nat
    OBVIOUS
  <1>2. (b - a) * s >= 0
    BY <1>1
  <1>3. (b - a) * s = b * s - a * s
    OBVIOUS
  <1>4. a * s \in Int /\ b * s \in Int
    OBVIOUS
  <1> QED BY <1>2, <1>3, <1>4

LEMMA Division ==
    ASSUME NEW s \in Nat \ {0}, NEW a \in Nat
    PROVE  a \div s \in Int /\ a % s \in 0..s - 1 /\ a = s * (a \div s) + (a % s)
  OBVIOUS

LEMMA Divided ==
    ASSUME NEW n \in Nat, NEW s \in Nat \ {0}, NEW p \in 0..n * s - 1
    PROVE  p \div s \in 0..n - 1 /\ p % s \in 0..s - 1 /\ p = (p \div s) * s + (p % s)
  <1>1. p \div s \in Int /\ p % s \in 0..s - 1 /\ p = s * (p \div s) + (p % s) /\ p \in Nat
    <2>1. n * s \in Int
      OBVIOUS
    <2>2. p \in Nat
      BY <2>1
    <2> QED BY <2>2, Division
  <1>2. s * (p \div s) = (p \div s) * s /\ n * s \in Int
    BY <1>1
  <1>3. p \div s >= 0
    <2>1. ASSUME p \div s <= -1 PROVE FALSE
      <3>1. (p \div s) * s <= (-1) * s
        BY <1>1, <2>1, TimesMonotone
      <3> QED BY <1>1, <1>2, <3>1
    <2> QED BY <1>1, <2>1
  <1>4. p \div s < n
    <2>1. ASSUME n <= p \div s PROVE FALSE
      <3>1. n * s <= (p \div s) * s
        BY <1>1, <2>1, TimesMonotone
      <3> QED BY <1>1, <1>2, <3>1
    <2> QED BY <1>1, <2>1
  <1> QED BY <1>1, <1>2, <1>3, <1>4

LEMMA Composed ==
    ASSUME NEW n \in Nat, NEW s \in Nat \ {0}, NEW b \in 0..n - 1, NEW r \in 0..s - 1
    PROVE  /\ b * s + r \in 0..n * s - 1
           /\ (b * s + r) \div s = b /\ (b * s + r) % s = r
  <1>1. (b + 1) * s <= n * s
    BY TimesMonotone
  <1>2. (b + 1) * s = b * s + s /\ b * s \in Nat /\ n * s \in Nat /\ b * s = s * b
    OBVIOUS
  <1>3. b * s + r \in 0..n * s - 1
    BY <1>1, <1>2
  <1>4. (b * s + r) % s = r
    BY <1>2, Remainder
  <1>5. (b * s + r) \div s \in Int /\ b * s + r = s * ((b * s + r) \div s) + ((b * s + r) % s)
    <2>1. b * s + r \in Nat
      BY <1>2
    <2> QED BY <2>1, Division
  <1> DEFINE q == (b * s + r) \div s
  <1>6. q * s = b * s /\ q \in Int
    BY <1>2, <1>4, <1>5
  <1> HIDE DEF q
  <1>7. q = b
    <2>1. ASSUME q <= b - 1 PROVE FALSE
      <3>1. q * s <= (b - 1) * s
        BY <1>6, <2>1, TimesMonotone
      <3>2. (b - 1) * s = b * s - s
        OBVIOUS
      <3> QED BY <1>2, <1>6, <3>1, <3>2
    <2>2. ASSUME b + 1 <= q PROVE FALSE
      <3>1. (b + 1) * s <= q * s
        BY <1>6, <2>2, TimesMonotone
      <3> QED BY <1>2, <1>6, <3>1
    <2> QED BY <1>6, <2>1, <2>2
  <1> QED BY <1>3, <1>4, <1>7 DEF q

LEMMA PositionParts ==
    ASSUME NEW m, IsMap(m)
    PROVE  /\ EndPos(m) \in Nat /\ Occupied(m) \in SUBSET (0..EndPos(m) - 1)
           /\ \A p \in 0..EndPos(m) - 1 :
                 /\ p \div Slots \in Buckets(m.hp) /\ (p % Slots) + 1 \in SlotIds
                 /\ p = (p \div Slots) * Slots + (p % Slots)
           /\ \A p \in Occupied(m) : KeyAt(m, p) \in Keys /\ KeyAt(m, p) # Empty
           /\ \A b \in Buckets(m.hp), i \in SlotIds : m.slots[b][i] # Empty =>
                 \E p \in Occupied(m) : KeyAt(m, p) = m.slots[b][i] /\ p \div Slots = b
  <1>1. HashSize(m.hp) \in Nat /\ Slots \in Nat \ {0} /\ SlotIds = 1..Slots
    <2>1. m.hp \in 0..HpBound
      BY MapParts
    <2> QED BY <2>1, SizeNat, TableAssumption DEF SlotIds
  <1>2. EndPos(m) \in Nat
    BY <1>1 DEF EndPos
  <1>3. \A p \in 0..EndPos(m) - 1 : /\ p \div Slots \in Buckets(m.hp) /\ (p % Slots) + 1 \in SlotIds
                                    /\ p = (p \div Slots) * Slots + (p % Slots)
    BY <1>1, Divided, SMTT(60) DEF EndPos, Buckets
  <1>4. \A p \in Occupied(m) : KeyAt(m, p) \in Keys /\ KeyAt(m, p) # Empty
    BY <1>3, MapParts DEF Occupied, KeyAt
  <1>5. ASSUME NEW b \in Buckets(m.hp), NEW i \in SlotIds, m.slots[b][i] # Empty
        PROVE  \E p \in Occupied(m) : KeyAt(m, p) = m.slots[b][i] /\ p \div Slots = b
    <2> DEFINE p == b * Slots + (i - 1)
    <2>1. i - 1 \in 0..Slots - 1 /\ (i - 1) + 1 = i
      BY <1>1
    <2>2. p \in 0..EndPos(m) - 1 /\ p \div Slots = b /\ p % Slots = i - 1
      <3>1. b \in 0..HashSize(m.hp) - 1
        BY DEF Buckets
      <3>2. p \in 0..HashSize(m.hp) * Slots - 1 /\ p \div Slots = b /\ p % Slots = i - 1
        BY <1>1, <2>1, <3>1, Composed
      <3> QED BY <3>2 DEF EndPos
    <2> HIDE DEF p
    <2>3. KeyAt(m, p) = m.slots[b][i]
      BY <2>1, <2>2 DEF KeyAt
    <2> QED BY <1>5, <2>2, <2>3 DEF Occupied
  <1>6. Occupied(m) \in SUBSET (0..EndPos(m) - 1)
    BY DEF Occupied
  <1> QED BY <1>2, <1>3, <1>4, <1>5, <1>6

\* The constructor of an iterator finds the next element or the end.
LEMMA SettleParts ==
    ASSUME NEW m, IsMap(m), NEW p \in Nat
    PROVE  /\ Settle(m, p) \in 0..EndPos(m)
           /\ Settle(m, p) \in {q \in Occupied(m) : q >= p} \cup {EndPos(m)}
           /\ \A q \in Occupied(m) : q >= p => Settle(m, p) <= q
  <1> DEFINE S == {q \in Occupied(m) : q >= p} \cup {EndPos(m)}
  <1>1. EndPos(m) \in Nat /\ Occupied(m) \in SUBSET (0..EndPos(m) - 1)
    BY PositionParts
  <1>2. S \in SUBSET (0..EndPos(m)) /\ S \in SUBSET Nat /\ S # {}
    BY <1>1
  <1>3. Settle(m, p) = Min(S)
    BY DEF Settle
  <1> HIDE DEF S
  <1>4. Settle(m, p) \in S /\ \A q \in S : Settle(m, p) <= q
    BY <1>2, <1>3, MinIsLeast
  <1> QED BY <1>2, <1>4 DEF S

\* operator--: the position before.
LEMMA BeforeParts ==
    ASSUME NEW m, IsMap(m), NEW q, \E p \in Occupied(m) : p < q
    PROVE  LET b == Max({p \in Occupied(m) : p < q})
           IN  b \in Occupied(m) /\ b < q /\ \A p \in Occupied(m) : p < q => p <= b
  <1> DEFINE S == {p \in Occupied(m) : p < q}
  <1>1. EndPos(m) \in Nat /\ Occupied(m) \in SUBSET (0..EndPos(m) - 1)
    BY PositionParts
  <1>2. S \in SUBSET (0..EndPos(m) - 1) /\ S # {}
    BY <1>1
  <1> DEFINE b == Max(S)
  <1> HIDE DEF S
  <1>3. PICK x \in S : \A y \in S : y <= x
    BY <1>1, <1>2, Greatest
  <1>4. \A y \in S : y \in Int
    BY <1>1, <1>2
  <1>5. \A y \in S : x >= y
    BY <1>3, <1>4
  <1>6. b \in S /\ \A y \in S : b >= y
    BY <1>5 DEF Max
  <1>7. \A y \in S : y <= b
    BY <1>4, <1>6
  <1> HIDE DEF b
  <1> QED BY <1>6, <1>7 DEF S, b

LEMMA RemovedParts ==
    ASSUME NEW m, IsMap(m), NEW p \in 0..EndPos(m) - 1
    PROVE  Changed(m, Removed(m, p), p \div Slots, (p % Slots) + 1, Empty)
  <1> DEFINE b == p \div Slots
             i == (p % Slots) + 1
  <1>1. b \in Buckets(m.hp) /\ i \in SlotIds
    BY PositionParts
  <1>2. LockInd(b) \in LockIds(m)
    BY <1>1, MapParts
  <1> DEFINE n == [m EXCEPT !.slots[b][i] = Empty, !.locks[LockInd(b)].count = @ - 1]
  <1>3. Removed(m, p) = n
    BY DEF Removed
  <1> HIDE DEF b, i
  <1>4. Changed(m, n, b, i, Empty)
    BY <1>1, <1>2, TakenParts
  <1> HIDE DEF n
  <1>5. Changed(m, Removed(m, p), b, i, Empty)
    BY <1>3, <1>4
  <1> QED BY <1>5 DEF b, i

-----------------------------------------------------------------------------
\* Every step is a step of parallel_exec or leaves it alone.
LEMMA StepsOfExec == TableInv /\ Next => [ExecNext]_execVars
  <1> SUFFICES ASSUME TableInv, Next PROVE [ExecNext]_execVars
    OBVIOUS
  <1>1. Cardinality(LockIds(map)) \in Nat /\ HashSize(map.hp) \in Nat
    <2>1. IsMap(map)
      BY DEF TableInv, Typed
    <2>2. map.hp \in 0..HpBound /\ Cardinality(LockIds(map)) = NumLocks(map.hp) /\ NumLocks(map.hp) \in Nat
      BY <2>1, MapParts
    <2> QED BY <2>2, SizeNat, TableAssumption
  <1>2. CASE OtherThread
    BY <1>2 DEF OtherThread, OtherInsert, OtherDouble, OtherErase
  <1>3. CASE \/ LockTable \/ LockNext \/ (\E n \in Sizes : Rehash(n))
             \/ (\E k \in Keys : LockedInsert(k) \/ LockedErase(k))
             \/ InsertDuplicate \/ InsertPlaces \/ InsertThrows
             \/ LockedEraseAt \/ LockedClear \/ IterBegin \/ IterNext \/ IterPrev
             \/ (\E n \in LockedSizes : LockedRehash(n))
             \/ CapacityThrows \/ Unlock \/ UnlockNext \/ Unlocked
    BY <1>3 DEF LockTable, LockNext, Rehash, LockedInsert, LockedErase, InsertDuplicate, InsertPlaces,
       InsertThrows, LockedEraseAt, LockedClear, IterBegin, IterNext, IterPrev, LockedRehash,
       CapacityThrows, Unlock, UnlockNext, Unlocked
  <1>4. CASE AllLocked \/ InsertExpands \/ LockedDouble \/ Capacity \/ StartCopy
    BY <1>1, <1>4 DEF AllLocked, InsertExpands, LockedDouble, Capacity, StartCopy, ExecNext
  <1>5. CASE MigrationDone \/ CopyDone \/ Threading
    BY <1>5 DEF MigrationDone, CopyDone, Threading, ExecNext
  <1>6. CASE \E w \in Workers : MigrateLock(w) \/ CopyKey(w) \/ CopyThrows(w) \/ CopyNextBucket(w)
    BY <1>6 DEF MigrateLock, CopyKey, CopyThrows, CopyNextBucket, ExecNext
  <1> QED BY <1>2, <1>3, <1>4, <1>5, <1>6 DEF Next, Owner

\* No index is handed out that is not in the range, and a worker at work is at
\* one of those handed out.
LEMMA HandedInRange ==
    ASSUME IInv, stage # "idle"
    PROVE  /\ end \in Nat /\ start \in Nat /\ start <= end
           /\ \A v \in 1..spawned : to[v] <= start /\ next[v] <= to[v] /\ from[v] \in Nat
                                    /\ next[v] \in Nat /\ to[v] \in Nat
           /\ handled \subseteq 0..end - 1
  <1>1. /\ stage \in {"spawn", "join"} /\ extra \in Nat /\ extra <= MaxExtra /\ start \in Nat /\ end \in Nat
        /\ share \in Nat /\ spawned \in 0..extra + 1 /\ handled \subseteq Nat
        /\ \A v \in 1..MaxExtra + 1 : next[v] \in Nat /\ to[v] \in Nat /\ from[v] \in Nat
    BY ExtraAssumption DEF IInv, ExecTypeOK, Workers, Caller
  <1>2. start <= end
    <2>1. CASE stage = "spawn"
      <3>1. extra - spawned + 1 \in Nat /\ start + share * (extra - spawned + 1) <= end
        BY <1>1, <2>1 DEF IInv, SharesFit
      <3>2. share * (extra - spawned + 1) \in Nat
        BY <1>1, <3>1
      <3> QED BY <1>1, <3>1, <3>2
    <2>2. CASE stage = "join"
      BY <1>1, <2>2 DEF IInv, SharesFit
    <2> QED BY <1>1, <2>1, <2>2
  <1>3. \A v \in 1..spawned : next[v] \in Nat /\ to[v] \in Nat /\ from[v] \in Nat
    BY <1>1, ExtraAssumption
  <1>4. \A v \in 1..spawned : to[v] <= start /\ next[v] <= to[v]
    BY DEF IInv, RangesPartition
  <1>5. \A i \in handled : \E v \in 1..spawned : i < next[v]
    BY DEF IInv, HandledInv
  <1>6. handled \subseteq 0..end - 1
    BY <1>1, <1>2, <1>3, <1>4, <1>5
  <1> QED BY <1>1, <1>2, <1>3, <1>4, <1>6

LEMMA RunsInRange ==
    ASSUME IInv, NEW w \in Workers, Running(w)
    PROVE  next[w] \in 0..end - 1 /\ stage # "idle"
  <1>1. w \in Nat \ {0} /\ spawned \in Nat
    BY ExtraAssumption DEF IInv, ExecTypeOK, Workers, Caller
  <1>2. w \in 1..spawned /\ next[w] < to[w]
    BY <1>1 DEF Running
  <1>3. stage # "idle"
    BY <1>1, <1>2 DEF IInv, JoinInv
  <1> QED BY <1>2, <1>3, HandedInRange

-----------------------------------------------------------------------------
\* Steps that leave the map, the new map and the workers as they are.
Quiet == UNCHANGED <<execVars, map, temp>>

LEMMA QuietFacts ==
    ASSUME TableInv
    PROVE  /\ IsMap(map) /\ EndPos(map) \in Nat /\ NumLocks(map.hp) \in Nat \ {0}
           /\ LockIds(map) = 0..NumLocks(map.hp) - 1 /\ turn \in Nat
           /\ \A l \in LockIds(map) : map.locks[l].held \in BOOLEAN
  <1>1. IsMap(map) /\ turn \in Nat
    BY DEF TableInv, Typed
  <1>2. /\ NumLocks(map.hp) \in Nat \ {0} /\ LockIds(map) = 0..NumLocks(map.hp) - 1
        /\ map.locks \in [LockIds(map) -> LockRecords]
    BY <1>1, MapParts
  <1>3. EndPos(map) \in Nat
    BY <1>1, PositionParts
  <1> QED BY <1>1, <1>2, <1>3 DEF LockRecords

LEMMA BeginSteps ==
    ASSUME TableInv, LockTable \/ (\E n \in Sizes : Rehash(n)) \/ Unlock \/ Unlocked
    PROVE  TableInv'
  <1> USE QuietFacts, TableAssumption DEF TableInv, Typed, WorkOK, HeldOK, Inserting, Copying, Working, Migrating,
          Idle, execVars
  <1>1. CASE LockTable
    BY <1>1 DEF LockTable
  <1>2. CASE \E n \in Sizes : Rehash(n)
    BY <1>2 DEF Rehash
  <1>3. CASE Unlock
    BY <1>3 DEF Unlock
  <1>4. CASE Unlocked
    <2>1. turn \notin 0..NumLocks(map.hp) - 1 /\ doing = "unlock"
      BY <1>4 DEF Unlocked
    <2>2. turn..NumLocks(map.hp) - 1 = {}
      BY <2>1
    <2>3. HeldLocks(map) = {}
      BY <2>1, <2>2
    <2> QED BY <1>4, <2>3 DEF Unlocked
  <1> QED BY <1>1, <1>2, <1>3, <1>4

LEMMA CallSteps ==
    ASSUME TableInv, \/ \E k \in Keys : LockedInsert(k)
                     \/ InsertDuplicate \/ InsertThrows
                     \/ \E n \in LockedSizes : LockedRehash(n)
                     \/ CapacityThrows
    PROVE  TableInv'
  <1> USE QuietFacts, TableAssumption DEF TableInv, Typed, WorkOK, HeldOK, Inserting, Copying, Working, Migrating,
          Idle, execVars
  <1>1. CASE \E k \in Keys : LockedInsert(k)
    BY <1>1 DEF LockedInsert
  <1>2. CASE InsertDuplicate
    BY <1>2 DEF InsertDuplicate
  <1>3. CASE InsertThrows
    BY <1>3 DEF InsertThrows
  <1>4. CASE \E n \in LockedSizes : LockedRehash(n)
    BY <1>4 DEF LockedRehash
  <1>5. CASE CapacityThrows
    BY <1>5 DEF CapacityThrows, Done
  <1> QED BY <1>1, <1>2, <1>3, <1>4, <1>5

LEMMA IteratorSteps ==
    ASSUME TableInv, IterBegin \/ IterNext \/ IterPrev
    PROVE  TableInv'
  <1>1. /\ IsMap(map) /\ EndPos(map) \in Nat
        /\ Occupied(map) \in SUBSET (0..EndPos(map) - 1)
        /\ \A p \in Occupied(map) : KeyAt(map, p) \in Keys
    BY QuietFacts, PositionParts
  <1>2. Idle /\ visited' \subseteq Keys /\ it' \in Occupied(map) \cup {EndPos(map)}
    <2>1. CASE IterBegin
      BY <1>1, <2>1, SettleParts DEF IterBegin
    <2>2. CASE IterNext
      <3>1. it \in Occupied(map)
        BY <2>2 DEF IterNext, TableInv, Typed
      <3>2. it + 1 \in Nat
        BY <1>1, <3>1
      <3>3. Settle(map, it + 1) \in Occupied(map) \cup {EndPos(map)}
        BY <1>1, <3>2, SettleParts
      <3> QED BY <1>1, <2>2, <3>1, <3>3 DEF IterNext, TableInv, Typed
    <2>3. CASE IterPrev
      BY <1>1, <2>3, BeforeParts DEF IterPrev, TableInv, Typed
    <2> QED BY <2>1, <2>2, <2>3
  <1>3. UNCHANGED <<execVars, map, temp, handle, doing, arg, turn, content>>
    BY DEF IterBegin, IterNext, IterPrev
  <1> QED BY <1>1, <1>2, <1>3 DEF TableInv, Typed, WorkOK, HeldOK, Inserting, Copying, Working, Migrating,
          Idle, execVars

\* A doubling of the map that is not refused stays within its maximum.
LEMMA RoomToDouble == ASSUME IsMap(map), ~Refused PROVE map.hp < HpBound
  <1>1. map.hp \in Nat /\ MaxHp \in Nat /\ HpBound \in Nat /\ MaxHp <= HpBound
    BY MapParts, TableAssumption
  <1>2. ~(map.hp + 1 > MaxHp)
    BY DEF Refused
  <1> QED BY <1>1, <1>2

\* Steps that start the workers.
LEMMA StartSteps ==
    ASSUME TableInv, AllLocked \/ InsertExpands \/ Capacity
    PROVE  TableInv'
  <1> USE QuietFacts, TableAssumption DEF TableInv, Typed, WorkOK, HeldOK, Inserting, Copying, Working, Migrating,
          Idle, execVars, StartExec
  <1>1. CASE AllLocked
    <2>1. turn = NumLocks(map.hp) /\ HeldLocks(map) = LockIds(map)
      BY <1>1 DEF AllLocked
    <2> QED BY <1>1, <2>1 DEF AllLocked
  <1>2. CASE InsertExpands
    <2>1. /\ map.hp < HpBound /\ doing = "insert" /\ UNCHANGED <<map, temp, handle, arg, turn, it, visited, content>>
          /\ \/ UNCHANGED execVars /\ doing' = "double"
             \/ StartExec(Cardinality(LockIds(map))) /\ doing' = "finish_double"
      <3>1. map.hp < HpBound
        BY <1>2, RoomToDouble DEF InsertExpands, TableInv, Typed
      <3> QED BY <1>2, <3>1, TableAssumption DEF InsertExpands
    <2>2. CASE UNCHANGED execVars /\ doing' = "double"
      BY <2>1, <2>2
    <2>3. CASE StartExec(Cardinality(LockIds(map))) /\ doing' = "finish_double"
      BY <2>1, <2>3
    <2> QED BY <2>1, <2>2, <2>3
  <1>3. CASE Capacity
    BY <1>3 DEF Capacity
  <1> QED BY <1>1, <1>2, <1>3

\* Steps of the workers.
LEMMA ThreadSteps ==
    ASSUME IInv, TableInv, \/ Threading \/ MigrationDone
                     \/ \E w \in Workers : CopyThrows(w) \/ CopyNextBucket(w)
    PROVE  TableInv'
  <1> USE QuietFacts, TableAssumption DEF TableInv, Typed, WorkOK, HeldOK, Inserting, Copying, Working, Migrating,
          Idle, execVars
  <1>1. CASE Threading
    <2>1. UNCHANGED tableVars
      BY <1>1 DEF Threading
    <2>2. stage # "idle" /\ stage' # "idle" /\ UNCHANGED <<end, failed, handled>>
      BY <1>1 DEF Threading, Spawn, OwnRange, Join
    <2> QED BY <2>1, <2>2 DEF tableVars
  <1>2. CASE MigrationDone
    BY <1>2 DEF MigrationDone, Return
  <1>3. CASE \E w \in Workers : CopyThrows(w)
    BY <1>3 DEF CopyThrows, Throw, tableVars
  <1>4. CASE \E w \in Workers : CopyNextBucket(w)
    BY <1>4 DEF CopyNextBucket, HandleIndex, tableVars
  <1> QED BY <1>1, <1>2, <1>3, <1>4

\* A worker migrates the data of one lock.
LEMMA MigrateStep ==
    ASSUME IInv, TableInv, NEW w \in Workers, MigrateLock(w)
    PROVE  TableInv' /\ next[w] \in LockIds(map) /\ Kept(map, map')
  <1>1. /\ Migrating /\ HandleIndex(w) /\ map' = Touch(map, {next[w]})
        /\ UNCHANGED <<temp, handle, doing, arg, turn, it, visited, content>>
    BY DEF MigrateLock
  <1>2. next[w] \in 0..end - 1 /\ stage # "idle"
    BY <1>1, RunsInRange DEF HandleIndex
  <1>3. /\ IsMap(map) /\ Settled(map) /\ LockIds(map) = 0..NumLocks(map.hp) - 1
        /\ Cardinality(LockIds(map)) = NumLocks(map.hp)
    <2>1. IsMap(map) /\ Settled(map)
      BY DEF TableInv, Typed
    <2> QED BY <2>1, MapParts
  <1>4. end = NumLocks(map.hp) /\ failed = {} /\ \A l \in handled : map.locks[l].migrated
    BY <1>1, <1>3 DEF TableInv, WorkOK
  <1>5. next[w] \in LockIds(map)
    BY <1>2, <1>3, <1>4
  <1>6. /\ Kept(map, map')
        /\ \A l \in LockIds(map) : map'.locks[l].migrated <=> map.locks[l].migrated \/ l \in {next[w]}
    <2> DEFINE n == Touch(map, {next[w]})
    <2>1. {next[w]} \in SUBSET LockIds(map)
      BY <1>5
    <2>2. /\ Kept(map, n)
          /\ \A l \in LockIds(map) : n.locks[l].migrated <=> map.locks[l].migrated \/ l \in {next[w]}
      BY <1>3, <2>1, TouchParts
    <2> HIDE DEF n
    <2> QED BY <1>1, <2>2 DEF n
  <1>7. IsMap(map') /\ Settled(map') /\ HeldLocks(map') = HeldLocks(map) /\ map'.hp = map.hp
        /\ LockIds(map') = LockIds(map)
    BY <1>3, <1>6, KeptKeeps DEF Kept
  <1>8. doing \in {"settle", "finish_copy", "finish_double", "spread"}
    BY <1>1 DEF Migrating
  <1>9. \A l \in handled' : map'.locks[l].migrated
    <2>1. handled' = handled \cup {next[w]}
      BY <1>1 DEF HandleIndex
    <2>2. handled \subseteq LockIds(map)
      BY <1>2, <1>3, <1>4, HandedInRange
    <2> QED BY <1>4, <1>5, <1>6, <2>1, <2>2
  <1>10. UNCHANGED <<end, failed, stage>>
    BY <1>1 DEF HandleIndex
  <1>11. it = None
    BY <1>8 DEF TableInv, Typed, Idle
  <1>12. Typed'
    BY <1>1, <1>7, <1>8, <1>11 DEF TableInv, Typed, Inserting, Copying, Working
  <1>13. WorkOK'
    BY <1>1, <1>4, <1>7, <1>8, <1>9, <1>10 DEF TableInv, WorkOK, Working, Migrating
  <1>14. HeldOK'
    BY <1>1, <1>7, <1>8 DEF TableInv, HeldOK
  <1> QED BY <1>5, <1>6, <1>12, <1>13, <1>14 DEF TableInv

\* One lock is taken or released.
LEMMA LockSteps ==
    ASSUME TableInv, LockNext \/ UnlockNext
    PROVE  TableInv'
  <1>1. PICK on \in BOOLEAN : /\ map' = WithLocks(map, {turn}, on) /\ turn \in LockIds(map) /\ turn' = turn + 1
                              /\ IF on THEN doing = "lock_all" ELSE doing = "unlock"
    BY DEF LockNext, UnlockNext
  <1>2. UNCHANGED <<execVars, temp, handle, doing, arg, it, visited, content>>
    BY DEF LockNext, UnlockNext
  <1>3. IsMap(map) /\ Settled(map) /\ LockIds(map) = 0..NumLocks(map.hp) - 1 /\ NumLocks(map.hp) \in Nat
    BY QuietFacts DEF TableInv, Typed
  <1>4. /\ IsMap(map') /\ map'.hp = map.hp /\ LockIds(map') = LockIds(map)
        /\ \A l \in LockIds(map) :
              /\ map'.locks[l].migrated = map.locks[l].migrated
              /\ map'.locks[l].held = IF l \in {turn} THEN on ELSE map.locks[l].held
    BY <1>1, <1>3, WithLocksParts
  <1>5. Settled(map')
    BY <1>3, <1>4 DEF Settled, AllMigrated
  <1>6. HeldLocks(map') = IF on THEN HeldLocks(map) \cup {turn} ELSE HeldLocks(map) \ {turn}
    BY <1>1, <1>4 DEF HeldLocks
  <1>7. turn' <= NumLocks(map.hp) /\ turn \in Nat /\ turn' \in Nat
    BY <1>1, <1>3
  <1>8. it = None
    BY <1>1 DEF TableInv, Typed, Idle
  <1>9. Typed'
    BY <1>1, <1>2, <1>4, <1>5, <1>7, <1>8 DEF TableInv, Typed, Inserting, Copying, Working
  <1>10. WorkOK'
    BY <1>1, <1>2, <1>4 DEF TableInv, WorkOK, Working, Migrating, execVars
  <1>11. HeldOK'
    <2>1. ASSUME on PROVE HeldLocks(map') = 0..turn' - 1
      <3>1. HeldLocks(map') = (0..turn - 1) \cup {turn}
        BY <1>1, <1>6, <2>1 DEF TableInv, HeldOK
      <3>2. turn' = turn + 1 /\ turn \in Nat
        BY <1>1, <1>7
      <3>3. (0..turn - 1) \cup {turn} = 0..turn' - 1
        BY <3>2
      <3> QED BY <3>1, <3>3
    <2>2. ASSUME ~on PROVE HeldLocks(map') \in {{}, turn'..NumLocks(map.hp) - 1}
      <3>1. HeldLocks(map) \in {{}, turn..NumLocks(map.hp) - 1} /\ HeldLocks(map') = HeldLocks(map) \ {turn}
        BY <1>1, <1>6, <2>2 DEF TableInv, HeldOK
      <3>2. (turn..NumLocks(map.hp) - 1) \ {turn} = turn'..NumLocks(map.hp) - 1
        BY <1>1, <1>3, <1>7
      <3> QED BY <3>1, <3>2
    <2> QED BY <1>1, <1>2, <1>4, <1>7, <2>1, <2>2 DEF HeldOK
  <1> QED BY <1>9, <1>10, <1>11 DEF TableInv

-----------------------------------------------------------------------------
\* Steps that change slots and counters of the map.
LEMMA KeptSteps ==
    ASSUME IInv, TableInv, Kept(map, map'), UNCHANGED <<execVars, temp, handle, turn>>,
           \/ doing' = doing /\ arg' = arg
           \/ doing = "insert" /\ doing' = "nothing",
           it' # None => it' \in Occupied(map') \cup {EndPos(map')} /\ handle /\ doing' = "nothing",
           visited' \subseteq Keys, content' \subseteq Keys
    PROVE  TableInv'
  <1>1. IsMap(map) /\ Settled(map) /\ LockIds(map) = 0..NumLocks(map.hp) - 1
        /\ Cardinality(LockIds(map)) = NumLocks(map.hp)
    <2>1. IsMap(map) /\ Settled(map)
      BY DEF TableInv, Typed
    <2> QED BY <2>1, MapParts
  <1>2. /\ IsMap(map') /\ Settled(map') /\ HeldLocks(map') = HeldLocks(map) /\ map'.hp = map.hp
        /\ LockIds(map') = LockIds(map)
        /\ \A l \in LockIds(map) : map.locks[l].migrated => map'.locks[l].migrated
    BY <1>1, KeptKeeps DEF Kept
  <1>3. doing' \notin {"settle", "finish_copy", "finish_double", "spread", "copy"} \/ doing' = doing
    OBVIOUS
  <1>4. Typed'
    BY <1>2 DEF TableInv, Typed, Inserting, Copying, Working, Idle
  <1>5. WorkOK'
    <2>1. ASSUME Migrating' PROVE handled' \subseteq LockIds(map) /\ Migrating /\ handled' = handled
      <3>1. Migrating /\ handled' = handled
        BY <2>1, <1>3 DEF Migrating, execVars
      <3>2. stage # "idle" /\ end = NumLocks(map.hp)
        BY <1>1, <3>1 DEF TableInv, WorkOK, Migrating, Working
      <3> QED BY <1>1, <3>1, <3>2, HandedInRange
    <2> QED BY <1>2, <1>3, <2>1 DEF TableInv, WorkOK, Working, Migrating, execVars
  <1>6. HeldOK'
    <2>1. doing = "insert" => handle
      BY DEF TableInv, Typed, Inserting
    <2> QED BY <1>2, <2>1 DEF TableInv, HeldOK
  <1> QED BY <1>4, <1>5, <1>6 DEF TableInv

LEMMA PlaceStep == ASSUME IInv, TableInv, InsertPlaces PROVE TableInv' /\ Kept(map, map')
  <1>1. /\ IsMap(map) /\ Settled(map) /\ arg \in Keys /\ doing = "insert" /\ it = None
        /\ visited \subseteq Keys /\ content \subseteq Keys
    BY DEF InsertPlaces, TableInv, Typed, Idle, Inserting
  <1>2. map' \in Placements(map, arg, FALSE)
    BY DEF InsertPlaces
  <1>3. Kept(map, map')
    BY <1>1, <1>2, PlacementsKeep
  <1>4. /\ UNCHANGED <<execVars, temp, handle, turn, it, visited>> /\ content' \subseteq Keys
        /\ doing' = "nothing"
    BY <1>1 DEF InsertPlaces
  <1> QED BY <1>1, <1>3, <1>4, KeptSteps

LEMMA EraseStep ==
    ASSUME IInv, TableInv, LockedEraseAt \/ \E k \in Keys : LockedErase(k)
    PROVE  /\ TableInv' /\ Idle
           /\ \E p \in Occupied(map) : Changed(map, map', p \div Slots, (p % Slots) + 1, Empty)
  <1>1. IsMap(map) /\ Settled(map) /\ visited \subseteq Keys /\ content \subseteq Keys
        /\ (it # None => it \in Occupied(map) \cup {EndPos(map)})
    BY DEF TableInv, Typed
  <1>2. /\ EndPos(map) \in Nat /\ Occupied(map) \in SUBSET (0..EndPos(map) - 1)
        /\ \A p \in 0..EndPos(map) - 1 :
              /\ p \div Slots \in Buckets(map.hp) /\ (p % Slots) + 1 \in SlotIds
              /\ p = (p \div Slots) * Slots + (p % Slots)
    BY <1>1, PositionParts
  <1>3. Idle /\ UNCHANGED <<execVars, temp, handle, doing, arg, turn>> /\ content' \subseteq Keys
    BY <1>1 DEF LockedEraseAt, LockedErase
  <1>4. PICK p \in Occupied(map) : map' = Removed(map, p) /\ (LockedEraseAt => p = it)
                                   /\ (~LockedEraseAt => it' = IF it = p THEN None ELSE it)
    BY <1>1 DEF LockedEraseAt, LockedErase
  <1>5. p \in 0..EndPos(map) - 1
    BY <1>2
  <1>6. Changed(map, map', p \div Slots, (p % Slots) + 1, Empty)
    BY <1>1, <1>4, <1>5, RemovedParts
  <1>7. Kept(map, map') /\ IsMap(map') /\ map'.hp = map.hp
    BY <1>6 DEF Changed, Kept
  <1>8. EndPos(map') = EndPos(map)
    BY <1>7 DEF EndPos
  <1>9. visited' \subseteq Keys
    BY <1>1 DEF LockedEraseAt, LockedErase
  <1>10. it' # None => it' \in Occupied(map') \cup {EndPos(map')}
    <2>1. CASE LockedEraseAt
      <3>1. it' = Settle(map', it) /\ it \in Nat
        BY <1>2, <1>4, <2>1 DEF LockedEraseAt
      <3> QED BY <1>7, <3>1, SettleParts
    <2>2. CASE ~LockedEraseAt
      <3>1. it' = IF it = p THEN None ELSE it
        BY <1>4, <2>2
      <3>2. ASSUME it \in Occupied(map), it # p PROVE it \in Occupied(map')
        <4>1. it \in 0..EndPos(map) - 1 /\ KeyAt(map, it) # Empty
          BY <3>2 DEF Occupied
        <4>2. it \div Slots # p \div Slots \/ (it % Slots) + 1 # (p % Slots) + 1
          <5>1. /\ it = (it \div Slots) * Slots + (it % Slots) /\ p = (p \div Slots) * Slots + (p % Slots)
            BY <1>2, <1>5, <4>1
          <5>2. it % Slots \in Int /\ p % Slots \in Int
            BY <1>5, <4>1, <1>2, TableAssumption
          <5> QED BY <3>2, <5>1, <5>2
        <4>3. KeyAt(map', it) = KeyAt(map, it)
          BY <1>2, <1>6, <4>1, <4>2 DEF Changed, KeyAt
        <4> QED BY <1>8, <4>1, <4>3 DEF Occupied
      <3> QED BY <1>1, <1>8, <3>1, <3>2
    <2> QED BY <2>1, <2>2
  <1>11. TableInv'
    BY <1>3, <1>7, <1>9, <1>10, KeptSteps DEF Idle
  <1> QED BY <1>3, <1>6, <1>11

\* cuckoo_clear.
Cleared(m) ==
    [NewMap(m.hp) EXCEPT !.locks =
        [l \in LockIds(m) |-> [m.locks[l] EXCEPT !.count = 0, !.migrated = TRUE]]]

LEMMA ClearedLock ==
    ASSUME NEW r \in LockRecords
    PROVE  LET n == [r EXCEPT !.count = 0, !.migrated = TRUE]
           IN  n \in LockRecords /\ n.held = r.held /\ n.migrated
  <1> DEFINE q == [r EXCEPT !.count = 0]
  <1>1. q \in LockRecords /\ q.held = r.held
    BY DEF LockRecords
  <1>2. [r EXCEPT !.count = 0, !.migrated = TRUE] = [q EXCEPT !.migrated = TRUE]
    OBVIOUS
  <1> HIDE DEF q
  <1>3. \A on \in BOOLEAN : LET n == [q EXCEPT !.migrated = on]
                            IN  n \in LockRecords /\ n.held = q.held /\ n.migrated = on
    BY <1>1 DEF LockRecords
  <1>4. LET n == [q EXCEPT !.migrated = TRUE]
        IN  n \in LockRecords /\ n.held = q.held /\ n.migrated = TRUE
    BY <1>3
  <1> QED BY <1>1, <1>2, <1>4

LEMMA ClearedParts ==
    ASSUME NEW m, IsMap(m)
    PROVE  /\ Kept(m, Cleared(m)) /\ AllMigrated(Cleared(m))
           /\ \A b \in Buckets(m.hp), i \in SlotIds : Cleared(m).slots[b][i] = Empty
  <1> DEFINE n == NewMap(m.hp)
             K == [l \in LockIds(m) |-> [m.locks[l] EXCEPT !.count = 0, !.migrated = TRUE]]
             o == [n EXCEPT !.locks = K]
  <1>1. /\ m.hp \in 0..HpBound /\ m.locks \in [LockIds(m) -> LockRecords]
        /\ LockIds(m) = 0..NumLocks(m.hp) - 1
    BY MapParts
  <1>2. IsMap(n) /\ n.hp = m.hp /\ n.slots \in [Buckets(m.hp) -> Rows]
        /\ \A b \in Buckets(m.hp), i \in SlotIds : n.slots[b][i] = Empty
    BY <1>1, NewMapParts
  <1>3. /\ K \in [LockIds(m) -> LockRecords]
        /\ \A l \in LockIds(m) : K[l].held = m.locks[l].held /\ K[l].migrated
    <2>1. \A l \in LockIds(m) : m.locks[l] \in LockRecords
      BY <1>1
    <2>2. \A l \in LockIds(m) : LET r == [m.locks[l] EXCEPT !.count = 0, !.migrated = TRUE]
                                IN  r \in LockRecords /\ r.held = m.locks[l].held /\ r.migrated
      BY <2>1, ClearedLock
    <2> QED BY <2>2
  <1>4. Cleared(m) = o
    BY DEF Cleared
  <1>5. n = [hp |-> n.hp, slots |-> n.slots, locks |-> n.locks]
    BY <1>2, MapParts
  <1> HIDE DEF n, K
  <1>6. o = [hp |-> m.hp, slots |-> n.slots, locks |-> K]
    BY <1>2, <1>5
  <1> HIDE DEF o
  <1>7. IsMap(o) /\ o.hp = m.hp /\ o.slots = n.slots /\ o.locks = K /\ LockIds(o) = LockIds(m)
    BY <1>1, <1>2, <1>3, <1>6, MapMade
  <1> QED BY <1>2, <1>3, <1>4, <1>7 DEF Kept, AllMigrated

LEMMA ClearStep == ASSUME IInv, TableInv, LockedClear PROVE TableInv'
  <1>1. IsMap(map) /\ map' = Cleared(map)
    BY DEF LockedClear, TableInv, Typed, Cleared
  <1>2. Kept(map, map')
    BY <1>1, ClearedParts
  <1>3. /\ UNCHANGED <<execVars, temp, handle, turn, doing, arg>> /\ it' = None
        /\ visited' \subseteq Keys /\ content' \subseteq Keys
    BY DEF LockedClear
  <1> QED BY <1>2, <1>3, KeptSteps

\* cuckoo_fast_double of the handle; the workers start if the data are left.
LEMMA DoubleStep == ASSUME TableInv, LockedDouble PROVE TableInv'
  <1>1. IsMap(map) /\ Settled(map) /\ map.hp < HpBound /\ doing = "double" /\ handle /\ it = None
    BY DEF LockedDouble, TableInv, Typed, Idle, Inserting
  <1>2. map.hp \in 0..HpBound /\ LockPow \in Nat
    BY <1>1, MapParts, TableAssumption
  <1>3. /\ IsMap(map') /\ map'.hp = map.hp + 1 /\ Settled(map')
        /\ HeldLocks(map) = LockIds(map) => HeldLocks(map') = LockIds(map')
        /\ map.hp >= LockPow => LockIds(map') = LockIds(map)
    <2>1. map' = Doubled(map)
      BY DEF LockedDouble
    <2> QED BY <1>1, <2>1, DoubledParts
  <1>4. HeldLocks(map') = LockIds(map')
    BY <1>1, <1>3 DEF TableInv, HeldOK
  <1>5. UNCHANGED <<temp, handle, arg, turn, it, visited, content>>
    BY DEF LockedDouble
  <1>6. CASE map.hp < LockPow
    <2>1. UNCHANGED execVars /\ doing' = "insert"
      BY <1>6 DEF LockedDouble
    <2> QED BY <1>1, <1>3, <1>4, <1>5, <2>1 DEF TableInv, Typed, WorkOK, HeldOK, Inserting, Copying,
        Working, Migrating, execVars
  <1>7. CASE map.hp >= LockPow
    <2>1. StartExec(Cardinality(LockIds(map))) /\ doing' = "spread"
      BY <1>2, <1>7 DEF LockedDouble
    <2>2. stage' # "idle" /\ failed' = {} /\ handled' = {} /\ end' = Cardinality(LockIds(map'))
      BY <1>3, <1>7, <2>1 DEF StartExec
    <2> QED BY <1>1, <1>3, <1>4, <1>5, <2>1, <2>2 DEF TableInv, Typed, WorkOK, HeldOK, Inserting, Copying,
        Working, Migrating
  <1> QED BY <1>2, <1>6, <1>7

-----------------------------------------------------------------------------
\* The copying of the keys into a new map.
LEMMA StartCopyStep == ASSUME TableInv, StartCopy PROVE TableInv'
  <1>1. arg \in 0..HpBound /\ doing = "start_copy" /\ it = None
    BY TableAssumption DEF StartCopy, TableInv, Typed, Copying, Idle
  <1>2. IsMap(temp') /\ Settled(temp') /\ HeldLocks(temp') = {}
    <2>1. temp' = NewMap(arg)
      BY DEF StartCopy
    <2> QED BY <1>1, <2>1, NewMapParts
  <1>3. /\ stage' # "idle" /\ end' = HashSize(map.hp) /\ doing' = "copy"
        /\ UNCHANGED <<map, handle, arg, turn, it, visited, content>>
    BY DEF StartCopy, StartExec
  <1> QED BY <1>1, <1>2, <1>3 DEF TableInv, Typed, WorkOK, HeldOK, Inserting, Copying, Working,
      Migrating, Idle

\* The key a worker copies, and the bucket it takes it from.
LEMMA KeyToCopy ==
    ASSUME IInv, TableInv, doing = "copy", NEW w \in Workers, Running(w), Uncopied(w) # {}
    PROVE  /\ next[w] \in Buckets(map.hp) /\ NextToCopy(w) \in Keys
           /\ \E i \in SlotIds : NextToCopy(w) = map.slots[next[w]][i] /\ NextToCopy(w) # Empty
           /\ Where(temp, NextToCopy(w)) = {}
           /\ IsMap(temp) /\ Settled(temp) /\ HeldLocks(temp) = {}
  <1>1. IsMap(map) /\ end = HashSize(map.hp) /\ IsMap(temp) /\ Settled(temp) /\ HeldLocks(temp) = {}
    BY DEF TableInv, Typed, WorkOK
  <1>2. next[w] \in Buckets(map.hp)
    BY <1>1, RunsInRange DEF Buckets
  <1> DEFINE U == Uncopied(w)
  <1>3. U \in SUBSET SlotIds
    BY DEF Uncopied
  <1>4. Min(U) \in U
    BY <1>3, MinSlot
  <1>5. map.slots[next[w]][Min(U)] # Empty /\ Where(temp, map.slots[next[w]][Min(U)]) = {}
    BY <1>4 DEF Uncopied
  <1>6. NextToCopy(w) = map.slots[next[w]][Min(U)]
    BY DEF NextToCopy
  <1>7. NextToCopy(w) \in Keys
    BY <1>1, <1>2, <1>3, <1>4, <1>5, <1>6, MapParts
  <1> QED BY <1>1, <1>2, <1>3, <1>4, <1>5, <1>6, <1>7

LEMMA CopyKeyStep == ASSUME IInv, TableInv, NEW w \in Workers, CopyKey(w) PROVE TableInv'
  <1>1. /\ doing = "copy" /\ Running(w) /\ Uncopied(w) # {}
        /\ UNCHANGED <<execVars, map, handle, doing, arg, turn, it, visited, content>>
    BY DEF CopyKey
  <1>2. NextToCopy(w) \in Keys /\ IsMap(temp) /\ Settled(temp) /\ HeldLocks(temp) = {}
    BY <1>1, KeyToCopy
  <1>3. IsMap(temp') /\ Settled(temp') /\ HeldLocks(temp') = {}
    <2>1. CASE temp' \in Placements(temp, NextToCopy(w), TRUE)
      <3>1. Kept(temp, temp')
        BY <1>2, <2>1, PlacementsKeep
      <3> QED BY <1>2, <3>1, KeptKeeps DEF Kept
    <2>2. CASE ~NewMapRefused /\ temp.hp < HpBound /\ temp' = Doubled(RehashAll(temp))
      <3> DEFINE r == RehashAll(temp)
      <3>1. Kept(temp, r) /\ Settled(r)
        BY <1>2, RehashAllParts
      <3>2. IsMap(r) /\ r.hp = temp.hp /\ HeldLocks(r) = {}
        BY <1>2, <3>1, KeptKeeps DEF Kept
      <3>3. r.hp < HpBound
        <4>1. temp.hp \in Nat /\ HpBound \in Nat
          BY <1>2, MapParts, TableAssumption
        <4> QED BY <2>2, <3>2, <4>1
      <3> HIDE DEF r
      <3>4. IsMap(Doubled(r)) /\ Settled(Doubled(r)) /\ HeldLocks(Doubled(r)) = {}
        BY <3>1, <3>2, <3>3, DoubledParts
      <3> QED BY <2>2, <3>4 DEF r
    <2> QED BY <2>1, <2>2 DEF CopyKey
  <1> QED BY <1>1, <1>3 DEF TableInv, Typed, WorkOK, HeldOK, Inserting, Copying, Working, Migrating, Idle,
      execVars

LEMMA CopyDoneStep == ASSUME TableInv, CopyDone PROVE TableInv'
  <1>1. /\ doing = "copy" /\ IsMap(map) /\ Settled(map) /\ IsMap(temp) /\ Settled(temp) /\ it = None
        /\ HeldLocks(map) = LockIds(map)
    BY DEF CopyDone, TableInv, Typed, HeldOK, Idle
  <1>2. IsMap(map') /\ Settled(map') /\ HeldLocks(map') = LockIds(map')
    <2>1. CASE failed = {}
      <3> DEFINE n == WithLocks(temp, LockIds(temp), TRUE)
      <3>1. map' = n
        BY <2>1 DEF CopyDone
      <3>2. /\ IsMap(n) /\ n.hp = temp.hp /\ LockIds(n) = LockIds(temp)
            /\ \A l \in LockIds(temp) : /\ n.locks[l].migrated = temp.locks[l].migrated
                                        /\ n.locks[l].held
        BY <1>1, WithLocksParts
      <3> HIDE DEF n
      <3>3. Settled(n) /\ HeldLocks(n) = LockIds(n)
        BY <1>1, <3>2 DEF Settled, AllMigrated, HeldLocks
      <3> QED BY <3>1, <3>2, <3>3
    <2>2. CASE failed # {}
      BY <1>1, <2>2 DEF CopyDone
    <2> QED BY <2>1, <2>2
  <1>3. /\ temp' = None /\ doing' = Done /\ turn' = 0 /\ stage' = "idle"
        /\ UNCHANGED <<handle, it, visited, content>>
    BY DEF CopyDone, Return
  <1>4. LockIds(map') = 0..NumLocks(map'.hp) - 1
    BY <1>2, MapParts
  <1>5. Typed' /\ WorkOK'
    BY <1>1, <1>2, <1>3 DEF TableInv, Typed, WorkOK, Inserting, Copying, Working, Migrating, Done
  <1>6. HeldOK'
    BY <1>2, <1>3, <1>4 DEF TableInv, Typed, HeldOK, Done
  <1> QED BY <1>5, <1>6 DEF TableInv

-----------------------------------------------------------------------------
\* The calls of the other threads.
LEMMA NoHandle ==
    ASSUME TableInv, NEW L \in SUBSET LockIds(map), L # {}, Free(L)
    PROVE  /\ it = None
           /\ doing \in {"lock_all", "unlock"} \/ (doing = "nothing" /\ ~handle)
  <1>1. PICK l \in L : ~map.locks[l].held
    BY DEF Free
  <1>2. HeldLocks(map) # LockIds(map)
    BY <1>1 DEF HeldLocks
  <1> QED BY <1>2 DEF TableInv, Typed, HeldOK, Idle

LEMMA OtherInsertStep ==
    ASSUME IInv, TableInv, NEW k \in Keys, OtherInsert(k)
    PROVE  TableInv' /\ Kept(map, map')
  <1>1. /\ IsMap(map) /\ Settled(map) /\ visited \subseteq Keys /\ content \subseteq Keys
        /\ map' \in Placements(map, k, TRUE)
    BY DEF OtherInsert, TableInv, Typed
  <1>2. Kept(map, map')
    BY <1>1, PlacementsKeep
  <1>3. it = None
    BY <1>1, KeyHomes, NoHandle DEF OtherInsert
  <1>4. /\ UNCHANGED <<execVars, temp, handle, turn, doing, arg>> /\ it' = None
        /\ visited' \subseteq Keys /\ content' \subseteq Keys
    BY <1>1, <1>3 DEF OtherInsert
  <1> QED BY <1>2, <1>4, KeptSteps

\* Whatever slot an erasure empties, the map keeps its size.
LEMMA EmptiedParts ==
    ASSUME NEW m, IsMap(m), NEW b, NEW i, NEW l \in LockIds(m)
    PROVE  Kept(m, [m EXCEPT !.slots[b][i] = Empty, !.locks[l].count = @ - 1])
  <1> DEFINE n == [m EXCEPT !.slots[b][i] = Empty, !.locks[l].count = @ - 1]
             K == [m.locks EXCEPT ![l].count = @ - 1]
  <1>1. CASE b \in Buckets(m.hp) /\ i \in SlotIds
    BY <1>1, TakenParts DEF Changed
  <1>2. CASE ~(b \in Buckets(m.hp) /\ i \in SlotIds)
    <2>1. /\ m = [hp |-> m.hp, slots |-> m.slots, locks |-> m.locks]
          /\ m.slots \in [Buckets(m.hp) -> Rows] /\ m.locks \in [LockIds(m) -> LockRecords]
      BY MapParts
    <2>2. [m.slots EXCEPT ![b][i] = Empty] = m.slots
      <3>1. CASE b \notin Buckets(m.hp)
        BY <2>1, <3>1
      <3>2. CASE b \in Buckets(m.hp) /\ i \notin SlotIds
        <4>1. m.slots[b] \in Rows
          BY <2>1, <3>2
        <4>2. [m.slots[b] EXCEPT ![i] = Empty] = m.slots[b]
          BY <3>2, <4>1 DEF Rows
        <4>3. [m.slots EXCEPT ![b] = m.slots[b]] = m.slots
          BY <2>1
        <4> QED BY <4>2, <4>3
      <3> QED BY <1>2, <3>1, <3>2
    <2> DEFINE o == [m EXCEPT !.slots = m.slots]
    <2>3. o = m
      BY <2>1
    <2>4. n = [o EXCEPT !.locks[l].count = @ - 1]
      BY <2>2
    <2> HIDE DEF o
    <2>5. n = [m EXCEPT !.locks = K]
      BY <2>3, <2>4
    <2>6. /\ K \in [LockIds(m) -> LockRecords]
          /\ \A e \in LockIds(m) : K[e].held = m.locks[e].held /\ K[e].migrated = m.locks[e].migrated
      BY <2>1 DEF LockRecords
    <2> DEFINE q == [m EXCEPT !.locks = K]
    <2> HIDE DEF K
    <2>7. Kept(m, q)
      BY <2>6, OtherLocks
    <2> HIDE DEF q, n
    <2>8. n = q
      BY <2>5 DEF q
    <2>9. Kept(m, n)
      BY <2>7, <2>8
    <2> QED BY <2>9 DEF n
  <1> QED BY <1>1, <1>2, SMTT(60)

LEMMA OtherEraseStep ==
    ASSUME IInv, TableInv, NEW k \in Keys, OtherErase(k)
    PROVE  TableInv' /\ Kept(map, map')
  <1> DEFINE L == LocksOf(Homes(k, map.hp))
             l == Min(L)
             m == Touch(map, L)
             p == CHOOSE p \in Where(m, k) : TRUE
             n == [m EXCEPT !.slots[p[1]][p[2]] = Empty, !.locks[l].count = @ - 1]
  <1>1. IsMap(map) /\ Settled(map) /\ visited \subseteq Keys /\ content \subseteq Keys
    BY DEF TableInv, Typed
  <1>2. L \in SUBSET LockIds(map) /\ l \in LockIds(map)
    BY <1>1, KeyHomes
  <1>3. Kept(map, m)
    BY <1>1, <1>2, TouchParts
  <1>4. map' = IF k \in content THEN n ELSE m
    BY DEF OtherErase
  <1>5. it = None
    <2>1. Homes(k, map.hp) # {} /\ L # {}
      BY <1>1, KeyHomes
    <2>2. Free(L)
      BY DEF OtherErase
    <2> QED BY <1>2, <2>1, <2>2, NoHandle
  <1> HIDE DEF m, l, p
  <1>6. IsMap(m) /\ l \in LockIds(m)
    BY <1>2, <1>3 DEF Kept
  <1>7. Kept(m, n)
    BY <1>6, EmptiedParts
  <1> HIDE DEF n
  <1>8. Kept(map, map')
    BY <1>1, <1>3, <1>4, <1>7, KeptKeeps
  <1>9. /\ UNCHANGED <<execVars, temp, handle, turn, doing, arg>> /\ it' = None
        /\ visited' \subseteq Keys /\ content' \subseteq Keys
    BY <1>1, <1>5 DEF OtherErase
  <1> QED BY <1>8, <1>9, KeptSteps

LEMMA OtherDoubleStep == ASSUME TableInv, NEW k \in Keys, OtherDouble(k) PROVE TableInv'
  <1> DEFINE r == RehashAll(map)
  <1>1. IsMap(map) /\ Settled(map) /\ 0 \in LockIds(map) /\ map.hp \in 0..HpBound /\ LockPow \in Nat /\ HpBound \in Nat
    <2>1. IsMap(map) /\ Settled(map)
      BY DEF TableInv, Typed
    <2> QED BY <2>1, MapParts, TableAssumption
  <1>2. /\ it = None /\ HeldLocks(map) = {}
        /\ doing \in {"lock_all", "unlock"} \/ (doing = "nothing" /\ ~handle)
    <2>1. Free(LockIds(map))
      BY DEF OtherDouble, AllFree
    <2>2. HeldLocks(map) = {}
      BY <2>1 DEF Free, HeldLocks
    <2> QED BY <1>1, <2>1, <2>2, NoHandle
  <1>3. Kept(map, r) /\ Settled(r)
    BY <1>1, RehashAllParts
  <1>4. IsMap(r) /\ r.hp = map.hp /\ HeldLocks(r) = {}
    BY <1>1, <1>2, <1>3, KeptKeeps DEF Kept
  <1>5. map.hp < HpBound
    BY <1>1, RoomToDouble DEF OtherDouble
  <1>6. map' = Doubled(r)
    BY DEF OtherDouble
  <1> HIDE DEF r
  <1>7. IsMap(map') /\ map'.hp = map.hp + 1 /\ Settled(map') /\ HeldLocks(map') = {}
    BY <1>3, <1>4, <1>5, <1>6, DoubledParts
  <1>8. NumLocks(map.hp) <= NumLocks(map'.hp) /\ NumLocks(map.hp) \in Nat /\ NumLocks(map'.hp) \in Nat
    BY <1>1, <1>7, NumLocksFacts
  <1>9. UNCHANGED <<execVars, temp, handle, turn, doing, arg, it, visited, content>>
    BY DEF OtherDouble
  <1>10. Typed' /\ WorkOK'
    BY <1>2, <1>7, <1>9 DEF TableInv, Typed, WorkOK, Inserting, Copying, Working, Migrating, execVars
  <1>11. HeldOK'
    <2>1. doing = "lock_all" => turn <= NumLocks(map.hp) /\ HeldLocks(map) = 0..turn - 1 /\ turn \in Nat
      BY DEF TableInv, Typed, HeldOK
    <2> QED BY <1>2, <1>7, <1>8, <1>9, <2>1 DEF HeldOK
  <1> QED BY <1>10, <1>11 DEF TableInv

-----------------------------------------------------------------------------
LEMMA TableInit == Init => IInv /\ TableInv
  <1> SUFFICES ASSUME Init PROVE IInv /\ TableInv
    OBVIOUS
  <1>1. IInv
    BY ExecInitInv DEF Init
  <1>2. PICK hp \in 0..HpBound : map = NewMap(hp)
    BY TableAssumption DEF Init
  <1>3. IsMap(map) /\ Settled(map) /\ HeldLocks(map) = {}
    BY <1>2, NewMapParts
  <1>4. stage = "idle"
    BY DEF Init, ExecInit
  <1>5. TableInv
    BY <1>3, <1>4 DEF Init, TableInv, Typed, WorkOK, HeldOK, Inserting, Copying, Working, Migrating
  <1> QED BY <1>1, <1>5

\* Every step keeps the workers' invariant and the map's.
LEMMA TableStep == IInv /\ TableInv /\ [Next]_vars => IInv' /\ TableInv'
  <1> SUFFICES ASSUME IInv, TableInv, [Next]_vars PROVE IInv' /\ TableInv'
    OBVIOUS
  <1>1. IInv'
    BY ExecStepInv, StepsOfExec DEF vars
  <1>2. CASE UNCHANGED vars
    BY <1>1, <1>2 DEF vars, execVars, tableVars, TableInv, Typed, WorkOK, HeldOK, Inserting, Copying, Working,
       Migrating, Idle
  <1>3. CASE \/ LockTable \/ (\E n \in Sizes : Rehash(n)) \/ Unlock \/ Unlocked
             \/ (\E k \in Keys : LockedInsert(k))
             \/ InsertDuplicate \/ InsertThrows
             \/ (\E n \in LockedSizes : LockedRehash(n))
             \/ CapacityThrows \/ IterBegin \/ IterNext \/ IterPrev
    BY <1>1, <1>3, BeginSteps, CallSteps, IteratorSteps
  <1>4. CASE AllLocked \/ InsertExpands \/ Capacity
    BY <1>1, <1>4, StartSteps
  <1>5. CASE \/ Threading \/ MigrationDone
             \/ \E w \in Workers : CopyThrows(w) \/ CopyNextBucket(w)
    BY <1>1, <1>5, ThreadSteps
  <1>6. CASE \E w \in Workers : MigrateLock(w)
    BY <1>1, <1>6, MigrateStep
  <1>7. CASE LockNext \/ UnlockNext
    BY <1>1, <1>7, LockSteps
  <1>8. CASE InsertPlaces
    BY <1>1, <1>8, PlaceStep
  <1>9. CASE LockedEraseAt \/ \E k \in Keys : LockedErase(k)
    BY <1>1, <1>9, EraseStep
  <1>10. CASE LockedClear
    BY <1>1, <1>10, ClearStep
  <1>11. CASE LockedDouble
    BY <1>1, <1>11, DoubleStep
  <1>12. CASE StartCopy \/ CopyDone
    BY <1>1, <1>12, StartCopyStep, CopyDoneStep
  <1>13. CASE \E w \in Workers : CopyKey(w)
    BY <1>1, <1>13, CopyKeyStep
  <1>14. CASE OtherThread
    BY <1>1, <1>14, OtherInsertStep, OtherDoubleStep, OtherEraseStep DEF OtherThread
  <1>15. CASE Next
    BY <1>3, <1>4, <1>5, <1>6, <1>7, <1>8, <1>9, <1>10, <1>11, <1>12, <1>13, <1>14, <1>15
       DEF Next, Owner
  <1> QED BY <1>1, <1>2, <1>15

THEOREM TableInvariant == Spec => [](IInv /\ TableInv)
  <1>1. Init => IInv /\ TableInv
    BY TableInit
  <1>2. IInv /\ TableInv /\ [Next]_vars => (IInv /\ TableInv)'
    BY TableStep
  <1> QED BY <1>1, <1>2, PTL DEF Spec

\* The map, its locks and the new map have their types, and an iterator is
\* at a slot of the map or at the end.
THEOREM TableTypeOK == Spec => []TypeOK
  <1>1. TableInv => TypeOK
    <2> SUFFICES ASSUME TableInv PROVE TypeOK
      OBVIOUS
    <2>1. ASSUME NEW m, IsMap(m) PROVE m.hp \in 0..HpBound /\ MapOK(m)
      BY <2>1, MapParts DEF MapOK, Buckets, Rows, LockRecords
    <2>2. IsMap(map) /\ (temp # None => IsMap(temp))
      BY DEF TableInv, Typed
    <2>3. it # None => it \in 0..EndPos(map)
      BY <2>2, PositionParts DEF TableInv, Typed
    <2> QED BY <2>1, <2>2, <2>3 DEF TypeOK, TableInv, Typed, Inserting, Copying, Working
  <1> QED BY <1>1, TableInvariant, PTL

\* Whoever owns the map holds all locks of the storage it has, whether it has
\* grown or been replaced, and without an owner none is left locked: lock_all,
\* AllUnlocker, maybe_resize_locks and cuckoo_change_capacity.
THEOREM LocksAreHeld == Spec => []LocksFollowTheHandle
  <1>1. TableInv => LocksFollowTheHandle
    <2> SUFFICES ASSUME TableInv PROVE LocksFollowTheHandle
      OBVIOUS
    <2> QED BY DEF TableInv, HeldOK, LocksFollowTheHandle, HeldLocks, AllFree, Free
  <1> QED BY <1>1, TableInvariant, PTL

-----------------------------------------------------------------------------
\* The keys of a map that holds C are those of C.
LEMMA HeldKeys ==
    ASSUME NEW m, IsMap(m), NEW C \in SUBSET Keys, Holds(m, C)
    PROVE  /\ KeysOf(m) = C
           /\ \A k \in C : Cardinality(Where(m, k)) = 1
           /\ \A k \in C : \A p \in Where(m, k) : /\ p[1] \in Buckets(m.hp) /\ p[2] \in SlotIds
                                                  /\ m.slots[p[1]][p[2]] = k
                                                  /\ p[1] \in Homes(k, Basis(m, p[1]))
  <1>1. DOMAIN m.slots = Buckets(m.hp) /\ Empty \notin Keys
    BY MapParts, TableAssumption
  <1>2. \A k, p : p \in Where(m, k) <=> /\ p \in Buckets(m.hp) \X SlotIds
                                        /\ m.slots[p[1]][p[2]] = k
    BY <1>1 DEF Where
  <1>3. \A k \in Keys : k \in C <=> Where(m, k) # {}
    <2> SUFFICES ASSUME NEW k \in Keys PROVE k \in C <=> Where(m, k) # {}
      OBVIOUS
    <2>1. ASSUME k \in C PROVE Where(m, k) # {}
      <3>1. PICK b \in Buckets(m.hp), i \in SlotIds : m.slots[b][i] = k
        BY <1>1, <2>1 DEF Holds, Stored
      <3>2. <<b, i>> \in Where(m, k)
        BY <1>2, <3>1
      <3> QED BY <3>2
    <2>2. ASSUME Where(m, k) # {} PROVE k \in C
      <3>1. PICK p : p \in Where(m, k)
        BY <2>2
      <3>2. p[1] \in Buckets(m.hp) /\ p[2] \in SlotIds /\ m.slots[p[1]][p[2]] = k
        BY <1>2, <3>1
      <3> QED BY <1>1, <3>2 DEF Holds, AtHome
    <2> QED BY <2>1, <2>2
  <1>4. KeysOf(m) = C
    BY <1>3 DEF KeysOf
  <1>5. ASSUME NEW k \in C PROVE Cardinality(Where(m, k)) = 1
    <2>1. PICK p : p \in Where(m, k)
      BY <1>3
    <2>2. ASSUME NEW q \in Where(m, k) PROVE q = p
      <3>1. /\ p \in Buckets(m.hp) \X SlotIds /\ m.slots[p[1]][p[2]] = k
            /\ q \in Buckets(m.hp) \X SlotIds /\ m.slots[q[1]][q[2]] = k
        BY <1>2, <2>1, <2>2
      <3>2. p[1] = q[1] /\ p[2] = q[2]
        BY <1>1, <3>1 DEF Holds, OneSlotEach
      <3> QED BY <3>1, <3>2
    <2>3. Where(m, k) = {p}
      BY <2>1, <2>2
    <2> QED BY <2>3, FS_Singleton
  <1>6. ASSUME NEW k \in C, NEW p \in Where(m, k)
        PROVE  /\ p[1] \in Buckets(m.hp) /\ p[2] \in SlotIds /\ m.slots[p[1]][p[2]] = k
               /\ p[1] \in Homes(k, Basis(m, p[1]))
    <2>1. p[1] \in Buckets(m.hp) /\ p[2] \in SlotIds /\ m.slots[p[1]][p[2]] = k
      BY <1>2
    <2> QED BY <1>1, <2>1 DEF Holds, AtHome
  <1> QED BY <1>4, <1>5, <1>6

\* lock_and_rehash changes nothing in the buckets of locks that are migrated.
LEMMA TouchRows ==
    ASSUME NEW m, IsMap(m), Settled(m), NEW L \in SUBSET LockIds(m),
           NEW b \in Buckets(m.hp), LockInd(b) \notin Left(m, L), NEW i \in SlotIds
    PROVE  Touch(m, L).slots[b][i] = m.slots[b][i]
  <1>1. CASE Left(m, L) = {}
    BY <1>1, TouchParts
  <1>2. CASE Left(m, L) # {}
    <2> DEFINE B == LeftBuckets(m, L)
               N == HashSize(m.hp - 1)
    <2>1. /\ m.hp # 0 /\ m.hp - 1 \in LockPow..HpBound /\ B \in SUBSET Buckets(m.hp - 1)
          /\ Touch(m, L).slots = MoveBuckets(m, B).slots
      BY <1>2, TouchParts
    <2>2. \A x \in B : x \in Nat /\ LockInd(x) \in Left(m, L)
      BY <2>1, MovedParts DEF LeftBuckets
    <2>3. b \notin B
      BY <2>2
    <2>4. b - N \notin B
      <3> SUFFICES ASSUME b - N \in B PROVE FALSE
        OBVIOUS
      <3>1. b - N \in Nat /\ N \in Nat /\ b \in Nat
        BY <2>1, <2>2, MovedParts, MapParts
      <3>2. (b - N) + N = b
        BY <3>1
      <3>3. LockInd((b - N) + N) = LockInd(b - N)
        BY <2>1, <3>1, DoubledLock
      <3> QED BY <2>2, <3>2, <3>3
    <2>5. MoveBuckets(m, B).slots[b][i] =
             CASE b \in B /\ i \in Moving(m, b) -> Empty
               [] b - N \in B /\ i <= Cardinality(Moving(m, b - N)) -> m.slots[b - N][Nth(Moving(m, b - N), i)]
               [] OTHER -> m.slots[b][i]
      BY <2>1, MovedParts
    <2> HIDE DEF B, N
    <2>6. MoveBuckets(m, B).slots[b][i] = m.slots[b][i]
      BY <2>3, <2>4, <2>5
    <2> QED BY <2>1, <2>6 DEF B
  <1> QED BY <1>1, <1>2

\* A key of a table lies below its size.
LEMMA HomesBelow ==
    ASSUME NEW h \in 0..HpBound, NEW k \in Keys, NEW b \in Homes(k, h)
    PROVE  b \in Nat /\ b < HashSize(h)
  <1>1. HashSize(h) \in Nat /\ b \in Buckets(h)
    BY HomesAreBuckets, SizeNat, TableAssumption
  <1> QED BY <1>1 DEF Buckets

\* Looking through a lock moves keys to where they now belong and loses none.
LEMMA TouchHolds ==
    ASSUME NEW m, IsMap(m), Settled(m), NEW L \in SUBSET LockIds(m),
           NEW C \in SUBSET Keys, Holds(m, C)
    PROVE  Holds(Touch(m, L), C)
  <1> DEFINE n == Touch(m, L)
             B == LeftBuckets(m, L)
             N == HashSize(m.hp - 1)
             M == MoveBuckets(m, B)
  <1>1. /\ Kept(m, n) /\ IsMap(n) /\ n.hp = m.hp /\ LockIds(n) = LockIds(m)
        /\ \A l \in LockIds(m) : n.locks[l].migrated <=> m.locks[l].migrated \/ l \in L
    BY TouchParts DEF Kept
  <1>2. DOMAIN n.slots = Buckets(m.hp) /\ DOMAIN m.slots = Buckets(m.hp)
        /\ \A b \in Buckets(m.hp) : b \in Nat /\ LockInd(b) \in LockIds(m)
    BY <1>1, MapParts
  <1>3. CASE Left(m, L) = {}
    BY <1>3, TouchParts
  <1>4. CASE Left(m, L) # {}
    <2>1. /\ m.hp # 0 /\ m.hp - 1 \in LockPow..HpBound /\ m.hp - 1 \in 0..HpBound /\ (m.hp - 1) + 1 = m.hp
          /\ B \in SUBSET Buckets(m.hp - 1) /\ n.slots = M.slots
      <3>1. m.hp \in Nat /\ LockPow \in Nat
        BY MapParts, TableAssumption
      <3>2. /\ m.hp # 0 /\ m.hp - 1 \in LockPow..HpBound
            /\ B \in SUBSET Buckets(m.hp - 1) /\ n.slots = M.slots
        BY <1>4, TouchParts
      <3> QED BY <3>1, <3>2
    <2>2. /\ N \in Nat /\ \A b \in B : b \in Nat /\ b + N \in Buckets(m.hp) /\ b \in Buckets(m.hp)
          /\ \A b \in Nat : b \in B <=> b < N /\ LockInd(b) \in Left(m, L)
      <3>1. /\ N \in Nat /\ \A b \in B : b \in Nat /\ b + N \in Buckets(m.hp)
            /\ B \subseteq Buckets(m.hp)
        BY <2>1, MovedParts
      <3> QED BY <3>1 DEF LeftBuckets, OldBuckets
    <2>3. \A b \in Nat : LockInd(b + N) = LockInd(b)
      BY <2>1, DoubledLock
    <2>4. \A b \in Buckets(m.hp), i \in SlotIds : m.slots[b][i] # Empty =>
             /\ m.slots[b][i] \in Keys /\ m.slots[b][i] \in C /\ b \in Homes(m.slots[b][i], Basis(m, b))
             /\ LockInd(b) \in Left(m, L) => b \in Homes(m.slots[b][i], m.hp - 1) /\ b \in B
      <3> SUFFICES ASSUME NEW b \in Buckets(m.hp), NEW i \in SlotIds, m.slots[b][i] # Empty
                   PROVE  /\ m.slots[b][i] \in Keys /\ m.slots[b][i] \in C
                          /\ b \in Homes(m.slots[b][i], Basis(m, b))
                          /\ LockInd(b) \in Left(m, L) =>
                                b \in Homes(m.slots[b][i], m.hp - 1) /\ b \in B
        OBVIOUS
      <3>1. m.slots[b][i] \in C /\ b \in Homes(m.slots[b][i], Basis(m, b))
        BY <1>2 DEF Holds, AtHome
      <3>2. ASSUME LockInd(b) \in Left(m, L) PROVE b \in Homes(m.slots[b][i], m.hp - 1) /\ b \in B
        <4>1. b \in Homes(m.slots[b][i], m.hp - 1)
          BY <3>1, <3>2 DEF Left, Basis
        <4>2. b < N
          BY <2>1, <3>1, <4>1, HomesBelow
        <4> QED BY <1>2, <2>2, <3>2, <4>1, <4>2
      <3> QED BY <3>1, <3>2
    <2>5. RoomAbove(m, B)
      <3> SUFFICES ASSUME NEW b \in B, NEW i \in SlotIds, m.slots[b + N][i] # Empty PROVE FALSE
        BY DEF RoomAbove
      <3>1. b \in Nat /\ b + N \in Buckets(m.hp) /\ LockInd(b + N) = LockInd(b)
            /\ LockInd(b) \in Left(m, L)
        BY <2>2, <2>3
      <3>2. b + N \in B /\ b + N \in Nat /\ ~(b + N < N)
        BY <2>2, <2>4, <3>1
      <3> HIDE DEF N, B
      <3> QED BY <2>2, <3>2
    <2>6. OneSlotEach(n)
      <3>1. OneSlotEach(M)
        BY <2>1, MovedOnce DEF Holds
      <3>2. DOMAIN M.slots = Buckets(m.hp)
        BY <2>1, MovedParts
      <3> HIDE DEF M, n
      <3> QED BY <2>1, <3>1 DEF OneSlotEach
    <2>7. Stored(n, C)
      <3> SUFFICES ASSUME NEW k \in C PROVE \E c \in Buckets(m.hp), j \in SlotIds : n.slots[c][j] = k
        BY <1>2 DEF Stored
      <3>1. PICK b \in Buckets(m.hp), i \in SlotIds : m.slots[b][i] = k
        BY <1>2 DEF Holds, Stored
      <3>2. m.slots[b][i] # Empty
        BY <3>1, TableAssumption
      <3>3. \E c \in Buckets(m.hp), j \in SlotIds : M.slots[c][j] = m.slots[b][i]
        BY <2>1, <2>5, <3>2, NoKeyIsLost
      <3> HIDE DEF M, n
      <3> QED BY <2>1, <3>1, <3>3
    <2>8. AtHome(n, C)
      <3> SUFFICES ASSUME NEW c \in Buckets(m.hp), NEW j \in SlotIds, n.slots[c][j] # Empty
                   PROVE  n.slots[c][j] \in C /\ c \in Homes(n.slots[c][j], Basis(n, c))
        BY <1>2 DEF AtHome
      <3>1. Came(m, B, c, j) \/ Stayed(m, B, c, j)
        BY <2>1, MovedSlots
      <3>2. Basis(n, c) = IF m.locks[LockInd(c)].migrated \/ LockInd(c) \in L THEN m.hp ELSE m.hp - 1
        BY <1>1, <1>2 DEF Basis
      <3>3. CASE Came(m, B, c, j)
        <4> DEFINE o == c - N
                   i == Nth(Moving(m, o), j)
        <4>1. /\ o \in B /\ n.slots[c][j] = m.slots[o][i] /\ i \in Moving(m, o)
              /\ NeedToMove(m.slots[o][i], o, m.hp - 1)
          BY <2>1, <3>3 DEF Came
        <4>2. i \in SlotIds /\ o \in Buckets(m.hp) /\ o \in Nat /\ o + N = c /\ LockInd(o) \in Left(m, L)
          <5>1. i \in SlotIds
            BY <4>1, MovingSlots
          <5>2. o \in Buckets(m.hp) /\ o \in Nat /\ LockInd(o) \in Left(m, L)
            BY <2>2, <4>1
          <5>3. o + N = c
            BY <1>2, <2>2
          <5> QED BY <5>1, <5>2, <5>3
        <4> HIDE DEF o, i
        <4> DEFINE x == m.slots[o][i]
        <4>3. x \in Keys /\ x \in C /\ o \in Homes(x, m.hp - 1)
          BY <2>4, <3>1, <4>1, <4>2
        <4>4. NeedToMove(x, o, m.hp - 1)
          BY <4>1
        <4> HIDE DEF x
        <4>5. o + HashSize(m.hp - 1) \in Homes(x, (m.hp - 1) + 1)
          BY <2>1, <4>3, <4>4, StaysOrMoves
        <4>6. c \in Homes(x, m.hp)
          BY <2>1, <4>2, <4>5
        <4>7. LockInd(c) \in L
          BY <2>3, <4>2 DEF Left
        <4> QED BY <3>2, <4>1, <4>3, <4>6, <4>7 DEF x
      <3>4. CASE Stayed(m, B, c, j)
        <4> DEFINE x == m.slots[c][j]
        <4>1. /\ n.slots[c][j] = x
              /\ c \in B /\ x # Empty => ~NeedToMove(x, c, m.hp - 1)
          BY <2>1, <3>4 DEF Stayed
        <4>2. /\ x \in Keys /\ x \in C /\ c \in Homes(x, Basis(m, c))
              /\ LockInd(c) \in Left(m, L) => c \in Homes(x, m.hp - 1) /\ c \in B
          BY <2>4, <4>1
        <4> HIDE DEF x
        <4>3. CASE LockInd(c) \in Left(m, L)
          <5>1. c \in Homes(x, (m.hp - 1) + 1)
            <6>1. ~NeedToMove(x, c, m.hp - 1)
              BY <4>1, <4>2, <4>3
            <6> QED BY <2>1, <4>2, <4>3, <6>1, StaysOrMoves
          <5> QED BY <2>1, <3>2, <4>1, <4>2, <4>3, <5>1 DEF Left
        <4>4. CASE LockInd(c) \notin Left(m, L)
          <5>1. Basis(n, c) = Basis(m, c)
            BY <1>2, <3>2, <4>4 DEF Left, Basis
          <5> QED BY <4>1, <4>2, <5>1
        <4> QED BY <4>3, <4>4
      <3> QED BY <3>1, <3>3, <3>4
    <2> QED BY <2>6, <2>7, <2>8 DEF Holds
  <1> QED BY <1>3, <1>4

\* double_size adds empty buckets.
LEMMA GrownRows ==
    ASSUME NEW m, IsMap(m), m.hp < HpBound
    PROVE  /\ DOMAIN Grown(m).slots = Buckets(m.hp + 1) /\ Buckets(m.hp) \subseteq Buckets(m.hp + 1)
           /\ \A b \in Buckets(m.hp), i \in SlotIds : Grown(m).slots[b][i] = m.slots[b][i]
           /\ \A b \in Buckets(m.hp + 1), i \in SlotIds :
                 Grown(m).slots[b][i] # Empty => b \in Buckets(m.hp)
  <1>1. /\ IsMap(Grown(m)) /\ Grown(m).hp = m.hp + 1
        /\ Buckets(m.hp) \subseteq Buckets(m.hp + 1)
        /\ \A b \in Buckets(m.hp + 1) :
              Grown(m).slots[b] = IF b \in Buckets(m.hp) THEN m.slots[b] ELSE [i \in SlotIds |-> Empty]
    BY GrownParts
  <1>2. DOMAIN Grown(m).slots = Buckets(m.hp + 1)
    BY <1>1, MapParts
  <1> QED BY <1>1, <1>2

LEMMA GrownHolds ==
    ASSUME NEW m, IsMap(m), m.hp < HpBound, AllMigrated(m), NEW C \in SUBSET Keys, Holds(m, C)
    PROVE  /\ Stored(Grown(m), C) /\ OneSlotEach(Grown(m))
           /\ \A b \in Buckets(m.hp + 1), i \in SlotIds : Grown(m).slots[b][i] # Empty =>
                 /\ Grown(m).slots[b][i] \in C
                 /\ b \in Homes(Grown(m).slots[b][i], m.hp) /\ b \in Buckets(m.hp)
  <1> DEFINE g == Grown(m)
  <1>1. /\ DOMAIN g.slots = Buckets(m.hp + 1) /\ Buckets(m.hp) \subseteq Buckets(m.hp + 1)
        /\ \A b \in Buckets(m.hp), i \in SlotIds : g.slots[b][i] = m.slots[b][i]
        /\ \A b \in Buckets(m.hp + 1), i \in SlotIds : g.slots[b][i] # Empty => b \in Buckets(m.hp)
    BY GrownRows
  <1>2. DOMAIN m.slots = Buckets(m.hp) /\ \A b \in Buckets(m.hp) : m.locks[LockInd(b)].migrated
    BY MapParts DEF AllMigrated
  <1> HIDE DEF g
  <1>3. Stored(g, C)
    <2>1. \A k \in C : \E b \in Buckets(m.hp), i \in SlotIds : m.slots[b][i] = k
      BY <1>2 DEF Holds, Stored
    <2> QED BY <1>1, <2>1 DEF Stored
  <1>4. OneSlotEach(g)
    <2> SUFFICES ASSUME NEW b \in Buckets(m.hp + 1), NEW c \in Buckets(m.hp + 1),
                        NEW i \in SlotIds, NEW j \in SlotIds,
                        g.slots[b][i] = g.slots[c][j], g.slots[b][i] # Empty
                 PROVE  b = c /\ i = j
      BY <1>1 DEF OneSlotEach
    <2>1. b \in Buckets(m.hp) /\ c \in Buckets(m.hp)
      BY <1>1
    <2>2. m.slots[b][i] = m.slots[c][j] /\ m.slots[b][i] # Empty
      BY <1>1, <2>1
    <2> QED BY <1>2, <2>1, <2>2 DEF Holds, OneSlotEach
  <1>5. ASSUME NEW b \in Buckets(m.hp + 1), NEW i \in SlotIds, g.slots[b][i] # Empty
        PROVE  g.slots[b][i] \in C /\ b \in Homes(g.slots[b][i], m.hp) /\ b \in Buckets(m.hp)
    <2>1. b \in Buckets(m.hp) /\ g.slots[b][i] = m.slots[b][i]
      BY <1>1, <1>5
    <2>2. m.slots[b][i] \in C /\ b \in Homes(m.slots[b][i], m.hp)
      BY <1>2, <1>5, <2>1 DEF Holds, AtHome, Basis
    <2> QED BY <2>1, <2>2
  <1> QED BY <1>3, <1>4, <1>5 DEF g

\* A doubling loses no key, whether it moves them at once or leaves them.
LEMMA DoubledHolds ==
    ASSUME NEW m, IsMap(m), Settled(m), m.hp < HpBound, AllMigrated(m), NEW C \in SUBSET Keys, Holds(m, C)
    PROVE  Holds(Doubled(m), C)
  <1> DEFINE g == Grown(m)
             d == Doubled(m)
             h == m.hp + 1
  <1>1. /\ m.hp \in 0..HpBound /\ LockPow \in Nat /\ h # 0 /\ h - 1 = m.hp
        /\ IsMap(g) /\ g.hp = h /\ IsMap(d) /\ d.hp = h
        /\ m.hp < LockPow => AllMigrated(d)
        /\ m.hp >= LockPow => /\ d.slots = g.slots /\ LockIds(d) = LockIds(m)
                              /\ \A l \in LockIds(m) : ~d.locks[l].migrated
    <2>1. m.hp \in 0..HpBound /\ LockPow \in Nat
      BY MapParts, TableAssumption
    <2>2. IsMap(g) /\ g.hp = h
      BY GrownParts
    <2>3. /\ IsMap(d) /\ d.hp = h
          /\ m.hp < LockPow => AllMigrated(d)
          /\ m.hp >= LockPow => /\ d.slots = g.slots /\ LockIds(d) = LockIds(m)
                                /\ \A l \in LockIds(m) : ~d.locks[l].migrated
      BY DoubledParts
    <2> QED BY <2>1, <2>2, <2>3
  <1>2. /\ Stored(g, C) /\ OneSlotEach(g)
        /\ \A b \in Buckets(h), i \in SlotIds : g.slots[b][i] # Empty =>
              g.slots[b][i] \in C /\ b \in Homes(g.slots[b][i], m.hp) /\ b \in Buckets(m.hp)
    BY GrownHolds
  <1>3. DOMAIN g.slots = Buckets(h) /\ DOMAIN d.slots = Buckets(h)
        /\ \A b \in Buckets(h) : LockInd(b) \in LockIds(d)
    BY <1>1, MapParts
  <1>4. CASE m.hp >= LockPow
    <2>1. \A b \in Buckets(h) : Basis(d, b) = m.hp
      BY <1>1, <1>3, <1>4 DEF Basis
    <2> HIDE DEF d, g
    <2>2. AtHome(d, C)
      BY <1>1, <1>2, <1>3, <1>4, <2>1 DEF AtHome
    <2>3. Stored(d, C) /\ OneSlotEach(d)
      BY <1>1, <1>2, <1>4 DEF Stored, OneSlotEach
    <2> QED BY <2>2, <2>3 DEF Holds, d
  <1>5. CASE m.hp < LockPow
    <2> DEFINE B == OldBuckets(g)
               M == MoveBuckets(g, B)
               N == HashSize(m.hp)
    <2>1. d = Spread(g)
      BY <1>5 DEF Doubled
    <2>2. B \in SUBSET Buckets(g.hp - 1) /\ d.slots = M.slots
      BY <1>1, <2>1, SpreadParts
    <2>3. N \in Nat /\ B = Buckets(m.hp) /\ \A b \in B : b \in Nat /\ b + N \in Buckets(h) /\ b + N \notin B
      <3>1. HashSize(g.hp - 1) \in Nat /\ \A b \in B : b \in Nat /\ b + HashSize(g.hp - 1) \in Buckets(g.hp) \ B
        BY <1>1, <2>2, MovedParts
      <3>2. B = Buckets(m.hp)
        BY <1>1 DEF OldBuckets, Buckets
      <3> QED BY <1>1, <3>1, <3>2
    <2>4. RoomAbove(g, B)
      <3> SUFFICES ASSUME NEW b \in B, NEW i \in SlotIds, g.slots[b + N][i] # Empty PROVE FALSE
        BY <1>1 DEF RoomAbove
      <3> HIDE DEF B, g, N
      <3> QED BY <1>2, <2>3
    <2>5. OneSlotEach(d)
      <3>1. OneSlotEach(M)
        BY <1>1, <1>2, <2>2, MovedOnce
      <3> HIDE DEF M, d
      <3> QED BY <2>2, <3>1 DEF OneSlotEach
    <2>6. Stored(d, C)
      <3> SUFFICES ASSUME NEW k \in C PROVE \E c \in Buckets(h), j \in SlotIds : d.slots[c][j] = k
        BY <1>3 DEF Stored
      <3>1. PICK b \in Buckets(h), i \in SlotIds : g.slots[b][i] = k
        BY <1>2, <1>3 DEF Stored
      <3>2. g.slots[b][i] # Empty
        BY <3>1, TableAssumption
      <3>3. \E c \in Buckets(h), j \in SlotIds : M.slots[c][j] = g.slots[b][i]
        BY <1>1, <2>2, <2>4, <3>2, NoKeyIsLost
      <3> HIDE DEF M, d, g
      <3> QED BY <2>2, <3>1, <3>3
    <2>7. AtHome(d, C)
      <3> SUFFICES ASSUME NEW c \in Buckets(h), NEW j \in SlotIds, d.slots[c][j] # Empty
                   PROVE  d.slots[c][j] \in C /\ c \in Homes(d.slots[c][j], Basis(d, c))
        BY <1>3 DEF AtHome
      <3>1. Came(g, B, c, j) \/ Stayed(g, B, c, j)
        BY <1>1, <2>2, MovedSlots
      <3>2. Basis(d, c) = h
        BY <1>1, <1>3, <1>5 DEF Basis, AllMigrated
      <3>3. CASE Came(g, B, c, j)
        <4> DEFINE o == c - N
                   x == g.slots[o][Nth(Moving(g, o), j)]
        <4>1. /\ o \in B /\ d.slots[c][j] = x /\ Nth(Moving(g, o), j) \in Moving(g, o)
              /\ NeedToMove(x, o, m.hp) /\ x # Empty
          BY <1>1, <2>2, <3>3 DEF Came
        <4>2. Nth(Moving(g, o), j) \in SlotIds
          BY <4>1, MovingSlots
        <4>3. o \in Buckets(h) /\ o + N = c
          <5>1. Buckets(m.hp) \subseteq Buckets(h)
            BY GrownRows
          <5>2. c \in Nat
            BY <1>1, MapParts
          <5> QED BY <2>3, <4>1, <5>1, <5>2
        <4> HIDE DEF o
        <4>4. x \in C /\ o \in Homes(x, m.hp)
          BY <1>2, <4>1, <4>2, <4>3
        <4> HIDE DEF x
        <4>5. o + N \in Homes(x, h)
          BY <1>1, <4>1, <4>4, StaysOrMoves
        <4> QED BY <3>2, <4>1, <4>3, <4>4, <4>5
      <3>4. CASE Stayed(g, B, c, j)
        <4> DEFINE x == g.slots[c][j]
        <4>1. /\ d.slots[c][j] = x
              /\ c \in B /\ x # Empty => ~NeedToMove(x, c, m.hp)
          BY <1>1, <2>2, <3>4 DEF Stayed
        <4>2. x \in C /\ c \in Homes(x, m.hp) /\ c \in B
          BY <1>2, <2>3, <4>1
        <4> HIDE DEF x
        <4>3. c \in Homes(x, h)
          BY <1>1, <4>1, <4>2, StaysOrMoves
        <4> QED BY <3>2, <4>1, <4>2, <4>3
      <3> QED BY <3>1, <3>3, <3>4
    <2> QED BY <2>5, <2>6, <2>7 DEF Holds
  <1> QED BY <1>1, <1>4, <1>5

-----------------------------------------------------------------------------
\* A key put into a free slot of a bucket of its own, a key taken out, and a
\* key moved to its other bucket.
LEMMA PutHolds ==
    ASSUME NEW m, IsMap(m), NEW b \in Buckets(m.hp), NEW i \in SlotIds, NEW k \in Keys,
           NEW n, Changed(m, n, b, i, k), NEW C \in SUBSET Keys, k \notin C, Holds(m, C),
           m.slots[b][i] = Empty, b \in Homes(k, m.hp), m.locks[LockInd(b)].migrated
    PROVE  Holds(n, C \cup {k})
  <1>1. /\ IsMap(n) /\ n.hp = m.hp
        /\ \A l \in LockIds(m) : n.locks[l].migrated = m.locks[l].migrated
        /\ \A c \in Buckets(m.hp), j \in SlotIds :
              n.slots[c][j] = IF c = b /\ j = i THEN k ELSE m.slots[c][j]
    BY DEF Changed, Kept
  <1>2. /\ DOMAIN m.slots = Buckets(m.hp) /\ DOMAIN n.slots = Buckets(m.hp)
        /\ \A c \in Buckets(m.hp) : LockInd(c) \in LockIds(m)
    BY <1>1, MapParts
  <1>3. \A c \in Buckets(m.hp) : Basis(n, c) = Basis(m, c)
    BY <1>1, <1>2 DEF Basis
  <1>4. k # Empty /\ Basis(m, b) = m.hp
    BY TableAssumption DEF Basis
  <1>5. \A c \in Buckets(m.hp), j \in SlotIds : m.slots[c][j] # Empty =>
           m.slots[c][j] \in C /\ c \in Homes(m.slots[c][j], Basis(m, c))
    BY <1>2 DEF Holds, AtHome
  <1>6. AtHome(n, C \cup {k})
    BY <1>1, <1>2, <1>3, <1>4, <1>5 DEF AtHome
  <1>7. Stored(n, C \cup {k})
    <2> SUFFICES ASSUME NEW x \in C \cup {k} PROVE \E c \in Buckets(m.hp), j \in SlotIds : n.slots[c][j] = x
      BY <1>2 DEF Stored
    <2>1. CASE x = k
      BY <1>1, <2>1
    <2>2. CASE x \in C
      <3>1. PICK c \in Buckets(m.hp), j \in SlotIds : m.slots[c][j] = x
        BY <1>2, <2>2 DEF Holds, Stored
      <3>2. x # Empty
        BY <2>2, TableAssumption
      <3> QED BY <1>1, <3>1, <3>2
    <2> QED BY <2>1, <2>2
  <1>8. OneSlotEach(n)
    <2>1. \A c, d \in Buckets(m.hp), j, l \in SlotIds :
             m.slots[c][j] = m.slots[d][l] /\ m.slots[c][j] # Empty => c = d /\ j = l
      BY <1>2 DEF Holds, OneSlotEach
    <2>2. \A c \in Buckets(m.hp), j \in SlotIds : m.slots[c][j] # k
      BY <1>4, <1>5
    <2> SUFFICES ASSUME NEW c \in Buckets(m.hp), NEW d \in Buckets(m.hp), NEW j \in SlotIds, NEW l \in SlotIds,
                        n.slots[c][j] = n.slots[d][l], n.slots[c][j] # Empty
                 PROVE  c = d /\ j = l
      BY <1>2 DEF OneSlotEach
    <2> QED BY <1>1, <2>1, <2>2
  <1> QED BY <1>6, <1>7, <1>8 DEF Holds

LEMMA TakeHolds ==
    ASSUME NEW m, IsMap(m), NEW b \in Buckets(m.hp), NEW i \in SlotIds,
           NEW n, Changed(m, n, b, i, Empty), NEW C \in SUBSET Keys, Holds(m, C),
           m.slots[b][i] # Empty
    PROVE  Holds(n, C \ {m.slots[b][i]})
  <1> DEFINE k == m.slots[b][i]
  <1>1. /\ IsMap(n) /\ n.hp = m.hp
        /\ \A l \in LockIds(m) : n.locks[l].migrated = m.locks[l].migrated
        /\ \A c \in Buckets(m.hp), j \in SlotIds :
              n.slots[c][j] = IF c = b /\ j = i THEN Empty ELSE m.slots[c][j]
    BY DEF Changed, Kept
  <1>2. /\ DOMAIN m.slots = Buckets(m.hp) /\ DOMAIN n.slots = Buckets(m.hp)
        /\ \A c \in Buckets(m.hp) : LockInd(c) \in LockIds(m)
    BY <1>1, MapParts
  <1>3. \A c \in Buckets(m.hp) : Basis(n, c) = Basis(m, c)
    BY <1>1, <1>2 DEF Basis
  <1>4. \A c \in Buckets(m.hp), j \in SlotIds : m.slots[c][j] # Empty =>
           m.slots[c][j] \in C /\ c \in Homes(m.slots[c][j], Basis(m, c))
    BY <1>2 DEF Holds, AtHome
  <1>5. \A c, d \in Buckets(m.hp), j, l \in SlotIds :
           m.slots[c][j] = m.slots[d][l] /\ m.slots[c][j] # Empty => c = d /\ j = l
    BY <1>2 DEF Holds, OneSlotEach
  <1>6. AtHome(n, C \ {k})
    <2> SUFFICES ASSUME NEW c \in Buckets(m.hp), NEW j \in SlotIds, n.slots[c][j] # Empty
                 PROVE  n.slots[c][j] \in C \ {k} /\ c \in Homes(n.slots[c][j], Basis(n, c))
      BY <1>2 DEF AtHome
    <2>1. n.slots[c][j] = m.slots[c][j] /\ ~(c = b /\ j = i)
      BY <1>1
    <2>2. m.slots[c][j] # m.slots[b][i]
      BY <1>5, <2>1
    <2> QED BY <1>3, <1>4, <2>1, <2>2
  <1>7. Stored(n, C \ {k})
    <2> SUFFICES ASSUME NEW x \in C, x # k PROVE \E c \in Buckets(m.hp), j \in SlotIds : n.slots[c][j] = x
      BY <1>2 DEF Stored
    <2>1. PICK c \in Buckets(m.hp), j \in SlotIds : m.slots[c][j] = x
      BY <1>2 DEF Holds, Stored
    <2>2. ~(c = b /\ j = i)
      BY <2>1
    <2>3. n.slots[c][j] = x
      BY <1>1, <2>1, <2>2
    <2> QED BY <2>3
  <1>8. OneSlotEach(n)
    <2> SUFFICES ASSUME NEW c \in Buckets(m.hp), NEW d \in Buckets(m.hp), NEW j \in SlotIds, NEW l \in SlotIds,
                        n.slots[c][j] = n.slots[d][l], n.slots[c][j] # Empty
                 PROVE  c = d /\ j = l
      BY <1>2 DEF OneSlotEach
    <2>1. n.slots[c][j] = m.slots[c][j] /\ n.slots[d][l] = m.slots[d][l]
      BY <1>1
    <2>2. m.slots[c][j] = m.slots[d][l] /\ m.slots[c][j] # Empty
      BY <2>1
    <2> QED BY <1>5, <2>2
  <1> QED BY <1>6, <1>7, <1>8 DEF Holds

LEMMA MoveHolds ==
    ASSUME NEW m, IsMap(m), NEW b \in Buckets(m.hp), NEW i \in SlotIds,
           NEW d \in Buckets(m.hp), NEW j \in SlotIds, NEW C \in SUBSET Keys, Holds(m, C),
           m.slots[b][i] # Empty, m.slots[d][j] = Empty, d \in Homes(m.slots[b][i], m.hp),
           m.locks[LockInd(d)].migrated
    PROVE  Holds(Moved(m, b, i, d, j), C)
  <1> DEFINE n == Moved(m, b, i, d, j)
             k == m.slots[b][i]
  <1>1. /\ IsMap(n) /\ n.hp = m.hp
        /\ \A l \in LockIds(m) : n.locks[l].migrated = m.locks[l].migrated
        /\ \A c \in Buckets(m.hp), e \in SlotIds :
              n.slots[c][e] = IF c = b /\ e = i THEN Empty
                              ELSE IF c = d /\ e = j THEN k ELSE m.slots[c][e]
    <2>1. Shifted(m, n, b, i, d, j)
      BY MovedKeyParts
    <2> HIDE DEF n
    <2> QED BY <2>1 DEF Shifted, Kept
  <1>2. /\ DOMAIN m.slots = Buckets(m.hp) /\ DOMAIN n.slots = Buckets(m.hp)
        /\ \A c \in Buckets(m.hp) : LockInd(c) \in LockIds(m)
    BY <1>1, MapParts
  <1> HIDE DEF n
  <1>3. \A c \in Buckets(m.hp) : Basis(n, c) = Basis(m, c)
    BY <1>1, <1>2 DEF Basis
  <1>4. \A c \in Buckets(m.hp), e \in SlotIds : m.slots[c][e] # Empty =>
           m.slots[c][e] \in C /\ c \in Homes(m.slots[c][e], Basis(m, c))
    BY <1>2 DEF Holds, AtHome
  <1>5. \A c, e \in Buckets(m.hp), x, l \in SlotIds :
           m.slots[c][x] = m.slots[e][l] /\ m.slots[c][x] # Empty => c = e /\ x = l
    BY <1>2 DEF Holds, OneSlotEach
  <1>6. Basis(m, d) = m.hp /\ ~(d = b /\ j = i)
    BY DEF Basis
  <1>7. AtHome(n, C)
    <2> SUFFICES ASSUME NEW c \in Buckets(m.hp), NEW e \in SlotIds, n.slots[c][e] # Empty
                 PROVE  n.slots[c][e] \in C /\ c \in Homes(n.slots[c][e], Basis(n, c))
      BY <1>2 DEF AtHome
    <2>1. CASE c = d /\ e = j
      <3>1. n.slots[c][e] = k /\ k \in C
        BY <1>1, <1>4, <1>6, <2>1
      <3> QED BY <1>3, <1>6, <2>1, <3>1
    <2>2. CASE ~(c = d /\ e = j)
      <3>1. n.slots[c][e] = m.slots[c][e]
        BY <1>1, <2>2
      <3> QED BY <1>3, <1>4, <3>1
    <2> QED BY <2>1, <2>2
  <1>8. Stored(n, C)
    <2> SUFFICES ASSUME NEW x \in C PROVE \E c \in Buckets(m.hp), e \in SlotIds : n.slots[c][e] = x
      BY <1>2 DEF Stored
    <2>1. PICK c \in Buckets(m.hp), e \in SlotIds : m.slots[c][e] = x
      BY <1>2 DEF Holds, Stored
    <2>2. x # Empty
      BY TableAssumption
    <2>3. CASE c = b /\ e = i
      <3>1. n.slots[d][j] = x
        BY <1>1, <1>6, <2>1, <2>3
      <3> QED BY <3>1
    <2>4. CASE ~(c = b /\ e = i)
      <3>1. n.slots[c][e] = x
        BY <1>1, <2>1, <2>2, <2>4
      <3> QED BY <3>1
    <2> QED BY <2>3, <2>4
  <1>9. OneSlotEach(n)
    <2> SUFFICES ASSUME NEW c \in Buckets(m.hp), NEW f \in Buckets(m.hp), NEW e \in SlotIds, NEW l \in SlotIds,
                        n.slots[c][e] = n.slots[f][l], n.slots[c][e] # Empty
                 PROVE  c = f /\ e = l
      BY <1>2 DEF OneSlotEach
    <2>1. \A x \in Buckets(m.hp), y \in SlotIds : n.slots[x][y] # Empty =>
             /\ ~(x = b /\ y = i)
             /\ IF x = d /\ y = j THEN n.slots[x][y] = k ELSE n.slots[x][y] = m.slots[x][y]
      BY <1>1
    <2>2. \A x \in Buckets(m.hp), y \in SlotIds : ~(x = b /\ y = i) => m.slots[x][y] # k
      BY <1>5
    <2> HIDE DEF k
    <2> QED BY <1>5, <2>1, <2>2
  <1> QED BY <1>7, <1>8, <1>9 DEF Holds, n

-----------------------------------------------------------------------------
\* An insertion sees its buckets migrated, with the keys they had.
LEMMA SeenHolds ==
    ASSUME NEW m, IsMap(m), Settled(m), NEW B \in SUBSET Buckets(m.hp), NEW normal \in BOOLEAN,
           normal \/ AllMigrated(m), NEW C \in SUBSET Keys, Holds(m, C)
    PROVE  /\ Holds(Seen(m, B, normal), C)
           /\ \A b \in B : Seen(m, B, normal).locks[LockInd(b)].migrated
           /\ \A b \in Buckets(m.hp), i \in SlotIds : m.locks[LockInd(b)].migrated =>
                 Seen(m, B, normal).slots[b][i] = m.slots[b][i]
  <1>1. LocksOf(B) \in SUBSET LockIds(m) /\ \A b \in B : LockInd(b) \in LocksOf(B)
    BY LocksOfBuckets DEF LocksOf
  <1>2. CASE normal
    <2> DEFINE n == Touch(m, LocksOf(B))
    <2>1. Seen(m, B, normal) = n
      BY <1>2 DEF Seen
    <2>2. Holds(n, C)
      BY <1>1, TouchHolds
    <2>3. \A l \in LocksOf(B) : n.locks[l].migrated
      BY <1>1, TouchParts
    <2>4. ASSUME NEW b \in Buckets(m.hp), NEW i \in SlotIds, m.locks[LockInd(b)].migrated
          PROVE  n.slots[b][i] = m.slots[b][i]
      <3>1. LockInd(b) \notin Left(m, LocksOf(B))
        BY <2>4 DEF Left
      <3> QED BY <1>1, <3>1, TouchRows
    <2> HIDE DEF n
    <2> QED BY <1>1, <2>1, <2>2, <2>3, <2>4
  <1>3. CASE ~normal
    <2>1. Seen(m, B, normal) = m /\ \A l \in LockIds(m) : m.locks[l].migrated
      BY <1>3 DEF Seen, AllMigrated
    <2> QED BY <1>1, <2>1
  <1> QED BY <1>2, <1>3

\* An insertion adds its key and loses none, in both modes.
LEMMA PlacementsHold ==
    ASSUME NEW m, IsMap(m), Settled(m), NEW C \in SUBSET Keys, NEW k \in Keys, k \notin C,
           NEW normal \in BOOLEAN, normal \/ AllMigrated(m), Holds(m, C),
           NEW n \in Placements(m, k, normal)
    PROVE  Holds(n, C \cup {k})
  <1> DEFINE p == Seen(m, Homes(k, m.hp), normal)
  <1>1. Homes(k, m.hp) \in SUBSET Buckets(m.hp)
    BY KeyHomes
  <1>2. Kept(m, p) /\ Settled(p) /\ IsMap(p) /\ p.hp = m.hp /\ LockIds(p) = LockIds(m)
    BY <1>1, SeenParts
  <1>3. Holds(p, C) /\ \A b \in Homes(k, m.hp) : p.locks[LockInd(b)].migrated
    BY <1>1, SeenHolds
  <1>4. normal \/ AllMigrated(p)
    BY <1>2, KeptKeeps
  <1>5. CASE PutFree(m, n, k, normal)
    <2>1. PICK b \in Homes(k, m.hp), i \in SlotIds, l \in LockIds(m) :
             p.slots[b][i] = Empty /\ n = Put(p, k, b, i, l)
      BY <1>5 DEF PutFree
    <2> HIDE DEF p
    <2>2. b \in Buckets(p.hp) /\ l \in LockIds(p) /\ b \in Homes(k, p.hp)
      BY <1>1, <1>2
    <2>3. Changed(p, n, b, i, k)
      BY <1>2, <2>1, <2>2, PutParts
    <2> QED BY <1>2, <1>3, <2>1, <2>2, <2>3, PutHolds
  <1>6. CASE PutMoving(m, n, k, normal)
    <2>1. PICK b \in Homes(k, m.hp), i \in SlotIds, l \in LockIds(m), j \in SlotIds :
             LET d == Other(p.slots[b][i], b, m.hp)
                 o == Seen(p, {d}, normal)
             IN  /\ FreeSlots(p, b) = {} /\ o.slots[d][j] = Empty
                 /\ n = Put(Moved(o, b, i, d, j), k, b, i, l)
      BY <1>6 DEF PutMoving
    <2> DEFINE x == p.slots[b][i]
               d == Other(x, b, p.hp)
               o == Seen(p, {d}, normal)
               q == Moved(o, b, i, d, j)
    <2> HIDE DEF p
    <2>2. b \in Buckets(p.hp) /\ b \in Homes(k, p.hp)
      BY <1>1, <1>2
    <2>3. /\ x \in Keys /\ x # Empty /\ d \in Homes(x, p.hp) /\ d \in Buckets(p.hp)
          /\ Kept(p, o) /\ IsMap(o) /\ Settled(o) /\ o.hp = p.hp /\ LockIds(o) = LockIds(p)
      BY <1>2, <2>1, <2>2, MovingParts
    <2>4. n = Put(q, k, b, i, l) /\ o.slots[d][j] = Empty
      BY <1>2, <2>1
    <2>5. {d} \in SUBSET Buckets(p.hp)
      BY <2>3
    <2>6. p.locks[LockInd(b)].migrated
      BY <1>3
    <2> HIDE DEF d
    <2>7. /\ Holds(o, C) /\ \A c \in {d} : o.locks[LockInd(c)].migrated
          /\ o.slots[b][i] = x
      <3>1. /\ Holds(o, C) /\ \A c \in {d} : o.locks[LockInd(c)].migrated
            /\ \A c \in Buckets(p.hp), e \in SlotIds : p.locks[LockInd(c)].migrated =>
                  o.slots[c][e] = p.slots[c][e]
        <4>1. IsMap(p) /\ Settled(p) /\ Holds(p, C) /\ (normal \/ AllMigrated(p))
          BY <1>2, <1>3, <1>4
        <4> QED BY <2>5, <4>1, SeenHolds, SMTT(60)
      <3> HIDE DEF o
      <3> QED BY <2>2, <2>6, <3>1
    <2>8. o.locks[LockInd(d)].migrated /\ o.locks[LockInd(b)].migrated
      <3>1. LockInd(b) \in LockIds(p)
        BY <1>2, <2>2, MapParts
      <3> QED BY <2>3, <2>6, <2>7, <3>1 DEF Kept
    <2> HIDE DEF o, x
    <2>9. /\ b \in Buckets(o.hp) /\ d \in Buckets(o.hp) /\ l \in LockIds(o) /\ b \in Homes(k, o.hp)
          /\ d \in Homes(o.slots[b][i], o.hp) /\ o.slots[b][i] # Empty
      BY <1>2, <2>2, <2>3, <2>7
    <2>10. Holds(q, C)
      BY <2>3, <2>4, <2>7, <2>8, <2>9, MoveHolds
    <2>11. Shifted(o, q, b, i, d, j)
      BY <2>3, <2>9, MovedKeyParts
    <2> HIDE DEF q
    <2>12. /\ IsMap(q) /\ q.hp = o.hp /\ LockIds(q) = LockIds(o) /\ q.slots[b][i] = Empty
           /\ q.locks[LockInd(b)].migrated
      <3>1. LockInd(b) \in LockIds(o)
        BY <2>3, <2>9, MapParts
      <3> QED BY <2>8, <2>9, <2>11, <3>1 DEF Shifted, Kept
    <2>13. Changed(q, n, b, i, k)
      BY <2>4, <2>9, <2>12, PutParts
    <2> QED BY <2>9, <2>10, <2>12, <2>13, PutHolds, SMTT(60)
  <1> QED BY <1>5, <1>6, PlacementParts

\* The end of the migration.
LEMMA RehashAllHolds ==
    ASSUME NEW m, IsMap(m), Settled(m), NEW C \in SUBSET Keys, Holds(m, C)
    PROVE  Holds(RehashAll(m), C)
  <1>1. Holds(Touch(m, LockIds(m)), C)
    BY TouchHolds
  <1> QED BY <1>1, RehashAllParts

-----------------------------------------------------------------------------
\* A key is at one position, and all keys are ahead of the first one.
LEMMA OnePosition ==
    ASSUME NEW m, IsMap(m), OneSlotEach(m), NEW p \in Occupied(m), NEW q \in Occupied(m),
           KeyAt(m, p) = KeyAt(m, q)
    PROVE  p = q
  <1>1. \A x \in {p, q} : /\ x \div Slots \in Buckets(m.hp) /\ (x % Slots) + 1 \in SlotIds
                          /\ x = (x \div Slots) * Slots + (x % Slots)
                          /\ KeyAt(m, x) # Empty /\ x \in Nat
    BY PositionParts
  <1>2. DOMAIN m.slots = Buckets(m.hp)
    BY MapParts
  <1>3. p \div Slots = q \div Slots /\ (p % Slots) + 1 = (q % Slots) + 1
    BY <1>1, <1>2 DEF OneSlotEach, KeyAt
  <1>4. p % Slots \in Int /\ q % Slots \in Int
    BY <1>1, Division, TableAssumption
  <1>5. p % Slots = q % Slots
    BY <1>3, <1>4
  <1> QED BY <1>1, <1>3, <1>5

LEMMA AllAhead ==
    ASSUME NEW m, IsMap(m), NEW C \in SUBSET Keys, Holds(m, C)
    PROVE  AheadOf(m, 0) = C /\ \A p \in Occupied(m) : KeyAt(m, p) \in C
  <1>1. /\ Occupied(m) \in SUBSET (0..EndPos(m) - 1) /\ EndPos(m) \in Nat
        /\ \A p \in 0..EndPos(m) - 1 :
              p \div Slots \in Buckets(m.hp) /\ (p % Slots) + 1 \in SlotIds
        /\ \A p \in Occupied(m) : KeyAt(m, p) # Empty
        /\ \A b \in Buckets(m.hp), i \in SlotIds : m.slots[b][i] # Empty =>
              \E p \in Occupied(m) : KeyAt(m, p) = m.slots[b][i]
    BY PositionParts
  <1>2. DOMAIN m.slots = Buckets(m.hp)
    BY MapParts
  <1>3. \A p \in Occupied(m) : KeyAt(m, p) \in C
    BY <1>1, <1>2 DEF KeyAt, Holds, AtHome
  <1>4. ASSUME NEW k \in C PROVE \E p \in Occupied(m) : KeyAt(m, p) = k
    <2>1. PICK b \in Buckets(m.hp), i \in SlotIds : m.slots[b][i] = k
      BY <1>2 DEF Holds, Stored
    <2> QED BY <1>1, <2>1, TableAssumption
  <1>5. \A p \in Occupied(m) : p >= 0
    BY <1>1
  <1> QED BY <1>3, <1>4, <1>5 DEF AheadOf

LEMMA SettleAhead ==
    ASSUME NEW m, IsMap(m), NEW p \in Nat
    PROVE  AheadOf(m, Settle(m, p)) = AheadOf(m, p)
  <1>1. /\ Occupied(m) \in SUBSET (0..EndPos(m) - 1) /\ EndPos(m) \in Nat
    BY PositionParts
  <1>2. /\ Settle(m, p) \in 0..EndPos(m)
        /\ Settle(m, p) \in {q \in Occupied(m) : q >= p} \cup {EndPos(m)}
        /\ \A q \in Occupied(m) : q >= p => Settle(m, p) <= q
    BY SettleParts
  <1>3. ASSUME NEW q \in Occupied(m) PROVE q >= p <=> q >= Settle(m, p)
    <2>1. q \in Nat /\ q < EndPos(m) /\ Settle(m, p) \in Nat
      BY <1>1, <1>2
    <2> QED BY <1>1, <1>2, <2>1
  <1>4. {x \in Occupied(m) : x >= p} = {x \in Occupied(m) : x >= Settle(m, p)}
    BY <1>3
  <1> QED BY <1>4 DEF AheadOf

LEMMA NextAhead ==
    ASSUME NEW m, IsMap(m), OneSlotEach(m), NEW p \in Occupied(m)
    PROVE  /\ AheadOf(m, p) = AheadOf(m, p + 1) \cup {KeyAt(m, p)}
           /\ KeyAt(m, p) \notin AheadOf(m, p + 1)
  <1>1. \A x \in Occupied(m) : x \in Nat
    BY PositionParts
  <1>2. \A x \in Occupied(m) : x >= p <=> x >= p + 1 \/ x = p
    BY <1>1
  <1>3. ~(p >= p + 1)
    BY <1>1
  <1>4. \A x \in Occupied(m) : KeyAt(m, x) = KeyAt(m, p) => x = p
    BY OnePosition
  <1> QED BY <1>2, <1>3, <1>4 DEF AheadOf

\* An iterator that goes back has one more key ahead.
LEMMA BeforeAhead ==
    ASSUME NEW m, IsMap(m), NEW p \in Occupied(m) \cup {EndPos(m)}, NEW b \in Occupied(m), b < p,
           \A x \in Occupied(m) : x < p => x <= b
    PROVE  AheadOf(m, b) = AheadOf(m, p) \cup {KeyAt(m, b)}
  <1>1. p \in Nat /\ \A x \in Occupied(m) : x \in Nat
    BY PositionParts
  <1>2. ASSUME NEW x \in Occupied(m) PROVE x >= b <=> x >= p \/ x = b
    <2>1. x \in Nat /\ b \in Nat /\ p \in Nat
      BY <1>1
    <2>2. x < p => x <= b
      OBVIOUS
    <2> QED BY <2>1, <2>2
  <1> QED BY <1>2 DEF AheadOf

\* An erasure takes one key from those ahead or from those passed.
LEMMA TakenPositions ==
    ASSUME NEW m, IsMap(m), NEW p \in Occupied(m), NEW n,
           Changed(m, n, p \div Slots, (p % Slots) + 1, Empty)
    PROVE  /\ IsMap(n) /\ EndPos(n) = EndPos(m) /\ Occupied(n) = Occupied(m) \ {p}
           /\ \A q \in Occupied(n) : KeyAt(n, q) = KeyAt(m, q)
  <1>1. /\ IsMap(n) /\ n.hp = m.hp
        /\ \A c \in Buckets(m.hp), j \in SlotIds :
              n.slots[c][j] = IF c = p \div Slots /\ j = (p % Slots) + 1 THEN Empty ELSE m.slots[c][j]
    BY DEF Changed, Kept
  <1>2. EndPos(n) = EndPos(m)
    BY <1>1 DEF EndPos
  <1>3. /\ EndPos(m) \in Nat /\ p \in 0..EndPos(m) - 1
        /\ \A q \in 0..EndPos(m) - 1 :
              /\ q \div Slots \in Buckets(m.hp) /\ (q % Slots) + 1 \in SlotIds
              /\ q = (q \div Slots) * Slots + (q % Slots)
    BY PositionParts
  <1>4. \A q \in 0..EndPos(m) - 1 : q % Slots \in Int
    BY <1>3, Division, TableAssumption
  <1>5. KeyAt(n, p) = Empty
    BY <1>1, <1>3 DEF KeyAt
  <1>6. ASSUME NEW q \in 0..EndPos(m) - 1, q # p PROVE KeyAt(n, q) = KeyAt(m, q)
    <2>1. q \div Slots # p \div Slots \/ (q % Slots) + 1 # (p % Slots) + 1
      <3>1. /\ q = (q \div Slots) * Slots + (q % Slots) /\ p = (p \div Slots) * Slots + (p % Slots)
            /\ q % Slots \in Int /\ p % Slots \in Int
        BY <1>3, <1>4
      <3> QED BY <1>6, <3>1
    <2> QED BY <1>1, <1>3, <2>1 DEF KeyAt
  <1>7. Occupied(n) = Occupied(m) \ {p}
    BY <1>2, <1>5, <1>6 DEF Occupied
  <1>8. \A q \in Occupied(n) : KeyAt(n, q) = KeyAt(m, q)
    BY <1>2, <1>5, <1>6 DEF Occupied
  <1> QED BY <1>1, <1>2, <1>7, <1>8

LEMMA TakenAhead ==
    ASSUME NEW m, IsMap(m), OneSlotEach(m), NEW p \in Occupied(m), NEW n,
           Changed(m, n, p \div Slots, (p % Slots) + 1, Empty), NEW q
    PROVE  AheadOf(n, q) = AheadOf(m, q) \ {KeyAt(m, p)}
  <1>1. /\ Occupied(n) = Occupied(m) \ {p} /\ \A x \in Occupied(n) : KeyAt(n, x) = KeyAt(m, x)
    BY TakenPositions
  <1>2. \A x \in Occupied(m) : KeyAt(m, x) = KeyAt(m, p) <=> x = p
    BY OnePosition
  <1> QED BY <1>1, <1>2 DEF AheadOf

-----------------------------------------------------------------------------
\* Steps that change neither the map nor what it contains.
LateCalls == {"lock_all", "settle", "spread", "unlock"}

LEMMA SameData ==
    ASSUME DataInv, UNCHANGED <<map, content>>, doing' # "copy",
           handle' /\ doing' \notin LateCalls => AllMigrated(map),
           it' = None \/ UNCHANGED <<it, visited>>
    PROVE  DataInv'
  <1>1. CopyOK'
    BY DEF CopyOK
  <1>2. IterOK'
    BY DEF DataInv, IterOK
  <1> QED BY <1>1, <1>2 DEF DataInv, LateCalls

LEMMA StillSteps ==
    ASSUME TableInv, DataInv,
           \/ LockTable \/ (\E n \in Sizes : Rehash(n)) \/ Unlock \/ Unlocked
           \/ (\E k \in Keys : LockedInsert(k)) \/ InsertDuplicate \/ InsertThrows
           \/ (\E n \in LockedSizes : LockedRehash(n)) \/ CapacityThrows
           \/ AllLocked \/ InsertExpands \/ Capacity
    PROVE  DataInv'
  <1>1. handle /\ doing \notin LateCalls => AllMigrated(map)
    BY DEF DataInv, LateCalls
  <1>2. UNCHANGED <<map, content>> /\ doing' # "copy" /\ (it' = None \/ UNCHANGED <<it, visited>>)
    BY DEF LockTable, Rehash, Unlock, Unlocked, LockedInsert, InsertDuplicate, InsertThrows, LockedRehash,
           CapacityThrows, AllLocked, InsertExpands, Capacity, Done
  <1>3. handle' /\ doing' \notin LateCalls => handle /\ doing \notin LateCalls
    <2>1. CASE LockTable \/ (\E n \in Sizes : Rehash(n)) \/ Unlock \/ Unlocked
      BY <2>1 DEF LockTable, Rehash, Unlock, Unlocked, LateCalls
    <2>2. CASE (\E k \in Keys : LockedInsert(k)) \/ InsertDuplicate \/ InsertThrows
      BY <2>2 DEF LockedInsert, InsertDuplicate, InsertThrows, LateCalls, Idle
    <2>3. CASE (\E n \in LockedSizes : LockedRehash(n)) \/ CapacityThrows \/ InsertExpands \/ Capacity
      BY <2>3 DEF LockedRehash, CapacityThrows, InsertExpands, Capacity, LateCalls, Idle
    <2>4. CASE AllLocked
      BY <2>4 DEF AllLocked, LateCalls
    <2> QED BY <2>1, <2>2, <2>3, <2>4
  <1> QED BY <1>1, <1>2, <1>3, SameData

\* While the keys are copied the map stands still.
LEMMA CopyGoesOn ==
    ASSUME DataInv, UNCHANGED <<map, handle, doing, arg, it, visited, content>>, CopyOK'
    PROVE  DataInv'
  <1>1. IterOK'
    BY DEF DataInv, IterOK
  <1> QED BY <1>1 DEF DataInv

LEMMA ThreadData ==
    ASSUME TableInv, DataInv, Threading \/ \E w \in Workers : CopyThrows(w)
    PROVE  DataInv'
  <1>1. UNCHANGED tableVars /\ handled' = handled
    BY DEF Threading, CopyThrows, Spawn, OwnRange, HandOut, Join, Throw
  <1>2. CopyOK'
    BY <1>1 DEF tableVars, DataInv, CopyOK
  <1> QED BY <1>1, <1>2, CopyGoesOn DEF tableVars

LEMMA NextBucketData ==
    ASSUME IInv, TableInv, DataInv, NEW w \in Workers, CopyNextBucket(w)
    PROVE  DataInv'
  <1>1. UNCHANGED tableVars /\ handled' = handled \cup {next[w]} /\ doing = "copy" /\ Uncopied(w) = {}
    BY DEF CopyNextBucket, HandleIndex
  <1>2. next[w] \in Buckets(map.hp) /\ IsMap(map)
    <2>1. next[w] \in 0..end - 1
      BY RunsInRange DEF CopyNextBucket
    <2> QED BY <1>1, <2>1 DEF TableInv, WorkOK, Typed, Buckets
  <1>3. ASSUME NEW i \in SlotIds, map.slots[next[w]][i] # Empty
        PROVE  map.slots[next[w]][i] \in KeysOf(temp)
    <2>1. map.slots[next[w]][i] \in Keys
      BY <1>2, <1>3, MapParts
    <2>2. Where(temp, map.slots[next[w]][i]) # {}
      BY <1>1, <1>3 DEF Uncopied
    <2> QED BY <2>1, <2>2 DEF KeysOf
  <1>4. CopyOK
    BY DEF DataInv
  <1> HIDE DEF DataInv
  <1>5. \A b \in handled', i \in SlotIds : map.slots[b][i] # Empty => map.slots[b][i] \in KeysOf(temp)
    BY <1>1, <1>3, <1>4 DEF CopyOK
  <1>6. CopyOK'
    BY <1>1, <1>4, <1>5 DEF tableVars, CopyOK
  <1> QED BY <1>1, <1>6, CopyGoesOn DEF tableVars
-----------------------------------------------------------------------------
\* When the workers are done with the migration, nothing is left to migrate.
LEMMA MigrationDoneData == ASSUME IInv, TableInv, DataInv, MigrationDone PROVE DataInv'
  <1>1. AllJoined /\ Migrating /\ UNCHANGED <<map, it, visited, content>> /\ doing' # "copy"
    BY DEF MigrationDone, Return, Migrating
  <1>2. handled = 0..end - 1
    BY <1>1, InvImplies DEF EveryIndexOnce, TableInv, WorkOK
  <1>3. AllMigrated(map)
    <2>1. LockIds(map) = 0..end - 1
      BY <1>1, MapParts DEF TableInv, WorkOK, Typed
    <2> QED BY <1>1, <1>2, <2>1 DEF TableInv, WorkOK, AllMigrated
  <1> QED BY <1>1, <1>3, SameData

LEMMA SameSlots ==
    ASSUME NEW m, IsMap(m), NEW n, IsMap(n), n.hp = m.hp, n.slots = m.slots,
           \A l \in LockIds(m) : n.locks[l].migrated = m.locks[l].migrated,
           NEW C \in SUBSET Keys, Holds(m, C)
    PROVE  Holds(n, C)
  <1>1. DOMAIN m.slots = Buckets(m.hp) /\ \A b \in Buckets(m.hp) : LockInd(b) \in LockIds(m)
    BY MapParts
  <1>2. \A b \in Buckets(m.hp) : Basis(n, b) = Basis(m, b)
    BY <1>1 DEF Basis
  <1> QED BY <1>1, <1>2 DEF Holds, AtHome, Stored, OneSlotEach

LEMMA LockData == ASSUME TableInv, DataInv, LockNext \/ UnlockNext PROVE DataInv'
  <1>1. IsMap(map) /\ content \in SUBSET Keys /\ it = None
    BY DEF LockNext, UnlockNext, TableInv, Typed, Idle
  <1>2. PICK on \in BOOLEAN : map' = WithLocks(map, {turn}, on)
    BY DEF LockNext, UnlockNext
  <1>3. /\ IsMap(map') /\ map'.hp = map.hp /\ map'.slots = map.slots
        /\ \A l \in LockIds(map) : map'.locks[l].migrated = map.locks[l].migrated
    BY <1>1, <1>2, WithLocksParts
  <1>4. Holds(map', content)
    BY <1>1, <1>3, SameSlots DEF DataInv
  <1>5. content' = content /\ it' = None /\ doing' \in {"lock_all", "unlock"}
    BY <1>1 DEF LockNext, UnlockNext
  <1> QED BY <1>4, <1>5 DEF DataInv, CopyOK, IterOK

\* Steps that change what the map contains while there is no iterator.
LEMMA NewData ==
    ASSUME Holds(map', content'), it' = None, doing' # "copy",
           handle' /\ doing' \notin LateCalls => AllMigrated(map')
    PROVE  DataInv'
  BY DEF DataInv, CopyOK, IterOK, LateCalls

LEMMA MigrateData ==
    ASSUME IInv, TableInv, DataInv, NEW w \in Workers, MigrateLock(w)
    PROVE  DataInv'
  <1>1. /\ IsMap(map) /\ Settled(map) /\ content \in SUBSET Keys /\ it' = None /\ doing' # "copy"
        /\ UNCHANGED <<handle, doing, content>> /\ map' = Touch(map, {next[w]})
    BY DEF MigrateLock, Migrating, TableInv, Typed, Idle
  <1>2. next[w] \in LockIds(map) /\ Kept(map, map')
    BY MigrateStep
  <1>3. Holds(map', content)
    BY <1>1, <1>2, TouchHolds DEF DataInv
  <1>4. AllMigrated(map) => AllMigrated(map')
    BY <1>1, <1>2, KeptKeeps
  <1>5. handle /\ doing \notin LateCalls => AllMigrated(map)
    BY DEF DataInv, LateCalls
  <1> QED BY <1>1, <1>3, <1>4, <1>5, NewData

\* Where all data are migrated, a lookup without locks finds just the keys there are.
LEMMA FoundKeys ==
    ASSUME NEW m, IsMap(m), AllMigrated(m), NEW C \in SUBSET Keys, Holds(m, C), NEW k \in Keys
    PROVE  Found(m, k) <=> k \in C
  <1>1. DOMAIN m.slots = Buckets(m.hp) /\ \A b \in Buckets(m.hp) : LockInd(b) \in LockIds(m)
    BY MapParts
  <1>2. Homes(k, m.hp) \in SUBSET Buckets(m.hp)
    BY KeyHomes
  <1>3. k # Empty
    BY TableAssumption
  <1>4. \A b \in Homes(k, m.hp), i \in SlotIds : m.slots[b][i] = k => k \in C
    BY <1>1, <1>2, <1>3 DEF Holds, AtHome
  <1>5. ASSUME k \in C PROVE Found(m, k)
    <2>1. PICK b \in Buckets(m.hp), i \in SlotIds : m.slots[b][i] = k
      BY <1>1, <1>5 DEF Holds, Stored
    <2>2. Basis(m, b) = m.hp
      BY <1>1, <2>1 DEF AllMigrated, Basis
    <2>3. b \in Homes(k, m.hp)
      BY <1>1, <1>3, <2>1, <2>2 DEF Holds, AtHome
    <2> QED BY <2>1, <2>3 DEF Found
  <1> QED BY <1>4, <1>5 DEF Found

LEMMA PlaceData == ASSUME IInv, TableInv, DataInv, InsertPlaces PROVE DataInv'
  <1>1. /\ IsMap(map) /\ Settled(map) /\ content \in SUBSET Keys /\ it' = None /\ arg \in Keys
        /\ doing' = "nothing" /\ content' = content \cup {arg} /\ doing = "insert" /\ handle
        /\ ~Found(map, arg) /\ map' \in Placements(map, arg, FALSE)
    BY DEF InsertPlaces, TableInv, Typed, Idle, Inserting
  <1>2. AllMigrated(map) /\ Holds(map, content)
    BY <1>1 DEF DataInv
  <1>3. arg \notin content
    BY <1>1, <1>2, FoundKeys
  <1>4. Holds(map', content \cup {arg})
    BY <1>1, <1>2, <1>3, PlacementsHold
  <1>5. AllMigrated(map')
    BY <1>1, <1>2, PlaceStep, KeptKeeps
  <1> QED BY <1>1, <1>4, <1>5, NewData

LEMMA DoubleData == ASSUME TableInv, DataInv, LockedDouble PROVE DataInv'
  <1>1. /\ IsMap(map) /\ Settled(map) /\ content \in SUBSET Keys /\ it' = None /\ map.hp < HpBound
        /\ handle /\ doing = "double" /\ map' = Doubled(map) /\ content' = content
        /\ doing' = IF map.hp < LockPow THEN "insert" ELSE "spread"
    BY DEF LockedDouble, TableInv, Typed, Idle, Inserting
  <1>2. AllMigrated(map) /\ Holds(map, content)
    BY <1>1 DEF DataInv
  <1>3. Holds(map', content)
    BY <1>1, <1>2, DoubledHolds
  <1>4. map.hp < LockPow => AllMigrated(map')
    BY <1>1, DoubledParts
  <1> QED BY <1>1, <1>3, <1>4, NewData DEF LateCalls

LEMMA ClearData == ASSUME TableInv, DataInv, LockedClear PROVE DataInv'
  <1>1. IsMap(map) /\ map' = Cleared(map) /\ content' = {} /\ it' = None /\ doing' = "nothing"
    BY DEF LockedClear, Cleared, TableInv, Typed, Idle
  <1>2. /\ AllMigrated(map') /\ IsMap(map') /\ map'.hp = map.hp
        /\ \A b \in Buckets(map.hp), i \in SlotIds : map'.slots[b][i] = Empty
    BY <1>1, ClearedParts DEF Kept
  <1>3. DOMAIN map'.slots = Buckets(map.hp)
    BY <1>2, MapParts
  <1>4. Holds(map', {})
    BY <1>2, <1>3 DEF Holds, AtHome, Stored, OneSlotEach
  <1> QED BY <1>1, <1>2, <1>4, NewData
-----------------------------------------------------------------------------
\* The iterators, and the erasures of the handle.
LEMMA IdleFacts ==
    ASSUME TableInv, DataInv, Idle
    PROVE  /\ IsMap(map) /\ content \in SUBSET Keys /\ AllMigrated(map) /\ Holds(map, content)
           /\ OneSlotEach(map) /\ EndPos(map) \in Nat /\ Occupied(map) \in SUBSET (0..EndPos(map) - 1)
           /\ it # None => /\ it \in Occupied(map) \cup {EndPos(map)} /\ it \in Nat
                           /\ visited \cup AheadOf(map, it) = content
                           /\ visited \cap AheadOf(map, it) = {}
  <1>1. IsMap(map) /\ content \in SUBSET Keys /\ (it # None => it \in Occupied(map) \cup {EndPos(map)})
    BY DEF TableInv, Typed
  <1>2. EndPos(map) \in Nat /\ Occupied(map) \in SUBSET (0..EndPos(map) - 1)
    BY <1>1, PositionParts
  <1>3. AllMigrated(map) /\ Holds(map, content) /\ IterOK
    BY DEF DataInv, Idle
  <1> QED BY <1>1, <1>2, <1>3 DEF Holds, IterOK

\* Steps of an idle handle.
LEMMA IdleData ==
    ASSUME Idle, doing' = doing, Holds(map', content'), AllMigrated(map'),
           it' # None => /\ visited' \cup AheadOf(map', it') = content'
                         /\ visited' \cap AheadOf(map', it') = {}
    PROVE  DataInv'
  BY DEF Idle, DataInv, CopyOK, IterOK

LEMMA IteratorData == ASSUME TableInv, DataInv, IterBegin \/ IterNext \/ IterPrev PROVE DataInv'
  <1>1. UNCHANGED <<map, doing, content>> /\ Idle
    BY DEF IterBegin, IterNext, IterPrev
  <1>2. /\ IsMap(map) /\ content \in SUBSET Keys /\ AllMigrated(map) /\ Holds(map, content)
        /\ OneSlotEach(map) /\ EndPos(map) \in Nat /\ Occupied(map) \in SUBSET (0..EndPos(map) - 1)
        /\ it # None => /\ it \in Occupied(map) \cup {EndPos(map)} /\ it \in Nat
                        /\ visited \cup AheadOf(map, it) = content
                        /\ visited \cap AheadOf(map, it) = {}
    BY <1>1, IdleFacts
  <1> SUFFICES visited' \cup AheadOf(map, it') = content /\ visited' \cap AheadOf(map, it') = {}
    BY <1>1, <1>2, IdleData
  <1>3. CASE IterBegin
    <2>1. AheadOf(map, it') = AheadOf(map, 0)
      BY <1>2, <1>3, SettleAhead DEF IterBegin
    <2>2. AheadOf(map, 0) = content
      BY <1>2, AllAhead
    <2> QED BY <1>3, <2>1, <2>2 DEF IterBegin
  <1>4. CASE IterNext
    <2>1. it \in Occupied(map) /\ it' = Settle(map, it + 1) /\ visited' = visited \cup {KeyAt(map, it)}
          /\ it # None /\ it + 1 \in Nat
      BY <1>2, <1>4 DEF IterNext
    <2>2. /\ AheadOf(map, it) = AheadOf(map, it + 1) \cup {KeyAt(map, it)}
          /\ KeyAt(map, it) \notin AheadOf(map, it + 1)
      BY <1>2, <2>1, NextAhead
    <2>3. AheadOf(map, it') = AheadOf(map, it + 1)
      BY <1>2, <2>1, SettleAhead
    <2> QED BY <1>2, <2>1, <2>2, <2>3
  <1>5. CASE IterPrev
    <2>1. it # None /\ (\E p \in Occupied(map) : p < it) /\ it' = Max({p \in Occupied(map) : p < it})
          /\ visited' = visited \ {KeyAt(map, it')}
      BY <1>5 DEF IterPrev
    <2>2. it' \in Occupied(map) /\ it' < it /\ \A p \in Occupied(map) : p < it => p <= it'
      BY <1>2, <2>1, BeforeParts
    <2>3. AheadOf(map, it') = AheadOf(map, it) \cup {KeyAt(map, it')}
      BY <1>2, <2>1, <2>2, BeforeAhead
    <2>4. KeyAt(map, it') \in content
      BY <1>2, <2>2, AllAhead
    <2> QED BY <1>2, <2>1, <2>3, <2>4
  <1> QED BY <1>1, <1>3, <1>4, <1>5 DEF IterBegin, IterNext, IterPrev

\* What an erasure at a position leaves.
LEMMA ErasedData ==
    ASSUME NEW m, IsMap(m), NEW C \in SUBSET Keys, AllMigrated(m), Holds(m, C), NEW p \in Occupied(m)
    PROVE  /\ IsMap(Removed(m, p)) /\ AllMigrated(Removed(m, p))
           /\ Holds(Removed(m, p), C \ {KeyAt(m, p)})
           /\ \A q : AheadOf(Removed(m, p), q) = AheadOf(m, q) \ {KeyAt(m, p)}
  <1>1. p \in 0..EndPos(m) - 1 /\ p \div Slots \in Buckets(m.hp) /\ (p % Slots) + 1 \in SlotIds
        /\ KeyAt(m, p) # Empty
    BY PositionParts
  <1>2. Changed(m, Removed(m, p), p \div Slots, (p % Slots) + 1, Empty)
    BY <1>1, RemovedParts
  <1>3. Kept(m, Removed(m, p))
    BY <1>2 DEF Changed
  <1>4. IsMap(Removed(m, p)) /\ AllMigrated(Removed(m, p))
    BY <1>3, KeptKeeps DEF Kept
  <1>5. KeyAt(m, p) = m.slots[p \div Slots][(p % Slots) + 1]
    BY DEF KeyAt
  <1>6. Holds(Removed(m, p), C \ {KeyAt(m, p)})
    BY <1>1, <1>2, <1>5, TakeHolds
  <1>7. OneSlotEach(m)
    BY DEF Holds
  <1>8. \A q : AheadOf(Removed(m, p), q) = AheadOf(m, q) \ {KeyAt(m, p)}
    BY <1>2, <1>7, TakenAhead
  <1> QED BY <1>4, <1>6, <1>8

LEMMA EraseAtData == ASSUME TableInv, DataInv, LockedEraseAt PROVE DataInv'
  <1>1. /\ Idle /\ it # None /\ it # EndPos(map) /\ map' = Removed(map, it) /\ doing' = doing
        /\ content' = content \ {KeyAt(map, it)} /\ it' = Settle(map', it) /\ visited' = visited
    BY DEF LockedEraseAt
  <1>2. /\ IsMap(map) /\ content \in SUBSET Keys /\ AllMigrated(map) /\ Holds(map, content)
        /\ it \in Occupied(map) /\ it \in Nat
        /\ visited \cup AheadOf(map, it) = content
        /\ visited \cap AheadOf(map, it) = {}
    BY <1>1, IdleFacts
  <1>3. /\ IsMap(map') /\ AllMigrated(map') /\ Holds(map', content')
        /\ AheadOf(map', it) = AheadOf(map, it) \ {KeyAt(map, it)}
    BY <1>1, <1>2, ErasedData
  <1>4. AheadOf(map', it') = AheadOf(map', it)
    BY <1>1, <1>2, <1>3, SettleAhead
  <1>5. KeyAt(map, it) \in AheadOf(map, it)
    BY <1>2 DEF AheadOf
  <1>6. visited' \cup AheadOf(map', it') = content' /\ visited' \cap AheadOf(map', it') = {}
    BY <1>1, <1>2, <1>3, <1>4, <1>5
  <1> QED BY <1>1, <1>3, <1>6, IdleData

LEMMA EraseData == ASSUME TableInv, DataInv, NEW k \in Keys, LockedErase(k) PROVE DataInv'
  <1>1. PICK p \in Occupied(map) : /\ KeyAt(map, p) = k /\ map' = Removed(map, p)
                                   /\ it' = IF it = p THEN None ELSE it
    BY DEF LockedErase
  <1>2. /\ Idle /\ doing' = doing /\ content' = content \ {k}
        /\ visited' = IF it' = None THEN {} ELSE visited \ {k}
    BY DEF LockedErase
  <1>3. /\ IsMap(map) /\ content \in SUBSET Keys /\ AllMigrated(map) /\ Holds(map, content)
        /\ it # None => /\ visited \cup AheadOf(map, it) = content
                        /\ visited \cap AheadOf(map, it) = {}
    BY <1>2, IdleFacts
  <1>4. /\ IsMap(map') /\ AllMigrated(map') /\ Holds(map', content')
        /\ \A q : AheadOf(map', q) = AheadOf(map, q) \ {k}
    BY <1>1, <1>2, <1>3, ErasedData
  <1>5. ASSUME it' # None
        PROVE  visited' \cup AheadOf(map', it') = content' /\ visited' \cap AheadOf(map', it') = {}
    <2>1. it' = it /\ it # None /\ visited' = visited \ {k}
      BY <1>1, <1>2, <1>5
    <2>2. AheadOf(map', it') = AheadOf(map, it) \ {k}
      BY <1>4, <2>1
    <2> QED BY <1>2, <1>3, <2>1, <2>2
  <1> QED BY <1>2, <1>4, <1>5, IdleData
-----------------------------------------------------------------------------
\* The copying of the keys into a new map.
LEMMA StartCopyData == ASSUME TableInv, DataInv, StartCopy PROVE DataInv'
  <1>1. /\ temp' = NewMap(arg) /\ arg \in 0..HpBound /\ handled' = {}
        /\ UNCHANGED <<map, handle, arg, it, content>> /\ it = None /\ doing' = "copy" /\ doing = "start_copy"
    BY DEF StartCopy, StartExec, TableInv, Typed, Copying, Idle
  <1>2. /\ IsMap(temp') /\ temp'.hp = arg /\ AllMigrated(temp')
        /\ \A b \in Buckets(arg), i \in SlotIds : temp'.slots[b][i] = Empty
    BY <1>1, NewMapParts
  <1>3. DOMAIN temp'.slots = Buckets(arg)
    BY <1>2, MapParts
  <1>4. Holds(temp', {})
    BY <1>2, <1>3 DEF Holds, AtHome, Stored, OneSlotEach
  <1>5. KeysOf(temp') = {}
    BY <1>2, <1>4, HeldKeys
  <1>6. CopyOK'
    <2>1. arg <= temp'.hp
      BY <1>1, <1>2
    <2> QED BY <1>1, <1>2, <1>4, <1>5, <2>1 DEF CopyOK
  <1> QED BY <1>1, <1>6 DEF DataInv, IterOK

\* A step that adds the keys D to the new map.
LEMMA MoreCopied ==
    ASSUME TableInv, CopyOK, doing = "copy", UNCHANGED <<map, doing, arg, content, handled>>,
           NEW D \in SUBSET content, IsMap(temp'), Holds(temp', KeysOf(temp) \cup D),
           arg <= temp'.hp, temp'.hp = arg => AllMigrated(temp')
    PROVE  CopyOK'
  <1>1. content \subseteq Keys /\ KeysOf(temp) \subseteq content
    BY DEF TableInv, Typed, CopyOK
  <1>2. KeysOf(temp') = KeysOf(temp) \cup D
    BY <1>1, HeldKeys
  <1>3. \A b \in handled, i \in SlotIds : map.slots[b][i] # Empty => map.slots[b][i] \in KeysOf(temp')
    BY <1>2 DEF CopyOK
  <1> QED BY <1>1, <1>2, <1>3 DEF CopyOK

LEMMA CopyKeyData == ASSUME IInv, TableInv, DataInv, NEW w \in Workers, CopyKey(w) PROVE DataInv'
  <1>1. /\ doing = "copy" /\ Running(w) /\ Uncopied(w) # {}
        /\ UNCHANGED <<execVars, map, handle, doing, arg, turn, it, visited, content>>
    BY DEF CopyKey
  <1>2. handled' = handled
    BY <1>1 DEF execVars
  <1> DEFINE k == NextToCopy(w)
             C == KeysOf(temp)
  <1>3. /\ next[w] \in Buckets(map.hp) /\ k \in Keys
        /\ \E i \in SlotIds : k = map.slots[next[w]][i] /\ k # Empty
        /\ Where(temp, k) = {}
        /\ IsMap(temp) /\ Settled(temp)
    BY <1>1, KeyToCopy
  <1>4. /\ C \in SUBSET Keys /\ Holds(temp, C) /\ arg <= temp.hp /\ arg \in Nat
        /\ (temp.hp = arg => AllMigrated(temp)) /\ CopyOK
    BY <1>1 DEF DataInv, CopyOK, KeysOf, TableInv, Typed, Copying
  <1>5. k \in content /\ k \notin C
    <2>1. DOMAIN map.slots = Buckets(map.hp)
      BY MapParts DEF TableInv, Typed
    <2>2. PICK i \in SlotIds : k = map.slots[next[w]][i] /\ k # Empty
      BY <1>3
    <2>3. map.slots[next[w]][i] \in content
      BY <1>3, <2>1, <2>2 DEF DataInv, Holds, AtHome
    <2> QED BY <1>3, <2>2, <2>3 DEF KeysOf
  <1> HIDE DEF k, C
  <1>6. CopyOK'
    <2>1. CASE temp' \in Placements(temp, k, TRUE)
      <3>1. Holds(temp', C \cup {k})
        BY <1>3, <1>4, <1>5, <2>1, PlacementsHold
      <3>2. Kept(temp, temp')
        BY <1>3, <2>1, PlacementsKeep
      <3>3. IsMap(temp') /\ temp'.hp = temp.hp /\ (AllMigrated(temp) => AllMigrated(temp'))
        BY <1>3, <3>2, KeptKeeps DEF Kept
      <3>4. {k} \in SUBSET content
        BY <1>5
      <3>5. Holds(temp', KeysOf(temp) \cup {k})
        BY <3>1 DEF C
      <3>6. arg <= temp'.hp /\ (temp'.hp = arg => AllMigrated(temp'))
        BY <1>4, <3>3
      <3> QED BY <1>1, <1>2, <1>4, <3>3, <3>4, <3>5, <3>6, MoreCopied
    <2>2. CASE ~NewMapRefused /\ temp.hp < HpBound /\ temp' = Doubled(RehashAll(temp))
      <3>1. /\ IsMap(RehashAll(temp)) /\ Settled(RehashAll(temp)) /\ AllMigrated(RehashAll(temp))
            /\ RehashAll(temp).hp = temp.hp
        BY <1>3, RehashAllParts DEF Kept
      <3>2. temp.hp < HpBound /\ temp.hp \in Nat
        BY <1>3, <2>2, TableAssumption DEF IsMap
      <3>3. Holds(RehashAll(temp), C)
        BY <1>3, <1>4, RehashAllHolds
      <3>4. Holds(temp', C)
        BY <1>4, <2>2, <3>1, <3>2, <3>3, DoubledHolds
      <3>5. IsMap(temp') /\ temp'.hp = temp.hp + 1
        BY <2>2, <3>1, <3>2, DoubledParts
      <3>6. Holds(temp', KeysOf(temp) \cup {})
        BY <3>4 DEF C
      <3>7. arg <= temp'.hp /\ temp'.hp # arg
        BY <1>4, <3>2, <3>5
      <3>8. {} \in SUBSET content /\ (temp'.hp = arg => AllMigrated(temp'))
        BY <3>7
      <3> QED BY <1>1, <1>2, <1>4, <3>5, <3>6, <3>7, <3>8, MoreCopied
    <2> QED BY <2>1, <2>2 DEF CopyKey, k
  <1> QED BY <1>1, <1>6, CopyGoesOn

LEMMA CopyDoneData ==
    ASSUME IInv, TableInv, DataInv, NewMapsKeepTheirSize, CopyDone
    PROVE  DataInv'
  <1>1. /\ doing = "copy" /\ AllJoined /\ map' = IF failed = {} THEN WithLocks(temp, LockIds(temp), TRUE) ELSE map
        /\ doing' = Done /\ UNCHANGED <<handle, it, visited, content>> /\ it = None
    BY DEF CopyDone, Return, TableInv, Typed, Idle
  <1>2. /\ IsMap(map) /\ IsMap(temp) /\ content \in SUBSET Keys /\ Holds(map, content) /\ end = HashSize(map.hp)
        /\ Holds(temp, KeysOf(temp)) /\ KeysOf(temp) \subseteq content
        /\ temp.hp = arg => AllMigrated(temp)
        /\ \A b \in handled, i \in SlotIds : map.slots[b][i] # Empty => map.slots[b][i] \in KeysOf(temp)
    BY <1>1 DEF TableInv, Typed, WorkOK, DataInv, CopyOK
  <1>3. doing' # "copy" /\ doing \notin LateCalls /\ (handle' => doing' = "nothing")
    BY <1>1 DEF Done, LateCalls
  <1>4. CASE failed = {}
    <2>1. handled = Buckets(map.hp)
      BY <1>1, <1>2, <1>4, InvImplies DEF EveryIndexOnce, Buckets
    <2>2. DOMAIN map.slots = Buckets(map.hp)
      BY <1>2, MapParts
    <2>3. content \subseteq KeysOf(temp)
      <3>1. SUFFICES ASSUME NEW k \in content PROVE k \in KeysOf(temp)
        OBVIOUS
      <3>2. PICK b \in Buckets(map.hp), i \in SlotIds : map.slots[b][i] = k
        BY <1>2, <2>2 DEF Holds, Stored
      <3>3. k # Empty
        BY <1>2, TableAssumption
      <3> QED BY <1>2, <2>1, <3>2, <3>3
    <2>4. KeysOf(temp) = content
      BY <1>2, <2>3
    <2>5. /\ IsMap(map') /\ map'.hp = temp.hp /\ map'.slots = temp.slots /\ LockIds(map') = LockIds(temp)
          /\ \A l \in LockIds(temp) : map'.locks[l].migrated = temp.locks[l].migrated
      <3>1. map' = WithLocks(temp, LockIds(temp), TRUE) /\ IsMap(temp)
        BY <1>1, <1>2, <1>4
      <3> QED BY <3>1, WithLocksParts
    <2>6. Holds(map', content)
      BY <1>2, <2>4, <2>5, SameSlots
    <2>7. handle => AllMigrated(map')
      BY <1>1, <1>2, <2>5 DEF NewMapsKeepTheirSize, AllMigrated
    <2> QED BY <1>1, <1>3, <2>6, <2>7, NewData
  <1>5. CASE failed # {}
    <2>1. map' = map /\ (handle => AllMigrated(map))
      BY <1>1, <1>3, <1>5 DEF DataInv, LateCalls
    <2> QED BY <1>1, <1>2, <1>3, <2>1, NewData
  <1> QED BY <1>4, <1>5
-----------------------------------------------------------------------------
\* The calls of the other threads, which find the locks they need free.
LEMMA OtherFacts ==
    ASSUME TableInv, DataInv, NEW L \in SUBSET LockIds(map), L # {}, Free(L)
    PROVE  /\ IsMap(map) /\ Settled(map) /\ content \in SUBSET Keys /\ Holds(map, content)
           /\ it = None /\ doing # "copy" /\ (handle => doing \in LateCalls)
  <1>1. it = None /\ (doing \in {"lock_all", "unlock"} \/ (doing = "nothing" /\ ~handle))
    BY NoHandle
  <1> QED BY <1>1 DEF TableInv, Typed, DataInv, LateCalls

LEMMA OtherInsertData == ASSUME TableInv, DataInv, NEW k \in Keys, OtherInsert(k) PROVE DataInv'
  <1>1. /\ k \notin content /\ map' \in Placements(map, k, TRUE) /\ content' = content \cup {k}
        /\ UNCHANGED <<handle, doing, it>> /\ Free(LocksOf(Homes(k, map.hp))) /\ IsMap(map)
    BY DEF OtherInsert, TableInv, Typed
  <1>2. /\ Settled(map) /\ content \in SUBSET Keys /\ Holds(map, content)
        /\ it = None /\ doing # "copy" /\ (handle => doing \in LateCalls)
    BY <1>1, KeyHomes, OtherFacts
  <1>3. Holds(map', content')
    BY <1>1, <1>2, PlacementsHold
  <1> QED BY <1>1, <1>2, <1>3, NewData

LEMMA OtherDoubleData == ASSUME TableInv, DataInv, NEW k \in Keys, OtherDouble(k) PROVE DataInv'
  <1> DEFINE r == RehashAll(map)
  <1>1. /\ ~Refused /\ map' = Doubled(r) /\ content' = content /\ UNCHANGED <<handle, doing, it>>
        /\ Free(LockIds(map)) /\ IsMap(map)
    BY DEF OtherDouble, AllFree, TableInv, Typed
  <1>2. /\ Settled(map) /\ content \in SUBSET Keys /\ Holds(map, content)
        /\ it = None /\ doing # "copy" /\ (handle => doing \in LateCalls)
    BY <1>1, MapParts, OtherFacts
  <1>3. IsMap(r) /\ Settled(r) /\ AllMigrated(r) /\ r.hp = map.hp /\ Holds(r, content)
    BY <1>1, <1>2, RehashAllParts, RehashAllHolds DEF Kept
  <1>4. r.hp < HpBound
    BY <1>1, <1>3, RoomToDouble
  <1> HIDE DEF r
  <1>5. Holds(map', content)
    BY <1>1, <1>2, <1>3, <1>4, DoubledHolds
  <1> QED BY <1>1, <1>2, <1>5, NewData

LEMMA OtherEraseData == ASSUME TableInv, DataInv, NEW k \in Keys, OtherErase(k) PROVE DataInv'
  <1> DEFINE L == LocksOf(Homes(k, map.hp))
             l == Min(L)
             m == Touch(map, L)
             p == CHOOSE p \in Where(m, k) : TRUE
             n == [m EXCEPT !.slots[p[1]][p[2]] = Empty, !.locks[l].count = @ - 1]
  <1>1. /\ map' = (IF k \in content THEN n ELSE m) /\ content' = content \ {k}
        /\ UNCHANGED <<handle, doing, it>> /\ Free(L) /\ IsMap(map)
    BY DEF OtherErase, TableInv, Typed
  <1>2. L \in SUBSET LockIds(map) /\ l \in LockIds(map) /\ L # {}
    BY <1>1, KeyHomes
  <1>3. /\ Settled(map) /\ content \in SUBSET Keys /\ Holds(map, content)
        /\ it = None /\ doing # "copy" /\ (handle => doing \in LateCalls)
    BY <1>1, <1>2, OtherFacts
  <1>4. IsMap(m) /\ l \in LockIds(m) /\ Holds(m, content)
    BY <1>1, <1>2, <1>3, TouchParts, TouchHolds DEF Kept
  <1> HIDE DEF m, l
  <1>5. Holds(map', content')
    <2>1. CASE k \in content
      <3>1. /\ KeysOf(m) = content
            /\ \A q \in Where(m, k) : q[1] \in Buckets(m.hp) /\ q[2] \in SlotIds /\ m.slots[q[1]][q[2]] = k
        BY <1>3, <1>4, <2>1, HeldKeys
      <3>2. Where(m, k) # {}
        BY <2>1, <3>1 DEF KeysOf
      <3>3. p \in Where(m, k)
        BY <3>2
      <3>4. p[1] \in Buckets(m.hp) /\ p[2] \in SlotIds /\ m.slots[p[1]][p[2]] = k
        BY <3>1, <3>3
      <3> HIDE DEF p
      <3>5. Changed(m, n, p[1], p[2], Empty)
        BY <1>4, <3>4, TakenParts
      <3> HIDE DEF n
      <3>6. Holds(n, content \ {k})
        BY <1>3, <1>4, <3>4, <3>5, TakeHolds, TableAssumption
      <3> QED BY <1>1, <2>1, <3>6
    <2>2. CASE k \notin content
      BY <1>1, <1>4, <2>2
    <2> QED BY <2>1, <2>2
  <1> QED BY <1>1, <1>3, <1>5, NewData
-----------------------------------------------------------------------------
\* What the map contains.
LEMMA DataInit == Init => DataInv
  <1> SUFFICES ASSUME Init PROVE DataInv
    OBVIOUS
  <1>1. PICK hp \in 0..HpBound : map = NewMap(hp)
    BY TableAssumption DEF Init
  <1>2. /\ IsMap(map) /\ map.hp = hp
        /\ \A b \in Buckets(hp), i \in SlotIds : map.slots[b][i] = Empty
    BY <1>1, NewMapParts
  <1>3. DOMAIN map.slots = Buckets(hp)
    BY <1>2, MapParts
  <1>4. Holds(map, {})
    BY <1>2, <1>3 DEF Holds, AtHome, Stored, OneSlotEach
  <1> QED BY <1>4 DEF Init, DataInv, CopyOK, IterOK

LEMMA DataStep ==
    IInv /\ TableInv /\ DataInv /\ NewMapsKeepTheirSize /\ [Next]_vars => DataInv'
  <1> SUFFICES ASSUME IInv, TableInv, DataInv, NewMapsKeepTheirSize, [Next]_vars PROVE DataInv'
    OBVIOUS
  <1>1. CASE UNCHANGED vars
    <2>1. UNCHANGED tableVars /\ handled' = handled
      BY <1>1 DEF vars, execVars
    <2>2. CopyOK'
      BY <2>1 DEF tableVars, DataInv, CopyOK
    <2> QED BY <2>1, <2>2, CopyGoesOn DEF tableVars
  <1>2. CASE \/ LockTable \/ (\E n \in Sizes : Rehash(n)) \/ Unlock \/ Unlocked
             \/ (\E k \in Keys : LockedInsert(k)) \/ InsertDuplicate \/ InsertThrows
             \/ (\E n \in LockedSizes : LockedRehash(n)) \/ CapacityThrows
             \/ AllLocked \/ InsertExpands \/ Capacity
    BY <1>2, StillSteps
  <1>3. CASE Threading \/ (\E w \in Workers : CopyThrows(w)) \/ (\E w \in Workers : CopyNextBucket(w))
    BY <1>3, ThreadData, NextBucketData
  <1>4. CASE MigrationDone \/ LockNext \/ UnlockNext \/ \E w \in Workers : MigrateLock(w)
    BY <1>4, MigrationDoneData, LockData, MigrateData
  <1>5. CASE InsertPlaces \/ LockedDouble \/ LockedClear
    BY <1>5, PlaceData, DoubleData, ClearData
  <1>6. CASE IterBegin \/ IterNext \/ IterPrev \/ LockedEraseAt \/ \E k \in Keys : LockedErase(k)
    BY <1>6, IteratorData, EraseAtData, EraseData
  <1>7. CASE StartCopy \/ CopyDone \/ \E w \in Workers : CopyKey(w)
    BY <1>7, StartCopyData, CopyKeyData, CopyDoneData
  <1>8. CASE OtherThread
    BY <1>8, OtherInsertData, OtherDoubleData, OtherEraseData DEF OtherThread
  <1>9. CASE Next
    BY <1>2, <1>3, <1>4, <1>5, <1>6, <1>7, <1>8, <1>9 DEF Next, Owner
  <1> QED BY <1>1, <1>9

\* The map contains what the calls put into it, and an iterator has the rest
\* of its way before it.
THEOREM DataInvariant == Spec /\ []NewMapsKeepTheirSize => []DataInv
  <1>1. Init => DataInv
    BY DataInit
  <1>2. IInv /\ TableInv /\ DataInv /\ NewMapsKeepTheirSize /\ [Next]_vars => DataInv'
    BY DataStep
  <1> QED BY <1>1, <1>2, TableInvariant, PTL DEF Spec

LEMMA DataImplies ==
    TableInv /\ DataInv => KeysAreStored /\ LockedLookupsAreRight /\ IterationIsComplete
  <1> SUFFICES ASSUME TableInv, DataInv
               PROVE  KeysAreStored /\ LockedLookupsAreRight /\ IterationIsComplete
    OBVIOUS
  <1>1. IsMap(map) /\ content \in SUBSET Keys /\ Holds(map, content)
    BY DEF TableInv, Typed, DataInv
  <1>2. KeysAreStored
    BY <1>1, HeldKeys DEF KeysAreStored, Basis
  <1>3. Idle => AllMigrated(map)
    BY IdleFacts
  <1>4. LockedLookupsAreRight
    BY <1>1, <1>3, FoundKeys DEF LockedLookupsAreRight
  <1>5. IterationIsComplete
    BY IdleFacts DEF IterationIsComplete, AheadOf
  <1> QED BY <1>2, <1>4, <1>5

\* Migration by several workers, doublings, changes of the capacity whose
\* threads may throw, and all calls of both modes leave every key in one slot,
\* where a call that looks through the locks finds it, and no other.
THEOREM KeysStayStored == Spec /\ []NewMapsKeepTheirSize => []KeysAreStored
  BY TableInvariant, DataInvariant, DataImplies, PTL

\* What the handle looks up through no lock is right: its constructor and its
\* doublings leave nothing to migrate.
THEOREM LockedLookupsStayRight == Spec /\ []NewMapsKeepTheirSize => []LockedLookupsAreRight
  BY TableInvariant, DataInvariant, DataImplies, PTL

\* An iteration meets every key once, over its erasures through the iterator.
THEOREM IterationsAreComplete == Spec /\ []NewMapsKeepTheirSize => []IterationIsComplete
  BY TableInvariant, DataInvariant, DataImplies, PTL

-----------------------------------------------------------------------------
\* What size() counts.
Counters(m) == [l \in LockIds(m) |-> m.locks[l].count]

\* size() is the sum of finitely many integers.
LEMMA SizeFacts ==
    ASSUME NEW m, IsMap(m)
    PROVE  /\ IsFiniteSet(LockIds(m)) /\ Size(m) = Sum(Counters(m), LockIds(m))
           /\ \A l \in LockIds(m) : Counters(m)[l] = m.locks[l].count /\ Counters(m)[l] \in Int
           /\ Size(m) \in Int
  <1>1. m.locks \in [LockIds(m) -> LockRecords] /\ LockIds(m) = 0..NumLocks(m.hp) - 1 /\ NumLocks(m.hp) \in Nat
    BY MapParts
  <1>2. IsFiniteSet(LockIds(m))
    BY <1>1, FS_Interval
  <1>3. \A l \in LockIds(m) : Counters(m)[l] = m.locks[l].count /\ Counters(m)[l] \in Int
    BY <1>1 DEF Counters, LockRecords
  <1>4. Size(m) = Sum(Counters(m), LockIds(m))
    BY DEF Size, SumFunction, Sum, Counters
  <1>5. Sum(Counters(m), LockIds(m)) \in Int
    BY <1>2, <1>3, SumType
  <1> QED BY <1>2, <1>3, <1>4, <1>5

\* Counters that stay add up to the same size, also beside new ones that are 0.
LEMMA SameSize ==
    ASSUME NEW m, IsMap(m), NEW n, IsMap(n), LockIds(n) = LockIds(m),
           \A l \in LockIds(m) : n.locks[l].count = m.locks[l].count
    PROVE  Size(n) = Size(m)
  <1>1. \A l \in LockIds(m) : Counters(n)[l] = Counters(m)[l]
    BY SizeFacts
  <1>2. Sum(Counters(n), LockIds(m)) = Sum(Counters(m), LockIds(m))
    BY <1>1, SizeFacts, SumSame
  <1> QED BY <1>2, SizeFacts

\* A counter that changes changes the size alike.
LEMMA ChangedSize ==
    ASSUME NEW m, IsMap(m), NEW n, IsMap(n), LockIds(n) = LockIds(m), NEW l \in LockIds(m),
           NEW d \in Int, n.locks[l].count = m.locks[l].count + d,
           \A a \in LockIds(m) \ {l} : n.locks[a].count = m.locks[a].count
    PROVE  Size(n) = Size(m) + d
  <1> DEFINE f == Counters(m)
             g == Counters(n)
             S == LockIds(m)
  <1>1. /\ IsFiniteSet(S) /\ Size(m) = Sum(f, S) /\ Size(m) \in Int
        /\ \A a \in S : f[a] = m.locks[a].count /\ f[a] \in Int
    BY SizeFacts
  <1>2. Size(n) = Sum(g, S) /\ \A a \in S : g[a] = n.locks[a].count /\ g[a] \in Int
    BY SizeFacts
  <1>3. g[l] = f[l] + d /\ f[l] \in Int /\ g[l] \in Int
    BY <1>1, <1>2
  <1>4. \A a \in S \ {l} : g[a] = f[a]
    BY <1>1, <1>2
  <1> HIDE DEF f, g, S
  <1>5. l \in S
    BY DEF S
  <1>6. Sum(g, S) = Sum(f, S) + (g[l] - f[l])
    BY <1>1, <1>3, <1>4, <1>5, SumChange
  <1> QED BY <1>1, <1>2, <1>3, <1>6

\* A migration counts nothing.
LEMMA TouchSize ==
    ASSUME NEW m, IsMap(m), Settled(m), NEW L \in SUBSET LockIds(m)
    PROVE  Size(Touch(m, L)) = Size(m)
  <1>1. Kept(m, Touch(m, L)) /\ (Left(m, L) = {} => Touch(m, L) = m)
    BY TouchParts
  <1>2. CASE Left(m, L) = {}
    BY <1>1, <1>2
  <1>3. CASE Left(m, L) # {}
    <2> DEFINE n == MoveBuckets(m, {b \in OldBuckets(m) : LockInd(b) \in Left(m, L)})
               K == [l \in LockIds(m) |-> [m.locks[l] EXCEPT !.migrated = @ \/ l \in L]]
    <2>1. Touch(m, L) = [n EXCEPT !.locks = K]
      BY <1>3 DEF Touch, Left
    <2>2. m.hp # 0
      BY <1>3, TouchParts
    <2>3. n = [hp |-> m.hp, slots |-> n.slots, locks |-> m.locks]
      <3>1. {b \in OldBuckets(m) : LockInd(b) \in Left(m, L)} \in SUBSET Buckets(m.hp - 1)
        BY DEF OldBuckets, Buckets
      <3> QED BY <2>2, <3>1, MovedParts
    <2> HIDE DEF n
    <2>4. Touch(m, L).locks = K
      BY <2>1, <2>3
    <2>5. \A l \in LockIds(m) : m.locks[l] \in LockRecords
      BY MapParts
    <2>6. \A l \in LockIds(m) : K[l].count = m.locks[l].count
      BY <2>5 DEF LockRecords
    <2>7. \A l \in LockIds(m) : Touch(m, L).locks[l].count = m.locks[l].count
      BY <2>4, <2>6
    <2>8. IsMap(Touch(m, L)) /\ LockIds(Touch(m, L)) = LockIds(m)
      BY <1>1 DEF Kept
    <2> QED BY <2>7, <2>8, SameSize
  <1> QED BY <1>2, <1>3

LEMMA RehashAllSize ==
    ASSUME NEW m, IsMap(m), Settled(m)
    PROVE  Size(RehashAll(m)) = Size(m)
  <1>1. RehashAll(m) \in {m, Touch(m, LockIds(m))}
    BY RehashAllParts
  <1>2. Size(Touch(m, LockIds(m))) = Size(m)
    BY TouchSize
  <1> QED BY <1>1, <1>2

LEMMA SeenSize ==
    ASSUME NEW m, IsMap(m), Settled(m), NEW B \in SUBSET Buckets(m.hp), NEW normal \in BOOLEAN
    PROVE  Size(Seen(m, B, normal)) = Size(m)
  <1>1. LocksOf(B) \in SUBSET LockIds(m)
    BY LocksOfBuckets
  <1>2. Size(Touch(m, LocksOf(B))) = Size(m)
    BY <1>1, TouchSize
  <1> QED BY <1>2 DEF Seen

\* A step that writes a slot and a counter.
LEMMA WrittenSize ==
    ASSUME NEW m, IsMap(m), NEW b \in Buckets(m.hp), NEW i \in SlotIds, NEW x \in Keys \cup {Empty},
           NEW l \in LockIds(m), NEW c \in Int
    PROVE  Size([m EXCEPT !.slots[b][i] = x, !.locks[l].count = c]) = Size(m) + (c - m.locks[l].count)
  <1> DEFINE n == [m EXCEPT !.slots[b][i] = x, !.locks[l].count = c]
             K == [m.locks EXCEPT ![l].count = c]
             o == [m EXCEPT !.slots[b][i] = x]
             d == c - m.locks[l].count
  <1>1. /\ m = [hp |-> m.hp, slots |-> m.slots, locks |-> m.locks]
        /\ m.locks \in [LockIds(m) -> LockRecords]
    BY MapParts
  <1>2. m.locks[l].count \in Int /\ d \in Int /\ c = m.locks[l].count + d
    BY <1>1 DEF LockRecords
  <1>3. Changed(m, n, b, i, x)
    BY ChangedSlot
  <1>4. IsMap(n) /\ LockIds(n) = LockIds(m)
    BY <1>3 DEF Changed, Kept
  <1>5. o.locks = m.locks /\ o = [hp |-> m.hp, slots |-> o.slots, locks |-> m.locks]
    BY <1>1
  <1>6. n = [o EXCEPT !.locks[l].count = c]
    OBVIOUS
  <1> HIDE DEF o
  <1>7. n.locks = K
    BY <1>5, <1>6
  <1> HIDE DEF n
  <1>8. K[l].count = c /\ \A a \in LockIds(m) \ {l} : K[a].count = m.locks[a].count
    BY <1>1 DEF LockRecords
  <1> HIDE DEF K, d
  <1>9. n.locks[l].count = m.locks[l].count + d
    BY <1>2, <1>7, <1>8
  <1>10. \A a \in LockIds(m) \ {l} : n.locks[a].count = m.locks[a].count
    BY <1>7, <1>8
  <1>11. Size(n) = Size(m) + d
    BY <1>2, <1>4, <1>9, <1>10, ChangedSize
  <1> QED BY <1>11 DEF n, d

LEMMA PutSize ==
    ASSUME NEW m, IsMap(m), NEW b \in Buckets(m.hp), NEW i \in SlotIds, NEW k \in Keys,
           NEW l \in LockIds(m)
    PROVE  Size(Put(m, k, b, i, l)) = Size(m) + 1
  <1> DEFINE c == m.locks[l].count + 1
             o == [m EXCEPT !.slots[b][i] = k, !.locks[l].count = c]
  <1>1. Put(m, k, b, i, l) = o
    BY MapParts DEF Put
  <1>2. m.locks[l].count \in Int
    BY MapParts DEF LockRecords
  <1>3. c \in Int /\ c - m.locks[l].count = 1 /\ k \in Keys \cup {Empty}
    BY <1>2
  <1> HIDE DEF c
  <1>4. Size(o) = Size(m) + (c - m.locks[l].count)
    BY <1>3, WrittenSize, ZenonT(60)
  <1> HIDE DEF o
  <1> QED BY <1>1, <1>3, <1>4

LEMMA TakenSize ==
    ASSUME NEW m, IsMap(m), NEW b \in Buckets(m.hp), NEW i \in SlotIds, NEW l \in LockIds(m)
    PROVE  Size([m EXCEPT !.slots[b][i] = Empty, !.locks[l].count = @ - 1]) = Size(m) - 1
  <1> DEFINE c == m.locks[l].count - 1
             n == [m EXCEPT !.slots[b][i] = Empty, !.locks[l].count = @ - 1]
             o == [m EXCEPT !.slots[b][i] = Empty, !.locks[l].count = c]
  <1>1. n = o
    BY MapParts
  <1>2. m.locks[l].count \in Int /\ Size(m) \in Int
    BY MapParts, SizeFacts DEF LockRecords
  <1>3. c \in Int /\ c - m.locks[l].count = -1 /\ Empty \in Keys \cup {Empty}
    BY <1>2
  <1> HIDE DEF c
  <1>4. Size(o) = Size(m) + (c - m.locks[l].count)
    BY <1>3, WrittenSize, ZenonT(60)
  <1> HIDE DEF n, o
  <1>5. Size(n) = Size(m) - 1
    BY <1>1, <1>2, <1>3, <1>4
  <1> QED BY <1>5 DEF n

\* Moving a key to its other bucket counts nothing.
LEMMA MovedSize ==
    ASSUME NEW m, IsMap(m), NEW b \in Buckets(m.hp), NEW i \in SlotIds,
           NEW d \in Buckets(m.hp), NEW j \in SlotIds
    PROVE  Size(Moved(m, b, i, d, j)) = Size(m)
  <1> DEFINE s == [[m.slots EXCEPT ![d][j] = m.slots[b][i]] EXCEPT ![b][i] = Empty]
             n == [m EXCEPT !.slots = s]
  <1>1. m = [hp |-> m.hp, slots |-> m.slots, locks |-> m.locks]
    BY MapParts
  <1>2. Moved(m, b, i, d, j) = n
    BY DEF Moved
  <1> HIDE DEF s
  <1>3. n.locks = m.locks
    BY <1>1
  <1> HIDE DEF n
  <1>4. Kept(m, n)
    BY <1>2, MovedKeyParts DEF Shifted
  <1>5. Size(n) = Size(m)
    BY <1>3, <1>4, SameSize DEF Kept
  <1> QED BY <1>2, <1>5

\* An insertion counts one key, at whichever lock.
LEMMA PlacementSize ==
    ASSUME NEW m, IsMap(m), Settled(m), NEW k \in Keys, NEW normal \in BOOLEAN,
           NEW n \in Placements(m, k, normal)
    PROVE  Size(n) = Size(m) + 1
  <1> DEFINE p == Seen(m, Homes(k, m.hp), normal)
  <1>1. Homes(k, m.hp) \in SUBSET Buckets(m.hp)
    BY KeyHomes
  <1>2. Settled(p) /\ IsMap(p) /\ p.hp = m.hp /\ LockIds(p) = LockIds(m) /\ Size(p) = Size(m)
    BY <1>1, SeenParts, SeenSize
  <1>3. CASE PutFree(m, n, k, normal)
    <2>1. PICK b \in Homes(k, m.hp), i \in SlotIds, l \in LockIds(m) : n = Put(p, k, b, i, l)
      BY <1>3 DEF PutFree
    <2> HIDE DEF p
    <2>2. b \in Buckets(p.hp) /\ l \in LockIds(p)
      BY <1>1, <1>2
    <2> QED BY <1>2, <2>1, <2>2, PutSize
  <1>4. CASE PutMoving(m, n, k, normal)
    <2>1. PICK b \in Homes(k, m.hp), i \in SlotIds, l \in LockIds(m), j \in SlotIds :
             LET d == Other(p.slots[b][i], b, m.hp)
                 o == Seen(p, {d}, normal)
             IN  FreeSlots(p, b) = {} /\ n = Put(Moved(o, b, i, d, j), k, b, i, l)
      BY <1>4 DEF PutMoving
    <2> DEFINE d == Other(p.slots[b][i], b, p.hp)
               o == Seen(p, {d}, normal)
               q == Moved(o, b, i, d, j)
    <2> HIDE DEF p
    <2>2. b \in Buckets(p.hp)
      BY <1>1, <1>2
    <2>3. d \in Buckets(p.hp) /\ Kept(p, o) /\ IsMap(o) /\ o.hp = p.hp /\ LockIds(o) = LockIds(p)
      BY <1>2, <2>1, <2>2, MovingParts
    <2>4. n = Put(q, k, b, i, l)
      BY <1>2, <2>1
    <2>10. {d} \in SUBSET Buckets(p.hp)
      BY <2>3
    <2> HIDE DEF d
    <2>9. Size(o) = Size(p)
      BY <1>2, <2>10, SeenSize, Zenon
    <2> HIDE DEF o
    <2>5. b \in Buckets(o.hp) /\ d \in Buckets(o.hp) /\ l \in LockIds(o)
      BY <1>2, <2>2, <2>3
    <2>11. Size(q) = Size(o)
      BY <2>3, <2>5, MovedSize, Zenon
    <2>12. Shifted(o, q, b, i, d, j)
      BY <2>3, <2>5, MovedKeyParts, Zenon
    <2>6. Kept(o, q) /\ Size(q) = Size(o)
      BY <2>11, <2>12 DEF Shifted
    <2> HIDE DEF q
    <2>7. IsMap(q) /\ b \in Buckets(q.hp) /\ l \in LockIds(q)
      BY <2>5, <2>6 DEF Kept
    <2>8. Size(n) = Size(q) + 1
      BY <2>4, <2>7, PutSize
    <2> QED BY <1>2, <2>6, <2>8, <2>9
  <1> QED BY <1>3, <1>4, PlacementParts

\* An erasure counts back one key.
LEMMA RemovedSize ==
    ASSUME NEW m, IsMap(m), NEW p \in 0..EndPos(m) - 1
    PROVE  Size(Removed(m, p)) = Size(m) - 1
  <1> DEFINE b == p \div Slots
             i == (p % Slots) + 1
  <1>1. b \in Buckets(m.hp) /\ i \in SlotIds
    BY PositionParts
  <1>2. LockInd(b) \in LockIds(m)
    BY <1>1, MapParts
  <1> DEFINE n == [m EXCEPT !.slots[b][i] = Empty, !.locks[LockInd(b)].count = @ - 1]
  <1>3. Removed(m, p) = n
    BY DEF Removed
  <1> HIDE DEF b, i
  <1>4. Size(n) = Size(m) - 1
    BY <1>1, <1>2, TakenSize
  <1> HIDE DEF n
  <1> QED BY <1>3, <1>4

LEMMA NoCounters ==
    ASSUME NEW m, IsMap(m), \A l \in LockIds(m) : m.locks[l].count = 0
    PROVE  Size(m) = 0
  <1>1. \A l \in LockIds(m) : Counters(m)[l] = 0
    BY SizeFacts
  <1> QED BY <1>1, SizeFacts, SumZeros

LEMMA NewMapSize == ASSUME NEW h \in 0..HpBound PROVE Size(NewMap(h)) = 0
  <1> DEFINE s == [b \in 0..HashSize(h) - 1 |-> [i \in SlotIds |-> Empty]]
             K == [l \in 0..NumLocks(h) - 1 |-> [held |-> FALSE, migrated |-> TRUE, count |-> 0]]
  <1>1. NewMap(h) = [hp |-> h, slots |-> s, locks |-> K]
    BY DEF NewMap
  <1>2. \A l \in 0..NumLocks(h) - 1 : K[l].count = 0
    OBVIOUS
  <1> HIDE DEF s, K
  <1>3. NewMap(h).locks = K
    BY <1>1
  <1>4. \A l \in LockIds(NewMap(h)) : NewMap(h).locks[l].count = 0
    BY <1>2, <1>3, NewMapParts
  <1> QED BY <1>4, NewMapParts, NoCounters

LEMMA ClearedSize == ASSUME NEW m, IsMap(m) PROVE Size(Cleared(m)) = 0
  <1> DEFINE n == NewMap(m.hp)
             K == [l \in LockIds(m) |-> [m.locks[l] EXCEPT !.count = 0, !.migrated = TRUE]]
  <1>1. m.hp \in 0..HpBound /\ m.locks \in [LockIds(m) -> LockRecords]
    BY MapParts
  <1>2. IsMap(n)
    BY <1>1, NewMapParts
  <1>3. n = [hp |-> n.hp, slots |-> n.slots, locks |-> n.locks]
    BY <1>2, MapParts
  <1>4. Cleared(m) = [n EXCEPT !.locks = K]
    BY DEF Cleared
  <1>5. ASSUME NEW l \in LockIds(m) PROVE K[l].count = 0
    <2>1. m.locks[l] \in LockRecords
      BY <1>1
    <2> DEFINE r == [m.locks[l] EXCEPT !.count = 0]
    <2>2. r \in LockRecords /\ r.count = 0
      BY <2>1 DEF LockRecords
    <2>3. K[l] = [r EXCEPT !.migrated = TRUE]
      OBVIOUS
    <2> HIDE DEF r, K
    <2>4. [r EXCEPT !.migrated = TRUE].count = r.count
      BY <2>2 DEF LockRecords
    <2> QED BY <2>2, <2>3, <2>4
  <1> HIDE DEF n, K
  <1>6. Cleared(m).locks = K
    BY <1>3, <1>4
  <1>7. IsMap(Cleared(m)) /\ LockIds(Cleared(m)) = LockIds(m)
    BY ClearedParts DEF Kept
  <1>8. \A l \in LockIds(Cleared(m)) : Cleared(m).locks[l].count = 0
    BY <1>5, <1>6, <1>7
  <1> QED BY <1>7, <1>8, NoCounters

\* Taking and releasing locks counts nothing.
LEMMA WithLocksSize ==
    ASSUME NEW m, IsMap(m), NEW L, NEW on \in BOOLEAN
    PROVE  Size(WithLocks(m, L, on)) = Size(m)
  <1> DEFINE K == [l \in LockIds(m) |->
                     IF l \in L THEN [m.locks[l] EXCEPT !.held = on] ELSE m.locks[l]]
             n == [m EXCEPT !.locks = K]
  <1>1. /\ m = [hp |-> m.hp, slots |-> m.slots, locks |-> m.locks]
        /\ m.locks \in [LockIds(m) -> LockRecords]
    BY MapParts
  <1>2. \A l \in LockIds(m) : K[l].count = m.locks[l].count
    BY <1>1 DEF LockRecords
  <1>3. WithLocks(m, L, on) = n
    BY DEF WithLocks
  <1> HIDE DEF K
  <1>4. n.locks = K
    BY <1>1
  <1> HIDE DEF n
  <1>5. IsMap(n) /\ LockIds(n) = LockIds(m)
    BY <1>3, WithLocksParts
  <1>6. Size(n) = Size(m)
    BY <1>2, <1>4, <1>5, SameSize
  <1> QED BY <1>3, <1>6

\* New locks count nothing.
LEMMA GrownSize ==
    ASSUME NEW m, IsMap(m), m.hp < HpBound
    PROVE  Size(Grown(m)) = Size(m)
  <1> DEFINE g == Grown(m)
             S == LockIds(m)
             R == LockIds(g) \ S
             f == Counters(m)
             e == Counters(g)
  <1>1. /\ IsMap(g) /\ S \subseteq LockIds(g)
        /\ \A l \in LockIds(g) :
              g.locks[l] = IF l \in S THEN m.locks[l]
                           ELSE [held |-> m.locks[0].held, migrated |-> TRUE, count |-> 0]
    BY GrownParts
  <1>2. IsFiniteSet(S) /\ Size(m) = Sum(f, S) /\ Size(m) \in Int /\ \A l \in S : f[l] = m.locks[l].count
    BY SizeFacts
  <1> HIDE DEF g
  <1>3. /\ IsFiniteSet(LockIds(g)) /\ Size(g) = Sum(e, LockIds(g))
        /\ \A l \in LockIds(g) : e[l] = g.locks[l].count /\ e[l] \in Int
    BY <1>1, SizeFacts
  <1>4. \A l \in S : e[l] = f[l]
    BY <1>1, <1>2, <1>3
  <1>5. \A l \in R : e[l] = 0
    BY <1>1, <1>3
  <1>6. IsFiniteSet(R) /\ S \cap R = {} /\ S \cup R = LockIds(g)
    BY <1>1, <1>3, FS_Subset
  <1> HIDE DEF e, f, R, S
  <1>7. Sum(e, S) = Sum(f, S)
    BY <1>2, <1>4, SumSame
  <1>8. Sum(e, R) = 0
    BY <1>5, <1>6, SumZeros
  <1>9. Sum(e, S \cup R) = Sum(e, S) + Sum(e, R)
    BY <1>2, <1>3, <1>6, SumUnion
  <1>10. Size(g) = Sum(e, S) + Sum(e, R)
    BY <1>3, <1>6, <1>9
  <1>11. Size(g) = Size(m)
    BY <1>2, <1>7, <1>8, <1>10
  <1> QED BY <1>11 DEF g

\* Free slots: the old bucket of a pair gains as many as the new one loses.
Freed(m, b) == Cardinality(FreeSlots(m, b)) - Cardinality(FreeSlots(MoveBuckets(m, OldBuckets(m)), b))

LEMMA FreedByMoves ==
    ASSUME NEW m, IsMap(m), m.hp # 0, RoomAbove(m, OldBuckets(m)), NEW b \in OldBuckets(m)
    PROVE  /\ Cardinality(Moving(m, b)) \in Nat
           /\ Freed(m, b) = -Cardinality(Moving(m, b))
           /\ Freed(m, b + HashSize(m.hp - 1)) = Cardinality(Moving(m, b))
  <1> DEFINE N == HashSize(m.hp - 1)
             B == OldBuckets(m)
             n == MoveBuckets(m, B)
             S == Moving(m, b)
             c == b + N
             q == Cardinality(S)
  <1>1. B \in SUBSET Buckets(m.hp - 1)
    BY DEF OldBuckets, Buckets
  <1>2. /\ N \in Nat \ {0} /\ B \subseteq Buckets(m.hp) /\ \A x \in B : x \in Nat /\ x + N \in Buckets(m.hp) \ B
        /\ \A x \in Buckets(m.hp), j \in SlotIds :
              n.slots[x][j] = CASE x \in B /\ j \in Moving(m, x) -> Empty
                                [] x - N \in B /\ j <= Cardinality(Moving(m, x - N)) ->
                                      m.slots[x - N][Nth(Moving(m, x - N), j)]
                                [] OTHER -> m.slots[x][j]
    BY <1>1, MovedParts
  <1>3. /\ S \in SUBSET SlotIds /\ q \in Nat /\ \A i \in S : m.slots[b][i] # Empty
        /\ SlotIds = 1..Slots /\ Slots \in Nat /\ \A T \in SUBSET SlotIds : IsFiniteSet(T) /\ Cardinality(T) \in Nat
    BY MovingSlots, SlotSets
  <1>4. \A j \in SlotIds : m.slots[c][j] = Empty
    BY DEF RoomAbove
  <1>5. b \in Nat /\ b \in Buckets(m.hp) /\ c \in Buckets(m.hp) /\ c \notin B /\ c - N = b /\ b - N \notin B
    <2>1. b \in Nat /\ b \in Buckets(m.hp) /\ c \in Buckets(m.hp) /\ c \notin B
      BY <1>2
    <2>2. c - N = b /\ (b - N) + N = b
      BY <1>2, <2>1
    <2> HIDE DEF B, N
    <2>3. b - N \notin B
      BY <1>2, <2>2 DEF B
    <2> QED BY <2>1, <2>2, <2>3
  <1> HIDE DEF N, c
  <1>6. \A j \in SlotIds : n.slots[b][j] = IF j \in S THEN Empty ELSE m.slots[b][j]
    <2> SUFFICES ASSUME NEW j \in SlotIds PROVE n.slots[b][j] = IF j \in S THEN Empty ELSE m.slots[b][j]
      OBVIOUS
    <2>1. n.slots[b][j] = CASE b \in B /\ j \in Moving(m, b) -> Empty
                            [] b - N \in B /\ j <= Cardinality(Moving(m, b - N)) ->
                                  m.slots[b - N][Nth(Moving(m, b - N), j)]
                            [] OTHER -> m.slots[b][j]
      BY <1>2, <1>5
    <2> HIDE DEF B, n
    <2> QED BY <1>5, <2>1 DEF B
  <1>7. \A j \in SlotIds : n.slots[c][j] = IF j <= q THEN m.slots[b][Nth(S, j)] ELSE m.slots[c][j]
    <2> SUFFICES ASSUME NEW j \in SlotIds
                 PROVE  n.slots[c][j] = IF j <= q THEN m.slots[b][Nth(S, j)] ELSE m.slots[c][j]
      OBVIOUS
    <2>1. n.slots[c][j] = CASE c \in B /\ j \in Moving(m, c) -> Empty
                            [] c - N \in B /\ j <= Cardinality(Moving(m, c - N)) ->
                                  m.slots[c - N][Nth(Moving(m, c - N), j)]
                            [] OTHER -> m.slots[c][j]
      BY <1>2, <1>5
    <2>2. c - N = b /\ c \notin B /\ b \in B
      BY <1>5
    <2> HIDE DEF B, n
    <2>3. n.slots[c][j] = CASE j <= Cardinality(Moving(m, b)) -> m.slots[b][Nth(Moving(m, b), j)]
                            [] OTHER -> m.slots[c][j]
      BY <2>1, <2>2
    <2> QED BY <2>3
  <1>8. \A j \in SlotIds : j <= q => m.slots[b][Nth(S, j)] # Empty
    <2> SUFFICES ASSUME NEW j \in SlotIds, j <= q PROVE m.slots[b][Nth(S, j)] # Empty
      OBVIOUS
    <2>1. j \in 1..Cardinality(S)
      BY <1>3
    <2>2. Nth(S, j) \in S
      BY <1>3, <2>1, NthSlot
    <2> HIDE DEF S, q
    <2> QED BY <1>3, <2>2
  <1> HIDE DEF n, S, B
  <1>9. /\ FreeSlots(n, b) = FreeSlots(m, b) \cup S /\ FreeSlots(m, b) \cap S = {}
        /\ FreeSlots(m, b) \in SUBSET SlotIds
    BY <1>3, <1>6 DEF FreeSlots
  <1>10. Cardinality(FreeSlots(n, b)) = Cardinality(FreeSlots(m, b)) + q
    <2>1. Cardinality(FreeSlots(m, b) \cap S) = 0
      BY <1>9, FS_EmptySet
    <2>2. IsFiniteSet(FreeSlots(m, b)) /\ IsFiniteSet(S) /\ Cardinality(FreeSlots(m, b)) \in Nat
      BY <1>3, <1>9
    <2>3. Cardinality(FreeSlots(m, b) \cup S)
             = Cardinality(FreeSlots(m, b)) + Cardinality(S) - Cardinality(FreeSlots(m, b) \cap S)
      BY <2>2, FS_Union
    <2> QED BY <1>3, <1>9, <2>1, <2>2, <2>3
  <1>11. FreeSlots(m, c) = SlotIds /\ FreeSlots(n, c) = {j \in SlotIds : ~(j <= q)}
    BY <1>4, <1>7, <1>8 DEF FreeSlots
  <1>12. Cardinality(FreeSlots(n, c)) = Cardinality(FreeSlots(m, c)) - q
    <2>1. q <= Slots
      <3>1. IsFiniteSet(1..Slots) /\ Cardinality(1..Slots) = Slots
        <4>1. Slots \in Int /\ 1 \in Int
          BY <1>3
        <4>2. Cardinality(1..Slots) = IF 1 > Slots THEN 0 ELSE Slots - 1 + 1
          BY <4>1, FS_Interval
        <4>3. IsFiniteSet(1..Slots)
          BY <4>1, FS_Interval
        <4> QED BY <1>3, <4>2, <4>3
      <3>2. Cardinality(S) <= Cardinality(1..Slots)
        BY <1>3, <3>1, FS_Subset
      <3> QED BY <3>1, <3>2
    <2>2. FreeSlots(n, c) = (q + 1)..Slots
      BY <1>3, <1>11
    <2>3. /\ Cardinality((q + 1)..Slots) = IF q + 1 > Slots THEN 0 ELSE Slots - (q + 1) + 1
          /\ Cardinality(1..Slots) = IF 1 > Slots THEN 0 ELSE Slots - 1 + 1
      <3>1. q + 1 \in Int /\ Slots \in Int /\ 1 \in Int
        BY <1>3
      <3> HIDE DEF q
      <3> QED BY <3>1, FS_Interval
    <2>4. FreeSlots(m, c) = 1..Slots
      BY <1>3, <1>11
    <2> QED BY <1>3, <2>1, <2>2, <2>3, <2>4
  <1>13. Cardinality(FreeSlots(m, b)) \in Nat /\ Cardinality(FreeSlots(m, c)) \in Nat
    BY <1>3, <1>9, <1>11
  <1>14. Freed(m, b) = -q /\ Freed(m, c) = q
    BY <1>3, <1>10, <1>12, <1>13 DEF Freed, n, B
  <1> QED BY <1>3, <1>14 DEF c, N, S

\* The eager half of a doubling: the counters of a bucket pair keep their sum.
LEMMA SpreadSize ==
    ASSUME NEW m, IsMap(m), m.hp # 0, m.hp <= LockPow, RoomAbove(m, OldBuckets(m))
    PROVE  Size(Spread(m)) = Size(m)
  <1> DEFINE N == HashSize(m.hp - 1)
             B == OldBuckets(m)
             n == MoveBuckets(m, B)
             K == [l \in LockIds(m) |-> [m.locks[l] EXCEPT !.count = @ + Freed(m, l)]]
             o == [n EXCEPT !.locks = K]
             f == Counters(m)
             e == Counters(o)
  <1>1. B \in SUBSET Buckets(m.hp - 1) /\ B = 0..N - 1
    BY DEF OldBuckets, Buckets
  <1>2. /\ N \in Nat \ {0} /\ HashSize(m.hp) = 2 * N
        /\ n = [hp |-> m.hp, slots |-> n.slots, locks |-> m.locks]
    BY <1>1, MovedParts
  <1>3. LockIds(m) = 0..2 * N - 1
    <2>1. LockIds(m) = 0..NumLocks(m.hp) - 1 /\ m.hp \in Nat /\ LockPow \in Nat
      BY MapParts, TableAssumption
    <2>2. NumLocks(m.hp) = HashSize(m.hp)
      <3>1. m.hp < LockPow \/ m.hp = LockPow
        BY <2>1
      <3> QED BY <3>1 DEF NumLocks
    <2> QED BY <1>2, <2>1, <2>2
  <1>4. Spread(m) = o
    BY DEF Spread, Freed
  <1>5. IsMap(o) /\ LockIds(o) = LockIds(m)
    BY <1>4, SpreadParts DEF Kept
  <1>6. o.locks = K
    <2> HIDE DEF K
    <2> QED BY <1>2
  <1>7. \A b \in B : LET q == Cardinality(Moving(m, b))
                     IN  q \in Nat /\ Freed(m, b) = -q /\ Freed(m, b + N) = q
    BY FreedByMoves
  <1>8. \A l \in LockIds(m) : Freed(m, l) \in Int
    <2>1. \A x, b : FreeSlots(x, b) \in SUBSET SlotIds
      BY DEF FreeSlots
    <2>2. \A x, b : Cardinality(FreeSlots(x, b)) \in Nat
      BY <2>1, SlotSets
    <2> QED BY <2>2 DEF Freed
  <1>9. /\ IsFiniteSet(LockIds(m)) /\ Size(m) = Sum(f, LockIds(m))
        /\ \A l \in LockIds(m) : f[l] = m.locks[l].count /\ f[l] \in Int
    BY SizeFacts
  <1> HIDE DEF o
  <1>10. /\ Size(o) = Sum(e, LockIds(m))
         /\ \A l \in LockIds(m) : e[l] = o.locks[l].count /\ e[l] \in Int
    BY <1>5, SizeFacts
  <1>11. \A l \in LockIds(m) : e[l] = f[l] + Freed(m, l)
    <2> SUFFICES ASSUME NEW l \in LockIds(m) PROVE e[l] = f[l] + Freed(m, l)
      OBVIOUS
    <2>1. m.locks[l] \in LockRecords
      BY MapParts
    <2>2. [m.locks[l] EXCEPT !.count = @ + Freed(m, l)].count = m.locks[l].count + Freed(m, l)
      BY <2>1 DEF LockRecords
    <2>3. o.locks[l] = [m.locks[l] EXCEPT !.count = @ + Freed(m, l)]
      BY <1>6
    <2>4. e[l] = o.locks[l].count /\ f[l] = m.locks[l].count
      BY <1>9, <1>10
    <2> HIDE DEF e, f
    <2> QED BY <2>2, <2>3, <2>4
  <1>12. \A x \in 0..N - 1 : x \in LockIds(m) /\ x + N \in LockIds(m)
    BY <1>2, <1>3
  <1> HIDE DEF N, n, f, e
  <1>13. \A x \in 0..N - 1 : e[x] + e[x + N] = f[x] + f[x + N]
    <2> SUFFICES ASSUME NEW x \in 0..N - 1 PROVE e[x] + e[x + N] = f[x] + f[x + N]
      OBVIOUS
    <2> DEFINE q == Cardinality(Moving(m, x))
    <2>1. q \in Nat /\ Freed(m, x) = -q /\ Freed(m, x + N) = q
      BY <1>1, <1>7
    <2>2. /\ e[x] = f[x] + Freed(m, x) /\ e[x + N] = f[x + N] + Freed(m, x + N)
          /\ f[x] \in Int /\ f[x + N] \in Int
      BY <1>9, <1>11, <1>12
    <2> HIDE DEF q
    <2> QED BY <2>1, <2>2
  <1>14. \A x \in 0..2 * N - 1 : f[x] \in Int /\ e[x] \in Int
    BY <1>3, <1>9, <1>10
  <1>15. Sum(f, 0..2 * N - 1) = Sum(e, 0..2 * N - 1)
    BY <1>2, <1>13, <1>14, SumHalves
  <1> QED BY <1>3, <1>4, <1>9, <1>10, <1>15

\* A doubling counts nothing.
LEMMA DoubledSize ==
    ASSUME NEW m, IsMap(m), m.hp < HpBound
    PROVE  Size(Doubled(m)) = Size(m)
  <1> DEFINE g == Grown(m)
  <1>1. IsMap(g) /\ g.hp = m.hp + 1 /\ m.hp \in Nat /\ LockPow \in Nat
    <2>1. IsMap(g) /\ g.hp = m.hp + 1
      BY GrownParts
    <2>2. m.hp \in Nat /\ LockPow \in Nat
      BY MapParts, TableAssumption
    <2> QED BY <2>1, <2>2
  <1>2. Size(g) = Size(m)
    BY GrownSize
  <1>3. CASE m.hp < LockPow
    <2>1. RoomAbove(g, OldBuckets(g))
      <3>1. /\ DOMAIN g.slots = Buckets(g.hp) /\ g.hp - 1 = m.hp
            /\ \A b \in Buckets(g.hp), i \in SlotIds : g.slots[b][i] # Empty => b \in Buckets(m.hp)
        BY <1>1, GrownRows
      <3>2. OldBuckets(g) \in SUBSET Buckets(g.hp - 1) /\ OldBuckets(g) = Buckets(m.hp)
        BY <3>1 DEF OldBuckets, Buckets
      <3>3. \A b \in OldBuckets(g) : b + HashSize(g.hp - 1) \in Buckets(g.hp) \ OldBuckets(g)
        <4>1. g.hp # 0
          BY <1>1
        <4> HIDE DEF g
        <4> QED BY <1>1, <3>2, <4>1, MovedParts
      <3> HIDE DEF g
      <3> QED BY <3>1, <3>2, <3>3 DEF RoomAbove
    <2>2. g.hp # 0 /\ g.hp <= LockPow
      BY <1>1, <1>3
    <2>3. Doubled(m) = Spread(g)
      BY <1>3 DEF Doubled
    <2> HIDE DEF g
    <2> QED BY <1>1, <1>2, <2>1, <2>2, <2>3, SpreadSize
  <1>4. CASE m.hp >= LockPow
    <2> DEFINE K == [l \in LockIds(g) |-> [g.locks[l] EXCEPT !.migrated = FALSE]]
               d == [g EXCEPT !.locks = K]
    <2>1. Doubled(m) = d
      BY <1>1, <1>4 DEF Doubled
    <2>2. /\ g = [hp |-> g.hp, slots |-> g.slots, locks |-> g.locks]
          /\ g.hp \in 0..HpBound /\ g.slots \in [Buckets(g.hp) -> Rows]
          /\ g.locks \in [LockIds(g) -> LockRecords] /\ LockIds(g) = 0..NumLocks(g.hp) - 1
      BY <1>1, MapParts
    <2>3. K \in [LockIds(g) -> LockRecords] /\ \A l \in LockIds(g) : K[l].count = g.locks[l].count
      BY <2>2 DEF LockRecords
    <2> HIDE DEF K, g
    <2>4. d = [hp |-> g.hp, slots |-> g.slots, locks |-> K]
      BY <2>2
    <2> HIDE DEF d
    <2>5. IsMap(d) /\ d.locks = K /\ LockIds(d) = LockIds(g)
      BY <2>2, <2>3, <2>4, MapMade
    <2>6. Size(d) = Size(g)
      BY <1>1, <2>3, <2>5, SameSize
    <2> QED BY <1>2, <2>1, <2>6
  <1> QED BY <1>1, <1>3, <1>4

-----------------------------------------------------------------------------
\* The counters of a map add up to the number of its keys.
Counted(m, C) == IsFiniteSet(C) /\ Size(m) = Cardinality(C)

CountInv == Counted(map, content) /\ (doing = "copy" => Counted(temp, KeysOf(temp)))

LEMMA OneMore ==
    ASSUME NEW m, NEW C, Counted(m, C), NEW n, NEW k, k \notin C, Size(n) = Size(m) + 1
    PROVE  Counted(n, C \cup {k})
  BY FS_AddElement DEF Counted

LEMMA OneLess ==
    ASSUME NEW m, NEW C, Counted(m, C), NEW n, NEW k \in C, Size(n) = Size(m) - 1
    PROVE  Counted(n, C \ {k})
  BY FS_RemoveElement DEF Counted

\* Steps that do not copy, and steps that leave the maps.
LEMMA NewCount == ASSUME Counted(map', content'), doing' # "copy" PROVE CountInv'
  BY DEF CountInv

LEMMA StillCount ==
    ASSUME CountInv, UNCHANGED <<map, content>>, doing' # "copy" \/ UNCHANGED <<temp, doing>>
    PROVE  CountInv'
  <1>1. Counted(map', content')
    BY DEF CountInv, Counted
  <1>2. doing' = "copy" => Counted(temp', KeysOf(temp'))
    BY DEF CountInv, Counted
  <1> QED BY <1>1, <1>2 DEF CountInv, KeysOf, Where

\* The steps of the owner of the locks that write the map.
LEMMA LockCount == ASSUME TableInv, CountInv, LockNext \/ UnlockNext PROVE CountInv'
  <1>1. PICK on \in BOOLEAN : map' = WithLocks(map, {turn}, on)
    BY DEF LockNext, UnlockNext
  <1>2. IsMap(map) /\ content' = content /\ doing' # "copy"
    BY DEF LockNext, UnlockNext, TableInv, Typed
  <1>3. Size(map') = Size(map)
    BY <1>1, <1>2, WithLocksSize
  <1> QED BY <1>2, <1>3, NewCount DEF CountInv, Counted

LEMMA MigrateCount ==
    ASSUME IInv, TableInv, CountInv, NEW w \in Workers, MigrateLock(w)
    PROVE  CountInv'
  <1>1. /\ IsMap(map) /\ Settled(map) /\ content' = content /\ doing' # "copy"
        /\ map' = Touch(map, {next[w]})
    BY DEF MigrateLock, Migrating, TableInv, Typed
  <1>2. {next[w]} \in SUBSET LockIds(map)
    BY MigrateStep
  <1>3. Size(map') = Size(map)
    BY <1>1, <1>2, TouchSize
  <1> QED BY <1>1, <1>3, NewCount DEF CountInv, Counted

LEMMA PlaceCount == ASSUME TableInv, DataInv, CountInv, InsertPlaces PROVE CountInv'
  <1>1. /\ IsMap(map) /\ Settled(map) /\ content \in SUBSET Keys /\ arg \in Keys
        /\ doing' = "nothing" /\ content' = content \cup {arg} /\ doing = "insert" /\ handle
        /\ ~Found(map, arg) /\ map' \in Placements(map, arg, FALSE)
    BY DEF InsertPlaces, TableInv, Typed, Inserting
  <1>2. AllMigrated(map) /\ Holds(map, content)
    BY <1>1 DEF DataInv
  <1>3. arg \notin content
    BY <1>1, <1>2, FoundKeys
  <1>4. Size(map') = Size(map) + 1
    BY <1>1, PlacementSize
  <1>5. Counted(map, content)
    BY DEF CountInv
  <1>6. Counted(map', content \cup {arg})
    BY <1>3, <1>4, <1>5, OneMore
  <1> QED BY <1>1, <1>6, NewCount

LEMMA DoubleCount == ASSUME TableInv, CountInv, LockedDouble PROVE CountInv'
  <1>1. /\ IsMap(map) /\ map.hp < HpBound /\ map' = Doubled(map) /\ content' = content /\ doing' # "copy"
    BY DEF LockedDouble, TableInv, Typed
  <1>2. Size(map') = Size(map)
    BY <1>1, DoubledSize
  <1> QED BY <1>1, <1>2, NewCount DEF CountInv, Counted

LEMMA ClearCount == ASSUME TableInv, LockedClear PROVE CountInv'
  <1>1. IsMap(map) /\ map' = Cleared(map) /\ content' = {} /\ doing' # "copy"
    BY DEF LockedClear, Cleared, TableInv, Typed, Idle
  <1>2. Size(map') = 0
    BY <1>1, ClearedSize
  <1>3. Counted(map', {})
    BY <1>2, FS_EmptySet DEF Counted
  <1> QED BY <1>1, <1>3, NewCount

LEMMA ErasedCount ==
    ASSUME TableInv, DataInv, CountInv, Idle, NEW p \in Occupied(map), map' = Removed(map, p),
           content' = content \ {KeyAt(map, p)}, doing' = doing
    PROVE  CountInv'
  <1>1. /\ IsMap(map) /\ content \in SUBSET Keys /\ Holds(map, content)
        /\ Occupied(map) \in SUBSET (0..EndPos(map) - 1)
    BY IdleFacts
  <1>2. KeyAt(map, p) \in content
    BY <1>1, AllAhead
  <1>3. p \in 0..EndPos(map) - 1
    BY <1>1
  <1>4. Size(map') = Size(map) - 1
    BY <1>1, <1>3, RemovedSize
  <1>5. Counted(map, content)
    BY DEF CountInv
  <1>6. Counted(map', content')
    BY <1>2, <1>4, <1>5, OneLess
  <1> QED BY <1>6, NewCount DEF Idle

LEMMA EraseCount ==
    ASSUME TableInv, DataInv, CountInv, LockedEraseAt \/ \E k \in Keys : LockedErase(k)
    PROVE  CountInv'
  <1>1. CASE LockedEraseAt
    <2>1. /\ Idle /\ it # None /\ it # EndPos(map) /\ map' = Removed(map, it)
          /\ content' = content \ {KeyAt(map, it)} /\ doing' = doing
      BY <1>1 DEF LockedEraseAt
    <2>2. it \in Occupied(map)
      BY <2>1, IdleFacts
    <2> QED BY <2>1, <2>2, ErasedCount
  <1>2. ASSUME NEW k \in Keys, LockedErase(k) PROVE CountInv'
    <2>1. PICK p \in Occupied(map) : KeyAt(map, p) = k /\ map' = Removed(map, p)
      BY <1>2 DEF LockedErase
    <2>2. Idle /\ content' = content \ {k} /\ doing' = doing
      BY <1>2 DEF LockedErase
    <2> QED BY <2>1, <2>2, ErasedCount
  <1> QED BY <1>1, <1>2

\* The new map that the keys are copied into.
LEMMA StartCopyCount == ASSUME TableInv, CountInv, StartCopy PROVE CountInv'
  <1>1. temp' = NewMap(arg) /\ arg \in 0..HpBound /\ UNCHANGED <<map, content>>
    BY DEF StartCopy, TableInv, Typed, Copying
  <1>2. /\ IsMap(temp') /\ temp'.hp = arg
        /\ \A b \in Buckets(arg), i \in SlotIds : temp'.slots[b][i] = Empty
    BY <1>1, NewMapParts
  <1>3. DOMAIN temp'.slots = Buckets(arg)
    BY <1>2, MapParts
  <1>4. Holds(temp', {})
    BY <1>2, <1>3 DEF Holds, AtHome, Stored, OneSlotEach
  <1>5. KeysOf(temp') = {} /\ Size(temp') = 0
    BY <1>1, <1>2, <1>4, HeldKeys, NewMapSize
  <1>6. Counted(temp', KeysOf(temp'))
    BY <1>5, FS_EmptySet DEF Counted
  <1> QED BY <1>1, <1>6 DEF CountInv, Counted

LEMMA CopyKeyCount ==
    ASSUME IInv, TableInv, DataInv, CountInv, NEW w \in Workers, CopyKey(w)
    PROVE  CountInv'
  <1> DEFINE k == NextToCopy(w)
             C == KeysOf(temp)
  <1>1. doing = "copy" /\ Running(w) /\ Uncopied(w) # {} /\ UNCHANGED <<map, doing, content>>
    BY DEF CopyKey
  <1>2. k \in Keys /\ Where(temp, k) = {} /\ IsMap(temp) /\ Settled(temp)
    BY <1>1, KeyToCopy
  <1>3. C \in SUBSET Keys /\ Holds(temp, C) /\ k \notin C /\ Counted(temp, C)
    BY <1>1, <1>2 DEF DataInv, CopyOK, KeysOf, CountInv
  <1> HIDE DEF k, C
  <1>4. Counted(temp', KeysOf(temp'))
    <2>1. CASE temp' \in Placements(temp, k, TRUE)
      <3>1. Holds(temp', C \cup {k})
        BY <1>2, <1>3, <2>1, PlacementsHold
      <3>2. Kept(temp, temp')
        BY <1>2, <2>1, PlacementsKeep
      <3>3. IsMap(temp')
        BY <3>2 DEF Kept
      <3>4. C \cup {k} \in SUBSET Keys
        BY <1>2, <1>3
      <3>5. KeysOf(temp') = C \cup {k}
        BY <3>1, <3>3, <3>4, HeldKeys
      <3>6. Size(temp') = Size(temp) + 1
        BY <1>2, <2>1, PlacementSize
      <3>7. Counted(temp', C \cup {k})
        BY <1>3, <3>6, OneMore
      <3> QED BY <3>5, <3>7
    <2>2. CASE temp.hp < HpBound /\ temp' = Doubled(RehashAll(temp))
      <3> DEFINE r == RehashAll(temp)
      <3>1. IsMap(r) /\ Settled(r) /\ AllMigrated(r) /\ r.hp = temp.hp
        BY <1>2, RehashAllParts DEF Kept
      <3>2. Holds(r, C)
        BY <1>2, <1>3, RehashAllHolds
      <3>3. Size(r) = Size(temp)
        BY <1>2, RehashAllSize
      <3> HIDE DEF r
      <3>4. Holds(Doubled(r), C) /\ IsMap(Doubled(r)) /\ Size(Doubled(r)) = Size(r)
        BY <1>3, <2>2, <3>1, <3>2, DoubledHolds, DoubledParts, DoubledSize
      <3>5. temp' = Doubled(r)
        BY <2>2 DEF r
      <3>6. KeysOf(temp') = C /\ Size(temp') = Size(temp)
        BY <1>3, <3>3, <3>4, <3>5, HeldKeys
      <3> QED BY <1>3, <3>6 DEF Counted
    <2> QED BY <2>1, <2>2 DEF CopyKey, k
  <1>5. Counted(map', content')
    BY <1>1 DEF CountInv, Counted
  <1> QED BY <1>4, <1>5 DEF CountInv

LEMMA CopyDoneCount ==
    ASSUME TableInv, TableInv', DataInv, DataInv', CountInv, CopyDone
    PROVE  CountInv'
  <1>1. /\ doing = "copy" /\ map' = IF failed = {} THEN WithLocks(temp, LockIds(temp), TRUE) ELSE map
        /\ doing' # "copy" /\ content' = content
    BY DEF CopyDone, Done
  <1>2. CASE failed = {}
    <2>1. IsMap(temp) /\ Holds(temp, KeysOf(temp)) /\ Counted(temp, KeysOf(temp))
      BY <1>1 DEF TableInv, Typed, DataInv, CopyOK, CountInv
    <2>2. IsMap(map') /\ Holds(map', content) /\ content \in SUBSET Keys
      BY <1>1 DEF TableInv, Typed, DataInv
    <2>3. map' = WithLocks(temp, LockIds(temp), TRUE)
      BY <1>1, <1>2
    <2>4. map'.slots = temp.slots /\ Size(map') = Size(temp)
      BY <2>1, <2>3, WithLocksParts, WithLocksSize
    <2>5. KeysOf(map') = content
      BY <2>2, HeldKeys
    <2>6. KeysOf(map') = KeysOf(temp)
      BY <2>4 DEF KeysOf, Where
    <2>7. Counted(map', content')
      BY <1>1, <2>1, <2>4, <2>5, <2>6 DEF Counted
    <2> QED BY <1>1, <2>7, NewCount
  <1>3. CASE failed # {}
    <2>1. map' = map
      BY <1>1, <1>3
    <2> QED BY <1>1, <2>1, StillCount
  <1> QED BY <1>2, <1>3

\* The calls of the other threads.
LEMMA OtherInsertCount ==
    ASSUME TableInv, DataInv, CountInv, NEW k \in Keys, OtherInsert(k)
    PROVE  CountInv'
  <1>1. /\ k \notin content /\ map' \in Placements(map, k, TRUE) /\ content' = content \cup {k}
        /\ doing' = doing /\ Free(LocksOf(Homes(k, map.hp))) /\ IsMap(map)
    BY DEF OtherInsert, TableInv, Typed
  <1>2. Settled(map) /\ doing # "copy"
    BY <1>1, KeyHomes, OtherFacts
  <1>3. Size(map') = Size(map) + 1
    BY <1>1, <1>2, PlacementSize
  <1>4. Counted(map, content)
    BY DEF CountInv
  <1>5. Counted(map', content \cup {k})
    BY <1>1, <1>3, <1>4, OneMore
  <1> QED BY <1>1, <1>2, <1>5, NewCount

LEMMA OtherDoubleCount ==
    ASSUME TableInv, DataInv, CountInv, NEW k \in Keys, OtherDouble(k)
    PROVE  CountInv'
  <1> DEFINE r == RehashAll(map)
  <1>1. /\ ~Refused /\ map' = Doubled(r) /\ content' = content /\ doing' = doing
        /\ Free(LockIds(map)) /\ IsMap(map)
    BY DEF OtherDouble, AllFree, TableInv, Typed
  <1>2. Settled(map) /\ doing # "copy"
    BY <1>1, MapParts, OtherFacts
  <1>3. IsMap(r) /\ r.hp = map.hp /\ Size(r) = Size(map)
    BY <1>1, <1>2, RehashAllParts, RehashAllSize DEF Kept
  <1>4. r.hp < HpBound
    BY <1>1, <1>3, RoomToDouble
  <1> HIDE DEF r
  <1>5. Size(map') = Size(map)
    BY <1>1, <1>3, <1>4, DoubledSize
  <1> QED BY <1>1, <1>2, <1>5, NewCount DEF CountInv, Counted

LEMMA OtherEraseCount ==
    ASSUME TableInv, DataInv, CountInv, NEW k \in Keys, OtherErase(k)
    PROVE  CountInv'
  <1> DEFINE L == LocksOf(Homes(k, map.hp))
             l == Min(L)
             m == Touch(map, L)
             p == CHOOSE p \in Where(m, k) : TRUE
             n == [m EXCEPT !.slots[p[1]][p[2]] = Empty, !.locks[l].count = @ - 1]
  <1>1. /\ map' = (IF k \in content THEN n ELSE m) /\ content' = content \ {k}
        /\ doing' = doing /\ Free(L) /\ IsMap(map)
    BY DEF OtherErase, TableInv, Typed
  <1>2. L \in SUBSET LockIds(map) /\ l \in LockIds(map) /\ L # {}
    BY <1>1, KeyHomes
  <1>3. Settled(map) /\ content \in SUBSET Keys /\ Holds(map, content) /\ doing # "copy"
    BY <1>1, <1>2, OtherFacts
  <1>4. IsMap(m) /\ l \in LockIds(m) /\ Holds(m, content) /\ Size(m) = Size(map)
    BY <1>1, <1>2, <1>3, TouchParts, TouchHolds, TouchSize DEF Kept
  <1> HIDE DEF m, l
  <1>5. Counted(m, content)
    BY <1>4 DEF CountInv, Counted
  <1>6. Counted(map', content')
    <2>1. CASE k \in content
      <3>1. /\ KeysOf(m) = content
            /\ \A q \in Where(m, k) : q[1] \in Buckets(m.hp) /\ q[2] \in SlotIds
        BY <1>3, <1>4, <2>1, HeldKeys
      <3>2. Where(m, k) # {}
        BY <2>1, <3>1 DEF KeysOf
      <3>3. p[1] \in Buckets(m.hp) /\ p[2] \in SlotIds
        BY <3>1, <3>2
      <3> HIDE DEF p
      <3>4. Size(n) = Size(m) - 1
        BY <1>4, <3>3, TakenSize, ZenonT(60)
      <3> HIDE DEF n
      <3>5. Counted(n, content \ {k})
        BY <1>5, <2>1, <3>4, OneLess
      <3> QED BY <1>1, <2>1, <3>5
    <2>2. CASE k \notin content
      <3>1. content \ {k} = content
        BY <2>2
      <3> QED BY <1>1, <1>5, <2>2, <3>1
    <2> QED BY <2>1, <2>2
  <1> QED BY <1>1, <1>3, <1>6, NewCount

LEMMA CountInit == Init => CountInv
  <1> SUFFICES ASSUME Init PROVE CountInv
    OBVIOUS
  <1>1. PICK hp \in 0..HpBound : map = NewMap(hp)
    BY TableAssumption DEF Init
  <1>2. Size(map) = 0
    BY <1>1, NewMapSize
  <1>3. Counted(map, {})
    BY <1>2, FS_EmptySet DEF Counted
  <1> QED BY <1>3 DEF Init, CountInv

LEMMA CountStep ==
    IInv /\ TableInv /\ DataInv /\ CountInv /\ TableInv' /\ DataInv' /\ [Next]_vars => CountInv'
  <1> SUFFICES ASSUME IInv, TableInv, DataInv, CountInv, TableInv', DataInv', [Next]_vars
               PROVE  CountInv'
    OBVIOUS
  <1>1. CASE UNCHANGED vars
    BY <1>1, StillCount DEF vars, tableVars
  <1>2. CASE \/ LockTable \/ (\E n \in Sizes : Rehash(n)) \/ Unlock \/ Unlocked
             \/ (\E k \in Keys : LockedInsert(k)) \/ InsertDuplicate \/ InsertThrows
             \/ (\E n \in LockedSizes : LockedRehash(n)) \/ CapacityThrows
             \/ AllLocked \/ InsertExpands \/ Capacity
    <2>1. UNCHANGED <<map, content>> /\ doing' # "copy"
      BY <1>2 DEF LockTable, Rehash, Unlock, Unlocked, LockedInsert, InsertDuplicate, InsertThrows, LockedRehash,
                  CapacityThrows, AllLocked, InsertExpands, Capacity, Done
    <2> QED BY <2>1, StillCount
  <1>3. CASE Threading \/ (\E w \in Workers : CopyThrows(w)) \/ (\E w \in Workers : CopyNextBucket(w))
    <2>1. UNCHANGED tableVars
      BY <1>3 DEF Threading, CopyThrows, CopyNextBucket
    <2> QED BY <2>1, StillCount DEF tableVars
  <1>4. CASE MigrationDone \/ IterBegin \/ IterNext \/ IterPrev
    <2>1. UNCHANGED <<map, content>> /\ (doing' # "copy" \/ UNCHANGED <<temp, doing>>)
      BY <1>4 DEF MigrationDone, Migrating, IterBegin, IterNext, IterPrev
    <2> QED BY <2>1, StillCount
  <1>5. CASE LockNext \/ UnlockNext \/ \E w \in Workers : MigrateLock(w)
    BY <1>5, LockCount, MigrateCount
  <1>6. CASE InsertPlaces \/ LockedDouble \/ LockedClear
    BY <1>6, PlaceCount, DoubleCount, ClearCount
  <1>7. CASE LockedEraseAt \/ \E k \in Keys : LockedErase(k)
    BY <1>7, EraseCount
  <1>8. CASE StartCopy \/ CopyDone \/ \E w \in Workers : CopyKey(w)
    BY <1>8, StartCopyCount, CopyKeyCount, CopyDoneCount
  <1>9. CASE OtherThread
    BY <1>9, OtherInsertCount, OtherDoubleCount, OtherEraseCount DEF OtherThread
  <1>10. CASE Next
    BY <1>2, <1>3, <1>4, <1>5, <1>6, <1>7, <1>8, <1>9, <1>10 DEF Next, Owner
  <1> QED BY <1>1, <1>10

\* size() is exact in every state, also while workers migrate and copy.
THEOREM SizeStaysExact == Spec /\ []NewMapsKeepTheirSize => []SizeIsExact
  <1>1. Init => CountInv
    BY CountInit
  <1>2. IInv /\ TableInv /\ DataInv /\ CountInv /\ TableInv' /\ DataInv' /\ [Next]_vars => CountInv'
    BY CountStep
  <1>3. CountInv => SizeIsExact
    BY DEF CountInv, Counted, SizeIsExact
  <1> QED BY <1>1, <1>2, <1>3, TableInvariant, DataInvariant, PTL DEF Spec

-----------------------------------------------------------------------------
\* Only rehash and reserve of the handle copy the keys while a handle exists.
LEMMA OnlyHandlesCopy ==
    ASSUME LockedSizes = {}
    PROVE  Spec => []NewMapsKeepTheirSize
  <1> DEFINE NoCopy == handle => doing \notin Copying \cup {"capacity"}
  <1>1. Init => NoCopy
    BY DEF Init
  <1>2. ASSUME NoCopy, [Next]_vars PROVE NoCopy'
    <2>1. CASE \/ UNCHANGED <<handle, doing>> \/ handle' = FALSE
               \/ doing' \notin Copying \cup {"capacity"}
      BY <1>2, <2>1
    <2>2. CASE AllLocked \/ Capacity \/ StartCopy
      BY <1>2, <2>2 DEF AllLocked, Capacity, StartCopy, Copying
    <2>3. CASE CopyDone \/ MigrationDone
      BY <1>2, <2>3 DEF CopyDone, MigrationDone, Migrating, Done, Copying
    <2>4. CASE \/ \E n \in LockedSizes : LockedRehash(n)
               \/ UNCHANGED vars \/ Threading
      BY <2>1, <2>4 DEF vars, tableVars, Threading
    <2>5. CASE LockTable \/ LockNext \/ (\E n \in Sizes : Rehash(n)) \/ Unlock \/ UnlockNext \/ Unlocked
      BY <2>1, <2>5 DEF LockTable, LockNext, Rehash, Unlock, UnlockNext, Unlocked, Copying
    <2>6. CASE \E w \in Workers : MigrateLock(w) \/ CopyKey(w) \/ CopyThrows(w) \/ CopyNextBucket(w)
      BY <2>1, <2>6 DEF MigrateLock, CopyKey, CopyThrows, CopyNextBucket, tableVars
    <2>7. CASE \/ \E k \in Keys : LockedInsert(k) \/ LockedErase(k)
               \/ InsertDuplicate \/ InsertPlaces \/ InsertThrows \/ InsertExpands \/ LockedDouble
      BY <2>1, <2>7 DEF LockedInsert, LockedErase, InsertDuplicate, InsertPlaces, InsertThrows, InsertExpands,
         LockedDouble, Copying
    <2>8. CASE LockedEraseAt \/ LockedClear \/ IterBegin \/ IterNext \/ IterPrev \/ CapacityThrows
      BY <2>1, <2>8 DEF LockedEraseAt, LockedClear, IterBegin, IterNext, IterPrev, CapacityThrows, Done, Copying
    <2>9. CASE OtherThread
      BY <2>1, <2>9 DEF OtherThread, OtherInsert, OtherDouble, OtherErase
    <2> QED BY <1>2, <2>2, <2>3, <2>4, <2>5, <2>6, <2>7, <2>8, <2>9 DEF Next, Owner
  <1>3. NoCopy => NewMapsKeepTheirSize
    BY DEF NewMapsKeepTheirSize, Copying
  <1> QED BY <1>1, <1>2, <1>3, PTL DEF Spec

\* The hypothesis of these theorems is about rehash and reserve of the handle
\* alone: where a program does not call them, it is not needed.
THEOREM DataWithoutRehash ==
    ASSUME LockedSizes = {}
    PROVE  Spec => [](KeysAreStored /\ LockedLookupsAreRight /\ IterationIsComplete /\ SizeIsExact)
  <1>1. Spec => []NewMapsKeepTheirSize
    BY OnlyHandlesCopy
  <1> QED BY <1>1, KeysStayStored, LockedLookupsStayRight, IterationsAreComplete, SizeStaysExact, PTL

\* The workers of a migration and of a copy handle every lock, or every bucket,
\* once, as the calls of the handle rely on.
THEOREM WorkersShareTheLocks == Spec => []EveryIndexOnce
  BY TableInvariant, InvImplies, PTL

=============================================================================
