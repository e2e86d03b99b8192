------------------------- MODULE CuckooMapProofs -------------------------
(***************************************************************************)
(* Proofs about the concurrent cuckoo map, for any number of threads, keys *)
(* and slots, any hash function, any hashpower at which the locks stop     *)
(* growing and any calls: which locks a call owns at each of its steps,    *)
(* that calls cannot wait for each other in a circle, that the locks they  *)
(* ask for exist, and that buckets change only under the lock a lock-free  *)
(* lookup validates; where the entries are while doublings migrate them,   *)
(* and which slots calls may rely on; and that the counters of the locks   *)
(* add up to the number of elements.                                       *)
(***************************************************************************)
EXTENDS CuckooMap, SumProofs

Buckets(h) == 0..HashSize(h) - 1
Rows == [SlotIds -> EntryRecords \cup {Empty}]
LockRecords == [flag : BOOLEAN, epoch : Nat, migrated : BOOLEAN, count : Int]

\* Where a thread holds no lock, and where it holds all of them.
HoldsNone == {"idle", "return", "snapshot", "search", "bfs", "path", "move", "expand",
              "expand_assert", "read", "epoch1", "rehash", "check_hp", "epoch2", "scan",
              "value", "validate1", "validate2"}
HoldsAll == {"double", "resize", "spread", "expand_next", "clear"}
HoldsSome == {"body", "check", "shift", "recheck"}
Labels == HoldsNone \cup HoldsAll \cup HoldsSome \cup {"lock", "release", "lock_all"}

Answers == {TRUE, FALSE, Empty, Absent}
LockingRecords ==
    [hp : 0..MaxHp, want : SUBSET Nat, own : SUBSET Nat, drop : SUBSET Nat, lock1 : Nat,
     go : Labels \cup OpKinds, modified : BOOLEAN, answer : Answers]
Nodes == [bucket : Nat, root : {0, 1}, slots : Seq(SlotIds)]
PathSlots == [bucket : Nat, slot : SlotIds, key : Keys]
SearchRecords ==
    [queue : Seq(Nodes), slots : Seq(SlotIds), next : Nat, path : Seq(PathSlots)]

Own(t) == locking[t].own
Want(t) == locking[t].want
Drop(t) == locking[t].drop
Go(t) == locking[t].go
PathOf(t) == search[t].path

\* The step a thread takes or releases its locks for.
Stage(t) == IF pc[t] \in {"lock", "release"} THEN Go(t) ELSE pc[t]

Growing == \E t \in Threads : pc[t] = "resize"

Typed ==
    /\ hp_ \in 0..MaxHp
    /\ table \in [Buckets(hp_) -> Rows]
    /\ locks \in [LockIds -> LockRecords]
    /\ pc \in [Threads -> Labels]
    /\ todo \in [Threads -> Seq(Calls)]
    /\ locking \in [Threads -> LockingRecords]
    /\ search \in [Threads -> SearchRecords]

\* There are as many locks as the hashpower needs, and under the locks of all
\* buckets as many as the next one needs.
LockRange == LockIds = 0..NumLocks(IF Growing THEN hp_ + 1 ELSE hp_) - 1

LocksOK ==
    \A l \in LockIds : /\ locks[l].flag <=> Locked(l)
                       /\ ~locks[l].migrated => hp_ > LockPow

Exclusive ==
    /\ \A t \in Threads : \A l \in Own(t) : locks[l].flag
    /\ \A t, u \in Threads : t # u => Own(t) \cap Own(u) = {}

ShiftBuckets(t) ==
    LET ends == {PathOf(t)[Depth(t)].bucket, PathOf(t)[Depth(t) + 1].bucket}
    IN  IF Depth(t) = 1 THEN Homes(Key(t), Hp(t)) \cup ends ELSE ends
HomeLocks(t) == LocksOf(Homes(Key(t), Hp(t)))
Needed(t) == IF Stage(t) = "shift" THEN LocksOf(ShiftBuckets(t)) ELSE HomeLocks(t)

OwnOK(t) ==
    /\ Own(t) \subseteq LockIds /\ Drop(t) \subseteq Own(t)
    /\ pc[t] \in HoldsNone => Own(t) = {}
    /\ pc[t] \in HoldsAll => Own(t) = LockIds
    /\ pc[t] \in HoldsSome => Own(t) = Needed(t)
    /\ pc[t] = "lock_all" => /\ Go(t) \in {"clear", "expand_next", "double"}
                             /\ \E n \in LockIds : Own(t) = 0..n - 1
    /\ pc[t] = "lock" => /\ Go(t) \in {"body", "check", "shift"}
                         /\ Want(t) # {} /\ Want(t) \cup Own(t) = Needed(t)
                         /\ \A l \in Own(t), w \in Want(t) : l < w
    /\ pc[t] = "release" =>
          /\ Drop(t) # {}
          /\ \/ Go(t) \in {"return", "search", "snapshot", "move"} /\ Drop(t) = Own(t)
             \/ Go(t) = "recheck" /\ Own(t) \ Drop(t) = HomeLocks(t)

\* From the first lock of a key on, no doubling gets all locks.
Frozen(t) ==
    \/ pc[t] \in HoldsSome
    \/ pc[t] = "lock" /\ Own(t) # {}
    \/ pc[t] = "release" /\ Go(t) = "recheck"

HpOK(t) ==
    /\ Hp(t) <= hp_
    /\ Frozen(t) => Hp(t) = hp_
    /\ pc[t] = "resize" => Hp(t) = hp_ /\ hp_ < MaxHp
    /\ pc[t] = "spread" => hp_ = Hp(t) + 1
    /\ pc[t] = "rehash" => locking[t].lock1 \in LockIds

Linked(path, h) ==
    \A j \in 1..Len(path) - 1 : path[j + 1].bucket \in Homes(path[j].key, h)

PathOK(t) ==
    /\ pc[t] = "bfs" => /\ search[t].queue # <<>>
                        /\ \A i \in DOMAIN search[t].queue :
                              search[t].queue[i].bucket \in Buckets(Hp(t))
    /\ pc[t] = "path" =>
          /\ search[t].slots # <<>>
          /\ PathOf(t) = <<>> => search[t].next \in Homes(Key(t), Hp(t))
          /\ PathOf(t) # <<>> => search[t].next \in Homes(PathOf(t)[Len(PathOf(t))].key, Hp(t))
    /\ pc[t] = "path" \/ Stage(t) \in {"move", "check", "shift", "recheck"} =>
          /\ PathOf(t) # <<>> => PathOf(t)[1].bucket \in Homes(Key(t), Hp(t))
          /\ Linked(PathOf(t), Hp(t))
    /\ Stage(t) \in {"move", "check", "shift", "recheck"} => PathOf(t) # <<>>
    /\ Stage(t) \in {"check", "recheck"} => Len(PathOf(t)) = 1
    /\ Stage(t) = "shift" => Len(PathOf(t)) >= 2

LocalOK(t) ==
    /\ pc[t] # "idle" => todo[t] # <<>>
    /\ OwnOK(t) /\ HpOK(t) /\ PathOK(t)

LocksInv == Typed /\ LockRange /\ LocksOK /\ Exclusive /\ \A t \in Threads : LocalOK(t)

-----------------------------------------------------------------------------
\* A set of numbers that is not empty has a least element.
LEMMA Least == ASSUME NEW S \in SUBSET Nat, S # {} PROVE \E x \in S : \A y \in S : x <= y
<1>1. PICK x \in S : \A y \in S : ~(<<y, x>> \in OpToRel(<, Nat))
  BY NatLessThanWellFounded, WFMin
<1>2. \A y \in S : x <= y
  <2> SUFFICES ASSUME NEW y \in S, y < x PROVE FALSE
    OBVIOUS
  <2>1. <<y, x>> \in Nat \X Nat /\ <<y, x>>[1] < <<y, x>>[2]
    OBVIOUS
  <2>2. <<y, x>> \in OpToRel(<, Nat)
    BY <2>1 DEF OpToRel
  <2> QED BY <1>1, <2>2
<1> QED BY <1>2

\* Min of FiniteSetsExt is that element.
LEMMA MinIsLeast ==
  ASSUME NEW S \in SUBSET Nat, S # {}
  PROVE  Min(S) \in S /\ \A y \in S : Min(S) <= y
<1>1. \E x \in S : \A y \in S : x <= y
  BY Least
<1> QED BY <1>1 DEF Min

\* A set of numbers below a bound has a greatest element.
LEMMA Greatest ==
  ASSUME NEW n \in Nat, NEW S \in SUBSET (0..n - 1), S # {}
  PROVE  \E x \in S : \A y \in S : y <= x
<1> DEFINE D == {n - x : x \in S}
<1>1. \A x \in S : n - x \in Nat /\ n - x \in D
  OBVIOUS
<1>2. D \in SUBSET Nat /\ D # {}
  BY <1>1
<1>3. PICK d \in D : \A e \in D : d <= e
  BY <1>2, Least
<1>4. PICK x \in S : d = n - x
  OBVIOUS
<1>5. \A y \in S : n - x <= n - y
  BY <1>3, <1>4
<1> QED BY <1>5

\* The remainder is the only one.
LEMMA Remainder ==
  ASSUME NEW m \in Nat \ {0}, NEW q \in Int, NEW r \in 0..m - 1, NEW a \in Nat, a = m * q + r
  PROVE  a % m = r
<1> DEFINE p == a \div m
<1>1. a % m \in 0..m - 1 /\ p \in Int /\ a = m * p + (a % m)
  OBVIOUS
<1> HIDE DEF p
<1>2. m * (q - p) = (a % m) - r
  BY <1>1
<1>3. \A d \in Int : d >= 1 => m * d >= m
  OBVIOUS
<1>4. \A d \in Int : d <= -1 => m * d <= -m
  OBVIOUS
<1>5. q - p \in Int /\ ~(q - p >= 1) /\ ~(q - p <= -1)
  BY <1>1, <1>2, <1>3, <1>4
<1>6. q = p
  BY <1>1, <1>5
<1> QED BY <1>1, <1>6

LEMMA ModSmall ==
  ASSUME NEW m \in Nat \ {0}, NEW a \in 0..m - 1
  PROVE  a % m = a
BY Remainder, a = m * 0 + a

LEMMA ModAddMultiple ==
  ASSUME NEW m \in Nat \ {0}, NEW a \in Nat, NEW k \in Nat
  PROVE  (a + m * k) % m = a % m
<1> DEFINE q == a \div m
           r == a % m
<1>1. q \in Int /\ r \in 0..m - 1 /\ a = m * q + r
  OBVIOUS
<1> HIDE DEF q, r
<1>2. a + m * k = m * (q + k) + r
  BY <1>1
<1>3. a + m * k \in Nat
  OBVIOUS
<1>4. (a + m * k) % m = r
  BY <1>1, <1>2, <1>3, Remainder
<1> QED BY <1>4 DEF r

\* One more bit of a number.
LEMMA ModDouble ==
  ASSUME NEW m \in Nat \ {0}, NEW a \in Nat
  PROVE  a % (2 * m) \in {a % m, (a % m) + m}
<1> DEFINE q == a \div (2 * m)
           r == a % (2 * m)
<1>1. 2 * m \in Nat \ {0}
  OBVIOUS
<1>2. q \in Int /\ r \in 0..2 * m - 1 /\ a = (2 * m) * q + r
  <2> DEFINE M == 2 * m
  <2>1. \A M_ \in Nat \ {0} : a \div M_ \in Int /\ a % M_ \in 0..M_ - 1 /\ a = M_ * (a \div M_) + (a % M_)
    OBVIOUS
  <2> QED BY <1>1, <2>1
<1> HIDE DEF q, r
<1>3. CASE r < m
  <2>1. a = m * (2 * q) + r
    BY <1>2
  <2>2. a % m = r
    BY <1>2, <1>3, <2>1, Remainder
  <2> QED BY <2>2 DEF r
<1>4. CASE r >= m
  <2>1. a = m * (2 * q + 1) + (r - m) /\ 2 * q + 1 \in Int /\ r - m \in 0..m - 1
    BY <1>2, <1>4
  <2> DEFINE p == 2 * q + 1
           s == r - m
  <2>2. p \in Int /\ s \in 0..m - 1 /\ a = m * p + s
    BY <2>1
  <2> HIDE DEF p, s
  <2>3. a % m = s
    BY <2>2, Remainder
  <2> USE DEF s
  <2>4. r = (a % m) + m
    BY <1>2, <2>3
  <2> QED BY <2>4 DEF r
<1> QED BY <1>2, <1>3, <1>4

-----------------------------------------------------------------------------
\* The sizes are multiples of one another.
MaxPow == MaxHp + LockPow + 1

LEMMA Sizes ==
  ASSUME NEW m \in 0..MaxPow, NEW n \in m..MaxPow
  PROVE  /\ HashSize(m) \in Nat \ {0}
         /\ \E k \in Nat \ {0} : HashSize(n) = HashSize(m) * k
<1> USE MapAssumption
<1> DEFINE Bad == {i \in 0..MaxPow : ~(HashSize(i) \in Nat \ {0})}
<1>1. MaxPow \in Nat /\ \A i \in 0..MaxPow : i # 0 => i - 1 \in 0..MaxHp + LockPow /\ i - 1 + 1 = i
  BY DEF MaxPow
<1>2. Bad = {}
  <2> SUFFICES ASSUME Bad # {} PROVE FALSE
    OBVIOUS
  <2>1. Bad \in SUBSET Nat /\ Bad # {}
    OBVIOUS
  <2>2. PICK i \in Bad : \A j \in Bad : i <= j
    <3> HIDE DEF Bad
    <3> QED BY <2>1, Least
  <2>3. i # 0
    BY PowerAssumption
  <2>4. i - 1 \in 0..MaxPow /\ i - 1 \notin Bad
    BY <1>1, <2>2, <2>3
  <2>5. HashSize(i) = 2 * HashSize(i - 1)
    BY <1>1, <2>3, PowerAssumption
  <2> QED BY <2>4, <2>5
<1>3. \A i \in 0..MaxPow : HashSize(i) \in Nat \ {0}
  BY <1>2
<1> DEFINE Odd == {i \in m..MaxPow : ~\E k \in Nat \ {0} : HashSize(i) = HashSize(m) * k}
<1>4. Odd = {}
  <2> SUFFICES ASSUME Odd # {} PROVE FALSE
    OBVIOUS
  <2>1. Odd \in SUBSET Nat /\ Odd # {}
    OBVIOUS
  <2>2. PICK i \in Odd : \A j \in Odd : i <= j
    <3> HIDE DEF Odd
    <3> QED BY <2>1, Least
  <2>3. i # m
    <3> SUFFICES ASSUME i = m PROVE FALSE
      OBVIOUS
    <3>1. HashSize(m) = HashSize(m) * 1
      BY <1>3
    <3> QED BY <2>2, <3>1
  <2>4. i - 1 \in m..MaxPow /\ i - 1 \notin Odd
    BY <1>1, <2>2, <2>3
  <2>5. PICK k \in Nat \ {0} : HashSize(i - 1) = HashSize(m) * k
    BY <2>4
  <2>6. HashSize(i) = 2 * HashSize(i - 1)
    BY <1>1, <2>3, PowerAssumption
  <2>7. HashSize(i) = HashSize(m) * (2 * k) /\ 2 * k \in Nat \ {0}
    BY <1>3, <2>5, <2>6
  <2> QED BY <2>2, <2>7
<1> QED BY <1>3, <1>4

LEMMA SizeNat == \A n \in 0..MaxHp + LockPow + 1 : HashSize(n) \in Nat \ {0}
BY MapAssumption, Sizes DEF MaxPow

LEMMA SizeMonotone ==
  ASSUME NEW n \in 0..MaxHp + LockPow + 1, NEW m \in 0..n
  PROVE  HashSize(m) <= HashSize(n)
<1>1. PICK k \in Nat \ {0} : HashSize(n) = HashSize(m) * k
  BY MapAssumption, Sizes DEF MaxPow
<1>2. \A a \in Nat, b \in Nat \ {0} : a <= a * b
  OBVIOUS
<1>3. HashSize(m) \in Nat
  BY MapAssumption, SizeNat
<1> QED BY <1>1, <1>2, <1>3

LEMMA SizeDoubles ==
  ASSUME NEW n \in 0..MaxHp
  PROVE  HashSize(n + 1) = 2 * HashSize(n)
BY MapAssumption, PowerAssumption

\* The buckets of a key exist.
LEMMA HomesAreBuckets ==
  ASSUME NEW k \in Keys, NEW h \in 0..MaxHp
  PROVE  /\ I1(k, h) \in Buckets(h) /\ I2(k, h) \in Buckets(h)
         /\ Homes(k, h) \subseteq Buckets(h)
<1>1. HashSize(h) \in Nat \ {0} /\ Hash[k] \in Nat /\ Alt[k] \in Nat
  BY MapAssumption, SizeNat
<1>2. \A a \in Nat, m \in Nat \ {0} : a % m \in 0..m - 1
  OBVIOUS
<1> QED BY <1>1, <1>2 DEF I1, I2, Homes, Buckets

LEMMA OtherIsHome ==
  ASSUME NEW k, NEW b, NEW h PROVE Other(k, b, h) \in Homes(k, h)
BY DEF Other, Homes

\* A smaller table has fewer buckets.
LEMMA HomesMonotone ==
  ASSUME NEW n \in 0..MaxHp, NEW m \in 0..n PROVE Buckets(m) \subseteq Buckets(n)
<1>1. HashSize(m) <= HashSize(n) /\ HashSize(m) \in Nat /\ HashSize(n) \in Nat
  BY MapAssumption, SizeMonotone, SizeNat
<1> QED BY <1>1 DEF Buckets

\* The number of locks, and the lock of a bucket.
LEMMA NumLocksFacts ==
  ASSUME NEW n \in 0..MaxHp
  PROVE  /\ NumLocks(n) \in Nat \ {0}
         /\ NumLocks(n + 1) \in Nat \ {0}
         /\ NumLocks(n) <= NumLocks(n + 1)
         /\ \A m \in 0..n : NumLocks(m) <= NumLocks(n)
         /\ n >= LockPow => NumLocks(n + 1) = NumLocks(n)
<1> USE MapAssumption
<1>1. \A m \in 0..MaxHp + 1 : NumLocks(m) \in Nat \ {0}
  BY SizeNat DEF NumLocks
<1>2. \A i \in 0..MaxHp + 1, m \in 0..MaxHp + 1 : m <= i => NumLocks(m) <= NumLocks(i)
  BY SizeMonotone DEF NumLocks
<1>3. n >= LockPow => NumLocks(n + 1) = NumLocks(n)
  <2> HAVE n >= LockPow
  <2>1. ~(n < LockPow) /\ ~(n + 1 < LockPow)
    OBVIOUS
  <2> QED BY <2>1 DEF NumLocks
<1> QED BY <1>1, <1>2, <1>3

LEMMA LockIndRange ==
  ASSUME NEW n \in 0..MaxHp, NEW b \in Buckets(n)
  PROVE  LockInd(b) \in 0..NumLocks(n) - 1
<1> USE MapAssumption
<1>1. HashSize(n) \in Nat \ {0} /\ HashSize(LockPow) \in Nat \ {0}
  BY SizeNat
<1>2. \A a \in Nat, m \in Nat \ {0} : a % m \in 0..m - 1
  OBVIOUS
<1>3. \A a \in Nat, m \in Nat \ {0} : a % m <= a
  OBVIOUS
<1>4. b \in Nat /\ b < HashSize(n)
  BY <1>1 DEF Buckets
<1>5. LockInd(b) \in 0..HashSize(LockPow) - 1 /\ LockInd(b) <= b
  BY <1>1, <1>2, <1>3, <1>4 DEF LockInd
<1>6. CASE n < LockPow
  BY <1>1, <1>4, <1>5, <1>6 DEF NumLocks
<1>7. CASE ~(n < LockPow)
  BY <1>1, <1>4, <1>5, <1>7 DEF NumLocks
<1> QED BY <1>6, <1>7

\* Doubling: a key keeps its buckets or goes to the same ones of the new half,
\* and the lock of a bucket stays the same when there are all locks.
LEMMA DoubledHome ==
  ASSUME NEW k \in Keys, NEW h \in 0..MaxHp
  PROVE  /\ I1(k, h + 1) \in {I1(k, h), I1(k, h) + HashSize(h)}
         /\ I2(k, h + 1) \in {I2(k, h), I2(k, h) + HashSize(h)}
<1>1. Hash[k] \in Nat /\ Alt[k] \in Nat /\ HashSize(h) \in Nat \ {0}
  BY MapAssumption, SizeNat
<1>2. HashSize(h + 1) = 2 * HashSize(h)
  BY SizeDoubles
<1>3. \A a \in Nat : a % (2 * HashSize(h)) \in {a % HashSize(h), (a % HashSize(h)) + HashSize(h)}
  BY <1>1, ModDouble
<1> QED BY <1>1, <1>2, <1>3 DEF I1, I2

LEMMA DoubledLock ==
  ASSUME NEW h \in LockPow..MaxHp, NEW b \in Nat
  PROVE  LockInd(b + HashSize(h)) = LockInd(b)
<1> USE MapAssumption
<1>1. PICK k \in Nat \ {0} : HashSize(h) = HashSize(LockPow) * k
  BY Sizes DEF MaxPow
<1>2. HashSize(LockPow) \in Nat \ {0}
  BY SizeNat
<1> QED BY <1>1, <1>2, ModAddMultiple DEF LockInd

-----------------------------------------------------------------------------
\* The slots of a bucket are finitely many.
LEMMA SlotSets ==
  /\ SlotIds = 1..Slots /\ Slots \in Nat
  /\ \A S \in SUBSET SlotIds : IsFiniteSet(S) /\ Cardinality(S) \in Nat
<1>1. Slots \in Nat /\ SlotIds = 1..Slots
  BY MapAssumption DEF SlotIds
<1>2. IsFiniteSet(1..Slots)
  BY <1>1, FS_Interval
<1>3. \A S \in SUBSET SlotIds : IsFiniteSet(S)
  BY <1>1, <1>2, FS_Subset
<1> QED BY <1>1, <1>3, FS_CardinalityType

\* The j-th slot of a set of slots is one of them, and j of them come no later.
LEMMA NthSlot ==
  ASSUME NEW S \in SUBSET SlotIds, NEW j \in 1..Cardinality(S)
  PROVE  Nth(S, j) \in S /\ Cardinality({x \in S : x <= Nth(S, j)}) = j
<1> DEFINE Upto(i) == {x \in S : x <= i}
           Enough == {i \in 0..Slots : Cardinality(Upto(i)) >= j}
<1>1. Slots \in Nat /\ S \in SUBSET (1..Slots) /\ Cardinality(S) \in Nat /\ IsFiniteSet(S)
  BY SlotSets
<1>2. \A i : IsFiniteSet(Upto(i)) /\ Cardinality(Upto(i)) \in Nat
  <2>1. \A i : Upto(i) \in SUBSET SlotIds
    OBVIOUS
  <2> HIDE DEF Upto
  <2> QED BY <2>1, SlotSets
<1>3. Upto(0) = {} /\ Upto(Slots) = S
  <2>1. \A x \in S : x \in Nat /\ ~(x <= 0) /\ x <= Slots
    BY <1>1
  <2> QED BY <2>1
<1>4. \A i \in 0..Slots : i # 0 => IF i \in S THEN Upto(i) = Upto(i - 1) \cup {i} /\ i \notin Upto(i - 1)
                                            ELSE Upto(i) = Upto(i - 1)
  <2> SUFFICES ASSUME NEW i \in 0..Slots, i # 0
               PROVE IF i \in S THEN Upto(i) = Upto(i - 1) \cup {i} /\ i \notin Upto(i - 1)
                                ELSE Upto(i) = Upto(i - 1)
    OBVIOUS
  <2>1. i \in Nat /\ i <= i /\ ~(i <= i - 1) /\ \A x \in S : (x <= i <=> x <= i - 1 \/ x = i)
    BY <1>1
  <2> QED BY <2>1
<1>5. \A i : Upto(i) \in SUBSET S
  OBVIOUS
<1> HIDE DEF Upto
<1>6. Enough \in SUBSET Nat /\ Slots \in Enough
  BY <1>1, <1>3
<1>7. PICK i \in Enough : \A n \in Enough : i <= n
  <2> HIDE DEF Enough
  <2> QED BY <1>6, Least
<1>8. i # 0
  <2>1. Cardinality(Upto(0)) = 0
    BY <1>3, FS_EmptySet
  <2> QED BY <1>1, <1>7, <2>1
<1>9. i - 1 \in 0..Slots /\ Cardinality(Upto(i - 1)) < j
  BY <1>1, <1>2, <1>7, <1>8
<1>10. i \in S
  BY <1>1, <1>2, <1>4, <1>7, <1>8, <1>9
<1>11. Upto(i) = Upto(i - 1) \cup {i} /\ i \notin Upto(i - 1)
  BY <1>4, <1>7, <1>8, <1>10
<1>12. Cardinality(Upto(i)) = Cardinality(Upto(i - 1)) + 1
  BY <1>2, <1>11, FS_AddElement
<1>13. Cardinality(Upto(i)) = j
  BY <1>1, <1>2, <1>7, <1>9, <1>12
<1> USE DEF Upto
<1> QED BY <1>10, <1>13 DEF Nth

\* Entries move between the buckets of a table.
LEMMA MoveTyped ==
  ASSUME NEW D, NEW tab \in [D -> Rows], NEW h, NEW B \in SUBSET D,
         \A c \in B : c - HashSize(h) \notin B
  PROVE  MoveBuckets(tab, B, h) \in [D -> Rows]
<1> DEFINE new == MoveBuckets(tab, B, h)
<1>1. ASSUME NEW c \in D, NEW j \in SlotIds
      PROVE  new[c][j] \in EntryRecords \cup {Empty}
  <2>1. CASE c \in B /\ j \in Moving(tab, c, h)
    <3>1. new[c][j] = Empty
      BY <2>1 DEF MoveBuckets
    <3> QED BY <3>1
  <2>2. CASE ~(c \in B /\ j \in Moving(tab, c, h)) /\ c - HashSize(h) \in B
             /\ j <= Cardinality(Moving(tab, c - HashSize(h), h))
    <3> DEFINE o == c - HashSize(h)
               S == Moving(tab, o, h)
    <3>1. new[c][j] = tab[o][Nth(S, j)]
      BY <2>2 DEF MoveBuckets
    <3>2. S \in SUBSET SlotIds
      BY DEF Moving
    <3>3. j \in 1..Cardinality(S)
      <4>1. Cardinality(S) \in Nat /\ j \in Nat /\ j >= 1 /\ j <= Cardinality(S)
        BY <2>2, <3>2, SlotSets
      <4> HIDE DEF S
      <4> QED BY <4>1
    <3>4. Nth(S, j) \in SlotIds
      BY <3>2, <3>3, NthSlot
    <3>5. o \in D
      BY <2>2
    <3> QED BY <3>1, <3>4, <3>5 DEF Rows
  <2>3. CASE /\ ~(c \in B /\ j \in Moving(tab, c, h))
             /\ ~(c - HashSize(h) \in B /\ j <= Cardinality(Moving(tab, c - HashSize(h), h)))
    <3>1. new[c][j] = tab[c][j]
      BY <2>3 DEF MoveBuckets
    <3> QED BY <3>1 DEF Rows
  <2> QED BY <2>1, <2>2, <2>3
<1>2. new = [c \in D |-> [j \in SlotIds |-> new[c][j]]]
  BY DEF MoveBuckets
<1> HIDE DEF new
<1>3. \A c \in D : [j \in SlotIds |-> new[c][j]] \in Rows
  BY <1>1 DEF Rows
<1> QED BY <1>2, <1>3 DEF new

\* What does not move stays as it is.
LEMMA MoveFrame ==
  ASSUME NEW D, NEW tab \in [D -> Rows], NEW h, NEW B, NEW c \in D,
         c \notin B, c - HashSize(h) \notin B
  PROVE  MoveBuckets(tab, B, h)[c] = tab[c]
<1>1. MoveBuckets(tab, B, h)[c] = [j \in SlotIds |-> tab[c][j]]
  BY DEF MoveBuckets
<1>2. tab[c] = [j \in SlotIds |-> tab[c][j]]
  BY DEF Rows
<1> QED BY <1>1, <1>2

-----------------------------------------------------------------------------
\* A step of one thread leaves the variables of the others alone.
Others(t) ==
    \A u \in Threads \ {t} : /\ pc'[u] = pc[u] /\ locking'[u] = locking[u]
                             /\ search'[u] = search[u] /\ todo'[u] = todo[u]

LEMMA LocalFrame ==
  ASSUME NEW u \in Threads, LocalOK(u),
         hp_' = hp_, LockIds' = LockIds,
         pc'[u] = pc[u], locking'[u] = locking[u], search'[u] = search[u], todo'[u] = todo[u]
  PROVE  LocalOK(u)'
<1>1. /\ Own(u)' = Own(u) /\ Drop(u)' = Drop(u) /\ Go(u)' = Go(u) /\ Want(u)' = Want(u)
      /\ Hp(u)' = Hp(u) /\ Key(u)' = Key(u) /\ PathOf(u)' = PathOf(u)
  BY DEF Own, Drop, Go, Want, Hp, Key, Call, PathOf
<1>2. Stage(u)' = Stage(u) /\ Depth(u)' = Depth(u)
  BY <1>1 DEF Stage, Depth, PathOf
<1>3. HomeLocks(u)' = HomeLocks(u) /\ ShiftBuckets(u)' = ShiftBuckets(u)
  BY <1>1, <1>2 DEF HomeLocks, ShiftBuckets
<1>4. Needed(u)' = Needed(u)
  BY <1>2, <1>3 DEF Needed
<1>5. OwnOK(u)'
  BY <1>1, <1>3, <1>4 DEF LocalOK, OwnOK
<1>6. HpOK(u)'
  BY <1>1 DEF LocalOK, HpOK, Frozen
<1>7. PathOK(u)'
  BY <1>1, <1>2 DEF LocalOK, PathOK, Linked
<1> QED BY <1>5, <1>6, <1>7 DEF LocalOK

\* The owners of the locks after a step of t.
LEMMA StepExclusive ==
  ASSUME NEW t \in Threads, Exclusive, Others(t),
         \A l \in Own(t)' : locks'[l].flag /\ (l \in Own(t) \/ l \notin LockIds \/ ~locks[l].flag),
         \A u \in Threads : Own(u) \subseteq LockIds,
         \A l \in LockIds \ Own(t) : locks[l].flag => locks'[l].flag
  PROVE  Exclusive'
<1>1. \A u \in Threads \ {t} : Own(u)' = Own(u)
  BY DEF Others, Own
<1>2. ASSUME NEW u \in Threads, NEW l \in Own(u)' PROVE locks'[l].flag
  <2>1. CASE u = t
    BY <1>2, <2>1
  <2>2. CASE u # t
    <3>1. l \in Own(u) /\ l \notin Own(t) /\ l \in LockIds /\ locks[l].flag
      BY <1>1, <1>2, <2>2 DEF Exclusive
    <3> QED BY <3>1
  <2> QED BY <2>1, <2>2
<1>3. ASSUME NEW u \in Threads \ {t} PROVE Own(u)' \cap Own(t)' = {}
  <2> SUFFICES ASSUME NEW l \in Own(u)', l \in Own(t)' PROVE FALSE
    OBVIOUS
  <2>1. l \in Own(u) /\ l \notin Own(t) /\ l \in LockIds /\ locks[l].flag
    BY <1>1 DEF Exclusive
  <2> QED BY <2>1
<1>4. ASSUME NEW u \in Threads \ {t}, NEW v \in Threads \ {t}, u # v PROVE Own(u)' \cap Own(v)' = {}
  BY <1>1, <1>4 DEF Exclusive
<1>5. ASSUME NEW u \in Threads, NEW v \in Threads, u # v PROVE Own(u)' \cap Own(v)' = {}
  BY <1>3, <1>4, <1>5
<1> QED BY <1>2, <1>5 DEF Exclusive

StepTyped ==
    /\ table' \in [Buckets(hp_) -> Rows]
    /\ locks' \in [LockIds -> LockRecords]
    /\ pc' \in [Threads -> Labels]
    /\ todo' \in [Threads -> Seq(Calls)]
    /\ locking' \in [Threads -> LockingRecords]
    /\ search' \in [Threads -> SearchRecords]

\* A step that changes neither the hashpower nor the number of locks.
LEMMA StepInv ==
  ASSUME LocksInv, NEW t \in Threads, Others(t), StepTyped,
         hp_' = hp_, LockIds' = LockIds, pc[t] # "resize", pc'[t] # "resize",
         LocksOK',
         \A l \in Own(t)' : locks'[l].flag /\ (l \in Own(t) \/ ~locks[l].flag),
         \A l \in LockIds \ Own(t) : locks[l].flag => locks'[l].flag,
         LocalOK(t)'
  PROVE  LocksInv'
<1>1. Typed'
  BY DEF LocksInv, Typed, StepTyped
<1>2. Growing' = Growing
  BY DEF Growing, Others
<1>3. LockRange'
  BY <1>2 DEF LocksInv, LockRange
<1>4. \A u \in Threads : Own(u) \subseteq LockIds
  BY DEF LocksInv, LocalOK, OwnOK
<1>5. Exclusive'
  BY <1>4, StepExclusive DEF LocksInv
<1>6. ASSUME NEW u \in Threads PROVE LocalOK(u)'
  <2>1. CASE u = t
    BY <2>1
  <2>2. CASE u # t
    BY <2>2, LocalFrame DEF LocksInv, Others
  <2> QED BY <2>1, <2>2
<1> QED BY <1>1, <1>3, <1>5, <1>6 DEF LocksInv

\* A step that leaves the locks and the table alone.
LEMMA QuietInv ==
  ASSUME LocksInv, NEW t \in Threads, Others(t), UNCHANGED shared,
         pc' \in [Threads -> Labels], todo' \in [Threads -> Seq(Calls)],
         locking' \in [Threads -> LockingRecords], search' \in [Threads -> SearchRecords],
         pc[t] # "resize", pc'[t] # "resize", Own(t)' \subseteq Own(t), LocalOK(t)'
  PROVE  LocksInv'
<1>1. StepTyped /\ LockIds' = LockIds /\ hp_' = hp_
  BY DEF LocksInv, Typed, StepTyped, shared, LockIds
<1>2. LocksOK'
  BY DEF LocksInv, LocksOK, shared, Locked, LockIds
<1>3. \A l \in Own(t)' : locks'[l].flag /\ l \in Own(t)
  BY DEF LocksInv, Exclusive, shared
<1>4. \A l \in LockIds : locks'[l] = locks[l]
  BY DEF shared
<1> QED BY <1>1, <1>2, <1>3, <1>4, StepInv

LEMMA CallTyped ==
  ASSUME Typed, NEW t \in Threads, todo[t] # <<>>
  PROVE  /\ Call(t) \in [op : OpKinds, key : Keys, val : Int] /\ Key(t) \in Keys
         /\ Call(t).op \in Stores => Call(t).val \in Vals
<1>1. todo[t] \in Seq(Calls)
  BY DEF Typed
<1>2. Call(t) \in Calls
  BY <1>1 DEF Call
<1> QED BY <1>2 DEF Calls, Key

LEMMA LockSet ==
  ASSUME Typed, LockRange
  PROVE  /\ 0 \in LockIds
         /\ \E n \in Nat \ {0} : LockIds = 0..n - 1
         /\ \A h \in 0..hp_ : 0..NumLocks(h) - 1 \subseteq LockIds
<1> DEFINE n == NumLocks(IF Growing THEN hp_ + 1 ELSE hp_)
<1>1. hp_ \in 0..MaxHp
  BY DEF Typed
<1>2. n \in Nat \ {0} /\ \A h \in 0..hp_ : NumLocks(h) \in Nat /\ NumLocks(h) <= n
  BY <1>1, NumLocksFacts, MapAssumption
<1>3. LockIds = 0..n - 1
  BY DEF LockRange
<1> QED BY <1>2, <1>3

\* A thread that holds no lock goes to another step where it holds none.
LEMMA HopInv ==
  ASSUME LocksInv, NEW t \in Threads, Others(t), UNCHANGED shared, UNCHANGED <<todo, search>>,
         pc' \in [Threads -> Labels], locking' \in [Threads -> LockingRecords],
         pc[t] \in HoldsNone, pc[t] # "idle",
         pc'[t] \in HoldsNone \ {"idle", "bfs", "path", "move"},
         Own(t)' = Own(t), Drop(t)' = Drop(t), Hp(t)' \in {Hp(t), hp_},
         pc'[t] = "rehash" => locking'[t].lock1 \in LockIds
  PROVE  LocksInv'
<1>1. LocalOK(t) /\ Typed
  BY DEF LocksInv
<1>2. /\ todo' \in [Threads -> Seq(Calls)] /\ search' \in [Threads -> SearchRecords]
      /\ hp_' = hp_ /\ LockIds' = LockIds /\ hp_ <= hp_
  BY <1>1, MapAssumption DEF Typed, shared, LockIds
<1>3. pc[t] # "resize" /\ pc'[t] # "resize" /\ pc'[t] \notin HoldsAll \cup HoldsSome \cup {"lock", "release", "lock_all"}
  BY DEF HoldsNone, HoldsAll, HoldsSome
<1>4. Own(t) = {}
  BY <1>1 DEF LocalOK, OwnOK
<1>5. OwnOK(t)'
  BY <1>1, <1>2, <1>3, <1>4 DEF LocalOK, OwnOK
<1>6. HpOK(t)'
  BY <1>1, <1>2, <1>3 DEF LocalOK, HpOK, Frozen, HoldsAll
<1>7. PathOK(t)'
  BY <1>3 DEF PathOK, Stage, HoldsSome
<1>8. LocalOK(t)'
  BY <1>1, <1>5, <1>6, <1>7 DEF LocalOK
<1> QED BY <1>1, <1>2, <1>3, <1>4, <1>8, QuietInv

-----------------------------------------------------------------------------
LEMMA BeginInv == ASSUME LocksInv, NEW t \in Threads, Begin(t) PROVE LocksInv'
<1>1. Typed /\ LocalOK(t)
  BY DEF LocksInv
<1>2. Call(t).op \in OpKinds
  BY <1>1, CallTyped DEF Begin
<1>3. /\ pc'[t] \in {"read", "lock_all", "expand", "snapshot"}
      /\ Call(t).op = "clear" <=> pc'[t] = "lock_all"
      /\ pc' \in [Threads -> Labels]
  BY <1>1, <1>2 DEF Typed, Begin, Goto, Labels, HoldsNone, OpKinds
<1>4. /\ locking' \in [Threads -> LockingRecords]
      /\ locking'[t] = [locking[t] EXCEPT !.go = Call(t).op]
  BY <1>1, <1>2 DEF Typed, Begin, LockingRecords
<1>5. Others(t) /\ UNCHANGED <<shared, todo, search>> /\ pc[t] = "idle" /\ todo[t] # <<>>
  BY <1>1 DEF Typed, Begin, Others, Goto
<1>6. hp_' = hp_ /\ LockIds' = LockIds
  BY <1>5 DEF shared, LockIds
<1>7. /\ Own(t)' = Own(t) /\ Drop(t)' = Drop(t) /\ Hp(t)' = Hp(t) /\ Go(t)' = Call(t).op
      /\ locking'[t].lock1 = locking[t].lock1
  BY <1>1, <1>4 DEF Typed, LockingRecords, Own, Drop, Hp, Go
<1>8. Own(t) = {} /\ 0 \in LockIds /\ {} = 0..0 - 1
  BY <1>1, <1>5, LockSet DEF LocksInv, LocalOK, OwnOK, HoldsNone
<1>9. OwnOK(t)'
  BY <1>1, <1>3, <1>6, <1>7, <1>8 DEF LocalOK, OwnOK, HoldsAll, HoldsSome
<1>10. HpOK(t)'
  BY <1>1, <1>3, <1>6, <1>7 DEF LocalOK, HpOK, Frozen, HoldsSome
<1>11. PathOK(t)'
  BY <1>3 DEF PathOK, Stage
<1>12. LocalOK(t)'
  BY <1>5, <1>9, <1>10, <1>11 DEF LocalOK
<1> QED
  <2>1. todo' \in [Threads -> Seq(Calls)] /\ search' \in [Threads -> SearchRecords]
    BY <1>1, <1>5 DEF Typed
  <2> QED BY <1>3, <1>4, <1>5, <1>7, <1>12, <2>1, QuietInv

LEMMA ReturnInv == ASSUME LocksInv, NEW t \in Threads, Return(t) PROVE LocksInv'
<1>1. Typed /\ LocalOK(t)
  BY DEF LocksInv
<1>2. pc'[t] = "idle" /\ pc' \in [Threads -> Labels] /\ pc[t] = "return" /\ UNCHANGED shared
  BY <1>1 DEF Typed, Return, Goto, Labels, HoldsNone
<1>3. locking' \in [Threads -> LockingRecords] /\ locking'[t] = NoLocking
  <2>1. NoLocking \in LockingRecords
    BY MapAssumption DEF NoLocking, LockingRecords, Answers, Labels, HoldsNone
  <2> QED BY <1>1, <2>1 DEF Typed, Return
<1>4. search' \in [Threads -> SearchRecords]
  <2>1. NoSearch \in SearchRecords
    BY DEF NoSearch, SearchRecords
  <2> QED BY <1>1, <2>1 DEF Typed, Return
<1>5. todo' \in [Threads -> Seq(Calls)]
  <2>1. todo[t] \in Seq(Calls) /\ todo[t] # <<>>
    BY <1>1, <1>2 DEF Typed, LocalOK
  <2>2. Tail(todo[t]) \in Seq(Calls)
    BY <2>1
  <2> QED BY <1>1, <2>2 DEF Typed, Return
<1>6. Others(t)
  BY <1>1 DEF Typed, Return, Others, Goto
<1>7. hp_' = hp_ /\ LockIds' = LockIds /\ hp_ \in Nat
  BY <1>1, <1>2, MapAssumption DEF Typed, shared, LockIds
<1>8. Own(t)' = {} /\ Drop(t)' = {} /\ Hp(t)' = 0
  BY <1>3 DEF NoLocking, Own, Drop, Hp
<1>9. OwnOK(t)'
  BY <1>2, <1>8 DEF OwnOK, HoldsAll, HoldsSome
<1>10. HpOK(t)' /\ PathOK(t)'
  BY <1>2, <1>7, <1>8 DEF HpOK, PathOK, Frozen, HoldsSome, Stage
<1>11. LocalOK(t)'
  BY <1>2, <1>9, <1>10 DEF LocalOK
<1> QED BY <1>2, <1>3, <1>4, <1>5, <1>6, <1>8, <1>11, QuietInv

LEMMA SnapshotInv == ASSUME LocksInv, NEW t \in Threads, Snapshot(t) PROVE LocksInv'
<1>1. Typed /\ LocalOK(t) /\ LockRange
  BY DEF LocksInv
<1>2. pc'[t] = "lock" /\ pc' \in [Threads -> Labels] /\ pc[t] = "snapshot" /\ UNCHANGED <<shared, todo>>
  BY <1>1 DEF Typed, Snapshot, Goto, Labels
<1>3. hp_' = hp_ /\ LockIds' = LockIds /\ hp_ \in 0..MaxHp
  BY <1>1, <1>2, MapAssumption DEF Typed, shared, LockIds
<1>4. Key(t)' = Key(t) /\ Key(t) \in Keys /\ todo[t] # <<>>
  BY <1>1, <1>2, CallTyped DEF Key, Call, LocalOK
<1>5. LET H == LocksOf(Homes(Key(t), hp_))
      IN  H \subseteq LockIds /\ H # {} /\ H \in SUBSET Nat
  <2>1. /\ LockInd(I1(Key(t), hp_)) \in 0..NumLocks(hp_) - 1
        /\ LockInd(I2(Key(t), hp_)) \in 0..NumLocks(hp_) - 1
    BY <1>3, <1>4, HomesAreBuckets, LockIndRange
  <2>2. 0..NumLocks(hp_) - 1 \subseteq LockIds
    BY <1>1, <1>3, LockSet
  <2> QED BY <2>1, <2>2 DEF LocksOf, Homes
<1>6. /\ locking' \in [Threads -> LockingRecords]
      /\ Hp(t)' = hp_ /\ Want(t)' = LocksOf(Homes(Key(t), hp_)) /\ Own(t)' = {} /\ Drop(t)' = {}
      /\ Go(t)' = "body"
  <2> DEFINE H == LocksOf(Homes(Key(t), hp_))
             r == [NoLocking EXCEPT !.hp = hp_, !.want = H, !.lock1 = Min(H), !.go = "body"]
  <2>1. Min(H) \in Nat
    BY <1>5, MinIsLeast
  <2>2. r \in LockingRecords
    <3> HIDE DEF H
    <3> QED BY <1>3, <1>5, <2>1 DEF NoLocking, LockingRecords, Answers, Labels, HoldsSome, H
  <2>3. locking' = [locking EXCEPT ![t] = r]
    BY DEF Snapshot
  <2>4. locking' \in [Threads -> LockingRecords] /\ locking'[t] = r
    BY <1>1, <2>2, <2>3 DEF Typed
  <2> QED BY <2>4 DEF NoLocking, Own, Drop, Hp, Want, Go
<1>7. search' \in [Threads -> SearchRecords]
  <2>1. NoSearch \in SearchRecords
    BY DEF NoSearch, SearchRecords
  <2> QED BY <1>1, <2>1 DEF Typed, Snapshot
<1>8. Others(t)
  BY <1>1 DEF Typed, Snapshot, Others, Goto
<1>9. Stage(t)' = "body" /\ Needed(t)' = Want(t)'
  BY <1>2, <1>4, <1>6 DEF Stage, Needed, HomeLocks
<1>10. OwnOK(t)'
  BY <1>2, <1>3, <1>5, <1>6, <1>9 DEF OwnOK, HoldsAll, HoldsSome, HoldsNone
<1>11. HpOK(t)' /\ PathOK(t)'
  BY <1>2, <1>3, <1>6, <1>9 DEF HpOK, PathOK, Frozen, HoldsSome
<1>12. LocalOK(t)'
  BY <1>2, <1>4, <1>10, <1>11 DEF LocalOK
<1> QED
  <2>1. todo' \in [Threads -> Seq(Calls)]
    BY <1>1, <1>2 DEF Typed
  <2> QED BY <1>2, <1>6, <1>7, <1>8, <1>12, <2>1, QuietInv

-----------------------------------------------------------------------------
\* The steps of lookups.
LEMMA HomeLock ==
  ASSUME LocksInv, NEW t \in Threads, todo[t] # <<>>, NEW j
  PROVE  LockOf(t, j) \in LockIds
<1>1. Typed /\ LockRange /\ Hp(t) \in 0..MaxHp /\ Hp(t) <= hp_ /\ Key(t) \in Keys
  BY CallTyped DEF LocksInv, LocalOK, HpOK, Typed, LockingRecords, Hp
<1>2. LockOf(t, j) \in 0..NumLocks(Hp(t)) - 1
  BY <1>1, HomesAreBuckets, LockIndRange DEF LockOf, Home
<1>3. Hp(t) \in 0..hp_
  BY <1>1, MapAssumption DEF Typed
<1> QED BY <1>1, <1>2, <1>3, LockSet

LEMMA LookupInv ==
  ASSUME LocksInv, NEW t \in Threads,
         Read(t) \/ Epoch1(t) \/ Epoch2(t) \/ CheckHp(t) \/ Scan(t) \/ Value(t)
           \/ Validate1(t) \/ Validate2(t)
  PROVE  LocksInv'
<1>1. Typed /\ LocalOK(t)
  BY DEF LocksInv
<1>2. CASE Read(t)
  <2>1. pc' = [pc EXCEPT ![t] = "epoch1"] /\ pc[t] = "read"
        /\ locking' = [locking EXCEPT ![t].hp = hp_] /\ UNCHANGED <<shared, todo, search>>
    BY <1>2 DEF Read, Goto
  <2>2. pc' \in [Threads -> Labels] /\ pc'[t] = "epoch1" /\ Others(t)
    BY <1>1, <2>1 DEF Typed, Others, Labels, HoldsNone
  <2>3. locking' \in [Threads -> LockingRecords]
        /\ Own(t)' = Own(t) /\ Drop(t)' = Drop(t) /\ Hp(t)' = hp_
    BY <1>1, <2>1 DEF Typed, LockingRecords, Own, Drop, Hp
  <2> QED BY <2>1, <2>2, <2>3, HopInv DEF HoldsNone
<1>3. ASSUME NEW j, LoadEpoch(t, j, IF j = 1 THEN "check_hp" ELSE "scan"),
             pc[t] \in {"epoch1", "epoch2"}
      PROVE  LocksInv'
  <2>1. /\ locking' = [locking EXCEPT ![t].lock1 = LockOf(t, j)] /\ LockOf(t, j) \in LockIds
        /\ UNCHANGED <<shared, todo, search>>
    BY <1>3 DEF LoadEpoch
  <2>2. \E l \in {"read", "rehash", "check_hp", "scan"} : pc' = [pc EXCEPT ![t] = l]
    BY <1>3 DEF LoadEpoch, Goto
  <2>3. LockOf(t, j) \in Nat
    BY <2>1, LockSet DEF LocksInv
  <2>4. /\ pc' \in [Threads -> Labels] /\ pc'[t] \in {"read", "rehash", "check_hp", "scan"}
        /\ Others(t)
    BY <1>1, <2>1, <2>2 DEF Typed, Others, Labels, HoldsNone
  <2>5. /\ locking' \in [Threads -> LockingRecords] /\ locking'[t].lock1 = LockOf(t, j)
        /\ Own(t)' = Own(t) /\ Drop(t)' = Drop(t) /\ Hp(t)' = Hp(t)
    BY <1>1, <2>1, <2>3, ZenonT(60) DEF Typed, LockingRecords, Own, Drop, Hp
  <2> QED BY <1>3, <2>1, <2>4, <2>5, HopInv DEF HoldsNone
<1>4. CASE Epoch1(t) \/ Epoch2(t)
  <2>1. \/ pc[t] = "epoch1" /\ LoadEpoch(t, 1, "check_hp")
        \/ pc[t] = "epoch2" /\ LoadEpoch(t, 2, "scan")
    BY <1>4 DEF Epoch1, Epoch2
  <2> QED BY <1>3, <2>1
<1>5. ASSUME CheckHp(t) \/ Scan(t) \/ Value(t) \/ Validate1(t) \/ Validate2(t)
      PROVE  LocksInv'
  <2>1. /\ UNCHANGED <<shared, todo, locking, search>>
        /\ pc[t] \in {"check_hp", "scan", "value", "validate1", "validate2"}
        /\ \/ pc' = pc
           \/ \E l \in {"read", "scan", "epoch2", "value", "validate1", "validate2", "return"} :
                 pc' = [pc EXCEPT ![t] = l]
    BY <1>5 DEF CheckHp, Scan, Value, Validate1, Validate2, Goto
  <2>2. /\ pc' \in [Threads -> Labels] /\ Others(t)
        /\ pc'[t] \in {"check_hp", "scan", "value", "validate1", "validate2", "read", "epoch2",
                       "return"}
    BY <1>1, <2>1 DEF Typed, Others, Labels, HoldsNone
  <2>3. /\ locking' \in [Threads -> LockingRecords]
        /\ Own(t)' = Own(t) /\ Drop(t)' = Drop(t) /\ Hp(t)' = Hp(t)
    BY <1>1, <2>1 DEF Typed, Own, Drop, Hp
  <2> QED BY <2>1, <2>2, <2>3, HopInv DEF HoldsNone
<1> QED BY <1>2, <1>4, <1>5

\* The steps of rehash_concurrent before it takes the locks.
LEMMA ExpandInv == ASSUME LocksInv, NEW t \in Threads, Expand(t) PROVE LocksInv'
<1>1. Typed /\ LocalOK(t)
  BY DEF LocksInv
<1>2. /\ UNCHANGED <<shared, todo, search>> /\ pc[t] = "expand"
      /\ \E l \in {"return", "expand_assert"} : pc' = [pc EXCEPT ![t] = l]
      /\ \E a : a \in Answers /\ locking' = [locking EXCEPT ![t].answer = a]
  BY DEF Expand, Goto, Answers
<1>3. PICK a \in Answers : locking' = [locking EXCEPT ![t].answer = a]
  BY <1>2
<1>4. locking[t] \in LockingRecords
  BY <1>1 DEF Typed
<1>5. [locking[t] EXCEPT !.answer = a] \in LockingRecords
  BY <1>4 DEF LockingRecords
<1>6. locking' = [locking EXCEPT ![t] = [locking[t] EXCEPT !.answer = a]]
  BY <1>3
<1>7. pc' \in [Threads -> Labels] /\ pc'[t] \in {"return", "expand_assert"} /\ Others(t)
  BY <1>1, <1>2 DEF Typed, Others, Labels, HoldsNone
<1>8. /\ locking' \in [Threads -> LockingRecords]
      /\ Own(t)' = Own(t) /\ Drop(t)' = Drop(t) /\ Hp(t)' = Hp(t)
  <2>1. locking' \in [Threads -> LockingRecords] /\ locking'[t] = [locking[t] EXCEPT !.answer = a]
    BY <1>1, <1>5, <1>6 DEF Typed
  <2> QED BY <1>4, <2>1 DEF LockingRecords, Own, Drop, Hp
<1> QED BY <1>2, <1>7, <1>8, HopInv DEF HoldsNone

LEMMA ExpandAssertInv == ASSUME LocksInv, NEW t \in Threads, ExpandAssert(t) PROVE LocksInv'
<1>1. Typed /\ LocalOK(t)
  BY DEF LocksInv
<1>2. /\ UNCHANGED <<shared, todo, search>> /\ pc[t] = "expand_assert"
      /\ pc' = [pc EXCEPT ![t] = "lock_all"]
      /\ locking' = [locking EXCEPT ![t].go = "expand_next"]
  BY DEF ExpandAssert, Goto
<1>3. pc' \in [Threads -> Labels] /\ pc'[t] = "lock_all" /\ Others(t)
  BY <1>1, <1>2 DEF Typed, Others, Labels
<1>4. /\ locking' \in [Threads -> LockingRecords] /\ Go(t)' = "expand_next"
      /\ Own(t)' = Own(t) /\ Drop(t)' = Drop(t) /\ Hp(t)' = Hp(t)
  BY <1>1, <1>2, Zenon DEF Typed, LockingRecords, Own, Drop, Hp, Go, Labels, HoldsAll
<1>5. hp_' = hp_ /\ LockIds' = LockIds
  BY <1>2 DEF shared, LockIds
<1>6. Own(t) = {} /\ 0 \in LockIds /\ {} = 0..0 - 1
  BY <1>1, <1>2, LockSet DEF LocksInv, LocalOK, OwnOK, HoldsNone
<1>7. LocalOK(t)'
  <2>1. OwnOK(t)'
    BY <1>1, <1>3, <1>4, <1>5, <1>6 DEF LocalOK, OwnOK, HoldsNone, HoldsAll, HoldsSome
  <2>2. HpOK(t)' /\ PathOK(t)'
    BY <1>1, <1>3, <1>4, <1>5 DEF LocalOK, HpOK, PathOK, Frozen, HoldsSome, Stage
  <2> QED BY <1>1, <1>2, <2>1, <2>2 DEF LocalOK
<1> QED
  <2>1. todo' \in [Threads -> Seq(Calls)] /\ search' \in [Threads -> SearchRecords]
    BY <1>1, <1>2 DEF Typed
  <2> QED BY <1>2, <1>3, <1>4, <1>7, <2>1, QuietInv

-----------------------------------------------------------------------------
\* How a release starts.
LEMMA ReleaseEffect ==
  ASSUME Typed, NEW t \in Threads, NEW L \in SUBSET Nat, NEW m \in BOOLEAN, NEW go \in Labels,
         StartRelease(t, L, m, go)
  PROVE  /\ locking' \in [Threads -> LockingRecords] /\ pc' \in [Threads -> Labels]
         /\ pc'[t] = "release"
         /\ Own(t)' = Own(t) /\ Drop(t)' = L /\ Go(t)' = go /\ Hp(t)' = Hp(t)
         /\ \A u \in Threads \ {t} : pc'[u] = pc[u] /\ locking'[u] = locking[u]
<1>1. locking' = [locking EXCEPT ![t] = [locking[t] EXCEPT !.drop = L, !.modified = m, !.go = go]]
  BY DEF StartRelease
<1>2. locking[t] \in LockingRecords
  BY DEF Typed
<1>3. [locking[t] EXCEPT !.drop = L, !.modified = m, !.go = go] \in LockingRecords
  BY <1>2 DEF LockingRecords
<1>4. /\ locking' \in [Threads -> LockingRecords]
      /\ locking'[t] = [locking[t] EXCEPT !.drop = L, !.modified = m, !.go = go]
      /\ \A u \in Threads \ {t} : locking'[u] = locking[u]
  BY <1>1, <1>3 DEF Typed
<1>5. /\ pc' \in [Threads -> Labels] /\ pc'[t] = "release"
      /\ \A u \in Threads \ {t} : pc'[u] = pc[u]
  BY DEF Typed, StartRelease, Goto, Labels
<1> QED BY <1>2, <1>4, <1>5 DEF LockingRecords, Own, Drop, Go, Hp

LEMMA AnswerEffect ==
  ASSUME Typed, NEW t \in Threads, NEW a \in Answers, NEW m \in BOOLEAN, Answer(t, a, m)
  PROVE  /\ locking' \in [Threads -> LockingRecords] /\ pc' \in [Threads -> Labels]
         /\ pc'[t] = "release"
         /\ Own(t)' = Own(t) /\ Drop(t)' = Own(t) /\ Go(t)' = "return" /\ Hp(t)' = Hp(t)
         /\ \A u \in Threads \ {t} : pc'[u] = pc[u] /\ locking'[u] = locking[u]
<1> DEFINE r == [locking[t] EXCEPT !.drop = locking[t].own, !.modified = m, !.answer = a,
                                   !.go = "return"]
<1>1. locking' = [locking EXCEPT ![t] = r]
  BY DEF Answer
<1>2. locking[t] \in LockingRecords
  BY DEF Typed
<1>3. "return" \in Labels
  BY DEF Labels, HoldsNone
<1>4. r \in LockingRecords
  BY <1>2, <1>3 DEF LockingRecords
<1>5. r.own = Own(t) /\ r.drop = Own(t) /\ r.go = "return" /\ r.hp = Hp(t)
  BY <1>2 DEF LockingRecords, Own, Hp
<1> HIDE DEF r
<1>6. /\ locking' \in [Threads -> LockingRecords] /\ locking'[t] = r
      /\ \A u \in Threads \ {t} : locking'[u] = locking[u]
  BY <1>1, <1>4 DEF Typed
<1>7. /\ pc' \in [Threads -> Labels] /\ pc'[t] = "release"
      /\ \A u \in Threads \ {t} : pc'[u] = pc[u]
  BY DEF Typed, Answer, Goto, Labels
<1> QED BY <1>5, <1>6, <1>7 DEF Own, Drop, Go, Hp

\* A thread that starts to release all its locks is as it should be.
LEMMA ReleaseLocal ==
  ASSUME LocksInv, NEW t \in Threads, hp_' = hp_, LockIds' = LockIds,
         todo' = todo, pc[t] # "idle", pc'[t] = "release",
         Own(t)' = Own(t), Drop(t)' = Own(t), Own(t) # {}, Hp(t)' = Hp(t),
         \/ Go(t)' \in {"return", "search", "snapshot"}
         \/ /\ Go(t)' = "move" /\ PathOf(t)' # <<>> /\ Linked(PathOf(t)', Hp(t))
            /\ PathOf(t)'[1].bucket \in Homes(Key(t), Hp(t))
  PROVE  LocalOK(t)'
<1>1. LocalOK(t)
  BY DEF LocksInv
<1>2. OwnOK(t)'
  BY <1>1 DEF LocalOK, OwnOK, HoldsNone, HoldsAll, HoldsSome
<1>3. HpOK(t)'
  BY <1>1 DEF LocalOK, HpOK, Frozen, HoldsSome
<1>4. Key(t)' = Key(t)
  BY DEF Key, Call
<1>5. PathOK(t)'
  BY <1>4 DEF PathOK, Stage, HoldsSome, Linked
<1> QED BY <1>1, <1>2, <1>3, <1>5 DEF LocalOK

\* The bodies that change nothing.
LEMMA OwnsSome ==
  ASSUME LocksInv, NEW t \in Threads, pc[t] \in HoldsSome \cup HoldsAll
  PROVE  Own(t) # {} /\ Own(t) \in SUBSET Nat
<1>1. Typed /\ LockRange /\ LocalOK(t)
  BY DEF LocksInv
<1>2. Own(t) \in SUBSET Nat
  BY <1>1 DEF Typed, LockingRecords, Own
<1>3. LockIds # {}
  BY <1>1, LockSet
<1>4. Needed(t) # {}
  BY DEF Needed, HomeLocks, ShiftBuckets, LocksOf, Homes
<1> QED BY <1>1, <1>2, <1>3, <1>4 DEF LocalOK, OwnOK

LEMMA GiveUpInv ==
  ASSUME LocksInv, NEW t \in Threads, UNCHANGED <<shared, todo, search>>,
         pc[t] \in HoldsSome \cup HoldsAll, pc[t] # "resize",
         \/ \E a \in Answers, m \in BOOLEAN : Answer(t, a, m)
         \/ \E go \in {"search", "snapshot"} : StartRelease(t, locking[t].own, TRUE, go)
  PROVE  LocksInv'
<1>1. Typed /\ Own(t) # {} /\ Own(t) \in SUBSET Nat /\ Own(t) = locking[t].own
  BY OwnsSome DEF LocksInv, Own
<1>2. pc[t] # "idle" /\ {"return", "search", "snapshot"} \subseteq Labels
  BY DEF HoldsSome, HoldsAll, Labels, HoldsNone
<1>3. /\ locking' \in [Threads -> LockingRecords] /\ pc' \in [Threads -> Labels]
      /\ pc'[t] = "release"
      /\ Own(t)' = Own(t) /\ Drop(t)' = Own(t) /\ Go(t)' \in {"return", "search", "snapshot"}
      /\ Hp(t)' = Hp(t)
      /\ \A u \in Threads \ {t} : pc'[u] = pc[u] /\ locking'[u] = locking[u]
  <2>1. CASE \E a \in Answers, m \in BOOLEAN : Answer(t, a, m)
    BY <1>1, <2>1, AnswerEffect
  <2>2. CASE \E go \in {"search", "snapshot"} : StartRelease(t, locking[t].own, TRUE, go)
    BY <1>1, <1>2, <2>2, ReleaseEffect
  <2> QED BY <2>1, <2>2
<1>4. hp_' = hp_ /\ LockIds' = LockIds /\ Others(t)
  BY <1>3 DEF shared, LockIds, Others
<1>5. LocalOK(t)'
  BY <1>1, <1>2, <1>3, <1>4, ReleaseLocal
<1>6. todo' \in [Threads -> Seq(Calls)] /\ search' \in [Threads -> SearchRecords]
  BY <1>1 DEF Typed
<1> QED BY <1>1, <1>2, <1>3, <1>4, <1>5, <1>6, QuietInv

LEMMA GiveUpsInv ==
  ASSUME LocksInv, NEW t \in Threads,
         NotFound(t) \/ NoFreeSlot(t) \/ ShiftFails(t) \/ DoubleThrows(t) \/ DoubleRaced(t)
  PROVE  LocksInv'
<1>1. FALSE \in Answers /\ Absent \in Answers /\ TRUE \in BOOLEAN /\ FALSE \in BOOLEAN
  BY DEF Answers
<1>2. UNCHANGED <<shared, todo, search>>
  BY DEF NotFound, NoFreeSlot, ShiftFails, DoubleThrows, DoubleRaced
<1>3. pc[t] \in {"body", "shift", "double"}
  BY DEF NotFound, NoFreeSlot, ShiftFails, DoubleThrows, DoubleRaced
<1>4. \/ \E a \in Answers, m \in BOOLEAN : Answer(t, a, m)
      \/ \E go \in {"search", "snapshot"} : StartRelease(t, locking[t].own, TRUE, go)
  <2>1. CASE NotFound(t)
    BY <1>1, <2>1 DEF NotFound
  <2>2. CASE DoubleThrows(t)
    BY <1>1, <2>2 DEF DoubleThrows
  <2>3. CASE NoFreeSlot(t) \/ ShiftFails(t) \/ DoubleRaced(t)
    BY <2>3 DEF NoFreeSlot, ShiftFails, DoubleRaced
  <2> QED BY <2>1, <2>2, <2>3
<1> QED BY <1>2, <1>3, <1>4, GiveUpInv DEF HoldsSome, HoldsAll

LEMMA ExpandNextInv == ASSUME LocksInv, NEW t \in Threads, ExpandNext(t) PROVE LocksInv'
<1>1. Typed /\ LocalOK(t)
  BY DEF LocksInv
<1>2. UNCHANGED <<shared, todo, search>> /\ pc[t] = "expand_next"
  BY DEF ExpandNext
<1>3. CASE Answer(t, TRUE, TRUE)
  BY <1>2, <1>3, GiveUpInv DEF HoldsAll, Answers
<1>4. CASE locking' = [locking EXCEPT ![t].hp = hp_] /\ Goto(t, "double")
  <2>1. pc' \in [Threads -> Labels] /\ pc'[t] = "double" /\ Others(t)
    BY <1>1, <1>2, <1>4 DEF Typed, Others, Labels, HoldsAll, Goto
  <2>2. /\ locking' \in [Threads -> LockingRecords] /\ Go(t)' = Go(t)
        /\ Own(t)' = Own(t) /\ Drop(t)' = Drop(t) /\ Hp(t)' = hp_
    BY <1>1, <1>4 DEF Typed, LockingRecords, Own, Drop, Hp, Go
  <2>3. hp_' = hp_ /\ LockIds' = LockIds /\ hp_ <= hp_
    BY <1>1, <1>2, MapAssumption DEF shared, LockIds, Typed
  <2>4. OwnOK(t)'
    BY <1>1, <1>2, <2>1, <2>2, <2>3 DEF LocalOK, OwnOK, HoldsAll, HoldsSome, HoldsNone
  <2>5. HpOK(t)' /\ PathOK(t)'
    BY <2>1, <2>2, <2>3 DEF HpOK, Frozen, HoldsSome, PathOK, Stage
  <2>6. LocalOK(t)'
    BY <1>1, <1>2, <2>4, <2>5 DEF LocalOK
  <2>7. todo' \in [Threads -> Seq(Calls)] /\ search' \in [Threads -> SearchRecords]
    BY <1>1, <1>2 DEF Typed
  <2> QED BY <1>2, <2>1, <2>2, <2>6, <2>7, QuietInv
<1> QED BY <1>3, <1>4 DEF ExpandNext

-----------------------------------------------------------------------------
\* The steps of cuckoo paths that change no lock.
LEMMA KeyFacts ==
  ASSUME LocksInv, NEW t \in Threads, pc[t] # "idle"
  PROVE  /\ Key(t) \in Keys /\ todo[t] # <<>>
         /\ Hp(t) \in 0..MaxHp /\ Hp(t) \in 0..hp_ /\ hp_ \in 0..MaxHp
         /\ I1(Key(t), Hp(t)) \in Buckets(Hp(t)) /\ I2(Key(t), Hp(t)) \in Buckets(Hp(t))
         /\ Homes(Key(t), Hp(t)) \subseteq Buckets(Hp(t))
         /\ \A b \in Buckets(Hp(t)) : b \in Nat /\ LockInd(b) \in LockIds /\ LockInd(b) \in Nat
<1>1. Typed /\ LockRange /\ LocalOK(t)
  BY DEF LocksInv
<1>2. Key(t) \in Keys /\ todo[t] # <<>>
  BY <1>1, CallTyped DEF LocalOK
<1>3. Hp(t) \in 0..MaxHp /\ Hp(t) \in 0..hp_ /\ hp_ \in 0..MaxHp
  BY <1>1, MapAssumption DEF LocalOK, HpOK, Typed, LockingRecords, Hp
<1>4. HashSize(Hp(t)) \in Nat
  BY <1>3, SizeNat, MapAssumption
<1>5. \A b \in Buckets(Hp(t)) : b \in Nat /\ LockInd(b) \in LockIds /\ LockInd(b) \in Nat
  BY <1>1, <1>3, <1>4, LockIndRange, LockSet DEF Buckets
<1> QED BY <1>2, <1>3, <1>5, HomesAreBuckets

LEMMA SearchInv == ASSUME LocksInv, NEW t \in Threads, Search(t) PROVE LocksInv'
<1> DEFINE n1 == [bucket |-> I1(Key(t), Hp(t)), root |-> 0, slots |-> <<>>]
           n2 == [bucket |-> I2(Key(t), Hp(t)), root |-> 1, slots |-> <<>>]
           s == [NoSearch EXCEPT !.queue = <<n1, n2>>]
<1>1. Typed /\ LocalOK(t)
  BY DEF LocksInv
<1>2. /\ UNCHANGED <<shared, todo, locking>> /\ pc[t] = "search"
      /\ pc' = [pc EXCEPT ![t] = "bfs"] /\ search' = [search EXCEPT ![t] = s]
  BY DEF Search, Goto
<1>3. n1 \in Nodes /\ n2 \in Nodes /\ n1.bucket \in Buckets(Hp(t)) /\ n2.bucket \in Buckets(Hp(t))
  BY <1>2, KeyFacts DEF Nodes
<1> HIDE DEF n1, n2
<1>4. <<n1, n2>> \in Seq(Nodes) /\ <<n1, n2>> # <<>> /\ DOMAIN <<n1, n2>> = 1..2
      /\ \A i \in 1..2 : <<n1, n2>>[i] \in {n1, n2}
  BY <1>3
<1>5. s \in SearchRecords /\ s.queue = <<n1, n2>>
  <2> DEFINE q == <<n1, n2>>
  <2>1. q \in Seq(Nodes)
    BY <1>4
  <2> HIDE DEF q
  <2>2. s = [queue |-> q, slots |-> <<>>, next |-> 0, path |-> <<>>]
    BY DEF NoSearch, q
  <2> HIDE DEF s
  <2>3. s \in SearchRecords /\ s.queue = q
    BY <2>1, <2>2 DEF SearchRecords
  <2> QED BY <2>3 DEF q
<1> HIDE DEF s
<1>6. search' \in [Threads -> SearchRecords] /\ search'[t].queue = <<n1, n2>>
  BY <1>1, <1>2, <1>5 DEF Typed
<1>7. pc' \in [Threads -> Labels] /\ pc'[t] = "bfs" /\ Others(t)
  BY <1>1, <1>2 DEF Typed, Others, Labels, HoldsNone
<1>8. /\ Own(t)' = Own(t) /\ Drop(t)' = Drop(t) /\ Go(t)' = Go(t) /\ Hp(t)' = Hp(t)
      /\ hp_' = hp_ /\ LockIds' = LockIds
  BY <1>2 DEF Own, Drop, Go, Hp, shared, LockIds
<1>9. OwnOK(t)'
  BY <1>1, <1>2, <1>7, <1>8 DEF LocalOK, OwnOK, HoldsAll, HoldsSome, HoldsNone
<1>10. HpOK(t)'
  BY <1>1, <1>7, <1>8 DEF LocalOK, HpOK, Frozen, HoldsSome
<1>11. PathOK(t)'
  BY <1>3, <1>4, <1>6, <1>7, <1>8 DEF PathOK, Stage
<1>12. LocalOK(t)'
  BY <1>1, <1>2, <1>9, <1>10, <1>11 DEF LocalOK
<1> QED
  <2>1. todo' \in [Threads -> Seq(Calls)] /\ locking' \in [Threads -> LockingRecords]
    BY <1>1, <1>2 DEF Typed
  <2> QED BY <1>2, <1>6, <1>7, <1>8, <1>12, <2>1, QuietInv

\* The buckets of a path exist.
LEMMA PathBuckets ==
  ASSUME NEW h \in 0..MaxHp, NEW k \in Keys, NEW path \in Seq(PathSlots),
         path[1].bucket \in Homes(k, h), Linked(path, h), NEW j \in 1..Len(path)
  PROVE  path[j].bucket \in Buckets(h) /\ path[j] \in PathSlots
<1>1. path[j] \in PathSlots
  OBVIOUS
<1>2. CASE j = 1
  BY <1>1, <1>2, HomesAreBuckets
<1>3. CASE j # 1
  <2>1. j - 1 \in 1..Len(path) - 1 /\ j - 1 \in 1..Len(path) /\ j - 1 + 1 = j
    BY <1>3
  <2>2. path[j - 1] \in PathSlots
    BY <2>1
  <2>3. path[j - 1].key \in Keys
    BY <2>2 DEF PathSlots
  <2>4. path[j].bucket \in Homes(path[j - 1].key, h)
    BY <2>1 DEF Linked
  <2> QED BY <1>1, <2>3, <2>4, HomesAreBuckets
<1> QED BY <1>2, <1>3

LEMMA MoveInv == ASSUME LocksInv, NEW t \in Threads, Move(t) PROVE LocksInv'
<1> DEFINE homes == Homes(Key(t), Hp(t))
           path == PathOf(t)
           ends == {search[t].path[j].bucket : j \in {Depth(t), Depth(t) + 1} \ {0}}
           B == CASE Depth(t) = 0 -> homes
                  [] Depth(t) = 1 -> homes \cup ends
                  [] OTHER -> ends
           L == LocksOf(B)
           go == IF Depth(t) = 0 THEN "check" ELSE "shift"
           l1 == IF Depth(t) = 1 THEN LockInd(I1(Key(t), Hp(t))) ELSE Min(LocksOf(homes))
           r == [locking[t] EXCEPT !.want = L, !.own = {}, !.lock1 = l1, !.go = go]
<1>1. Typed /\ LocalOK(t) /\ LockRange
  BY DEF LocksInv
<1>2. /\ UNCHANGED <<shared, todo, search>> /\ pc[t] = "move"
      /\ pc' = [pc EXCEPT ![t] = "lock"]
      /\ locking' = [locking EXCEPT ![t].want = L, ![t].own = {}, ![t].lock1 = l1, ![t].go = go]
  BY Zenon DEF Move, Goto
<1>3. /\ path \in Seq(PathSlots) /\ path # <<>> /\ path[1].bucket \in homes
      /\ Linked(path, Hp(t)) /\ search[t].path = path
      /\ Depth(t) = Len(path) - 1 /\ Depth(t) \in Nat /\ Len(path) = Depth(t) + 1
  <2>1. path \in Seq(PathSlots) /\ search[t].path = path
    BY <1>1, Zenon DEF Typed, SearchRecords, PathOf
  <2>2. Stage(t) = "move"
    BY <1>2, Zenon DEF Stage
  <2>3. path # <<>> /\ path[1].bucket \in homes /\ Linked(path, Hp(t))
    BY <1>1, <2>2 DEF LocalOK, PathOK
  <2>4. Depth(t) = Len(path) - 1
    BY <2>1 DEF Depth
  <2> HIDE DEF path, homes
  <2> QED BY <2>1, <2>3, <2>4, SMTT(60)
<1>4. ends \subseteq Buckets(Hp(t)) /\ ends # {}
  <2>1. \A j \in 1..Len(path) : path[j].bucket \in Buckets(Hp(t))
    BY <1>2, <1>3, KeyFacts, PathBuckets, Zenon
  <2>2. {Depth(t), Depth(t) + 1} \ {0} \subseteq 1..Len(path)
    BY <1>3, SMTT(60)
  <2> QED BY <1>3, <2>1, <2>2, SMTT(60)
<1>5. B \subseteq Buckets(Hp(t)) /\ B # {}
  BY <1>2, <1>4, KeyFacts DEF Homes
<1>6. B = IF Depth(t) = 0 THEN homes ELSE IF Depth(t) = 1
          THEN homes \cup {path[Depth(t)].bucket, path[Depth(t) + 1].bucket}
          ELSE {path[Depth(t)].bucket, path[Depth(t) + 1].bucket}
  <2>1. Depth(t) # 0 => {Depth(t), Depth(t) + 1} \ {0} = {Depth(t), Depth(t) + 1}
    BY <1>3
  <2>2. Depth(t) # 0 => ends = {path[Depth(t)].bucket, path[Depth(t) + 1].bucket}
    BY <1>3, <2>1
  <2> HIDE DEF homes, ends
  <2>3. Depth(t) = 0 => B = homes
    OBVIOUS
  <2>4. Depth(t) = 1 => B = homes \cup ends
    OBVIOUS
  <2>5. Depth(t) # 0 /\ Depth(t) # 1 => B = ends
    OBVIOUS
  <2> HIDE DEF B
  <2> QED BY <1>3, <2>2, <2>3, <2>4, <2>5
<1>7. L \subseteq LockIds /\ L # {} /\ L \in SUBSET Nat
  <2> HIDE DEF B
  <2>1. \A b \in B : LockInd(b) \in LockIds /\ LockInd(b) \in Nat
    BY <1>2, <1>5, KeyFacts
  <2> QED BY <1>5, <2>1 DEF LocksOf
<1>8. l1 \in Nat
  <2>1. \A b \in homes : LockInd(b) \in Nat
    BY <1>2, KeyFacts, Zenon
  <2>2. LocksOf(homes) \in SUBSET Nat /\ LocksOf(homes) # {}
    BY <2>1 DEF LocksOf, Homes
  <2>3. Min(LocksOf(homes)) \in Nat
    <3> HIDE DEF homes
    <3> QED BY <2>2, MinIsLeast
  <2> QED BY <2>1, <2>3, Zenon DEF Homes
<1>9. go \in {"check", "shift"} /\ go \in Labels /\ (go = "check" <=> Depth(t) = 0)
  BY DEF Labels, HoldsSome
<1> HIDE DEF L, l1, go, B
<1>10. locking' = [locking EXCEPT ![t] = r]
  BY <1>2
<1>11. /\ r \in LockingRecords
       /\ r.own = {} /\ r.drop = Drop(t) /\ r.want = L /\ r.go = go /\ r.hp = Hp(t)
  BY <1>1, <1>7, <1>8, <1>9 DEF Typed, LockingRecords, Drop, Hp
<1> HIDE DEF r
<1>12. /\ locking' \in [Threads -> LockingRecords] /\ pc' \in [Threads -> Labels]
       /\ pc'[t] = "lock" /\ Others(t)
       /\ Own(t)' = {} /\ Drop(t)' = Drop(t) /\ Want(t)' = L /\ Go(t)' = go /\ Hp(t)' = Hp(t)
  <2>1. locking' \in [Threads -> LockingRecords] /\ locking'[t] = r
        /\ \A u \in Threads \ {t} : locking'[u] = locking[u]
    BY <1>1, <1>10, <1>11 DEF Typed
  <2>2. pc' \in [Threads -> Labels] /\ pc'[t] = "lock" /\ \A u \in Threads \ {t} : pc'[u] = pc[u]
    BY <1>1, <1>2 DEF Typed, Labels
  <2>3. Others(t)
    BY <1>2, <2>1, <2>2 DEF Others
  <2> QED BY <1>11, <2>1, <2>2, <2>3 DEF Own, Drop, Want, Go, Hp
<1>13. /\ Key(t)' = Key(t) /\ PathOf(t)' = path /\ Depth(t)' = Depth(t) /\ Stage(t)' = go
       /\ hp_' = hp_ /\ LockIds' = LockIds
  BY <1>2, <1>12 DEF Key, Call, PathOf, Depth, Stage, shared, LockIds
<1>14. Needed(t)' = L
  BY <1>6, <1>9, <1>12, <1>13 DEF Needed, HomeLocks, ShiftBuckets, L
<1>15. OwnOK(t)'
  BY <1>1, <1>2, <1>7, <1>9, <1>12, <1>13, <1>14 DEF LocalOK, OwnOK, HoldsAll, HoldsSome, HoldsNone
<1>16. HpOK(t)'
  BY <1>1, <1>12, <1>13 DEF LocalOK, HpOK, Frozen, HoldsSome
<1>17. PathOK(t)'
  <2>1. /\ PathOf(t)' # <<>> /\ PathOf(t)'[1].bucket \in Homes(Key(t)', Hp(t)')
        /\ Linked(PathOf(t)', Hp(t)') /\ Stage(t)' \in {"check", "shift"}
        /\ Stage(t)' = "check" => Len(PathOf(t)') = 1
        /\ Stage(t)' = "shift" => Len(PathOf(t)') >= 2
    BY <1>3, <1>9, <1>12, <1>13
  <2> QED BY <1>12, <2>1 DEF PathOK
<1>18. LocalOK(t)'
  BY <1>1, <1>2, <1>15, <1>16, <1>17 DEF LocalOK
<1> QED
  <2>1. todo' \in [Threads -> Seq(Calls)] /\ search' \in [Threads -> SearchRecords]
    BY <1>1, <1>2, Zenon DEF Typed
  <2> QED BY <1>2, <1>12, <1>18, <2>1, QuietInv, Zenon

LEMMA CheckInv == ASSUME LocksInv, NEW t \in Threads, Check(t) PROVE LocksInv'
<1>1. Typed /\ LocalOK(t)
  BY DEF LocksInv
<1>2. UNCHANGED <<shared, todo, search>> /\ pc[t] = "check"
  BY DEF Check
<1>3. CASE StartRelease(t, locking[t].own, TRUE, "search")
  BY <1>2, <1>3, GiveUpInv DEF HoldsSome
<1>4. CASE Goto(t, "recheck") /\ UNCHANGED locking
  <2>1. pc' \in [Threads -> Labels] /\ pc'[t] = "recheck" /\ Others(t)
    BY <1>1, <1>2, <1>4 DEF Typed, Others, Labels, HoldsSome, Goto
  <2>2. /\ Go(t)' = Go(t) /\ Own(t)' = Own(t) /\ Drop(t)' = Drop(t) /\ Hp(t)' = Hp(t)
        /\ hp_' = hp_ /\ LockIds' = LockIds
        /\ Key(t)' = Key(t) /\ PathOf(t)' = PathOf(t)
    BY <1>2, <1>4 DEF Go, Own, Drop, Hp, shared, LockIds, Key, Call, PathOf
  <2>3. Stage(t) = "check" /\ Stage(t)' = "recheck"
    BY <1>2, <2>1 DEF Stage
  <2>4. Needed(t)' = Needed(t)
    BY <2>2, <2>3 DEF Needed, HomeLocks
  <2>5. OwnOK(t)'
    BY <1>1, <1>2, <2>1, <2>2, <2>4 DEF LocalOK, OwnOK, HoldsAll, HoldsSome, HoldsNone
  <2>6. HpOK(t)'
    BY <1>1, <1>2, <2>1, <2>2 DEF LocalOK, HpOK, Frozen, HoldsSome
  <2>7. PathOK(t)'
    BY <1>1, <2>1, <2>2, <2>3 DEF LocalOK, PathOK, Linked
  <2>8. LocalOK(t)'
    BY <1>1, <1>2, <2>5, <2>6, <2>7 DEF LocalOK
  <2>9. /\ todo' \in [Threads -> Seq(Calls)] /\ search' \in [Threads -> SearchRecords]
        /\ locking' \in [Threads -> LockingRecords]
    BY <1>1, <1>2, <1>4 DEF Typed
  <2> QED BY <1>2, <2>1, <2>2, <2>8, <2>9, QuietInv
<1> QED BY <1>3, <1>4 DEF Check

-----------------------------------------------------------------------------
\* Migrating the data of a lock changes no other lock's buckets.
LEMMA OldHalf ==
  ASSUME NEW h \in 0..MaxHp, NEW B \in SUBSET Buckets(h)
  PROVE  /\ B \subseteq Buckets(h + 1)
         /\ \A c \in B : c - HashSize(h) \notin B
<1>1. HashSize(h) \in Nat \ {0} /\ HashSize(h + 1) = 2 * HashSize(h)
  BY MapAssumption, SizeNat, SizeDoubles
<1> QED BY <1>1 DEF Buckets

LEMMA MigrateFacts ==
  ASSUME Typed, LocksOK, NEW l \in LockIds
  PROVE  /\ Migrate(l) \in [Buckets(hp_) -> Rows]
         /\ \A b \in Buckets(hp_) : Migrate(l)[b] # table[b] => LockInd(b) = l
<1>1. hp_ \in 0..MaxHp /\ table \in [Buckets(hp_) -> Rows] /\ LockPow \in Nat /\ MaxHp \in Nat
  BY MapAssumption DEF Typed
<1>2. CASE locks[l].migrated
  BY <1>1, <1>2 DEF Migrate
<1>3. CASE ~locks[l].migrated
  <2> DEFINE h == hp_ - 1
             B == OldBuckets(l)
  <2>1. h \in LockPow..MaxHp /\ h \in 0..MaxHp /\ h + 1 = hp_
    BY <1>1, <1>3 DEF LocksOK
  <2>2. B \in SUBSET Buckets(h) /\ \A b \in B : LockInd(b) = l
    BY DEF OldBuckets, Buckets
  <2>3. Migrate(l) = MoveBuckets(table, B, h)
    BY <1>3 DEF Migrate
  <2> HIDE DEF h, B
  <2>4. B \subseteq Buckets(hp_) /\ \A c \in B : c - HashSize(h) \notin B
    BY <2>1, <2>2, OldHalf
  <2>5. Migrate(l) \in [Buckets(hp_) -> Rows]
    BY <1>1, <2>3, <2>4, MoveTyped
  <2>6. ASSUME NEW b \in Buckets(hp_), LockInd(b) # l PROVE Migrate(l)[b] = table[b]
    <3>1. b \notin B
      BY <2>2, <2>6
    <3>2. b - HashSize(h) \notin B
      <4> SUFFICES ASSUME b - HashSize(h) \in B PROVE FALSE
        OBVIOUS
      <4>1. HashSize(h) \in Nat /\ HashSize(hp_) \in Nat
        BY <1>1, <2>1, SizeNat
      <4>2. b - HashSize(h) \in Nat /\ b \in Nat
        BY <2>2, <4>1 DEF Buckets
      <4>3. LockInd((b - HashSize(h)) + HashSize(h)) = l
        BY <2>1, <2>2, <4>2, DoubledLock
      <4>4. (b - HashSize(h)) + HashSize(h) = b
        BY <4>1, <4>2
      <4> QED BY <2>6, <4>3, <4>4
    <3> QED BY <1>1, <2>3, <3>1, <3>2, MoveFrame
  <2> QED BY <2>5, <2>6
<1> QED BY <1>2, <1>3

\* The epoch of a lock counts how often its flag changed.
LEMMA Parity ==
  ASSUME NEW e \in Nat
  PROVE  /\ (e + 1) % 2 = 1 <=> ~(e % 2 = 1)
         /\ (e + 2) % 2 = 1 <=> e % 2 = 1
         /\ e % 2 = 1 => e - 1 \in Nat /\ ~((e - 1) % 2 = 1)
OBVIOUS

LEMMA TakeEffect ==
  ASSUME Typed, LocksOK, NEW l \in LockIds, hp_' = hp_,
         locks' = [locks EXCEPT ![l].flag = TRUE, ![l].epoch = @ + 1, ![l].migrated = TRUE]
           \/ locks' = [locks EXCEPT ![l].flag = TRUE, ![l].epoch = @ + 1],
         ~locks[l].flag
  PROVE  /\ locks' \in [LockIds -> LockRecords] /\ LockIds' = LockIds /\ LocksOK'
         /\ locks'[l].flag /\ \A k \in LockIds : locks[k].flag => locks'[k].flag
<1>1. locks \in [LockIds -> LockRecords] /\ locks[l] \in LockRecords
  BY DEF Typed
<1>2. PICK r : /\ r \in LockRecords /\ locks' = [locks EXCEPT ![l] = r]
               /\ r.flag = TRUE /\ r.epoch = locks[l].epoch + 1
               /\ ~r.migrated => ~locks[l].migrated
  <2> DEFINE a == [locks[l] EXCEPT !.flag = TRUE, !.epoch = @ + 1, !.migrated = TRUE]
             b == [locks[l] EXCEPT !.flag = TRUE, !.epoch = @ + 1]
  <2>1. a \in LockRecords /\ a.flag = TRUE /\ a.epoch = locks[l].epoch + 1 /\ a.migrated = TRUE
    BY <1>1 DEF LockRecords
  <2>2. b \in LockRecords /\ b.flag = TRUE /\ b.epoch = locks[l].epoch + 1
        /\ (b.migrated <=> locks[l].migrated)
    BY <1>1 DEF LockRecords
  <2>3. locks' = [locks EXCEPT ![l] = a] \/ locks' = [locks EXCEPT ![l] = b]
    OBVIOUS
  <2> HIDE DEF a, b
  <2> QED BY <2>1, <2>2, <2>3
<1>3. r.epoch = locks[l].epoch + 1 /\ r.flag = TRUE
  BY <1>2
<1>4. /\ locks' \in [LockIds -> LockRecords] /\ LockIds' = LockIds
      /\ locks'[l] = r /\ \A k \in LockIds \ {l} : locks'[k] = locks[k]
  BY <1>1, <1>2 DEF LockIds
<1>5. \A k \in LockIds \ {l} : /\ locks'[k].flag <=> Locked(k)'
                               /\ ~locks'[k].migrated => hp_' > LockPow
  BY <1>4 DEF LocksOK, Locked
<1>6. locks'[l].flag <=> Locked(l)'
  <2>1. locks[l].epoch \in Nat /\ ~(locks[l].epoch % 2 = 1)
    BY <1>1 DEF LocksOK, Locked, LockRecords
  <2> QED BY <1>3, <1>4, <2>1, Parity DEF Locked
<1>7. ~locks'[l].migrated => hp_' > LockPow
  BY <1>2, <1>3, <1>4 DEF LocksOK
<1>8. LocksOK'
  BY <1>4, <1>5, <1>6, <1>7 DEF LocksOK
<1> QED BY <1>3, <1>4, <1>8

LEMMA TouchEffect ==
  ASSUME Typed, LocksOK, NEW l \in LockIds, hp_' = hp_, LockAndRelease(l)
  PROVE  /\ table' \in [Buckets(hp_) -> Rows]
         /\ locks' \in [LockIds -> LockRecords] /\ LockIds' = LockIds /\ LocksOK'
         /\ ~locks[l].flag /\ \A k \in LockIds : (locks'[k].flag <=> locks[k].flag)
<1>1. locks \in [LockIds -> LockRecords] /\ locks[l] \in LockRecords
  BY DEF Typed
<1> DEFINE r == [locks[l] EXCEPT !.epoch = @ + 2, !.migrated = TRUE]
<1>2. locks' = [locks EXCEPT ![l] = r]
  BY <1>1 DEF LockAndRelease
<1>3. r \in LockRecords /\ (r.flag <=> locks[l].flag) /\ r.epoch = locks[l].epoch + 2
      /\ r.migrated = TRUE
  <2>1. locks[l].epoch + 2 \in Nat
    BY <1>1 DEF LockRecords
  <2>2. r \in LockRecords
    BY <1>1, <2>1 DEF LockRecords
  <2>3. r.flag <=> locks[l].flag
    BY <1>1 DEF LockRecords
  <2>4. r.epoch = locks[l].epoch + 2
    BY <1>1 DEF LockRecords
  <2>5. r.migrated = TRUE
    BY <1>1 DEF LockRecords
  <2> QED BY <2>2, <2>3, <2>4, <2>5
<1> HIDE DEF r
<1>4. /\ locks' \in [LockIds -> LockRecords] /\ LockIds' = LockIds
      /\ locks'[l] = r /\ \A k \in LockIds \ {l} : locks'[k] = locks[k]
  BY <1>1, <1>2, <1>3 DEF LockIds
<1>5. \A k \in LockIds \ {l} : /\ locks'[k].flag <=> Locked(k)'
                               /\ ~locks'[k].migrated => hp_' > LockPow
  BY <1>4 DEF LocksOK, Locked
<1>6. locks'[l].flag <=> Locked(l)'
  <2>1. locks[l].epoch \in Nat
    BY <1>1 DEF LockRecords
  <2> QED BY <1>3, <1>4, <2>1, Parity DEF Locked, LocksOK
<1>7. LocksOK'
  BY <1>3, <1>4, <1>5, <1>6 DEF LocksOK
<1>8. table' \in [Buckets(hp_) -> Rows] /\ ~locks[l].flag
  BY MigrateFacts DEF LockAndRelease
<1> QED BY <1>3, <1>4, <1>7, <1>8

\* A lock is taken, its data migrated, and released again in one step.
LEMMA TouchInv ==
  ASSUME LocksInv, NEW t \in Threads, NEW l \in LockIds, LockAndRelease(l), Others(t),
         hp_' = hp_,
         pc' \in [Threads -> Labels], todo' \in [Threads -> Seq(Calls)],
         locking' \in [Threads -> LockingRecords], search' \in [Threads -> SearchRecords],
         pc[t] # "resize", pc'[t] # "resize", Own(t)' = Own(t),
         LockIds' = LockIds => LocalOK(t)'
  PROVE  LocksInv'
<1>1. /\ table' \in [Buckets(hp_) -> Rows]
      /\ locks' \in [LockIds -> LockRecords] /\ LockIds' = LockIds /\ LocksOK'
      /\ \A k \in LockIds : (locks'[k].flag <=> locks[k].flag)
  BY TouchEffect DEF LocksInv
<1>2. StepTyped
  BY <1>1 DEF StepTyped
<1>3. \A k \in Own(t) : k \in LockIds /\ locks[k].flag
  BY DEF LocksInv, LocalOK, OwnOK, Exclusive
<1>4. \A k \in Own(t)' : locks'[k].flag /\ k \in Own(t)
  BY <1>1, <1>3
<1>5. \A k \in LockIds \ Own(t) : locks[k].flag => locks'[k].flag
  BY <1>1
<1> QED BY <1>1, <1>2, <1>4, <1>5, StepInv

-----------------------------------------------------------------------------
LEMMA ReadRehashInv == ASSUME LocksInv, NEW t \in Threads, ReadRehash(t) PROVE LocksInv'
<1> DEFINE l == locking[t].lock1
<1>1. Typed /\ LocalOK(t)
  BY DEF LocksInv
<1>2. /\ UNCHANGED <<hp_, todo, locking, search>> /\ pc[t] = "rehash"
      /\ pc' = [pc EXCEPT ![t] = "read"] /\ LockAndRelease(l)
  BY DEF ReadRehash, Goto
<1>3. l \in LockIds
  BY <1>1, <1>2 DEF LocalOK, HpOK
<1> HIDE DEF l
<1>4. pc' \in [Threads -> Labels] /\ pc'[t] = "read" /\ Others(t)
  BY <1>1, <1>2 DEF Typed, Others, Labels, HoldsNone
<1>5. /\ locking' \in [Threads -> LockingRecords] /\ todo' \in [Threads -> Seq(Calls)]
      /\ search' \in [Threads -> SearchRecords]
      /\ Own(t)' = Own(t) /\ Drop(t)' = Drop(t) /\ Hp(t)' = Hp(t)
  BY <1>1, <1>2 DEF Typed, Own, Drop, Hp
<1>6. ASSUME LockIds' = LockIds PROVE LocalOK(t)'
  <2>1. OwnOK(t)'
    BY <1>1, <1>2, <1>4, <1>5, <1>6 DEF LocalOK, OwnOK, HoldsAll, HoldsSome, HoldsNone
  <2>2. HpOK(t)' /\ PathOK(t)'
    BY <1>1, <1>2, <1>4, <1>5, <1>6 DEF LocalOK, HpOK, PathOK, Stage, Frozen, HoldsSome
  <2> QED BY <1>1, <1>2, <2>1, <2>2 DEF LocalOK
<1> QED BY <1>2, <1>3, <1>4, <1>5, <1>6, TouchInv

\* The locks that a search takes exist.
LEMMA SearchLock ==
  ASSUME LocksInv, NEW t \in Threads
  PROVE  /\ pc[t] = "bfs" => /\ Head(search[t].queue) \in Nodes
                             /\ Head(search[t].queue).bucket \in Buckets(Hp(t))
                             /\ LockInd(Head(search[t].queue).bucket) \in LockIds
         /\ pc[t] = "path" => /\ search[t].next \in Buckets(Hp(t))
                              /\ LockInd(search[t].next) \in LockIds
<1>1. Typed /\ LocalOK(t)
  BY DEF LocksInv
<1>2. ASSUME pc[t] = "bfs"
      PROVE  /\ Head(search[t].queue) \in Nodes
             /\ Head(search[t].queue).bucket \in Buckets(Hp(t))
  <2>1. search[t].queue \in Seq(Nodes) /\ search[t].queue # <<>>
    BY <1>1, <1>2 DEF Typed, SearchRecords, LocalOK, PathOK
  <2>2. Head(search[t].queue) = search[t].queue[1] /\ 1 \in DOMAIN search[t].queue
    BY <2>1
  <2> QED BY <1>1, <1>2, <2>1, <2>2 DEF LocalOK, PathOK
<1>3. ASSUME pc[t] = "path" PROVE search[t].next \in Buckets(Hp(t))
  <2>1. PathOf(t) \in Seq(PathSlots)
    BY <1>1 DEF Typed, SearchRecords, PathOf
  <2>2. CASE PathOf(t) = <<>>
    BY <1>1, <1>3, <2>2, KeyFacts DEF LocalOK, PathOK
  <2>3. CASE PathOf(t) # <<>>
    <3>1. PathOf(t)[Len(PathOf(t))] \in PathSlots
      BY <2>1, <2>3
    <3>2. PathOf(t)[Len(PathOf(t))].key \in Keys
      BY <3>1 DEF PathSlots
    <3>3. Hp(t) \in 0..MaxHp
      BY <1>3, KeyFacts
    <3> QED BY <1>1, <1>3, <2>3, <3>2, <3>3, HomesAreBuckets DEF LocalOK, PathOK
  <2> QED BY <2>2, <2>3
<1> QED BY <1>2, <1>3, KeyFacts

LEMMA SearchInterruptedInv ==
  ASSUME LocksInv, NEW t \in Threads, SearchInterrupted(t) PROVE LocksInv'
<1> DEFINE l == LockInd(IF pc[t] = "bfs" THEN Head(search[t].queue).bucket ELSE search[t].next)
<1>1. Typed /\ LocalOK(t)
  BY DEF LocksInv
<1>2. /\ UNCHANGED <<hp_, todo, locking, search>> /\ pc[t] \in {"bfs", "path"}
      /\ pc' = [pc EXCEPT ![t] = "snapshot"] /\ LockAndRelease(l)
  BY DEF SearchInterrupted, Goto
<1>3. l \in LockIds
  BY <1>2, SearchLock
<1> HIDE DEF l
<1>4. pc' \in [Threads -> Labels] /\ pc'[t] = "snapshot" /\ Others(t)
  BY <1>1, <1>2 DEF Typed, Others, Labels, HoldsNone
<1>5. /\ locking' \in [Threads -> LockingRecords] /\ todo' \in [Threads -> Seq(Calls)]
      /\ search' \in [Threads -> SearchRecords]
      /\ Own(t)' = Own(t) /\ Drop(t)' = Drop(t) /\ Hp(t)' = Hp(t)
  BY <1>1, <1>2 DEF Typed, Own, Drop, Hp
<1>6. ASSUME LockIds' = LockIds PROVE LocalOK(t)'
  <2>1. OwnOK(t)'
    BY <1>1, <1>2, <1>4, <1>5, <1>6 DEF LocalOK, OwnOK, HoldsAll, HoldsSome, HoldsNone
  <2>2. HpOK(t)' /\ PathOK(t)'
    BY <1>1, <1>2, <1>4, <1>5, <1>6 DEF LocalOK, HpOK, PathOK, Stage, Frozen, HoldsSome
  <2> QED BY <1>1, <1>2, <2>1, <2>2 DEF LocalOK
<1> QED BY <1>2, <1>3, <1>4, <1>5, <1>6, TouchInv

-----------------------------------------------------------------------------
\* A lock is taken.
LEMMA TakeLockInv == ASSUME LocksInv, NEW t \in Threads, TakeLock(t) PROVE LocksInv'
<1> DEFINE l == NextLock(t)
<1>1. Typed /\ LocksOK /\ LocalOK(t) /\ OwnOK(t) /\ HpOK(t) /\ PathOK(t) /\ todo[t] # <<>>
  BY DEF LocksInv, LocalOK, TakeLock
<1>2. pc[t] = "lock" /\ l \in LockIds /\ UNCHANGED <<hp_, todo, search>>
  BY DEF TakeLock
<1>3. /\ Want(t) \in SUBSET Nat /\ Want(t) # {} /\ l \in Want(t) /\ \A w \in Want(t) : l <= w
      /\ Go(t) \in {"body", "check", "shift"} /\ Want(t) \cup Own(t) = Needed(t)
      /\ Own(t) \in SUBSET Nat /\ \A a \in Own(t), w \in Want(t) : a < w
      /\ locking[t] \in LockingRecords
  <2>1. locking[t] \in LockingRecords
    BY <1>1 DEF Typed
  <2>2. Want(t) \in SUBSET Nat /\ Own(t) \in SUBSET Nat
    BY <2>1 DEF LockingRecords, Want, Own
  <2>3. Want(t) # {} /\ l = Min(Want(t))
    BY <1>1, <1>2 DEF OwnOK, NextLock, Want
  <2>4. l \in Want(t) /\ \A w \in Want(t) : l <= w
    BY <2>2, <2>3, MinIsLeast
  <2> QED BY <1>1, <1>2, <2>1, <2>2, <2>3, <2>4 DEF OwnOK
<1>4. search' \in [Threads -> SearchRecords] /\ todo' \in [Threads -> Seq(Calls)]
  BY <1>1, <1>2 DEF Typed
<1>5. ASSUME LockAndRelease(l), Goto(t, "snapshot"), UNCHANGED locking, locking[t].own = {}
      PROVE  LocksInv'
  <2>1. pc' \in [Threads -> Labels] /\ pc'[t] = "snapshot" /\ Others(t)
    BY <1>1, <1>2, <1>5 DEF Typed, Others, Labels, HoldsNone, Goto
  <2>2. /\ locking' \in [Threads -> LockingRecords]
        /\ Own(t)' = Own(t) /\ Drop(t)' = Drop(t) /\ Hp(t)' = Hp(t) /\ Own(t) = {}
    BY <1>1, <1>5 DEF Typed, Own, Drop, Hp
  <2>3. ASSUME LockIds' = LockIds PROVE LocalOK(t)'
    <3>1. OwnOK(t)'
      BY <1>1, <2>1, <2>2, <2>3 DEF OwnOK, HoldsAll, HoldsSome
    <3>2. HpOK(t)' /\ PathOK(t)'
      BY <1>1, <1>2, <2>1, <2>2, <2>3 DEF HpOK, PathOK, Stage, Frozen, HoldsSome
    <3> QED BY <1>1, <1>2, <3>1, <3>2 DEF LocalOK
  <2> HIDE DEF l
  <2> QED BY <1>2, <1>4, <1>5, <2>1, <2>2, <2>3, TouchInv
<1>6. ASSUME locking[t].own # {} \/ hp_ = Hp(t), LockAndRehash(l),
             locking' = [locking EXCEPT ![t].want = @ \ {l}, ![t].own = @ \cup {l}],
             Goto(t, IF locking[t].want = {l} THEN locking[t].go ELSE "lock")
      PROVE  LocksInv'
  <2> DEFINE r == [locking[t] EXCEPT !.want = @ \ {l}, !.own = @ \cup {l}]
             p == IF Want(t) = {l} THEN Go(t) ELSE "lock"
  <2>1. locking' = [locking EXCEPT ![t] = r]
    BY <1>6
  <2>2. /\ r \in LockingRecords /\ r.want = Want(t) \ {l} /\ r.own = Own(t) \cup {l}
        /\ r.go = Go(t) /\ r.drop = Drop(t) /\ r.hp = Hp(t)
    BY <1>3 DEF LockingRecords, Want, Own, Drop, Go, Hp
  <2>3. p \in {"lock", "body", "check", "shift"} /\ p \in Labels /\ pc' = [pc EXCEPT ![t] = p]
    BY <1>3, <1>6 DEF Labels, HoldsSome, Goto, Want, Go
  <2> HIDE DEF r
  <2>4. /\ locking' \in [Threads -> LockingRecords] /\ locking'[t] = r
        /\ pc' \in [Threads -> Labels] /\ pc'[t] = p /\ Others(t)
    BY <1>1, <1>2, <2>1, <2>2, <2>3 DEF Typed, Others
  <2>5. /\ Own(t)' = Own(t) \cup {l} /\ Want(t)' = Want(t) \ {l} /\ Drop(t)' = Drop(t)
        /\ Go(t)' = Go(t) /\ Hp(t)' = Hp(t)
        /\ Key(t)' = Key(t) /\ PathOf(t)' = PathOf(t) /\ Depth(t)' = Depth(t)
    BY <1>2, <2>2, <2>4 DEF Own, Want, Drop, Go, Hp, Key, Call, PathOf, Depth
  <2>6. /\ table' \in [Buckets(hp_) -> Rows]
        /\ locks' \in [LockIds -> LockRecords] /\ LockIds' = LockIds /\ LocksOK'
        /\ ~locks[l].flag /\ locks'[l].flag
        /\ \A k \in LockIds : locks[k].flag => locks'[k].flag
    <3> HIDE DEF l
    <3>1. table' \in [Buckets(hp_) -> Rows]
      BY <1>1, <1>2, <1>6, MigrateFacts DEF LockAndRehash
    <3>2. ~locks[l].flag
      BY <1>6 DEF LockAndRehash
    <3>3. locks' = [locks EXCEPT ![l].flag = TRUE, ![l].epoch = @ + 1, ![l].migrated = TRUE]
      BY <1>6 DEF LockAndRehash
    <3> QED BY <1>1, <1>2, <3>1, <3>2, <3>3, TakeEffect
  <2> HIDE DEF l
  <2>7. Stage(t)' = Stage(t) /\ Stage(t) = Go(t)
    BY <1>2, <1>3, <2>3, <2>4, <2>5 DEF Stage
  <2>8. Needed(t)' = Needed(t)
    BY <2>5, <2>7 DEF Needed, HomeLocks, ShiftBuckets
  <2>9. OwnOK(t)'
    <3>1. Own(t)' \subseteq LockIds' /\ Drop(t)' \subseteq Own(t)'
      BY <1>1, <1>2, <2>5, <2>6 DEF OwnOK
    <3>2. CASE Want(t) = {l}
      <4>1. pc'[t] = Go(t) /\ Own(t)' = Needed(t)'
        BY <1>3, <2>4, <2>5, <2>8, <3>2
      <4> QED BY <1>3, <3>1, <4>1 DEF OwnOK, HoldsAll, HoldsSome, HoldsNone
    <3>3. CASE Want(t) # {l}
      <4>1. pc'[t] = "lock" /\ Want(t)' # {} /\ Want(t)' \cup Own(t)' = Needed(t)'
        BY <1>3, <2>4, <2>5, <2>8, <3>3
      <4>2. \A a \in Own(t)', w \in Want(t)' : a < w
        BY <1>3, <2>5
      <4> QED BY <1>3, <2>5, <3>1, <4>1, <4>2 DEF OwnOK, HoldsAll, HoldsSome, HoldsNone
    <3> QED BY <3>2, <3>3
  <2>10. HpOK(t)'
    <3>1. Hp(t) = hp_
      BY <1>1, <1>2, <1>6 DEF HpOK, Frozen, Own
    <3> QED BY <1>1, <1>2, <2>3, <2>4, <2>5, <3>1 DEF HpOK
  <2>11. PathOK(t)'
    BY <1>1, <2>3, <2>4, <2>5, <2>7 DEF PathOK, Linked
  <2>12. LocalOK(t)'
    BY <1>1, <1>2, <2>9, <2>10, <2>11 DEF LocalOK
  <2>13. StepTyped
    BY <1>4, <2>4, <2>6 DEF StepTyped
  <2>14. \A k \in Own(t)' : locks'[k].flag /\ (k \in Own(t) \/ ~locks[k].flag)
    <3>1. \A k \in Own(t) : k \in LockIds /\ locks[k].flag
      BY <1>1 DEF LocksInv, OwnOK, Exclusive
    <3> QED BY <2>5, <2>6, <3>1
  <2> QED
    <3>1. pc[t] # "resize" /\ pc'[t] # "resize"
      BY <1>2, <2>3, <2>4
    <3> QED BY <1>2, <2>4, <2>6, <2>12, <2>13, <2>14, <3>1, StepInv
<1> QED BY <1>2, <1>5, <1>6 DEF TakeLock

LEMMA TakeNextOfAllInv ==
  ASSUME LocksInv, NEW t \in Threads, TakeNextOfAll(t) PROVE LocksInv'
<1> DEFINE l == Cardinality(locking[t].own)
           p == IF l + 1 \in LockIds THEN "lock_all" ELSE locking[t].go
           r == [locking[t] EXCEPT !.own = @ \cup {l}]
<1>1. Typed /\ LocksOK /\ LocalOK(t) /\ OwnOK(t) /\ HpOK(t) /\ todo[t] # <<>>
  BY DEF LocksInv, LocalOK, TakeNextOfAll
<1>2. /\ pc[t] = "lock_all" /\ UNCHANGED <<hp_, table, todo, search>>
      /\ ~locks[l].flag /\ locks' = [locks EXCEPT ![l].flag = TRUE, ![l].epoch = @ + 1]
      /\ locking' = [locking EXCEPT ![t].own = @ \cup {l}]
      /\ pc' = [pc EXCEPT ![t] = p]
  BY DEF TakeNextOfAll, Goto
<1>3. /\ l \in LockIds /\ l \in Nat /\ Own(t) = 0..l - 1
      /\ Go(t) \in {"clear", "expand_next", "double"}
  <2>1. PICK n \in LockIds : Own(t) = 0..n - 1
    BY <1>1, <1>2 DEF OwnOK
  <2>2. n \in Nat
    BY LockSet DEF LocksInv
  <2>3. Cardinality(0..n - 1) = n
    BY <2>2, FS_Interval
  <2> QED BY <1>1, <1>2, <2>1, <2>2, <2>3 DEF OwnOK, Own
<1>4. p \in Labels /\ p \in {"lock_all", "clear", "expand_next", "double"}
  BY <1>3 DEF Go, Labels, HoldsAll
<1>5. p = "lock_all" <=> l + 1 \in LockIds
  BY <1>3 DEF Go
<1>6. Own(t) \cup {l} = 0..(l + 1) - 1 /\ (l + 1 \notin LockIds => Own(t) \cup {l} = LockIds)
  <2>1. PICK n \in Nat \ {0} : LockIds = 0..n - 1
    BY LockSet DEF LocksInv
  <2> HIDE DEF l
  <2>2. Own(t) \cup {l} = 0..(l + 1) - 1
    BY <1>3
  <2>3. l + 1 \notin LockIds => l + 1 = n
    BY <1>3, <2>1
  <2> QED BY <2>1, <2>2, <2>3
<1> HIDE DEF l, p
<1>7. locking' = [locking EXCEPT ![t] = r]
  BY <1>2
<1>8. /\ r \in LockingRecords /\ r.own = Own(t) \cup {l}
      /\ r.go = Go(t) /\ r.drop = Drop(t) /\ r.hp = Hp(t)
  BY <1>1, <1>3 DEF Typed, LockingRecords, Own, Drop, Go, Hp
<1> HIDE DEF r
<1>9. /\ locking' \in [Threads -> LockingRecords] /\ locking'[t] = r
      /\ pc' \in [Threads -> Labels] /\ pc'[t] = p /\ Others(t)
      /\ search' \in [Threads -> SearchRecords] /\ todo' \in [Threads -> Seq(Calls)]
  BY <1>1, <1>2, <1>4, <1>7, <1>8 DEF Typed, Others
<1>10. /\ Own(t)' = Own(t) \cup {l} /\ Drop(t)' = Drop(t) /\ Go(t)' = Go(t) /\ Hp(t)' = Hp(t)
  BY <1>8, <1>9 DEF Own, Drop, Go, Hp
<1>11. /\ locks' \in [LockIds -> LockRecords] /\ LockIds' = LockIds /\ LocksOK'
       /\ locks'[l].flag /\ \A k \in LockIds : locks[k].flag => locks'[k].flag
  BY <1>1, <1>2, <1>3, TakeEffect
<1>12. OwnOK(t)'
  <2>1. Own(t)' \subseteq LockIds' /\ Drop(t)' \subseteq Own(t)'
    BY <1>1, <1>3, <1>10, <1>11 DEF OwnOK
  <2>2. CASE l + 1 \in LockIds
    <3>1. Own(t)' = 0..(l + 1) - 1 /\ l + 1 \in LockIds' /\ pc'[t] = "lock_all"
      BY <1>5, <1>6, <1>9, <1>10, <1>11, <2>2
    <3> QED BY <1>3, <1>10, <2>1, <3>1 DEF OwnOK, HoldsAll, HoldsSome, HoldsNone
  <2>3. CASE l + 1 \notin LockIds
    <3>1. Own(t)' = LockIds' /\ pc'[t] \in {"clear", "expand_next", "double"}
      BY <1>4, <1>5, <1>6, <1>9, <1>10, <1>11, <2>3
    <3> QED BY <2>1, <3>1 DEF OwnOK, HoldsAll, HoldsSome, HoldsNone
  <2> QED BY <2>2, <2>3
<1>13. HpOK(t)' /\ PathOK(t)'
  BY <1>1, <1>2, <1>4, <1>9, <1>10 DEF HpOK, PathOK, Stage, Frozen, HoldsSome
<1>14. LocalOK(t)'
  BY <1>1, <1>2, <1>12, <1>13 DEF LocalOK
<1>15. StepTyped
  BY <1>1, <1>2, <1>9, <1>11 DEF StepTyped, Typed
<1>16. \A k \in Own(t)' : locks'[k].flag /\ (k \in Own(t) \/ ~locks[k].flag)
  <2>1. \A k \in Own(t) : k \in LockIds /\ locks[k].flag
    BY <1>1 DEF LocksInv, OwnOK, Exclusive
  <2> QED BY <1>2, <1>10, <1>11, <2>1
<1> QED
  <2>1. pc[t] # "resize" /\ pc'[t] # "resize"
    BY <1>2, <1>4, <1>9
  <2> QED BY <1>2, <1>9, <1>11, <1>14, <1>15, <1>16, <2>1, StepInv

-----------------------------------------------------------------------------
\* A lock is released.
LEMMA FreeEffect ==
  ASSUME Typed, LocksOK, NEW l \in LockIds, NEW m \in BOOLEAN, hp_' = hp_, locks[l].flag,
         locks' = Unlocked(l, m)
  PROVE  /\ locks' \in [LockIds -> LockRecords] /\ LockIds' = LockIds /\ LocksOK'
         /\ \A k \in LockIds \ {l} : locks'[k] = locks[k]
<1>1. locks \in [LockIds -> LockRecords] /\ locks[l] \in LockRecords /\ locks[l].epoch \in Nat
  BY DEF Typed, LockRecords
<1> DEFINE e == IF m THEN locks[l].epoch + 1 ELSE locks[l].epoch - 1
           r == [locks[l] EXCEPT !.flag = FALSE, !.epoch = e]
<1>2. locks' = [locks EXCEPT ![l] = r]
  BY DEF Unlocked
<1>3. e \in Nat /\ ~(e % 2 = 1)
  <2>1. locks[l].epoch % 2 = 1
    BY DEF LocksOK, Locked
  <2>2. CASE m
    BY <1>1, <2>1, <2>2, Parity
  <2>3. CASE ~m
    BY <1>1, <2>1, <2>3, Parity
  <2> QED BY <2>2, <2>3
<1> HIDE DEF e
<1>4. r \in LockRecords /\ r.flag = FALSE /\ r.epoch = e /\ (r.migrated <=> locks[l].migrated)
  <2>1. r \in LockRecords
    BY <1>1, <1>3 DEF LockRecords
  <2>2. r.flag = FALSE
    BY <1>1 DEF LockRecords
  <2>3. r.epoch = e
    BY <1>1 DEF LockRecords
  <2>4. r.migrated <=> locks[l].migrated
    BY <1>1 DEF LockRecords
  <2> QED BY <2>1, <2>2, <2>3, <2>4
<1> HIDE DEF r
<1>5. /\ locks' \in [LockIds -> LockRecords] /\ LockIds' = LockIds
      /\ locks'[l] = r /\ \A k \in LockIds \ {l} : locks'[k] = locks[k]
  BY <1>1, <1>2, <1>4 DEF LockIds
<1>6. \A k \in LockIds \ {l} : /\ locks'[k].flag <=> Locked(k)'
                               /\ ~locks'[k].migrated => hp_' > LockPow
  BY <1>5 DEF LocksOK, Locked
<1>7. (locks'[l].flag <=> Locked(l)') /\ (~locks'[l].migrated => hp_' > LockPow)
  BY <1>3, <1>4, <1>5 DEF Locked, LocksOK
<1>8. LocksOK'
  BY <1>5, <1>6, <1>7 DEF LocksOK
<1> QED BY <1>5, <1>8

LEMMA ReleaseInv == ASSUME LocksInv, NEW t \in Threads, Release(t) PROVE LocksInv'
<1>1. /\ Typed /\ LocksOK /\ LocalOK(t) /\ OwnOK(t) /\ HpOK(t) /\ PathOK(t)
      /\ locking[t] \in LockingRecords /\ pc[t] = "release"
  BY DEF LocksInv, LocalOK, Typed, Release
<1>2. PICK l \in Drop(t) :
         /\ locks' = Unlocked(l, locking[t].modified)
         /\ locking' = [locking EXCEPT ![t].drop = @ \ {l}, ![t].own = @ \ {l}]
         /\ Goto(t, IF Drop(t) = {l} THEN Go(t) ELSE "release")
  BY DEF Release, Drop, Go
<1> DEFINE r == [locking[t] EXCEPT !.drop = @ \ {l}, !.own = @ \ {l}]
           p == IF Drop(t) = {l} THEN Go(t) ELSE "release"
<1>3. /\ l \in Own(t) /\ l \in LockIds /\ locks[l].flag /\ locking[t].modified \in BOOLEAN
      /\ UNCHANGED <<hp_, table, todo, search>>
      /\ Go(t) \in {"return", "search", "snapshot", "move", "recheck"}
  BY <1>1 DEF LocksInv, OwnOK, Exclusive, LockingRecords, Release
<1>4. /\ locks' \in [LockIds -> LockRecords] /\ LockIds' = LockIds /\ LocksOK'
      /\ \A k \in LockIds \ {l} : locks'[k] = locks[k]
  BY <1>1, <1>2, <1>3, FreeEffect
<1>5. locking' = [locking EXCEPT ![t] = r]
  BY <1>2
<1>6. /\ r \in LockingRecords /\ r.own = Own(t) \ {l} /\ r.drop = Drop(t) \ {l}
      /\ r.go = Go(t) /\ r.hp = Hp(t)
  BY <1>1 DEF LockingRecords, Own, Drop, Go, Hp
<1> HIDE DEF r
<1>7. /\ p \in {"release", "return", "search", "snapshot", "move", "recheck"} /\ p \in Labels
      /\ pc' = [pc EXCEPT ![t] = p]
  BY <1>2, <1>3 DEF Labels, HoldsNone, HoldsSome, Goto
<1>8. /\ locking' \in [Threads -> LockingRecords] /\ locking'[t] = r
      /\ pc' \in [Threads -> Labels] /\ pc'[t] = p /\ Others(t)
      /\ search' \in [Threads -> SearchRecords] /\ todo' \in [Threads -> Seq(Calls)]
  BY <1>1, <1>3, <1>5, <1>6, <1>7 DEF Typed, Others
<1>9. /\ Own(t)' = Own(t) \ {l} /\ Drop(t)' = Drop(t) \ {l} /\ Go(t)' = Go(t) /\ Hp(t)' = Hp(t)
      /\ Key(t)' = Key(t) /\ PathOf(t)' = PathOf(t)
  BY <1>3, <1>6, <1>8 DEF Own, Drop, Go, Hp, Key, Call, PathOf
<1>10. Stage(t)' = Stage(t) /\ Stage(t) = Go(t)
  BY <1>1, <1>3, <1>7, <1>8, <1>9 DEF Stage
<1>11. HomeLocks(t)' = HomeLocks(t)
  BY <1>9 DEF HomeLocks
<1>12. OwnOK(t)'
  <2>1. Own(t)' \subseteq LockIds' /\ Drop(t)' \subseteq Own(t)'
    BY <1>1, <1>4, <1>9 DEF OwnOK
  <2>2. CASE Drop(t) = {l} /\ Go(t) = "recheck"
    <3>1. pc'[t] = "recheck" /\ Own(t)' = HomeLocks(t)'
      BY <1>1, <1>8, <1>9, <1>11, <2>2 DEF OwnOK
    <3>2. Needed(t)' = HomeLocks(t)'
      BY <1>10, <2>2 DEF Needed
    <3> QED BY <2>1, <3>1, <3>2 DEF OwnOK, HoldsAll, HoldsNone
  <2>3. CASE Drop(t) = {l} /\ Go(t) # "recheck"
    <3>1. pc'[t] \in {"return", "search", "snapshot", "move"} /\ Own(t)' = {}
      BY <1>1, <1>3, <1>8, <1>9, <2>3 DEF OwnOK
    <3> QED BY <2>1, <3>1 DEF OwnOK, HoldsAll, HoldsNone, HoldsSome
  <2>4. CASE Drop(t) # {l}
    <3>1. pc'[t] = "release" /\ Drop(t)' # {}
      BY <1>8, <1>9, <2>4
    <3>2. \/ Go(t)' \in {"return", "search", "snapshot", "move"} /\ Drop(t)' = Own(t)'
          \/ Go(t)' = "recheck" /\ Own(t)' \ Drop(t)' = HomeLocks(t)'
      BY <1>1, <1>9, <1>11 DEF OwnOK
    <3> QED BY <2>1, <3>1, <3>2 DEF OwnOK, HoldsAll, HoldsNone, HoldsSome
  <2> QED BY <2>2, <2>3, <2>4
<1>13. HpOK(t)'
  BY <1>1, <1>3, <1>7, <1>8, <1>9 DEF HpOK, Frozen, HoldsSome
<1>14. PathOK(t)'
  BY <1>1, <1>7, <1>8, <1>9, <1>10 DEF PathOK, Linked
<1>15. LocalOK(t)'
  BY <1>1, <1>3, <1>12, <1>13, <1>14 DEF LocalOK
<1>16. StepTyped
  BY <1>1, <1>3, <1>4, <1>8 DEF StepTyped, Typed
<1>17. \A k \in Own(t)' : locks'[k].flag /\ k \in Own(t)
  BY <1>1, <1>4, <1>9 DEF LocksInv, OwnOK, Exclusive
<1>18. \A k \in LockIds \ Own(t) : locks[k].flag => locks'[k].flag
  BY <1>3, <1>4
<1> QED
  <2>1. pc[t] # "resize" /\ pc'[t] # "resize"
    BY <1>1, <1>7, <1>8
  <2> QED BY <1>3, <1>4, <1>8, <1>15, <1>16, <1>17, <1>18, <2>1, StepInv

-----------------------------------------------------------------------------
\* The breadth-first search and the walk along the path it found.
LEMMA RotatedSlot ==
  ASSUME NEW x \in Nodes, NEW j \in SlotIds
  PROVE  Rotated(x, j) \in SlotIds
<1> DEFINE start == IF x.slots = <<>> THEN x.root ELSE x.slots[Len(x.slots)] - 1
<1>1. Slots \in Nat \ {0} /\ SlotIds = 1..Slots
  BY SlotSets, MapAssumption
<1>2. start \in Nat
  <2>1. x.slots \in Seq(SlotIds) /\ x.root \in Nat
    BY DEF Nodes
  <2>2. x.slots # <<>> => x.slots[Len(x.slots)] \in SlotIds
    BY <2>1
  <2> QED BY <1>1, <2>1, <2>2
<1> HIDE DEF start
<1>3. start + j - 1 \in Nat
  BY <1>1, <1>2
<1>4. \A a \in Nat, m \in Nat \ {0} : (a % m) + 1 \in 1..m
  OBVIOUS
<1>5. Rotated(x, j) = ((start + j - 1) % Slots) + 1
  BY DEF Rotated, start
<1> QED BY <1>1, <1>3, <1>4, <1>5

LEMMA FullBucket ==
  ASSUME NEW tab \in [Buckets(hp_) -> Rows], NEW b \in Buckets(hp_), NEW i \in SlotIds,
         tab[b][i] # Empty
  PROVE  tab[b][i] \in EntryRecords /\ tab[b][i].key \in Keys
<1>1. tab[b] \in Rows
  OBVIOUS
<1>2. tab[b][i] \in EntryRecords
  BY <1>1, Zenon DEF Rows
<1> QED BY <1>2 DEF EntryRecords

LEMMA BfsInv == ASSUME LocksInv, NEW t \in Threads, Bfs(t) PROVE LocksInv'
<1> DEFINE x == Head(search[t].queue)
           free == {j \in SlotIds : Rotated(x, j) \in FreeSlots(table', x.bucket)}
           child(j) == [bucket |-> Other(table'[x.bucket][Rotated(x, j)].key, x.bucket, Hp(t)),
                        root |-> x.root, slots |-> Append(x.slots, Rotated(x, j))]
           children == IF Len(x.slots) < PathLen - 1 THEN [j \in SlotIds |-> child(j)] ELSE <<>>
           queue == Tail(search[t].queue) \o children
           l == LockInd(x.bucket)
<1>1. Typed /\ LocksOK /\ LocalOK(t) /\ OwnOK(t) /\ HpOK(t) /\ PathOK(t)
  BY Zenon DEF LocksInv, LocalOK
<1>2. /\ pc[t] = "bfs" /\ hp_ = Hp(t) /\ LockAndRelease(l)
      /\ UNCHANGED <<hp_, todo>>
  BY Zenon DEF Bfs
<1>3. x \in Nodes /\ x.bucket \in Buckets(Hp(t)) /\ l \in LockIds
  BY <1>2, SearchLock
<1>4. table' \in [Buckets(hp_) -> Rows]
  BY <1>1, <1>2, <1>3, TouchEffect
<1>5. /\ x.slots \in Seq(SlotIds) /\ x.root \in {0, 1}
      /\ \A j \in SlotIds : Rotated(x, j) \in SlotIds /\ Append(x.slots, Rotated(x, j)) \in Seq(SlotIds)
  BY <1>3, RotatedSlot DEF Nodes
<1>6. /\ search[t] \in SearchRecords /\ search[t].queue \in Seq(Nodes) /\ search[t].queue # <<>>
      /\ locking[t] \in LockingRecords /\ todo[t] # <<>>
  BY <1>1, <1>2 DEF Typed, SearchRecords, PathOK, LocalOK
<1> HIDE DEF l
<1>7. ASSUME free # {},
             search' = [search EXCEPT ![t] = [NoSearch EXCEPT
                 !.slots = Append(x.slots, Rotated(x, Min(free))),
                 !.next = IF x.root = 0 THEN I1(Key(t), Hp(t)) ELSE I2(Key(t), Hp(t))]],
             Goto(t, "path"), UNCHANGED locking
      PROVE  LocksInv'
  <2> DEFINE sl == Append(x.slots, Rotated(x, Min(free)))
             nx == IF x.root = 0 THEN I1(Key(t), Hp(t)) ELSE I2(Key(t), Hp(t))
             s == [NoSearch EXCEPT !.slots = sl, !.next = nx]
  <2>1. Min(free) \in SlotIds
    <3>1. free \in SUBSET Nat /\ free \subseteq SlotIds
      BY SlotSets
    <3> HIDE DEF free
    <3> QED BY <1>7, <3>1, MinIsLeast
  <2>2. sl \in Seq(SlotIds) /\ sl # <<>>
    <3>1. \A i \in SlotIds : Append(x.slots, i) \in Seq(SlotIds) /\ Append(x.slots, i) # <<>>
      BY <1>5, SMTT(60)
    <3>2. Rotated(x, Min(free)) \in SlotIds
      BY <1>5, <2>1
    <3> HIDE DEF x, free
    <3> QED BY <3>1, <3>2
  <2>3. nx \in Homes(Key(t), Hp(t)) /\ nx \in Nat
    BY <1>2, KeyFacts DEF Homes
  <2> HIDE DEF sl, nx
  <2>4. NoSearch \in SearchRecords /\ NoSearch.path = <<>>
    BY DEF NoSearch, SearchRecords
  <2>5. search' = [search EXCEPT ![t] = s]
    BY <1>7 DEF sl, nx
  <2>6. s \in SearchRecords /\ s.slots = sl /\ s.next = nx /\ s.path = <<>>
    BY <2>2, <2>3, <2>4 DEF SearchRecords
  <2> HIDE DEF s
  <2>7. /\ search' \in [Threads -> SearchRecords] /\ search'[t] = s
        /\ pc' \in [Threads -> Labels] /\ pc'[t] = "path" /\ Others(t)
    BY <1>1, <1>2, <1>7, <2>5, <2>6 DEF Typed, Others, Goto, Labels, HoldsNone
  <2>8. /\ locking' \in [Threads -> LockingRecords] /\ todo' \in [Threads -> Seq(Calls)]
        /\ Own(t)' = Own(t) /\ Drop(t)' = Drop(t) /\ Hp(t)' = Hp(t) /\ Key(t)' = Key(t)
        /\ PathOf(t)' = <<>>
    BY <1>1, <1>2, <1>7, <2>6, <2>7 DEF Typed, Own, Drop, Hp, Key, Call, PathOf
  <2>9. ASSUME LockIds' = LockIds PROVE LocalOK(t)'
    <3>1. OwnOK(t)'
      BY <1>1, <1>2, <2>7, <2>8, <2>9 DEF OwnOK, HoldsAll, HoldsSome, HoldsNone
    <3>2. HpOK(t)'
      BY <1>1, <1>2, <2>7, <2>8 DEF HpOK, Frozen, HoldsSome
    <3>3. Linked(<<>>, Hp(t))
      BY DEF Linked
    <3>4. PathOK(t)'
      BY <2>2, <2>3, <2>6, <2>7, <2>8, <3>3 DEF PathOK, Stage
    <3> QED BY <1>2, <1>6, <3>1, <3>2, <3>4 DEF LocalOK
  <2> QED BY <1>2, <1>3, <2>7, <2>8, <2>9, TouchInv
<1>8. ASSUME free = {}, queue # <<>>, search' = [search EXCEPT ![t].queue = queue],
             UNCHANGED <<pc, locking>>
      PROVE  LocksInv'
  <2> DEFINE Here_ == {n \in Nodes : n.bucket \in Buckets(Hp(t))}
  <2>1. \A j \in SlotIds : child(j) \in Here_
    <3> SUFFICES ASSUME NEW j \in SlotIds PROVE child(j) \in Here_
      BY Zenon
    <3>1. table'[x.bucket][Rotated(x, j)] # Empty
      BY <1>5, <1>8, Zenon DEF FreeSlots
    <3>2. table'[x.bucket][Rotated(x, j)].key \in Keys
      BY <1>2, <1>3, <1>4, <1>5, <3>1, FullBucket
    <3>3. child(j).bucket \in Buckets(Hp(t)) /\ child(j).bucket \in Nat
      <4>1. Other(table'[x.bucket][Rotated(x, j)].key, x.bucket, Hp(t)) \in Buckets(Hp(t))
        BY <1>2, <3>2, KeyFacts, OtherIsHome, HomesAreBuckets
      <4> QED BY <1>2, <4>1, KeyFacts
    <3> QED BY <1>5, <3>3, Zenon DEF Nodes
  <2>2. children \in Seq(Here_)
    <3> HIDE DEF child, Here_
    <3>1. [j \in SlotIds |-> child(j)] \in Seq(Here_)
      BY <2>1, SlotSets
    <3> QED BY <3>1
  <2>3. Tail(search[t].queue) \in Seq(Here_)
    <3>1. \A i \in 1..Len(search[t].queue) : search[t].queue[i] \in Here_
      BY <1>1, <1>2, <1>6 DEF PathOK
    <3> HIDE DEF Here_
    <3>2. search[t].queue \in Seq(Here_)
      BY <1>6, <3>1
    <3> QED BY <1>6, <3>2
  <2> HIDE DEF children, Here_
  <2>4. queue \in Seq(Here_)
    BY <2>2, <2>3
  <2> HIDE DEF queue
  <2>5. queue \in Seq(Nodes) /\ \A i \in DOMAIN queue : queue[i].bucket \in Buckets(Hp(t))
    <3>1. \A i \in DOMAIN queue : queue[i] \in Here_
      BY <2>4
    <3>2. \A i \in DOMAIN queue : queue[i] \in Nodes /\ queue[i].bucket \in Buckets(Hp(t))
      BY <3>1 DEF Here_
    <3>3. queue \in Seq(Nodes)
      BY <2>4, <3>2
    <3> QED BY <3>2, <3>3
  <2>6. /\ search' \in [Threads -> SearchRecords] /\ search'[t].queue = queue
        /\ \A u \in Threads \ {t} : search'[u] = search[u]
    <3>1. [search[t] EXCEPT !.queue = queue] \in SearchRecords
          /\ [search[t] EXCEPT !.queue = queue].queue = queue
      BY <1>6, <2>5 DEF SearchRecords
    <3>2. search' = [search EXCEPT ![t] = [search[t] EXCEPT !.queue = queue]]
      BY <1>8
    <3> QED BY <1>1, <3>1, <3>2 DEF Typed
  <2>7. /\ pc' \in [Threads -> Labels] /\ pc'[t] = "bfs" /\ Others(t)
        /\ locking' \in [Threads -> LockingRecords] /\ todo' \in [Threads -> Seq(Calls)]
        /\ Own(t)' = Own(t) /\ Drop(t)' = Drop(t) /\ Hp(t)' = Hp(t)
    BY <1>1, <1>2, <1>8, <2>6 DEF Typed, Own, Drop, Hp, Others
  <2>8. ASSUME LockIds' = LockIds PROVE LocalOK(t)'
    <3>1. OwnOK(t)'
      BY <1>1, <1>2, <2>7, <2>8 DEF OwnOK, HoldsAll, HoldsSome, HoldsNone
    <3>2. HpOK(t)'
      BY <1>1, <1>2, <2>7 DEF HpOK, Frozen, HoldsSome
    <3>3. PathOK(t)'
      BY <1>8, <2>5, <2>6, <2>7 DEF PathOK, Stage
    <3> QED BY <1>2, <1>6, <3>1, <3>2, <3>3 DEF LocalOK
  <2> QED BY <1>2, <1>3, <2>6, <2>7, <2>8, TouchInv, Zenon
<1>9. ASSUME search' = [search EXCEPT ![t] = NoSearch],
             locking' = [locking EXCEPT ![t].go = "double"], Goto(t, "lock_all")
      PROVE  LocksInv'
  <2>1. NoSearch \in SearchRecords
    BY DEF NoSearch, SearchRecords
  <2>2. /\ search' \in [Threads -> SearchRecords]
        /\ pc' \in [Threads -> Labels] /\ pc'[t] = "lock_all"
        /\ \A u \in Threads \ {t} : search'[u] = search[u] /\ pc'[u] = pc[u]
    BY <1>1, <1>9, <2>1 DEF Typed, Goto, Labels
  <2>3. /\ locking' \in [Threads -> LockingRecords] /\ todo' \in [Threads -> Seq(Calls)]
        /\ Own(t)' = Own(t) /\ Drop(t)' = Drop(t) /\ Hp(t)' = Hp(t) /\ Go(t)' = "double"
        /\ \A u \in Threads \ {t} : locking'[u] = locking[u]
    BY <1>1, <1>2, <1>6, <1>9 DEF Typed, Own, Drop, Hp, Go, LockingRecords, Labels, HoldsAll
  <2>4. Others(t)
    BY <1>2, <2>2, <2>3 DEF Others
  <2>5. ASSUME LockIds' = LockIds PROVE LocalOK(t)'
    <3>1. Own(t) = {} /\ 0 \in LockIds /\ {} = 0..0 - 1
      BY <1>1, <1>2, LockSet DEF LocksInv, OwnOK, HoldsNone
    <3>2. OwnOK(t)'
      BY <1>1, <2>2, <2>3, <2>5, <3>1 DEF OwnOK, HoldsAll, HoldsSome, HoldsNone
    <3>3. HpOK(t)' /\ PathOK(t)'
      BY <1>1, <1>2, <2>2, <2>3 DEF HpOK, Frozen, HoldsSome, PathOK, Stage
    <3> QED BY <1>2, <1>6, <3>2, <3>3 DEF LocalOK
  <2> QED BY <1>2, <1>3, <2>2, <2>3, <2>4, <2>5, TouchInv
<1> QED BY <1>7, <1>8, <1>9, Zenon DEF Bfs

LEMMA LinkedAppend ==
  ASSUME NEW path \in Seq(PathSlots), NEW n \in PathSlots, NEW h, Linked(path, h),
         path # <<>> => n.bucket \in Homes(path[Len(path)].key, h)
  PROVE  /\ Append(path, n) \in Seq(PathSlots) /\ Append(path, n) # <<>>
         /\ Linked(Append(path, n), h)
         /\ Len(Append(path, n)) = Len(path) + 1 /\ Append(path, n)[Len(path) + 1] = n
         /\ Append(path, n)[1] = IF path = <<>> THEN n ELSE path[1]
<1> DEFINE q == Append(path, n)
<1>1. /\ q \in Seq(PathSlots) /\ q # <<>> /\ Len(q) = Len(path) + 1 /\ q[Len(path) + 1] = n
      /\ \A j \in 1..Len(path) : q[j] = path[j]
  <2>1. q \in Seq(PathSlots) /\ Len(q) = Len(path) + 1
    OBVIOUS
  <2>2. q[Len(path) + 1] = n
    OBVIOUS
  <2>3. \A j \in 1..Len(path) : q[j] = path[j]
    OBVIOUS
  <2>4. q # <<>>
    BY <2>1
  <2> QED BY <2>1, <2>2, <2>3, <2>4
<1>2. Len(path) \in Nat /\ (path = <<>> <=> Len(path) = 0)
  OBVIOUS
<1> HIDE DEF q
<1>3. ASSUME NEW j \in 1..Len(q) - 1 PROVE q[j + 1].bucket \in Homes(q[j].key, h)
  <2>1. CASE j = Len(path)
    BY <1>1, <1>2, <2>1
  <2>2. CASE j # Len(path)
    <3>1. j \in 1..Len(path) - 1 /\ j \in 1..Len(path) /\ j + 1 \in 1..Len(path)
      BY <1>1, <1>2, <2>2
    <3> QED BY <1>1, <3>1 DEF Linked
  <2> QED BY <2>1, <2>2
<1>4. Linked(q, h)
  BY <1>3 DEF Linked
<1>5. q[1] = IF path = <<>> THEN n ELSE path[1]
  BY <1>1, <1>2
<1> QED BY <1>1, <1>4, <1>5 DEF q

LEMMA PathInv == ASSUME LocksInv, NEW t \in Threads, Path(t) PROVE LocksInv'
<1> DEFINE b == search[t].next
           i == Head(search[t].slots)
           e == table'[b][i]
           ends == e = Empty \/ Tail(search[t].slots) = <<>>
           n == [bucket |-> b, slot |-> i, key |-> IF e = Empty THEN Key(t) ELSE e.key]
           path == Append(search[t].path, n)
           slots == IF ends THEN <<>> ELSE Tail(search[t].slots)
           next == IF ends THEN 0 ELSE Other(e.key, b, Hp(t))
           s == [NoSearch EXCEPT !.path = path, !.slots = slots, !.next = next]
           l == LockInd(b)
<1>1. Typed /\ LocksOK /\ LocalOK(t) /\ OwnOK(t) /\ HpOK(t) /\ PathOK(t)
  BY DEF LocksInv, LocalOK
<1>2. /\ pc[t] = "path" /\ hp_ = Hp(t) /\ LockAndRelease(l)
      /\ UNCHANGED <<hp_, todo, locking>>
      /\ search' = [search EXCEPT ![t] = s]
      /\ Goto(t, IF ends THEN "move" ELSE "path")
  BY SMTT(60) DEF Path
<1>3. b \in Buckets(Hp(t)) /\ l \in LockIds
  BY <1>2, SearchLock, SMTT(60)
<1>4. table' \in [Buckets(hp_) -> Rows]
  BY <1>1, <1>2, <1>3, TouchEffect, SMTT(60)
<1>5. /\ search[t].slots \in Seq(SlotIds) /\ search[t].slots # <<>>
      /\ search[t].path \in Seq(PathSlots) /\ PathOf(t) = search[t].path /\ todo[t] # <<>>
  BY <1>1, <1>2 DEF Typed, SearchRecords, PathOf, LocalOK, PathOK
<1>6. i \in SlotIds /\ Tail(search[t].slots) \in Seq(SlotIds)
  BY <1>5
<1>7. e # Empty => e.key \in Keys
  <2> HIDE DEF i, b
  <2> QED BY <1>2, <1>3, <1>4, <1>6, FullBucket, SMTT(60)
<1>8. n \in PathSlots /\ n.bucket = b /\ n.key = IF e = Empty THEN Key(t) ELSE e.key
  <2>1. b \in Nat /\ Key(t) \in Keys
    BY <1>2, <1>3, KeyFacts
  <2> HIDE DEF b, i, e
  <2> QED BY <1>6, <1>7, <2>1, SMTT(60) DEF PathSlots
<1>9. /\ Linked(PathOf(t), Hp(t)) /\ (PathOf(t) = <<>> => b \in Homes(Key(t), Hp(t)))
      /\ PathOf(t) # <<>> => /\ b \in Homes(PathOf(t)[Len(PathOf(t))].key, Hp(t))
                             /\ PathOf(t)[1].bucket \in Homes(Key(t), Hp(t))
  BY <1>1, <1>2 DEF PathOK
<1> HIDE DEF n, l
<1>10. /\ path \in Seq(PathSlots) /\ path # <<>> /\ Linked(path, Hp(t))
       /\ path[1].bucket \in Homes(Key(t), Hp(t)) /\ path[Len(path)] = n
  BY <1>5, <1>8, <1>9, LinkedAppend
<1>11. /\ ~ends => slots # <<>> /\ next \in Homes(n.key, Hp(t))
       /\ slots \in Seq(SlotIds)
  <2>1. ~ends => e # Empty /\ slots = Tail(search[t].slots) /\ slots # <<>> /\ next = Other(e.key, b, Hp(t))
    OBVIOUS
  <2>2. ~ends => next \in Homes(n.key, Hp(t))
    BY <1>8, <2>1, OtherIsHome
  <2>3. slots \in Seq(SlotIds)
    BY <1>6
  <2> QED BY <2>1, <2>2, <2>3
<1>12. next \in Nat
  <2>1. ~ends => next \in Buckets(Hp(t))
    <3>1. Hp(t) \in 0..MaxHp
      BY <1>2, KeyFacts, SMTT(60)
    <3>2. ~ends => n.key \in Keys
      BY <1>8 DEF PathSlots
    <3> HIDE DEF next, ends
    <3> QED BY <1>11, <3>1, <3>2, HomesAreBuckets, SMTT(60)
  <2>2. ~ends => next \in Nat
    BY <1>2, <2>1, KeyFacts
  <2> QED BY <2>2, SMTT(60)
<1> HIDE DEF path, slots, next, ends
<1>13. NoSearch \in SearchRecords
  BY DEF NoSearch, SearchRecords
<1>14. s \in SearchRecords /\ s.slots = slots /\ s.next = next /\ s.path = path
  BY <1>10, <1>11, <1>12, <1>13 DEF SearchRecords
<1> HIDE DEF s
<1>15. /\ search' \in [Threads -> SearchRecords] /\ search'[t] = s
       /\ \A u \in Threads \ {t} : search'[u] = search[u]
  BY <1>1, <1>2, <1>14 DEF Typed
<1>16. /\ pc' \in [Threads -> Labels] /\ pc'[t] = IF ends THEN "move" ELSE "path"
       /\ \A u \in Threads \ {t} : pc'[u] = pc[u]
  BY <1>1, <1>2 DEF Typed, Goto, Labels, HoldsNone
<1>17. /\ locking' \in [Threads -> LockingRecords] /\ todo' \in [Threads -> Seq(Calls)]
       /\ Own(t)' = Own(t) /\ Drop(t)' = Drop(t) /\ Hp(t)' = Hp(t) /\ Key(t)' = Key(t)
       /\ PathOf(t)' = path /\ Others(t)
  BY <1>1, <1>2, <1>14, <1>15, <1>16 DEF Typed, Own, Drop, Hp, Key, Call, PathOf, Others
<1>18. ASSUME LockIds' = LockIds PROVE LocalOK(t)'
  <2>1. OwnOK(t)'
    BY <1>1, <1>2, <1>16, <1>17, <1>18 DEF OwnOK, HoldsAll, HoldsSome, HoldsNone
  <2>2. HpOK(t)'
    BY <1>1, <1>2, <1>16, <1>17 DEF HpOK, Frozen, HoldsSome
  <2>3. ASSUME ends PROVE PathOK(t)'
    BY <1>10, <1>16, <1>17, <2>3 DEF PathOK, Stage
  <2>4. ASSUME ~ends PROVE PathOK(t)'
    BY <1>10, <1>11, <1>14, <1>15, <1>16, <1>17, <2>4 DEF PathOK, Stage
  <2> QED BY <1>2, <1>5, <2>1, <2>2, <2>3, <2>4 DEF LocalOK
<1> QED BY <1>2, <1>3, <1>15, <1>16, <1>17, <1>18, TouchInv, SMTT(60)

-----------------------------------------------------------------------------
\* The bodies of the operations.
LEMMA PutTyped ==
  ASSUME NEW D, NEW tab \in [D -> Rows], NEW b \in D, NEW i \in SlotIds,
         NEW v \in EntryRecords \cup {Empty}
  PROVE  /\ [tab EXCEPT ![b][i] = v] \in [D -> Rows]
         /\ \A c \in D \ {b} : [tab EXCEPT ![b][i] = v][c] = tab[c]
         /\ \A j \in SlotIds \ {i} : [tab EXCEPT ![b][i] = v][b][j] = tab[b][j]
         /\ [tab EXCEPT ![b][i] = v][b][i] = v
<1> DEFINE row == [tab[b] EXCEPT ![i] = v]
<1>1. tab[b] \in Rows
  OBVIOUS
<1>2. row \in Rows /\ row[i] = v /\ \A j \in SlotIds \ {i} : row[j] = tab[b][j]
  BY <1>1 DEF Rows
<1>3. [tab EXCEPT ![b][i] = v] = [tab EXCEPT ![b] = row]
  OBVIOUS
<1> HIDE DEF row
<1> QED BY <1>2, <1>3

LEMMA CountEffect ==
  ASSUME Typed, LocksOK, NEW l, hp_' = hp_,
         \/ locks' = [locks EXCEPT ![l].count = @ + 1]
         \/ locks' = [locks EXCEPT ![l].count = @ - 1]
         \/ locks' = locks
  PROVE  /\ locks' \in [LockIds -> LockRecords] /\ LockIds' = LockIds /\ LocksOK'
         /\ \A k \in LockIds : /\ locks'[k].flag <=> locks[k].flag
                               /\ locks'[k].migrated <=> locks[k].migrated
                               /\ locks'[k].epoch = locks[k].epoch
<1>1. locks \in [LockIds -> LockRecords]
  BY DEF Typed
<1>2. LockIds' = LockIds
  BY DEF LockIds
<1>3. ASSUME NEW k \in LockIds
      PROVE  /\ locks'[k] \in LockRecords
             /\ locks'[k].flag <=> locks[k].flag
             /\ locks'[k].migrated <=> locks[k].migrated
             /\ locks'[k].epoch = locks[k].epoch
  <2>1. locks[k] \in LockRecords
    BY <1>1
  <2>2. ASSUME NEW c \in Int
        PROVE  LET r == [locks[k] EXCEPT !.count = c]
               IN  /\ r \in LockRecords /\ (r.flag <=> locks[k].flag)
                   /\ (r.migrated <=> locks[k].migrated) /\ r.epoch = locks[k].epoch
    <3> DEFINE r == [locks[k] EXCEPT !.count = c]
    <3>1. r \in LockRecords
      BY <2>1 DEF LockRecords
    <3>2. r.flag <=> locks[k].flag
      BY <2>1 DEF LockRecords
    <3>3. r.migrated <=> locks[k].migrated
      BY <2>1 DEF LockRecords
    <3>4. r.epoch = locks[k].epoch
      BY <2>1 DEF LockRecords
    <3> QED BY <3>1, <3>2, <3>3, <3>4
  <2>3. locks[k].count + 1 \in Int /\ locks[k].count - 1 \in Int
    BY <2>1 DEF LockRecords
  <2>4. \/ locks'[k] = locks[k]
        \/ locks'[k] = [locks[k] EXCEPT !.count = locks[k].count + 1]
        \/ locks'[k] = [locks[k] EXCEPT !.count = locks[k].count - 1]
    BY <1>1
  <2> QED BY <2>1, <2>2, <2>3, <2>4
<1>4. locks' \in [LockIds -> LockRecords]
  <2>1. locks' = [k \in LockIds |-> locks'[k]]
    BY <1>1
  <2> QED BY <1>3, <2>1
<1>5. LocksOK'
  BY <1>2, <1>3 DEF LocksOK, Locked
<1> QED BY <1>2, <1>3, <1>4, <1>5

\* What a body does: it writes at most one slot, of one of the two buckets of
\* its key, and answers.
Writes(t) ==
    \/ table' = table
    \/ \E b \in Homes(Key(t), Hp(t)), i \in SlotIds, v \in EntryRecords \cup {Empty} :
          /\ table' = [table EXCEPT ![b][i] = v]
          /\ v # Empty => v.key = Key(t)

Body(t) == \/ Update(t) \/ Erase(t) \/ Duplicate(t) \/ AddToFreeSlot(t) \/ AddToFreedSlot(t)

LEMMA HereFacts ==
  ASSUME LocksInv, NEW t \in Threads, pc[t] \in {"body", "recheck"}, NEW p \in Here(t)
  PROVE  /\ p[1] \in Homes(Key(t), Hp(t)) /\ p[2] \in SlotIds
         /\ table[p[1]][p[2]] \in EntryRecords /\ table[p[1]][p[2]].key = Key(t)
<1>1. hp_ = Hp(t) /\ pc[t] # "idle" /\ table \in [Buckets(hp_) -> Rows]
  BY DEF LocksInv, Typed, LocalOK, HpOK, Frozen, HoldsSome
<1>2. /\ p[1] \in Homes(Key(t), Hp(t)) /\ p[2] \in SlotIds
      /\ table[p[1]][p[2]] # Empty /\ table[p[1]][p[2]].key = Key(t)
  BY DEF Here, Where, SlotsWith
<1>3. p[1] \in Buckets(hp_)
  BY <1>1, <1>2, KeyFacts
<1> QED BY <1>1, <1>2, <1>3, FullBucket

LEMMA BodyEffect ==
  ASSUME LocksInv, NEW t \in Threads, Body(t)
  PROVE  /\ Writes(t) /\ UNCHANGED <<hp_, todo, search>> /\ pc[t] \in {"body", "recheck"}
         /\ \/ locks' = [locks EXCEPT ![locking[t].lock1].count = @ + 1]
            \/ locks' = [locks EXCEPT ![locking[t].lock1].count = @ - 1]
            \/ locks' = locks
         /\ \E a \in Answers, m \in BOOLEAN : Answer(t, a, m)
<1>1. UNCHANGED <<hp_, todo, search>> /\ pc[t] \in {"body", "recheck"}
  BY DEF Body, Update, Erase, Duplicate, AddToFreeSlot, AddToFreedSlot
<1>2. \E a \in Answers, m \in BOOLEAN : Answer(t, a, m)
  <2>1. \A o, p : (o = p) \in BOOLEAN
    OBVIOUS
  <2>2. TRUE \in Answers /\ FALSE \in Answers /\ TRUE \in BOOLEAN
    BY DEF Answers
  <2> QED BY <2>1, <2>2 DEF Body, Update, Erase, Duplicate, AddToFreeSlot, AddToFreedSlot
<1>3. Typed /\ hp_ = Hp(t) /\ pc[t] # "idle" /\ todo[t] # <<>> /\ table \in [Buckets(hp_) -> Rows]
  BY <1>1 DEF LocksInv, Typed, LocalOK, HpOK, Frozen, HoldsSome
<1>4. Call(t).op \in Stores => Call(t).val \in Vals
  BY <1>3, CallTyped
<1>5. ASSUME NEW p \in Here(t), StoreValue(t, p), Call(t).op \in Stores
      PROVE  Writes(t) /\ locks' = locks
  <2> DEFINE e == table[p[1]][p[2]]
             v == [e EXCEPT !.val = Call(t).val]
  <2>1. p[1] \in Homes(Key(t), Hp(t)) /\ p[2] \in SlotIds /\ e \in EntryRecords /\ e.key = Key(t)
    BY <1>1, HereFacts
  <2>2. table' = [table EXCEPT ![p[1]][p[2]] = v]
    BY <1>5 DEF StoreValue
  <2>3. v \in EntryRecords /\ v.key = Key(t)
    BY <1>4, <1>5, <2>1 DEF EntryRecords
  <2>4. locks' = locks
    BY <1>5 DEF StoreValue
  <2> HIDE DEF v, e
  <2>5. \E b \in Homes(Key(t), Hp(t)), i \in SlotIds :
          /\ table' = [table EXCEPT ![b][i] = v]
          /\ v \in EntryRecords \cup {Empty} /\ (v # Empty => v.key = Key(t))
    BY <2>1, <2>2, <2>3
  <2>6. Writes(t)
    BY <2>5 DEF Writes
  <2> QED BY <2>4, <2>6
<1>6. ASSUME NEW p \in Here(t), DelFromBucket(t, p)
      PROVE  Writes(t) /\ locks' = [locks EXCEPT ![locking[t].lock1].count = @ - 1]
  <2>1. p[1] \in Homes(Key(t), Hp(t)) /\ p[2] \in SlotIds
    BY <1>1, HereFacts
  <2> QED BY <1>6, <2>1 DEF Writes, DelFromBucket
<1>7. ASSUME NEW b \in Homes(Key(t), Hp(t)), NEW i \in SlotIds, AddToBucket(t, b, i),
             Call(t).op \in Stores
      PROVE  Writes(t) /\ locks' = [locks EXCEPT ![locking[t].lock1].count = @ + 1]
  <2> DEFINE v == Entry(Key(t), Call(t).val)
  <2>1. v \in EntryRecords /\ v.key = Key(t)
    BY <1>1, <1>3, <1>4, <1>7, KeyFacts DEF Entry, EntryRecords
  <2>2. table' = [table EXCEPT ![b][i] = v]
    BY <1>7 DEF AddToBucket
  <2> HIDE DEF v
  <2> QED BY <1>7, <2>1, <2>2, Zenon DEF Writes, AddToBucket
<1>8. Inserts \subseteq Stores /\ "update" \in Stores /\ "insert_or_assign" \in Stores
  BY DEF Inserts, Stores
<1>9. CASE Update(t)
  BY <1>1, <1>2, <1>5, <1>8, <1>9 DEF Update
<1>10. CASE Erase(t)
  BY <1>1, <1>2, <1>6, <1>10 DEF Erase
<1>11. CASE Duplicate(t)
  <2>1. PICK p \in Here(t) :
          \/ Call(t).op = "insert" /\ UNCHANGED <<table, locks, legal>>
          \/ Call(t).op = "insert_or_assign" /\ StoreValue(t, p)
          \/ Call(t).op = "uprase" /\ DelFromBucket(t, p)
    BY <1>11 DEF Duplicate, Inserts
  <2>2. CASE UNCHANGED <<table, locks, legal>>
    BY <1>1, <1>2, <2>2 DEF Writes
  <2>3. CASE Call(t).op = "insert_or_assign" /\ StoreValue(t, p)
    BY <1>1, <1>2, <1>5, <1>8, <2>3
  <2>4. CASE DelFromBucket(t, p)
    BY <1>1, <1>2, <1>6, <2>4
  <2> QED BY <2>1, <2>2, <2>3, <2>4
<1>12. CASE AddToFreeSlot(t)
  <2> DEFINE b == IF FreeSlots(table, I1(Key(t), Hp(t))) # {} THEN I1(Key(t), Hp(t))
                                                             ELSE I2(Key(t), Hp(t))
             S == FreeSlots(table, b)
  <2>1. S # {} /\ AddToBucket(t, b, Max(S)) /\ Call(t).op \in Inserts
    BY <1>12 DEF AddToFreeSlot
  <2>2. b \in Homes(Key(t), Hp(t))
    BY DEF Homes
  <2>3. S \in SUBSET SlotIds
    BY DEF FreeSlots
  <2> HIDE DEF b, S
  <2>4. Max(S) \in SlotIds
    <3>1. S \in SUBSET (0..(Slots + 1) - 1) /\ Slots + 1 \in Nat
      BY <2>3, SlotSets
    <3>2. \E x \in S : \A y \in S : y <= x
      BY <2>1, <3>1, Greatest
    <3>3. \E x \in S : \A y \in S : x >= y
      BY <2>3, <3>2, SlotSets
    <3>4. Max(S) \in S
      BY <3>3 DEF Max
    <3> QED BY <2>3, <3>4
  <2> QED BY <1>1, <1>2, <1>7, <1>8, <2>1, <2>2, <2>4
<1>13. CASE AddToFreedSlot(t)
  <2>1. /\ AddToBucket(t, search[t].path[1].bucket, search[t].path[1].slot)
        /\ Call(t).op \in Inserts /\ pc[t] = "recheck"
    BY <1>13 DEF AddToFreedSlot
  <2>2. /\ search[t].path[1].bucket \in Homes(Key(t), Hp(t)) /\ search[t].path[1] \in PathSlots
    <3>1. search[t].path \in Seq(PathSlots) /\ search[t].path # <<>>
          /\ search[t].path[1].bucket \in Homes(Key(t), Hp(t))
      BY <2>1 DEF LocksInv, Typed, SearchRecords, LocalOK, PathOK, PathOf, Stage
    <3> QED BY <3>1
  <2>3. search[t].path[1].slot \in SlotIds
    BY <2>2 DEF PathSlots
  <2> QED BY <1>1, <1>2, <1>7, <1>8, <2>1, <2>2, <2>3
<1> QED BY <1>9, <1>10, <1>11, <1>12, <1>13 DEF Body

LEMMA BodyInv == ASSUME LocksInv, NEW t \in Threads, Body(t) PROVE LocksInv'
<1>1. /\ Writes(t) /\ UNCHANGED <<hp_, todo, search>> /\ pc[t] \in {"body", "recheck"}
      /\ \E a \in Answers, m \in BOOLEAN : Answer(t, a, m)
      /\ locks' \in [LockIds -> LockRecords] /\ LockIds' = LockIds /\ LocksOK'
      /\ \A k \in LockIds : locks'[k].flag <=> locks[k].flag
  BY BodyEffect, CountEffect DEF LocksInv
<1>2. /\ Typed /\ Own(t) # {} /\ hp_ = Hp(t) /\ table \in [Buckets(hp_) -> Rows]
      /\ \A l \in Own(t) : l \in LockIds /\ locks[l].flag
  BY <1>1, OwnsSome DEF LocksInv, Typed, LocalOK, HpOK, Frozen, HoldsSome, OwnOK, Exclusive
<1>3. table' \in [Buckets(hp_) -> Rows]
  <2>1. CASE table' = table
    BY <1>2, <2>1
  <2>2. CASE table' # table
    <3>1. PICK b \in Homes(Key(t), Hp(t)), i \in SlotIds, v \in EntryRecords \cup {Empty} :
             table' = [table EXCEPT ![b][i] = v]
      BY <1>1, <2>2 DEF Writes
    <3>2. b \in Buckets(hp_)
      BY <1>1, <1>2, KeyFacts
    <3> QED BY <1>2, <3>1, <3>2, PutTyped
  <2> QED BY <2>1, <2>2
<1>4. /\ locking' \in [Threads -> LockingRecords] /\ pc' \in [Threads -> Labels]
      /\ pc'[t] = "release"
      /\ Own(t)' = Own(t) /\ Drop(t)' = Own(t) /\ Go(t)' = "return" /\ Hp(t)' = Hp(t)
      /\ \A u \in Threads \ {t} : pc'[u] = pc[u] /\ locking'[u] = locking[u]
  BY <1>1, <1>2, AnswerEffect
<1>5. Others(t)
  BY <1>1, <1>4 DEF Others
<1>6. StepTyped
  BY <1>1, <1>2, <1>3, <1>4 DEF Typed, StepTyped
<1>7. LocalOK(t)'
  BY <1>1, <1>2, <1>4, ReleaseLocal
<1>8. /\ \A l \in Own(t)' : locks'[l].flag /\ l \in Own(t)
      /\ \A l \in LockIds : locks[l].flag => locks'[l].flag
  BY <1>1, <1>2, <1>4
<1> QED BY <1>1, <1>4, <1>5, <1>6, <1>7, <1>8, StepInv

-----------------------------------------------------------------------------
\* A key moves one step along the path.
LEMMA LinkedPrefix ==
  ASSUME NEW path \in Seq(PathSlots), NEW n \in 1..Len(path), NEW h, Linked(path, h)
  PROVE  /\ SubSeq(path, 1, n) \in Seq(PathSlots) /\ SubSeq(path, 1, n) # <<>>
         /\ Len(SubSeq(path, 1, n)) = n /\ SubSeq(path, 1, n)[1] = path[1]
         /\ Linked(SubSeq(path, 1, n), h)
<1> DEFINE q == SubSeq(path, 1, n)
<1>1. /\ q \in Seq(PathSlots) /\ Len(q) = n /\ \A j \in 1..n : q[j] = path[j]
  <2>1. q \in Seq(PathSlots) /\ Len(q) = n
    OBVIOUS
  <2>2. \A j \in 1..n : q[j] = path[j]
    OBVIOUS
  <2> QED BY <2>1, <2>2
<1>2. n \in Nat /\ n >= 1 /\ n <= Len(path) /\ Len(path) \in Nat
  OBVIOUS
<1> HIDE DEF q
<1>3. q # <<>>
  BY <1>1, <1>2
<1>4. ASSUME NEW j \in 1..Len(q) - 1 PROVE q[j + 1].bucket \in Homes(q[j].key, h)
  <2>1. j \in 1..n /\ j + 1 \in 1..n /\ j \in 1..Len(path) - 1
    BY <1>1, <1>2
  <2> QED BY <1>1, <2>1 DEF Linked
<1>5. Linked(q, h)
  BY <1>4 DEF Linked
<1>6. q[1] = path[1]
  BY <1>1, <1>2
<1> QED BY <1>1, <1>3, <1>5, <1>6 DEF q

LEMMA ShiftTyped ==
  ASSUME LocksInv, NEW t \in Threads, pc[t] = "shift"
  PROVE  /\ PathOf(t) \in Seq(PathSlots) /\ PathOf(t) = search[t].path
         /\ Depth(t) = Len(PathOf(t)) - 1 /\ Depth(t) \in 1..Len(PathOf(t))
         /\ \A j \in 1..Len(PathOf(t)) : PathOf(t)[j].bucket \in Buckets(hp_) /\ PathOf(t)[j] \in PathSlots
         /\ Linked(PathOf(t), Hp(t)) /\ PathOf(t)[1].bucket \in Homes(Key(t), Hp(t))
         /\ hp_ = Hp(t)
<1>1. Typed /\ LocalOK(t)
  BY DEF LocksInv
<1>2. PathOf(t) \in Seq(PathSlots) /\ PathOf(t) = search[t].path
  BY <1>1 DEF Typed, SearchRecords, PathOf
<1>3. Stage(t) = "shift" /\ hp_ = Hp(t)
  BY <1>1 DEF Stage, LocalOK, HpOK, Frozen, HoldsSome
<1>4. /\ Linked(PathOf(t), Hp(t)) /\ Len(PathOf(t)) >= 2 /\ Len(PathOf(t)) \in Nat
      /\ PathOf(t)[1].bucket \in Homes(Key(t), Hp(t))
  BY <1>1, <1>2, <1>3 DEF LocalOK, PathOK
<1>5. Depth(t) = Len(PathOf(t)) - 1 /\ Depth(t) \in 1..Len(PathOf(t))
  BY <1>2, <1>4 DEF Depth
<1>6. ASSUME NEW j \in 1..Len(PathOf(t)) PROVE PathOf(t)[j].bucket \in Buckets(hp_) /\ PathOf(t)[j] \in PathSlots
  BY <1>2, <1>3, <1>4, KeyFacts, PathBuckets, Zenon
<1> QED BY <1>2, <1>3, <1>4, <1>5, <1>6

LEMMA ShiftTable ==
  ASSUME LocksInv, NEW t \in Threads, Shift(t)
  PROVE  /\ table' \in [Buckets(hp_) -> Rows]
         /\ \A b \in Buckets(hp_) : table'[b] # table[b] =>
               b \in {PathOf(t)[Depth(t)].bucket, PathOf(t)[Depth(t) + 1].bucket}
<1> DEFINE from == search[t].path[Depth(t)]
           to == search[t].path[Depth(t) + 1]
           v == table[from.bucket][from.slot]
           b == to.bucket
           i == to.slot
           c == from.bucket
           j == from.slot
           mid == [table EXCEPT ![b][i] = v]
<1>1. /\ StillValid(from, to) /\ pc[t] = "shift"
      /\ table' = [table EXCEPT ![to.bucket][to.slot] = v, ![from.bucket][from.slot] = Empty]
  BY Zenon DEF Shift
<1>2. /\ from.bucket \in Buckets(hp_) /\ from.slot \in SlotIds
      /\ to.bucket \in Buckets(hp_) /\ to.slot \in SlotIds
      /\ from = PathOf(t)[Depth(t)] /\ to = PathOf(t)[Depth(t) + 1]
  <2>1. Depth(t) \in 1..Len(PathOf(t)) /\ Depth(t) + 1 \in 1..Len(PathOf(t)) /\ PathOf(t) = search[t].path
    <3>1. /\ Depth(t) \in 1..Len(PathOf(t)) /\ Depth(t) = Len(PathOf(t)) - 1
          /\ PathOf(t) = search[t].path /\ PathOf(t) \in Seq(PathSlots)
      BY <1>1, ShiftTyped, Zenon
    <3>2. Len(PathOf(t)) \in Nat
      BY <3>1, SMTT(60)
    <3> QED BY <3>1, <3>2, SMTT(60)
  <2>2. from = PathOf(t)[Depth(t)] /\ to = PathOf(t)[Depth(t) + 1]
    BY <2>1, Zenon
  <2>3. from.bucket \in Buckets(hp_) /\ from \in PathSlots
    BY <1>1, <2>1, <2>2, ShiftTyped, Zenon
  <2>4. to.bucket \in Buckets(hp_) /\ to \in PathSlots
    BY <1>1, <2>1, <2>2, ShiftTyped, Zenon
  <2> HIDE DEF from, to
  <2> QED BY <2>2, <2>3, <2>4, Zenon DEF PathSlots
<1>3. table \in [Buckets(hp_) -> Rows] /\ v \in EntryRecords \cup {Empty}
  <2>1. table \in [Buckets(hp_) -> Rows]
    BY DEF LocksInv, Typed
  <2>2. table[from.bucket] \in Rows
    BY <1>2, <2>1, Zenon
  <2> QED BY <1>2, <2>1, <2>2 DEF Rows
<1>4. table' = [[table EXCEPT ![b][i] = v] EXCEPT ![c][j] = Empty]
  BY <1>1, Zenon
<1>5. /\ b \in Buckets(hp_) /\ i \in SlotIds /\ c \in Buckets(hp_) /\ j \in SlotIds
      /\ c = PathOf(t)[Depth(t)].bucket /\ b = PathOf(t)[Depth(t) + 1].bucket
  BY <1>2
<1> HIDE DEF from, to, v, b, i, c, j
<1>6. /\ mid \in [Buckets(hp_) -> Rows]
      /\ \A d \in Buckets(hp_) \ {b} : mid[d] = table[d]
  BY <1>3, <1>5, PutTyped, SMTT(60)
<1>7. table' = [mid EXCEPT ![c][j] = Empty]
  BY <1>4
<1> HIDE DEF mid
<1>8. /\ table' \in [Buckets(hp_) -> Rows]
      /\ \A d \in Buckets(hp_) \ {c} : table'[d] = mid[d]
  BY <1>5, <1>6, <1>7, PutTyped
<1> QED BY <1>5, <1>6, <1>8, Zenon

\* Where a move goes on: from the next key, or under the two locks of its own.
ShiftEnds(t) ==
    LET extra == locking[t].own \ LocksOf(Homes(Key(t), Hp(t)))
    IN  CASE Depth(t) > 1 -> StartRelease(t, locking[t].own, TRUE, "move")
          [] Depth(t) = 1 /\ extra # {} -> StartRelease(t, extra, TRUE, "recheck")
          [] OTHER -> Goto(t, "recheck") /\ UNCHANGED locking

LEMMA ShiftEndsCases ==
  ASSUME NEW t, ShiftEnds(t)
  PROVE  /\ Depth(t) > 1 /\ Depth(t) # 1 => StartRelease(t, Own(t), TRUE, "move")
         /\ (Depth(t) = 1 /\ Own(t) \ HomeLocks(t) # {} =>
               StartRelease(t, Own(t) \ HomeLocks(t), TRUE, "recheck"))
         /\ (Depth(t) = 1 /\ Own(t) \ HomeLocks(t) = {} => Goto(t, "recheck") /\ UNCHANGED locking)
<1> DEFINE d == Depth(t)
           own == locking[t].own
           extra == own \ HomeLocks(t)
<1>1. ASSUME d > 1, d # 1 PROVE StartRelease(t, own, TRUE, "move")
  BY <1>1, Zenon DEF ShiftEnds
<1>2. ASSUME d = 1, extra # {} PROVE StartRelease(t, extra, TRUE, "recheck")
  <2>1. ~(d > 1)
    BY <1>2
  <2> QED BY <1>2, <2>1, Zenon DEF ShiftEnds, HomeLocks
<1>3. ASSUME d = 1, extra = {} PROVE Goto(t, "recheck") /\ UNCHANGED locking
  <2>1. ~(d > 1)
    BY <1>3
  <2> QED BY <1>3, <2>1, Zenon DEF ShiftEnds, HomeLocks
<1> QED BY <1>1, <1>2, <1>3 DEF Own

LEMMA ShiftInv == ASSUME LocksInv, NEW t \in Threads, Shift(t) PROVE LocksInv'
<1> DEFINE extra == Own(t) \ HomeLocks(t)
           path == SubSeq(PathOf(t), 1, Depth(t))
<1>1. Typed /\ LocksOK /\ LocalOK(t) /\ OwnOK(t) /\ HpOK(t) /\ PathOK(t) /\ todo[t] # <<>>
  BY Zenon DEF LocksInv, LocalOK, Shift
<1>2. /\ pc[t] = "shift" /\ UNCHANGED <<hp_, locks, todo>>
      /\ search' = [search EXCEPT ![t] = [search[t] EXCEPT !.path = SubSeq(search[t].path, 1, Depth(t))]]
      /\ ShiftEnds(t)
  BY Zenon DEF Shift, ShiftEnds
<1>3. /\ table' \in [Buckets(hp_) -> Rows] /\ hp_ = Hp(t)
      /\ PathOf(t) \in Seq(PathSlots) /\ PathOf(t) = search[t].path
      /\ Depth(t) \in 1..Len(PathOf(t)) /\ Linked(PathOf(t), Hp(t))
      /\ PathOf(t)[1].bucket \in Homes(Key(t), Hp(t))
  BY <1>2, ShiftTyped, ShiftTable
<1>4. /\ path \in Seq(PathSlots) /\ path # <<>> /\ Len(path) = Depth(t) /\ path[1] = PathOf(t)[1]
      /\ Linked(path, Hp(t))
  BY <1>3, LinkedPrefix
<1> HIDE DEF path
<1>5. /\ search' \in [Threads -> SearchRecords] /\ PathOf(t)' = path
      /\ \A u \in Threads \ {t} : search'[u] = search[u]
  <2> DEFINE s == [search[t] EXCEPT !.path = path]
  <2>1. search[t] \in SearchRecords
    BY <1>1 DEF Typed
  <2>2. s \in SearchRecords /\ s.path = path
    BY <1>4, <2>1 DEF SearchRecords
  <2>3. search' = [search EXCEPT ![t] = s]
    BY <1>2, <1>3 DEF path
  <2> HIDE DEF s
  <2> QED BY <1>1, <2>2, <2>3 DEF Typed, PathOf
<1>6. /\ hp_' = hp_ /\ LockIds' = LockIds /\ Key(t)' = Key(t) /\ LocksOK'
      /\ locks' = locks /\ todo' \in [Threads -> Seq(Calls)] /\ todo' = todo
  BY <1>1, <1>2 DEF LockIds, Key, Call, LocksOK, Locked, Typed
<1>7. /\ Own(t) # {} /\ Own(t) \in SUBSET Nat /\ Own(t) = locking[t].own /\ Own(t) \subseteq LockIds
      /\ \A l \in Own(t) : locks[l].flag
  BY <1>1, <1>2, OwnsSome DEF HoldsSome, Own, OwnOK, LocksInv, Exclusive
<1>8. Depth(t) = 1 => HomeLocks(t) \subseteq Own(t) /\ Own(t) \ extra = HomeLocks(t)
  <2> HAVE Depth(t) = 1
  <2>1. Homes(Key(t), Hp(t)) \subseteq ShiftBuckets(t)
    BY DEF ShiftBuckets
  <2>2. HomeLocks(t) \subseteq LocksOf(ShiftBuckets(t))
    BY <2>1 DEF HomeLocks, LocksOf
  <2>3. Own(t) = LocksOf(ShiftBuckets(t))
    BY <1>1, <1>2 DEF OwnOK, HoldsSome, Needed, Stage
  <2> QED BY <2>2, <2>3
<1>9. ASSUME locking' \in [Threads -> LockingRecords], pc' \in [Threads -> Labels],
             pc'[t] # "resize", Own(t)' = Own(t), LocalOK(t)',
             \A u \in Threads \ {t} : pc'[u] = pc[u] /\ locking'[u] = locking[u]
      PROVE  LocksInv'
  <2>1. Others(t)
    BY <1>2, <1>5, <1>9 DEF Others
  <2>2. StepTyped
    BY <1>1, <1>3, <1>5, <1>6, <1>9 DEF StepTyped, Typed
  <2>3. /\ \A l \in Own(t)' : locks'[l].flag /\ (l \in Own(t) \/ ~locks[l].flag)
        /\ \A l \in LockIds \ Own(t) : locks[l].flag => locks'[l].flag
    BY <1>6, <1>7, <1>9
  <2>4. pc[t] # "resize"
    BY <1>2
  <2> QED BY <1>6, <1>9, <2>1, <2>2, <2>3, <2>4, StepInv
<1>10. CASE Depth(t) > 1
  <2>1. Depth(t) # 1 /\ "move" \in Labels
    BY <1>10 DEF Labels, HoldsNone
  <2>2. StartRelease(t, Own(t), TRUE, "move") /\ "move" \in Labels
    BY <1>2, <1>10, <2>1, ShiftEndsCases, Zenon
  <2>3. /\ locking' \in [Threads -> LockingRecords] /\ pc' \in [Threads -> Labels]
        /\ pc'[t] = "release"
        /\ Own(t)' = Own(t) /\ Drop(t)' = Own(t) /\ Go(t)' = "move" /\ Hp(t)' = Hp(t)
        /\ \A u \in Threads \ {t} : pc'[u] = pc[u] /\ locking'[u] = locking[u]
    BY <1>1, <1>7, <2>2, ReleaseEffect
  <2>4. LocalOK(t)'
    BY <1>2, <1>3, <1>4, <1>5, <1>6, <1>7, <2>3, ReleaseLocal
  <2> QED BY <1>9, <2>3, <2>4
<1>11. CASE Depth(t) = 1 /\ extra # {}
  <2>1. StartRelease(t, extra, TRUE, "recheck") /\ "recheck" \in Labels /\ extra \in SUBSET Nat
    BY <1>2, <1>7, <1>11, ShiftEndsCases DEF Labels, HoldsSome
  <2>2. /\ locking' \in [Threads -> LockingRecords] /\ pc' \in [Threads -> Labels]
        /\ pc'[t] = "release"
        /\ Own(t)' = Own(t) /\ Drop(t)' = extra /\ Go(t)' = "recheck" /\ Hp(t)' = Hp(t)
        /\ \A u \in Threads \ {t} : pc'[u] = pc[u] /\ locking'[u] = locking[u]
    <3> HIDE DEF extra
    <3> QED BY <1>1, <2>1, ReleaseEffect
  <2>3. HomeLocks(t)' = HomeLocks(t)
    BY <1>6, <2>2 DEF HomeLocks
  <2>4. OwnOK(t)'
    BY <1>6, <1>7, <1>8, <1>11, <2>2, <2>3 DEF OwnOK, HoldsNone, HoldsAll, HoldsSome
  <2>5. HpOK(t)'
    BY <1>1, <1>3, <1>6, <2>2 DEF HpOK
  <2>6. PathOK(t)'
    BY <1>3, <1>4, <1>5, <1>6, <1>11, <2>2 DEF PathOK, Stage
  <2>7. LocalOK(t)'
    BY <1>1, <1>6, <2>2, <2>4, <2>5, <2>6 DEF LocalOK
  <2> QED BY <1>9, <2>2, <2>7
<1>12. CASE Depth(t) = 1 /\ extra = {}
  <2>1. Goto(t, "recheck") /\ UNCHANGED locking
    BY <1>2, <1>12, ShiftEndsCases
  <2>2. /\ locking' \in [Threads -> LockingRecords] /\ pc' \in [Threads -> Labels]
        /\ pc'[t] = "recheck"
        /\ Own(t)' = Own(t) /\ Drop(t)' = Drop(t) /\ Hp(t)' = Hp(t)
        /\ \A u \in Threads \ {t} : pc'[u] = pc[u] /\ locking'[u] = locking[u]
    BY <1>1, <2>1 DEF Typed, Goto, Labels, HoldsSome, Own, Drop, Hp
  <2>3. Needed(t)' = HomeLocks(t)
    BY <1>6, <2>2 DEF HomeLocks, Needed, Stage
  <2>4. OwnOK(t)'
    BY <1>1, <1>6, <1>7, <1>8, <1>12, <2>2, <2>3, Zenon DEF OwnOK, HoldsNone, HoldsAll, HoldsSome
  <2>5. HpOK(t)'
    BY <1>1, <1>3, <1>6, <2>2 DEF HpOK
  <2>6. PathOK(t)'
    BY <1>3, <1>4, <1>5, <1>6, <1>12, <2>2 DEF PathOK, Stage
  <2>7. LocalOK(t)'
    BY <1>1, <1>6, <2>2, <2>4, <2>5, <2>6 DEF LocalOK
  <2> QED BY <1>9, <2>2, <2>7
<1> QED BY <1>3, <1>10, <1>11, <1>12, SMTT(60)

-----------------------------------------------------------------------------
\* The steps under all locks.
LEMMA AllMine ==
  ASSUME LocksInv, NEW t \in Threads, Own(t) = LockIds
  PROVE  \A u \in Threads \ {t} : Own(u) = {} /\ ~Frozen(u) /\ pc[u] \notin HoldsAll
<1> SUFFICES ASSUME NEW u \in Threads \ {t}
             PROVE Own(u) = {} /\ ~Frozen(u) /\ pc[u] \notin HoldsAll
  OBVIOUS
<1>1. Typed /\ LockRange /\ Exclusive /\ LocalOK(u) /\ OwnOK(u)
  BY DEF LocksInv, LocalOK
<1>2. Own(u) = {}
  BY <1>1 DEF Exclusive, OwnOK
<1>3. LockIds # {}
  BY <1>1, LockSet
<1>4. pc[u] \notin HoldsSome \cup HoldsAll
  BY <1>2, <1>3, OwnsSome
<1>5. ~(pc[u] = "release" /\ Go(u) = "recheck")
  BY <1>1, <1>2 DEF OwnOK
<1> QED BY <1>2, <1>4, <1>5 DEF Frozen

\* Locks are rewritten one by one, flags and epochs stay.
LEMMA RewriteEffect ==
  ASSUME LocksOK, LockIds' = LockIds,
         \A l \in LockIds : /\ locks'[l].epoch = locks[l].epoch
                            /\ locks'[l].flag <=> locks[l].flag
                            /\ ~locks'[l].migrated => hp_' > LockPow
  PROVE  LocksOK'
BY DEF LocksOK, Locked

LEMMA Cleared ==
  ASSUME NEW r \in LockRecords
  PROVE  LET q == [r EXCEPT !.count = 0, !.migrated = TRUE]
         IN  q \in LockRecords /\ q.epoch = r.epoch /\ (q.flag <=> r.flag) /\ q.migrated = TRUE
<1> DEFINE p == [r EXCEPT !.count = 0]
           q == [r EXCEPT !.count = 0, !.migrated = TRUE]
<1>1. p \in LockRecords
  BY DEF LockRecords
<1>2. q = [p EXCEPT !.migrated = TRUE]
  OBVIOUS
<1>3. q.epoch = r.epoch
  BY DEF LockRecords
<1>4. q.flag <=> r.flag
  BY DEF LockRecords
<1>5. q.migrated = TRUE
  BY DEF LockRecords
<1> HIDE DEF p
<1>6. [p EXCEPT !.migrated = TRUE] \in LockRecords
  BY <1>1 DEF LockRecords
<1> QED BY <1>2, <1>3, <1>4, <1>5, <1>6

LEMMA EmptyRow == [i \in SlotIds |-> Empty] \in Rows
BY DEF Rows

LEMMA ClearInv == ASSUME LocksInv, NEW t \in Threads, Clear(t) PROVE LocksInv'
<1> DEFINE r(l) == [locks[l] EXCEPT !.count = 0, !.migrated = TRUE]
<1>1. Typed /\ LocksOK /\ LocalOK(t)
  BY DEF LocksInv
<1>2. /\ pc[t] = "clear" /\ UNCHANGED <<hp_, todo, search>> /\ Answer(t, TRUE, TRUE)
      /\ table' = [b \in DOMAIN table |-> [i \in SlotIds |-> Empty]]
      /\ locks' = [l \in LockIds |-> r(l)]
  BY DEF Clear
<1>3. /\ table \in [Buckets(hp_) -> Rows] /\ locks \in [LockIds -> LockRecords]
      /\ todo' \in [Threads -> Seq(Calls)] /\ search' \in [Threads -> SearchRecords]
  BY <1>1, <1>2 DEF Typed
<1>4. table' \in [Buckets(hp_) -> Rows]
  BY <1>2, <1>3, EmptyRow
<1>5. ASSUME NEW l \in LockIds
      PROVE  /\ r(l) \in LockRecords /\ r(l).epoch = locks[l].epoch
             /\ r(l).flag <=> locks[l].flag
             /\ r(l).migrated = TRUE
  BY <1>3, Cleared
<1> HIDE DEF r
<1>6. /\ locks' \in [LockIds -> LockRecords] /\ LockIds' = LockIds /\ LocksOK'
      /\ \A l \in LockIds : locks'[l].flag <=> locks[l].flag
  <2>1. locks' \in [LockIds -> LockRecords] /\ LockIds' = LockIds /\ \A l \in LockIds : locks'[l] = r(l)
    BY <1>2, <1>5 DEF LockIds
  <2> QED BY <1>1, <1>5, <2>1, RewriteEffect
<1>7. /\ Own(t) # {} /\ \A l \in Own(t) : l \in LockIds /\ locks[l].flag
  BY <1>1, <1>2, OwnsSome DEF HoldsAll, LocksInv, LocalOK, OwnOK, Exclusive
<1>8. /\ locking' \in [Threads -> LockingRecords] /\ pc' \in [Threads -> Labels]
      /\ pc'[t] = "release"
      /\ Own(t)' = Own(t) /\ Drop(t)' = Own(t) /\ Go(t)' = "return" /\ Hp(t)' = Hp(t)
      /\ \A u \in Threads \ {t} : pc'[u] = pc[u] /\ locking'[u] = locking[u]
  BY <1>1, <1>2, AnswerEffect DEF Answers
<1>9. Others(t) /\ StepTyped /\ hp_' = hp_ /\ todo' = todo
  BY <1>2, <1>3, <1>4, <1>6, <1>8 DEF Others, StepTyped
<1>10. LocalOK(t)'
  BY <1>2, <1>6, <1>7, <1>8, ReleaseLocal
<1>11. /\ \A l \in Own(t)' : locks'[l].flag /\ (l \in Own(t) \/ ~locks[l].flag)
       /\ \A l \in LockIds \ Own(t) : locks[l].flag => locks'[l].flag
  BY <1>6, <1>7, <1>8
<1> QED BY <1>2, <1>6, <1>8, <1>9, <1>10, <1>11, StepInv

\* Under the locks of all buckets, with none of them owned by another thread,
\* locks and hashpower may grow.
LEMMA LocalGrow ==
  ASSUME NEW u \in Threads, LocalOK(u), Own(u) = {}, ~Frozen(u), pc[u] \notin HoldsAll,
         hp_ \in Nat, hp_' \in Nat, hp_ <= hp_', Hp(u) \in Nat, LockIds \subseteq LockIds',
         pc'[u] = pc[u], locking'[u] = locking[u], search'[u] = search[u], todo'[u] = todo[u]
  PROVE  LocalOK(u)'
<1>1. /\ Own(u)' = Own(u) /\ Drop(u)' = Drop(u) /\ Go(u)' = Go(u) /\ Want(u)' = Want(u)
      /\ Hp(u)' = Hp(u) /\ Key(u)' = Key(u) /\ PathOf(u)' = PathOf(u)
  BY DEF Own, Drop, Go, Want, Hp, Key, Call, PathOf
<1>2. Stage(u)' = Stage(u) /\ Depth(u)' = Depth(u)
  BY <1>1 DEF Stage, Depth, PathOf
<1>3. HomeLocks(u)' = HomeLocks(u) /\ ShiftBuckets(u)' = ShiftBuckets(u)
  BY <1>1, <1>2 DEF HomeLocks, ShiftBuckets
<1>4. Needed(u)' = Needed(u)
  BY <1>2, <1>3 DEF Needed
<1>5. OwnOK(u)'
  <2>1. OwnOK(u) /\ pc[u] \notin HoldsSome
    BY DEF LocalOK, Frozen
  <2>2. Drop(u) \subseteq Own(u) /\ (pc[u] = "release" => Drop(u) # {})
    BY <2>1 DEF OwnOK
  <2>3. pc[u] # "release"
    BY <2>2
  <2> QED BY <1>1, <1>4, <2>1, <2>2, <2>3 DEF OwnOK
<1>6. HpOK(u)'
  BY <1>1 DEF LocalOK, HpOK, Frozen, HoldsAll
<1>7. PathOK(u)'
  BY <1>1, <1>2 DEF LocalOK, PathOK, Linked
<1> QED BY <1>1, <1>5, <1>6, <1>7 DEF LocalOK

LEMMA GrowLocksInv == ASSUME LocksInv, NEW t \in Threads, GrowLocks(t) PROVE LocksInv'
<1> DEFINE n == NumLocks(IF hp_ < LockPow THEN hp_ + 1 ELSE hp_)
           new == [flag |-> TRUE, epoch |-> 1, migrated |-> TRUE, count |-> 0]
           r == [locking[t] EXCEPT !.own = LockIds']
<1>1. Typed /\ LocksOK /\ LockRange /\ Exclusive /\ LocalOK(t) /\ OwnOK(t) /\ HpOK(t) /\ PathOK(t)
  BY DEF LocksInv, LocalOK
<1>2. /\ pc[t] = "double" /\ UNCHANGED <<hp_, table, todo, search>>
      /\ ~Refused(t) /\ hp_ = Hp(t)
      /\ locks' = [l \in 0..n - 1 |-> IF l \in LockIds THEN locks[l] ELSE new]
      /\ locking' = [locking EXCEPT ![t].own = LockIds']
      /\ pc' = [pc EXCEPT ![t] = "resize"]
  BY DEF GrowLocks, Goto, LockIds
<1>3. Own(t) = LockIds /\ \A u \in Threads \ {t} : Own(u) = {} /\ ~Frozen(u) /\ pc[u] \notin HoldsAll
  BY <1>1, <1>2, AllMine DEF OwnOK, HoldsAll
<1>4. hp_ \in 0..MaxHp /\ hp_ \in Nat /\ hp_ + 1 <= MaxHp /\ hp_ < MaxHp /\ MaxHp \in Nat /\ LockPow \in Nat
  BY <1>1, <1>2, MapAssumption DEF Typed, Refused
<1>5. LockIds = 0..NumLocks(hp_) - 1
  <2>1. ~Growing
    BY <1>2, <1>3 DEF Growing, HoldsAll
  <2> QED BY <1>1, <2>1 DEF LockRange
<1>6. n = NumLocks(hp_ + 1) /\ n \in Nat \ {0} /\ NumLocks(hp_) \in Nat /\ NumLocks(hp_) <= n
  BY <1>4, NumLocksFacts
<1> HIDE DEF n
<1>7. LockIds' = 0..n - 1 /\ LockIds \subseteq LockIds' /\ LockIds' \in SUBSET Nat
  BY <1>2, <1>5, <1>6 DEF LockIds
<1>8. ASSUME NEW l \in LockIds'
      PROVE  /\ locks'[l] \in LockRecords
             /\ locks'[l].flag <=> Locked(l)'
             /\ ~locks'[l].migrated => hp_ > LockPow
             /\ l \in LockIds => locks'[l] = locks[l]
             /\ l \notin LockIds => locks'[l].flag
  <2>1. locks'[l] = IF l \in LockIds THEN locks[l] ELSE new
    BY <1>2, <1>7, <1>8
  <2>2. CASE l \in LockIds
    <3>1. locks'[l] = locks[l]
      BY <2>1, <2>2
    <3>2. locks[l] \in LockRecords
      BY <1>1, <2>2 DEF Typed
    <3> QED BY <1>1, <2>2, <3>1, <3>2 DEF LocksOK, Locked
  <2>3. CASE l \notin LockIds
    <3>1. locks'[l] = new
      BY <2>1, <2>3
    <3>2. new \in LockRecords
      BY DEF LockRecords
    <3>3. new.flag = TRUE /\ new.epoch = 1 /\ new.migrated = TRUE /\ 1 % 2 = 1
      OBVIOUS
    <3> QED BY <2>3, <3>1, <3>2, <3>3 DEF Locked
  <2> QED BY <2>2, <2>3
<1>9. locks' \in [LockIds' -> LockRecords]
  BY <1>2, <1>7, <1>8
<1>10. r \in LockingRecords /\ r.own = LockIds' /\ r.drop = Drop(t) /\ r.hp = Hp(t) /\ r.go = Go(t)
  <2>1. locking[t] \in LockingRecords
    BY <1>1 DEF Typed
  <2> QED BY <1>7, <2>1 DEF LockingRecords, Drop, Hp, Go
<1>11. locking' = [locking EXCEPT ![t] = r]
  BY <1>2
<1> HIDE DEF r, new
<1>12. /\ locking' \in [Threads -> LockingRecords] /\ locking'[t] = r
       /\ pc' \in [Threads -> Labels] /\ pc'[t] = "resize" /\ Others(t)
  <2>1. "resize" \in Labels
    BY DEF Labels, HoldsAll
  <2> QED BY <1>1, <1>2, <1>10, <1>11, <2>1 DEF Typed, Others
<1>13. Own(t)' = LockIds' /\ Drop(t)' = Drop(t) /\ Hp(t)' = Hp(t) /\ hp_' = hp_
  BY <1>2, <1>10, <1>12 DEF Own, Drop, Hp
<1>14. Typed'
  BY <1>1, <1>2, <1>9, <1>12 DEF Typed
<1>15. LockRange'
  <2>1. Growing'
    BY <1>12 DEF Growing
  <2> QED BY <1>6, <1>7, <1>13, <2>1 DEF LockRange
<1>16. LocksOK'
  BY <1>8, <1>13 DEF LocksOK
<1>17. Exclusive'
  <2>1. \A l \in Own(t)' : locks'[l].flag /\ (l \in Own(t) \/ l \notin LockIds \/ ~locks[l].flag)
    BY <1>1, <1>3, <1>8, <1>13 DEF Exclusive
  <2>2. \A u \in Threads : Own(u) \subseteq LockIds
    BY <1>3
  <2>3. \A l \in LockIds \ Own(t) : locks[l].flag => locks'[l].flag
    BY <1>3
  <2> QED BY <1>1, <1>12, <2>1, <2>2, <2>3, StepExclusive
<1>18. LocalOK(t)'
  <2>1. OwnOK(t)'
    BY <1>1, <1>3, <1>7, <1>12, <1>13 DEF OwnOK, HoldsNone, HoldsSome
  <2>2. HpOK(t)' /\ PathOK(t)'
    BY <1>1, <1>2, <1>4, <1>12, <1>13 DEF HpOK, PathOK, Stage, Frozen, HoldsSome
  <2>3. todo'[t] # <<>>
    BY <1>1, <1>2 DEF LocalOK
  <2> QED BY <2>1, <2>2, <2>3 DEF LocalOK
<1>19. ASSUME NEW u \in Threads \ {t} PROVE LocalOK(u)'
  <2>1. LocalOK(u) /\ Hp(u) \in Nat
    BY <1>1 DEF LocksInv, Typed, LockingRecords, Hp
  <2> QED BY <1>3, <1>4, <1>7, <1>12, <1>13, <2>1, LocalGrow DEF Others
<1> QED BY <1>14, <1>15, <1>16, <1>17, <1>18, <1>19 DEF LocksInv

\* The table of Resize, with the data moved that the last doubling left.
LEMMA RestMoved ==
  ASSUME Typed, LocksOK, hp_ > LockPow,
         NEW L \in SUBSET LockIds
  PROVE  LET tab == MoveBuckets(table, UNION {OldBuckets(l) : l \in L}, hp_ - 1)
         IN  /\ tab \in [Buckets(hp_) -> Rows]
             /\ \A b \in Buckets(hp_) : tab[b] # table[b] => LockInd(b) \in L
<1> DEFINE h == hp_ - 1
           B == UNION {OldBuckets(l) : l \in L}
           tab == MoveBuckets(table, B, h)
<1>1. /\ hp_ \in 0..MaxHp /\ table \in [Buckets(hp_) -> Rows] /\ LockPow \in Nat /\ MaxHp \in Nat
      /\ h \in LockPow..MaxHp /\ h \in 0..MaxHp /\ h + 1 = hp_
  BY MapAssumption DEF Typed
<1>2. B \in SUBSET Buckets(h) /\ \A b \in B : LockInd(b) \in L
  BY DEF OldBuckets, Buckets
<1> HIDE DEF h, B
<1>3. B \subseteq Buckets(hp_) /\ \A c \in B : c - HashSize(h) \notin B
  BY <1>1, <1>2, OldHalf
<1>4. tab \in [Buckets(hp_) -> Rows]
  BY <1>1, <1>3, MoveTyped
<1>5. ASSUME NEW b \in Buckets(hp_), LockInd(b) \notin L PROVE tab[b] = table[b]
  <2>1. b \notin B
    BY <1>2, <1>5
  <2>2. b - HashSize(h) \notin B
    <3> SUFFICES ASSUME b - HashSize(h) \in B PROVE FALSE
      OBVIOUS
    <3>1. HashSize(h) \in Nat /\ HashSize(hp_) \in Nat
      BY <1>1, SizeNat
    <3>2. b - HashSize(h) \in Nat /\ b \in Nat
      BY <1>2, <3>1 DEF Buckets
    <3>3. LockInd((b - HashSize(h)) + HashSize(h)) \in L
      BY <1>1, <1>2, <3>2, DoubledLock
    <3>4. (b - HashSize(h)) + HashSize(h) = b
      BY <3>1, <3>2
    <3> QED BY <1>5, <3>3, <3>4
  <2> QED BY <1>1, <2>1, <2>2, MoveFrame
<1> QED BY <1>4, <1>5 DEF h, B

LEMMA ResizeEffect ==
  ASSUME LocksInv, NEW t \in Threads, Resize(t)
  PROVE  /\ hp_ = Hp(t) /\ hp_ \in 0..MaxHp - 1 /\ hp_' = hp_ + 1 /\ Own(t) = LockIds
         /\ table' \in [Buckets(hp_ + 1) -> Rows]
         /\ locks' \in [LockIds -> LockRecords] /\ LockIds' = LockIds /\ LocksOK'
         /\ \A l \in LockIds : locks[l].flag /\ locks'[l].flag
<1> DEFINE left == {l \in LockIds : ~locks[l].migrated}
           tab == IF Hp(t) > LockPow
                  THEN MoveBuckets(table, UNION {OldBuckets(l) : l \in left}, hp_ - 1) ELSE table
           r(l) == [locks[l] EXCEPT !.migrated = TRUE]
<1>1. Typed /\ LocksOK /\ LocalOK(t) /\ OwnOK(t) /\ HpOK(t)
  BY DEF LocksInv, LocalOK
<1>2. /\ pc[t] = "resize" /\ hp_' = hp_ + 1
      /\ table' = [b \in 0..HashSize(hp_ + 1) - 1 |->
                     IF b \in DOMAIN table THEN tab[b] ELSE [i \in SlotIds |-> Empty]]
      /\ locks' = IF Hp(t) > LockPow THEN [l \in LockIds |-> r(l)] ELSE locks
  BY DEF Resize
<1>3. /\ hp_ = Hp(t) /\ hp_ \in 0..MaxHp - 1 /\ Own(t) = LockIds /\ hp_ \in 0..MaxHp
      /\ MaxHp \in Nat /\ LockPow \in Nat
      /\ table \in [Buckets(hp_) -> Rows] /\ locks \in [LockIds -> LockRecords]
  BY <1>1, <1>2, MapAssumption DEF Typed, HpOK, OwnOK, HoldsAll
<1>4. tab \in [Buckets(hp_) -> Rows]
  <2>1. left \in SUBSET LockIds
    OBVIOUS
  <2> HIDE DEF left
  <2>2. CASE Hp(t) > LockPow
    BY <1>1, <1>3, <2>1, <2>2, RestMoved
  <2>3. CASE ~(Hp(t) > LockPow)
    BY <1>3, <2>3
  <2> QED BY <2>2, <2>3
<1> HIDE DEF tab
<1>5. table' \in [Buckets(hp_ + 1) -> Rows]
  <2>1. \A b \in DOMAIN table : tab[b] \in Rows
    BY <1>3, <1>4
  <2>2. table' = [b \in Buckets(hp_ + 1) |-> IF b \in DOMAIN table THEN tab[b] ELSE [i \in SlotIds |-> Empty]]
    BY <1>2 DEF Buckets
  <2> QED BY <2>1, <2>2, EmptyRow
<1>6. ASSUME NEW l \in LockIds
      PROVE  /\ r(l) \in LockRecords /\ r(l).epoch = locks[l].epoch
             /\ r(l).flag <=> locks[l].flag
             /\ r(l).migrated = TRUE
  <2>1. locks[l] \in LockRecords
    BY <1>3
  <2>2. r(l) \in LockRecords
    BY <2>1 DEF LockRecords
  <2>3. r(l).epoch = locks[l].epoch
    BY <2>1 DEF LockRecords
  <2>4. r(l).flag <=> locks[l].flag
    BY <2>1 DEF LockRecords
  <2>5. r(l).migrated = TRUE
    BY <2>1 DEF LockRecords
  <2> QED BY <2>2, <2>3, <2>4, <2>5
<1> HIDE DEF r
<1>7. /\ locks' \in [LockIds -> LockRecords] /\ LockIds' = LockIds
      /\ \A l \in LockIds : /\ locks'[l].epoch = locks[l].epoch
                            /\ locks'[l].flag <=> locks[l].flag
                            /\ ~locks'[l].migrated => ~locks[l].migrated
  <2>1. CASE Hp(t) > LockPow
    <3>1. locks' \in [LockIds -> LockRecords] /\ LockIds' = LockIds /\ \A l \in LockIds : locks'[l] = r(l)
      BY <1>2, <1>6, <2>1 DEF LockIds
    <3> QED BY <1>6, <3>1
  <2>2. CASE ~(Hp(t) > LockPow)
    BY <1>2, <1>3, <2>2 DEF LockIds
  <2> QED BY <2>1, <2>2
<1>8. LocksOK'
  <2>1. \A l \in LockIds : ~locks'[l].migrated => hp_' > LockPow
    BY <1>1, <1>2, <1>3, <1>7 DEF LocksOK
  <2> QED BY <1>1, <1>7, <2>1, RewriteEffect
<1>9. \A l \in LockIds : locks[l].flag
  BY <1>3 DEF LocksInv, Exclusive
<1> QED BY <1>2, <1>3, <1>5, <1>7, <1>8, <1>9

LEMMA ResizeInv == ASSUME LocksInv, NEW t \in Threads, Resize(t) PROVE LocksInv'
<1>1. Typed /\ LockRange /\ Exclusive /\ LocalOK(t) /\ OwnOK(t) /\ HpOK(t) /\ PathOK(t)
  BY DEF LocksInv, LocalOK
<1>2. /\ pc[t] = "resize" /\ UNCHANGED <<todo, locking, search>>
      /\ pc' = [pc EXCEPT ![t] = "spread"]
  BY DEF Resize, Goto
<1>3. /\ hp_ = Hp(t) /\ hp_ \in 0..MaxHp - 1 /\ hp_' = hp_ + 1 /\ Own(t) = LockIds
      /\ table' \in [Buckets(hp_ + 1) -> Rows]
      /\ locks' \in [LockIds -> LockRecords] /\ LockIds' = LockIds /\ LocksOK'
      /\ \A l \in LockIds : locks[l].flag /\ locks'[l].flag
  BY ResizeEffect
<1>4. \A u \in Threads \ {t} : Own(u) = {} /\ ~Frozen(u) /\ pc[u] \notin HoldsAll
  BY <1>3, AllMine
<1>5. hp_ \in Nat /\ hp_' \in Nat /\ hp_' \in 0..MaxHp /\ hp_ <= hp_'
  BY <1>3, MapAssumption
<1>6. /\ pc' \in [Threads -> Labels] /\ pc'[t] = "spread" /\ Others(t)
      /\ Own(t)' = Own(t) /\ Drop(t)' = Drop(t) /\ Hp(t)' = Hp(t)
  <2>1. "spread" \in Labels
    BY DEF Labels, HoldsAll
  <2> QED BY <1>1, <1>2, <2>1 DEF Typed, Others, Own, Drop, Hp
<1>7. Typed'
  BY <1>1, <1>2, <1>3, <1>5, <1>6 DEF Typed
<1>8. LockRange'
  <2>1. Growing /\ ~Growing'
    BY <1>2, <1>4, <1>6 DEF Growing, HoldsAll, Others
  <2> QED BY <1>1, <1>3, <2>1 DEF LockRange
<1>9. Exclusive'
  <2>1. \A l \in Own(t)' : locks'[l].flag /\ (l \in Own(t) \/ l \notin LockIds \/ ~locks[l].flag)
    BY <1>3, <1>6
  <2>2. \A u \in Threads : Own(u) \subseteq LockIds
    BY <1>3, <1>4
  <2>3. \A l \in LockIds \ Own(t) : locks[l].flag => locks'[l].flag
    BY <1>3
  <2> QED BY <1>1, <1>6, <2>1, <2>2, <2>3, StepExclusive
<1>10. LocalOK(t)'
  <2>1. OwnOK(t)'
    BY <1>1, <1>3, <1>6 DEF OwnOK, HoldsNone, HoldsSome
  <2>2. HpOK(t)' /\ PathOK(t)'
    BY <1>1, <1>2, <1>3, <1>5, <1>6 DEF HpOK, PathOK, Stage, Frozen, HoldsSome
  <2>3. todo'[t] # <<>>
    BY <1>1, <1>2 DEF LocalOK
  <2> QED BY <2>1, <2>2, <2>3 DEF LocalOK
<1>11. ASSUME NEW u \in Threads \ {t} PROVE LocalOK(u)'
  <2>1. LocalOK(u) /\ Hp(u) \in Nat
    BY <1>1 DEF LocksInv, Typed, LockingRecords, Hp
  <2> QED BY <1>3, <1>4, <1>5, <1>6, <2>1, LocalGrow DEF Others
<1> QED BY <1>3, <1>7, <1>8, <1>9, <1>10, <1>11 DEF LocksInv

\* How the data of a doubling are spread: the counters of the locks are
\* rewritten, or the locks are marked.
LEMMA SpreadEffect ==
  ASSUME LocksInv, NEW t \in Threads, Spread(t)
  PROVE  /\ hp_ = Hp(t) + 1 /\ Hp(t) \in 0..MaxHp /\ Own(t) = LockIds
         /\ table' \in [Buckets(hp_) -> Rows]
         /\ table' # table => table' = MoveBuckets(table, Buckets(Hp(t)), Hp(t))
         /\ locks' \in [LockIds -> LockRecords] /\ LockIds' = LockIds /\ LocksOK'
         /\ \A l \in LockIds : locks[l].flag /\ locks'[l].flag
<1> DEFINE h == Hp(t)
           old == 0..HashSize(h) - 1
           tab == MoveBuckets(table, old, h)
           moved(b) == Cardinality(FreeSlots(tab, b)) - Cardinality(FreeSlots(table, b))
           delta(l) == moved(IF l \in old THEN l ELSE l - HashSize(h)) * (IF l \in old THEN -1 ELSE 1)
           recount(l) == [locks[l] EXCEPT !.count = @ + delta(l)]
           mark(l) == [locks[l] EXCEPT !.migrated = FALSE]
<1>1. Typed /\ LocksOK /\ LocalOK(t) /\ OwnOK(t) /\ HpOK(t)
  BY DEF LocksInv, LocalOK
<1>2. /\ pc[t] = "spread" /\ hp_' = hp_
      /\ \/ /\ h < LockPow /\ table' = tab
            /\ locks' = [l \in LockIds |-> recount(l)]
         \/ /\ h >= LockPow /\ table' = table
            /\ locks' = [l \in LockIds |-> mark(l)]
         \/ table' = tab /\ locks' = locks
  BY Zenon DEF Spread
<1>3. /\ hp_ = h + 1 /\ h \in 0..MaxHp /\ hp_ \in 0..MaxHp /\ Own(t) = LockIds
      /\ MaxHp \in Nat /\ LockPow \in Nat
      /\ table \in [Buckets(hp_) -> Rows] /\ locks \in [LockIds -> LockRecords]
  BY <1>1, <1>2, MapAssumption DEF Typed, HpOK, OwnOK, HoldsAll, LockingRecords, Hp
<1>4. old = Buckets(h)
  BY DEF Buckets
<1>5. tab \in [Buckets(hp_) -> Rows]
  <2>1. Buckets(h) \subseteq Buckets(hp_) /\ \A c \in Buckets(h) : c - HashSize(h) \notin Buckets(h)
    BY <1>3, OldHalf
  <2> HIDE DEF h
  <2> QED BY <1>3, <1>4, <2>1, MoveTyped
<1>6. \A b : Cardinality(FreeSlots(tab, b)) \in Nat /\ Cardinality(FreeSlots(table, b)) \in Nat
  <2>1. \A a, b : FreeSlots(a, b) \in SUBSET SlotIds
    BY DEF FreeSlots
  <2> HIDE DEF tab
  <2> QED BY <2>1, SlotSets
<1>7. \A l \in LockIds : delta(l) \in Int
  <2> HIDE DEF tab, h, old
  <2>1. \A b : moved(b) \in Int
    BY <1>6
  <2> HIDE DEF moved
  <2> QED BY <2>1
<1> HIDE DEF delta, tab
<1>8. ASSUME NEW l \in LockIds
      PROVE  /\ recount(l) \in LockRecords /\ recount(l).epoch = locks[l].epoch
             /\ recount(l).flag <=> locks[l].flag
             /\ recount(l).migrated <=> locks[l].migrated
  <2>1. locks[l] \in LockRecords /\ delta(l) \in Int
    BY <1>3, <1>7
  <2>2. locks[l].count + delta(l) \in Int
    BY <2>1 DEF LockRecords
  <2>3. recount(l) \in LockRecords
    BY <2>1, <2>2 DEF LockRecords
  <2>4. recount(l).epoch = locks[l].epoch
    BY <2>1 DEF LockRecords
  <2>5. recount(l).flag <=> locks[l].flag
    BY <2>1 DEF LockRecords
  <2>6. recount(l).migrated <=> locks[l].migrated
    BY <2>1 DEF LockRecords
  <2> QED BY <2>3, <2>4, <2>5, <2>6
<1>9. ASSUME NEW l \in LockIds
      PROVE  /\ mark(l) \in LockRecords /\ mark(l).epoch = locks[l].epoch
             /\ mark(l).flag <=> locks[l].flag
  <2>1. locks[l] \in LockRecords
    BY <1>3
  <2>2. mark(l) \in LockRecords
    BY <2>1 DEF LockRecords
  <2>3. mark(l).epoch = locks[l].epoch
    BY <2>1 DEF LockRecords
  <2>4. mark(l).flag <=> locks[l].flag
    BY <2>1 DEF LockRecords
  <2> QED BY <2>2, <2>3, <2>4
<1> HIDE DEF recount, mark
<1>10. /\ locks' \in [LockIds -> LockRecords] /\ LockIds' = LockIds
       /\ \A l \in LockIds : /\ locks'[l].epoch = locks[l].epoch
                             /\ locks'[l].flag <=> locks[l].flag
                             /\ ~locks'[l].migrated => ~locks[l].migrated \/ h >= LockPow
  <2>1. CASE h < LockPow /\ locks' = [l \in LockIds |-> recount(l)]
    <3>1. /\ locks' \in [LockIds -> LockRecords] /\ LockIds' = LockIds
          /\ \A l \in LockIds : locks'[l] = recount(l)
      BY <1>8, <2>1 DEF LockIds
    <3> QED BY <1>8, <3>1
  <2>2. CASE h >= LockPow /\ locks' = [l \in LockIds |-> mark(l)]
    <3>1. /\ locks' \in [LockIds -> LockRecords] /\ LockIds' = LockIds
          /\ \A l \in LockIds : locks'[l] = mark(l)
      BY <1>9, <2>2 DEF LockIds
    <3> QED BY <1>9, <2>2, <3>1
  <2>3. CASE locks' = locks
    BY <1>3, <2>3 DEF LockIds
  <2> QED BY <1>2, <2>1, <2>2, <2>3
<1>11. LocksOK'
  <2>1. \A l \in LockIds : ~locks'[l].migrated => hp_' > LockPow
    BY <1>1, <1>2, <1>3, <1>10 DEF LocksOK
  <2> QED BY <1>1, <1>10, <2>1, RewriteEffect
<1>12. \A l \in LockIds : locks[l].flag
  BY <1>3 DEF LocksInv, Exclusive
<1>13. table' \in [Buckets(hp_) -> Rows]
  BY <1>2, <1>3, <1>5
<1>14. table' # table => table' = MoveBuckets(table, Buckets(Hp(t)), Hp(t))
  BY <1>2, <1>4 DEF tab
<1> QED BY <1>3, <1>10, <1>11, <1>12, <1>13, <1>14

LEMMA SpreadInv == ASSUME LocksInv, NEW t \in Threads, Spread(t) PROVE LocksInv'
<1>1. Typed /\ LocalOK(t) /\ OwnOK(t) /\ HpOK(t) /\ PathOK(t) /\ todo[t] # <<>>
  BY DEF LocksInv, LocalOK, Spread
<1>2. /\ pc[t] = "spread" /\ UNCHANGED <<hp_, todo, search>>
      /\ \/ StartRelease(t, locking[t].own, TRUE, "snapshot")
         \/ Goto(t, "expand_next") /\ UNCHANGED locking
  BY DEF Spread
<1>3. /\ Own(t) = LockIds /\ table' \in [Buckets(hp_) -> Rows]
      /\ locks' \in [LockIds -> LockRecords] /\ LockIds' = LockIds /\ LocksOK'
      /\ \A l \in LockIds : locks[l].flag /\ locks'[l].flag
  BY SpreadEffect
<1>4. /\ todo' \in [Threads -> Seq(Calls)] /\ search' \in [Threads -> SearchRecords]
      /\ Own(t) # {} /\ Own(t) \in SUBSET Nat /\ Own(t) = locking[t].own
      /\ hp_' = hp_ /\ todo' = todo
  BY <1>1, <1>2, OwnsSome DEF Typed, HoldsAll, Own
<1>5. ASSUME locking' \in [Threads -> LockingRecords], pc' \in [Threads -> Labels],
             pc'[t] # "resize", Own(t)' = Own(t), LocalOK(t)',
             \A u \in Threads \ {t} : pc'[u] = pc[u] /\ locking'[u] = locking[u]
      PROVE  LocksInv'
  <2>1. Others(t) /\ StepTyped
    BY <1>2, <1>3, <1>4, <1>5 DEF Others, StepTyped
  <2>2. /\ \A l \in Own(t)' : locks'[l].flag /\ (l \in Own(t) \/ ~locks[l].flag)
        /\ \A l \in LockIds \ Own(t) : locks[l].flag => locks'[l].flag
    BY <1>3, <1>5
  <2>3. pc[t] # "resize"
    BY <1>2
  <2> QED BY <1>3, <1>4, <1>5, <2>1, <2>2, <2>3, StepInv
<1>6. CASE StartRelease(t, locking[t].own, TRUE, "snapshot")
  <2>1. /\ locking' \in [Threads -> LockingRecords] /\ pc' \in [Threads -> Labels]
        /\ pc'[t] = "release"
        /\ Own(t)' = Own(t) /\ Drop(t)' = Own(t) /\ Go(t)' = "snapshot" /\ Hp(t)' = Hp(t)
        /\ \A u \in Threads \ {t} : pc'[u] = pc[u] /\ locking'[u] = locking[u]
    <3>1. "snapshot" \in Labels
      BY DEF Labels, HoldsNone
    <3> QED BY <1>1, <1>4, <1>6, <3>1, ReleaseEffect
  <2>2. LocalOK(t)'
    BY <1>2, <1>3, <1>4, <2>1, ReleaseLocal
  <2> QED BY <1>5, <2>1, <2>2
<1>7. CASE Goto(t, "expand_next") /\ UNCHANGED locking
  <2>1. /\ locking' \in [Threads -> LockingRecords] /\ pc' \in [Threads -> Labels]
        /\ pc'[t] = "expand_next"
        /\ Own(t)' = Own(t) /\ Drop(t)' = Drop(t) /\ Hp(t)' = Hp(t)
        /\ \A u \in Threads \ {t} : pc'[u] = pc[u] /\ locking'[u] = locking[u]
    BY <1>1, <1>7 DEF Typed, Goto, Labels, HoldsAll, Own, Drop, Hp
  <2>2. OwnOK(t)'
    BY <1>1, <1>3, <2>1 DEF OwnOK, HoldsNone, HoldsSome
  <2>3. HpOK(t)' /\ PathOK(t)'
    BY <1>1, <1>2, <1>4, <2>1 DEF HpOK, PathOK, Stage, Frozen, HoldsSome
  <2>4. LocalOK(t)'
    BY <1>1, <1>4, <2>2, <2>3 DEF LocalOK
  <2> QED BY <1>5, <2>1, <2>4
<1> QED BY <1>2, <1>6, <1>7

-----------------------------------------------------------------------------
\* The initial states, and all steps together.
LEMMA InitInv == Init => LocksInv
<1> SUFFICES ASSUME Init PROVE LocksInv
  OBVIOUS
<1>1. PICK p \in Programs : /\ hp_ = p.hp /\ table = InitTable(p) /\ locks = InitLocks(p)
                            /\ todo = p.calls
  BY DEF Init
<1>2. /\ p.hp \in 0..MaxHp /\ IsFiniteSet(p.entries) /\ p.calls \in [Threads -> Seq(Calls)]
      /\ \A e \in p.entries : e.key \in Keys /\ e.val \in Vals
  BY ProgramAssumption
<1>3. table \in [Buckets(hp_) -> Rows]
  <2>1. ASSUME NEW b, NEW i \in SlotIds, \E e \in p.entries : e.bucket = b /\ e.slot = i
        PROVE  LET e == CHOOSE e \in p.entries : e.bucket = b /\ e.slot = i
               IN  Entry(e.key, e.val) \in EntryRecords
    <3> DEFINE e == CHOOSE e \in p.entries : e.bucket = b /\ e.slot = i
    <3>1. e \in p.entries
      BY <2>1
    <3>2. e.key \in Keys /\ e.val \in Vals
      BY <1>2, <3>1
    <3> HIDE DEF e
    <3>3. Entry(e.key, e.val) \in EntryRecords
      BY <3>2 DEF Entry, EntryRecords
    <3> QED BY <3>3 DEF e
  <2> DEFINE cell(b, i) ==
        IF \E e \in p.entries : e.bucket = b /\ e.slot = i
        THEN LET e == CHOOSE e \in p.entries : e.bucket = b /\ e.slot = i
             IN  Entry(e.key, e.val)
        ELSE Empty
  <2>2. \A b, i : i \in SlotIds => cell(b, i) \in EntryRecords \cup {Empty}
    BY <2>1
  <2>3. table = [b \in Buckets(hp_) |-> [i \in SlotIds |-> cell(b, i)]]
    BY <1>1 DEF InitTable, Buckets
  <2> HIDE DEF cell
  <2>4. \A b : [i \in SlotIds |-> cell(b, i)] \in Rows
    BY <2>2 DEF Rows
  <2> QED BY <2>3, <2>4
<1>4. LockIds = 0..NumLocks(hp_) - 1
  BY <1>1 DEF InitLocks, LockIds
<1>5. ASSUME NEW l \in LockIds
      PROVE  locks[l] \in LockRecords /\ locks[l].flag = FALSE /\ locks[l].epoch = 0
             /\ locks[l].migrated = TRUE
  <2> DEFINE S == {e \in p.entries : l = Min(LocksOf(Homes(e.key, p.hp)))}
  <2>1. S \in SUBSET p.entries
    OBVIOUS
  <2>2. locks[l] = [flag |-> FALSE, epoch |-> 0, migrated |-> TRUE, count |-> Cardinality(S)]
    BY <1>1, <1>4 DEF InitLocks
  <2> HIDE DEF S
  <2>3. Cardinality(S) \in Nat
    BY <1>2, <2>1, FS_Subset, FS_CardinalityType
  <2> QED BY <2>2, <2>3 DEF LockRecords
<1>6. locks \in [LockIds -> LockRecords]
  <2>1. locks = [l \in LockIds |-> locks[l]]
    BY <1>1 DEF InitLocks, LockIds
  <2> QED BY <1>5, <2>1
<1>7. /\ pc = [t \in Threads |-> "idle"] /\ locking = [t \in Threads |-> NoLocking]
      /\ search = [t \in Threads |-> NoSearch]
  BY DEF Init
<1>8. NoLocking \in LockingRecords /\ NoSearch \in SearchRecords /\ "idle" \in Labels
  <2>1. NoSearch \in SearchRecords
    BY DEF NoSearch, SearchRecords
  <2>2. "idle" \in Labels
    BY DEF Labels, HoldsNone
  <2>3. Empty \in Answers /\ 0 \in 0..MaxHp
    BY MapAssumption DEF Answers
  <2>4. NoLocking \in LockingRecords
    BY <2>2, <2>3 DEF NoLocking, LockingRecords
  <2> QED BY <2>1, <2>2, <2>4
<1>9. Typed
  BY <1>1, <1>2, <1>3, <1>6, <1>7, <1>8 DEF Typed
<1>10. LockRange
  <2>1. ~Growing
    BY <1>7 DEF Growing
  <2> QED BY <1>4, <2>1 DEF LockRange
<1>11. LocksOK
  <2>1. ~(0 % 2 = 1)
    OBVIOUS
  <2> QED BY <1>5, <2>1 DEF LocksOK, Locked
<1>12. ASSUME NEW t \in Threads PROVE Own(t) = {} /\ Drop(t) = {} /\ Hp(t) = 0 /\ pc[t] = "idle"
  BY <1>7 DEF Own, Drop, Hp, NoLocking
<1>13. Exclusive
  BY <1>12 DEF Exclusive
<1>14. ASSUME NEW t \in Threads PROVE LocalOK(t)
  <2>1. OwnOK(t)
    BY <1>12 DEF OwnOK, HoldsAll, HoldsSome
  <2>2. HpOK(t)
    BY <1>9, <1>12, MapAssumption DEF HpOK, Frozen, HoldsSome, Typed
  <2>3. PathOK(t)
    BY <1>12 DEF PathOK, Stage
  <2> QED BY <1>12, <2>1, <2>2, <2>3 DEF LocalOK
<1> QED BY <1>9, <1>10, <1>11, <1>13, <1>14 DEF LocksInv

LEMMA StepsKeepInv == ASSUME LocksInv, NEW t \in Threads, Step(t) PROVE LocksInv'
<1>1. CASE Snapshot(t) \/ TakeLock(t) \/ Release(t) \/ Return(t)
  BY <1>1, SnapshotInv, TakeLockInv, ReleaseInv, ReturnInv
<1>2. CASE Operate(t)
  <2>1. Body(t) \/ NotFound(t) \/ NoFreeSlot(t)
    BY <1>2 DEF Operate, Body
  <2> QED BY <2>1, BodyInv, GiveUpsInv
<1>3. CASE Cuckoo(t)
  BY <1>3, SearchInv, SearchInterruptedInv, BfsInv, PathInv, MoveInv, CheckInv, ShiftInv,
     GiveUpsInv DEF Cuckoo
<1>4. CASE AllLocked(t)
  BY <1>4, TakeNextOfAllInv, GiveUpsInv, GrowLocksInv, ResizeInv, SpreadInv, ExpandInv,
     ExpandAssertInv, ExpandNextInv, ClearInv DEF AllLocked
<1>5. CASE Lookup(t)
  BY <1>5, LookupInv, ReadRehashInv DEF Lookup
<1> QED BY <1>1, <1>2, <1>3, <1>4, <1>5 DEF Step

LEMMA NextInv == LocksInv /\ [Next]_vars => LocksInv'
<1> SUFFICES ASSUME LocksInv, [Next]_vars PROVE LocksInv'
  OBVIOUS
<1>1. ASSUME NEW t \in Threads, Begin(t) \/ Step(t) PROVE LocksInv'
  BY <1>1, BeginInv, StepsKeepInv
<1>2. CASE UNCHANGED vars
  <2>1. UNCHANGED <<hp_, table, locks, pc, todo, locking, search>> /\ LockIds' = LockIds
    BY <1>2 DEF vars, shared, LockIds
  <2>2. Typed'
    BY <2>1 DEF LocksInv, Typed
  <2>3. LockRange' /\ LocksOK'
    BY <2>1 DEF LocksInv, LockRange, LocksOK, Growing, Locked
  <2>4. Exclusive'
    BY <2>1 DEF LocksInv, Exclusive, Own
  <2>5. \A t \in Threads : LocalOK(t)'
    BY <2>1, LocalFrame DEF LocksInv
  <2> QED BY <2>2, <2>3, <2>4, <2>5 DEF LocksInv
<1> QED BY <1>1, <1>2 DEF Next, Finished

\* The invariant that the following theorems rest on: whatever locks a call
\* owns, it owns in the order and for the buckets the code asks for, nobody
\* else owns them, and the hashpower it saw is the one of the table from its
\* first lock of a key on (869-950, 1697-1700).
THEOREM LocksInvariant == Spec => []LocksInv
<1> QED BY InitInv, NextInv, PTL DEF Spec

\* Buckets, locks, counters and the locking state of every call keep their
\* types, a call owns only locks that exist and releases only locks it owns.
THEOREM MapTypes == Spec => []TypeOK
<1>1. LocksInv => TypeOK
  <2> SUFFICES ASSUME LocksInv PROVE TypeOK
    OBVIOUS
  <2>1. hp_ \in 0..MaxHp /\ table \in [0..HashSize(hp_) - 1 -> [SlotIds -> EntryRecords \cup {Empty}]]
    BY DEF LocksInv, Typed, Buckets, Rows
  <2>2. ASSUME NEW l \in LockIds
        PROVE  /\ locks[l].flag \in BOOLEAN /\ locks[l].migrated \in BOOLEAN
               /\ locks[l].epoch \in Nat /\ locks[l].count \in Int
    <3>1. locks[l] \in LockRecords
      BY DEF LocksInv, Typed
    <3> QED BY <3>1 DEF LockRecords
  <2>3. \A t \in Threads : locking[t].own \subseteq LockIds /\ locking[t].drop \subseteq locking[t].own
    BY DEF LocksInv, LocalOK, OwnOK, Own, Drop
  <2> QED BY <2>1, <2>2, <2>3 DEF TypeOK
<1> QED BY <1>1, LocksInvariant, PTL

-----------------------------------------------------------------------------
\* What the invariant says about waiting.
LEMMA NeededExist ==
  ASSUME LocksInv, NEW t \in Threads, pc[t] \in HoldsSome \cup {"lock"}
  PROVE  Needed(t) \subseteq LockIds
<1>1. Typed /\ LocalOK(t) /\ pc[t] # "idle" /\ pc[t] # "path"
  BY DEF LocksInv, HoldsSome
<1>2. \A B \in SUBSET Buckets(Hp(t)) : LocksOf(B) \subseteq LockIds
  BY <1>1, KeyFacts DEF LocksOf
<1>3. Homes(Key(t), Hp(t)) \in SUBSET Buckets(Hp(t))
  BY <1>1, KeyFacts
<1>4. CASE Stage(t) = "shift"
  <2>1. PathOf(t) \in Seq(PathSlots)
    BY <1>1 DEF Typed, SearchRecords, PathOf
  <2>2. /\ Linked(PathOf(t), Hp(t)) /\ Len(PathOf(t)) >= 2 /\ Len(PathOf(t)) \in Nat
        /\ PathOf(t)[1].bucket \in Homes(Key(t), Hp(t))
    BY <1>1, <1>4, <2>1 DEF LocalOK, PathOK
  <2>3. Depth(t) = Len(PathOf(t)) - 1
    BY DEF Depth, PathOf
  <2>4. Depth(t) \in 1..Len(PathOf(t)) /\ Depth(t) + 1 \in 1..Len(PathOf(t))
    BY <2>2, <2>3
  <2>5. \A j \in 1..Len(PathOf(t)) : PathOf(t)[j].bucket \in Buckets(Hp(t))
    BY <1>1, <2>1, <2>2, KeyFacts, PathBuckets
  <2>6. ShiftBuckets(t) \in SUBSET Buckets(Hp(t))
    BY <1>3, <2>4, <2>5 DEF ShiftBuckets
  <2> QED BY <1>2, <1>4, <2>6 DEF Needed
<1>5. CASE Stage(t) # "shift"
  BY <1>2, <1>3, <1>5 DEF Needed, HomeLocks
<1> QED BY <1>4, <1>5

LEMMA WantedNext ==
  ASSUME LocksInv, NEW t \in Threads, pc[t] = "lock"
  PROVE  NextLock(t) \in Want(t) /\ NextLock(t) \in LockIds /\ NextLock(t) \in Nat
<1>1. locking[t] \in LockingRecords /\ OwnOK(t)
  BY DEF LocksInv, Typed, LocalOK
<1>2. Want(t) \in SUBSET Nat /\ Want(t) # {} /\ NextLock(t) = Min(Want(t))
  BY <1>1 DEF LockingRecords, OwnOK, NextLock, Want
<1>3. NextLock(t) \in Want(t)
  BY <1>2, MinIsLeast
<1>4. Want(t) \subseteq LockIds
  BY <1>1, NeededExist DEF OwnOK
<1> QED BY <1>2, <1>3, <1>4

\* A thread waits only for locks above those it owns.
LEMMA WaitsAbove ==
  ASSUME LocksInv, NEW t \in Threads, NEW w \in Wanted(t), NEW o \in Own(t)
  PROVE  w \in Int /\ o < w
<1>1. OwnOK(t) /\ locking[t] \in LockingRecords
  BY DEF LocksInv, LocalOK, Typed
<1>2. pc[t] \notin HoldsNone
  BY <1>1 DEF OwnOK
<1>3. CASE pc[t] = "lock"
  <2>1. w = NextLock(t)
    BY <1>3 DEF Wanted
  <2> QED BY <1>1, <1>3, <2>1, WantedNext DEF OwnOK
<1>4. CASE pc[t] = "lock_all"
  <2>1. w = Cardinality(Own(t))
    BY <1>4 DEF Wanted, Own
  <2>2. PICK n \in LockIds : Own(t) = 0..n - 1
    BY <1>1, <1>4 DEF OwnOK
  <2>3. n \in Nat
    BY LockSet DEF LocksInv
  <2>4. w = n
    BY <2>1, <2>2, <2>3, FS_Interval
  <2> QED BY <2>2, <2>3, <2>4
<1>5. CASE pc[t] \notin {"lock", "lock_all"}
  BY <1>2, <1>5 DEF Wanted, HoldsNone
<1> QED BY <1>3, <1>4, <1>5

LEMMA NobodyWaitsInACircle == LocksInv => NoCircularWait
<1> SUFFICES ASSUME LocksInv, NEW T \in (SUBSET Threads) \ {{}}
             PROVE  \E t \in T : \A u \in T : ~WaitsFor(t, u)
  BY DEF NoCircularWait
<1>1. T \subseteq Threads /\ T # {}
  OBVIOUS
<1> DEFINE S == UNION {Own(t) : t \in T}
<1>2. PICK n \in Nat : LockIds = 0..n - 1
  BY LockSet DEF LocksInv
<1>3. \A t \in T : Own(t) \subseteq LockIds
  BY <1>1 DEF LocksInv, LocalOK, OwnOK
<1>4. S \in SUBSET (0..n - 1)
  BY <1>2, <1>3
<1>5. CASE S = {}
  <2>1. \A t, u \in T : ~WaitsFor(t, u)
    BY <1>5 DEF WaitsFor, Own
  <2> QED BY <1>1, <2>1
<1>6. CASE S # {}
  <2>1. PICK g \in S : \A o \in S : o <= g
    <3> HIDE DEF S
    <3> QED BY <1>4, <1>6, Greatest
  <2>2. PICK t \in T : g \in Own(t)
    OBVIOUS
  <2>3. ASSUME NEW u \in T, WaitsFor(t, u) PROVE FALSE
    <3>1. PICK w \in Wanted(t) : w \in Own(u)
      BY <2>3 DEF WaitsFor, Own
    <3>2. w \in Int /\ g < w
      BY <1>1, <2>2, <3>1, WaitsAbove
    <3>3. w <= g /\ g \in Int
      BY <1>4, <2>1, <3>1
    <3> QED BY <3>2, <3>3
  <2> QED BY <2>3
<1> QED BY <1>5, <1>6

\* No circle of threads waits for each other's locks: every call takes its
\* locks in ascending order, and the ones that wait for a lock to migrate or
\* to look at one bucket own no other (909-910, 938-939, 1058-1064).
THEOREM LocksAreAcyclic == Spec => []NoCircularWait
BY LocksInvariant, NobodyWaitsInACircle, PTL

\* The locks a call computes from the hashpower it has read exist, although
\* it reads the hashpower before it owns any of them (869-881, 1697-1700).
THEOREM LocksAreThere == Spec => []LocksExist
<1>1. LocksInv => LocksExist
  <2> SUFFICES ASSUME LocksInv, NEW t \in Threads
               PROVE /\ pc[t] = "lock" => NextLock(t) \in LockIds
                     /\ pc[t] = "epoch1" => LockOf(t, 1) \in LockIds
                     /\ pc[t] = "epoch2" => LockOf(t, 2) \in LockIds
    BY DEF LocksExist
  <2>1. pc[t] = "lock" => NextLock(t) \in LockIds
    BY WantedNext
  <2>2. pc[t] # "idle" => LockOf(t, 1) \in LockIds /\ LockOf(t, 2) \in LockIds
    BY KeyFacts DEF LockOf, Home
  <2> QED BY <2>1, <2>2
<1> QED BY <1>1, LocksInvariant, PTL

-----------------------------------------------------------------------------
\* What a step changes it changes under locks.
LEMMA BucketLocks ==
  ASSUME LocksInv
  PROVE  /\ DOMAIN table = Buckets(hp_) /\ table \in [Buckets(hp_) -> Rows]
         /\ \A b \in Buckets(hp_) : b \in Nat /\ LockInd(b) \in LockIds
<1>1. Typed /\ LockRange
  BY DEF LocksInv
<1>2. hp_ \in 0..MaxHp /\ hp_ \in 0..hp_ /\ HashSize(hp_) \in Nat
  BY <1>1, MapAssumption, SizeNat DEF Typed
<1>3. \A b \in Buckets(hp_) : b \in Nat /\ LockInd(b) \in LockIds
  BY <1>1, <1>2, LockIndRange, LockSet DEF Buckets
<1> QED BY <1>1, <1>3 DEF Typed

LEMMA OwnsAllLocked ==
  ASSUME LocksInv, NEW t \in Threads, Own(t) = LockIds
  PROVE  \A l \in LockIds : Locked(l)
BY DEF LocksInv, Exclusive, LocksOK

OwnedChanges(t) ==
    \A b \in Buckets(hp_) : table'[b] # table[b] => LockInd(b) \in Own(t)

LEMMA BodyChanges == ASSUME LocksInv, NEW t \in Threads, Body(t) PROVE OwnedChanges(t)
<1>1. Writes(t) /\ pc[t] \in {"body", "recheck"}
  BY BodyEffect
<1>2. /\ Own(t) = HomeLocks(t) /\ hp_ = Hp(t) /\ pc[t] # "idle"
      /\ table \in [Buckets(hp_) -> Rows]
  BY <1>1 DEF LocksInv, Typed, LocalOK, OwnOK, HpOK, Frozen, HoldsSome, Needed, Stage
<1>3. CASE table' = table
  BY <1>3 DEF OwnedChanges
<1>4. CASE table' # table
  <2>1. PICK b \in Homes(Key(t), Hp(t)), i \in SlotIds, v \in EntryRecords \cup {Empty} :
           table' = [table EXCEPT ![b][i] = v]
    BY <1>1, <1>4 DEF Writes
  <2>2. b \in Buckets(hp_)
    BY <1>2, <2>1, KeyFacts
  <2>3. \A c \in Buckets(hp_) : table'[c] # table[c] => c = b
    BY <1>2, <2>1, <2>2, PutTyped
  <2>4. LockInd(b) \in Own(t)
    BY <1>2 DEF HomeLocks, LocksOf
  <2> QED BY <2>3, <2>4 DEF OwnedChanges
<1> QED BY <1>3, <1>4

LEMMA ShiftChanges == ASSUME LocksInv, NEW t \in Threads, Shift(t) PROVE OwnedChanges(t)
<1>1. pc[t] = "shift"
  BY Zenon DEF Shift
<1>2. Own(t) = LocksOf(ShiftBuckets(t))
  BY <1>1 DEF LocksInv, LocalOK, OwnOK, HoldsSome, Needed, Stage
<1>3. {PathOf(t)[Depth(t)].bucket, PathOf(t)[Depth(t) + 1].bucket} \subseteq ShiftBuckets(t)
  BY DEF ShiftBuckets
<1> QED BY <1>2, <1>3, ShiftTable, Zenon DEF OwnedChanges, LocksOf

\* One step, as ChangesAreUnderLocks states it.
UnderLocks ==
    /\ \A b \in DOMAIN table :
          table'[b] # table[b] => LET l == LockInd(b)
                                  IN  Locked(l) \/ locks'[l].epoch > locks[l].epoch
    /\ hp_' # hp_ => hp_' = hp_ + 1 /\ \A l \in LockIds : Locked(l)

LEMMA OwnedUnderLocks ==
  ASSUME LocksInv, NEW t \in Threads, OwnedChanges(t), hp_' = hp_
  PROVE  UnderLocks
<1>1. DOMAIN table = Buckets(hp_)
  BY DEF LocksInv, Typed
<1>2. \A l \in Own(t) : Locked(l)
  BY DEF LocksInv, LocalOK, OwnOK, Exclusive, LocksOK
<1> QED BY <1>1, <1>2 DEF OwnedChanges, UnderLocks

LEMMA AllUnderLocks ==
  ASSUME LocksInv, NEW t \in Threads, Own(t) = LockIds, hp_' \in {hp_, hp_ + 1}
  PROVE  UnderLocks
<1>1. DOMAIN table = Buckets(hp_)
  BY DEF LocksInv, Typed
<1> QED BY <1>1, BucketLocks, OwnsAllLocked DEF UnderLocks

LEMMA MigrationUnderLocks ==
  ASSUME LocksInv, NEW l \in LockIds, LockAndRelease(l) \/ LockAndRehash(l), hp_' = hp_
  PROVE  UnderLocks
<1>1. DOMAIN table = Buckets(hp_) /\ locks[l] \in LockRecords /\ locks \in [LockIds -> LockRecords]
  BY DEF LocksInv, Typed
<1>2. locks'[l].epoch > locks[l].epoch
  <2>1. locks[l].epoch \in Nat
    BY <1>1 DEF LockRecords
  <2>2. locks'[l].epoch \in {locks[l].epoch + 1, locks[l].epoch + 2}
    BY <1>1 DEF LockAndRelease, LockAndRehash, LockRecords
  <2> QED BY <2>1, <2>2
<1>3. table' = Migrate(l)
  BY DEF LockAndRelease, LockAndRehash
<1> QED BY <1>1, <1>2, <1>3, MigrateFacts DEF LocksInv, UnderLocks

LEMMA StepUnderLocks ==
  ASSUME LocksInv, NEW t \in Threads, Begin(t) \/ Step(t)
  PROVE  UnderLocks
<1>1. CASE UNCHANGED <<table, hp_>>
  BY <1>1, Zenon DEF UnderLocks
<1>2. CASE Body(t)
  BY <1>2, BodyChanges, BodyEffect, OwnedUnderLocks, Zenon
<1>3. CASE Shift(t)
  BY <1>3, ShiftChanges, OwnedUnderLocks, Zenon DEF Shift
<1>4. CASE Clear(t) \/ Spread(t) \/ Resize(t)
  <2>1. OwnOK(t) /\ pc[t] \in HoldsAll
    BY <1>4 DEF LocksInv, LocalOK, Clear, Spread, Resize, HoldsAll
  <2>2. hp_' \in {hp_, hp_ + 1}
    BY <1>4 DEF Clear, Spread, Resize
  <2> QED BY <2>1, <2>2, AllUnderLocks DEF OwnOK
<1>5. CASE TakeLock(t)
  BY <1>5, MigrationUnderLocks DEF TakeLock
<1>6. CASE SearchInterrupted(t)
  <2>1. pc[t] \in {"bfs", "path"} /\ hp_' = hp_
    BY <1>6 DEF SearchInterrupted
  <2>2. \E l \in LockIds : LockAndRelease(l)
    BY <1>6, <2>1, SearchLock DEF SearchInterrupted
  <2> QED BY <2>1, <2>2, MigrationUnderLocks
<1>7. CASE Bfs(t)
  <2>1. pc[t] = "bfs" /\ hp_' = hp_ /\ LockAndRelease(LockInd(Head(search[t].queue).bucket))
    BY <1>7, Zenon DEF Bfs
  <2> QED BY <2>1, SearchLock, MigrationUnderLocks
<1>8. CASE Path(t)
  <2>1. pc[t] = "path" /\ hp_' = hp_ /\ LockAndRelease(LockInd(search[t].next))
    BY <1>8 DEF Path
  <2> QED BY <2>1, SearchLock, MigrationUnderLocks, SMTT(60)
<1>9. CASE ReadRehash(t)
  <2>1. pc[t] = "rehash" /\ hp_' = hp_ /\ LockAndRelease(locking[t].lock1)
    BY <1>9 DEF ReadRehash
  <2>2. locking[t].lock1 \in LockIds
    BY <2>1 DEF LocksInv, LocalOK, HpOK
  <2> QED BY <2>1, <2>2, MigrationUnderLocks
<1>10. CASE Begin(t) \/ Snapshot(t) \/ Release(t) \/ Return(t) \/ NotFound(t) \/ NoFreeSlot(t)
  BY <1>1, <1>10, Zenon DEF Begin, Snapshot, Release, Return, NotFound, NoFreeSlot, shared
<1>11. CASE Search(t) \/ Move(t) \/ Check(t) \/ ShiftFails(t)
  BY <1>1, <1>11, Zenon DEF Search, Move, Check, ShiftFails, shared
<1>12. CASE TakeNextOfAll(t) \/ DoubleThrows(t) \/ DoubleRaced(t) \/ GrowLocks(t)
             \/ Expand(t) \/ ExpandAssert(t) \/ ExpandNext(t)
  BY <1>1, <1>12 DEF TakeNextOfAll, DoubleThrows, DoubleRaced, GrowLocks, Expand, ExpandAssert,
     ExpandNext, shared
<1>13. CASE Read(t) \/ Epoch1(t) \/ CheckHp(t) \/ Epoch2(t) \/ Scan(t) \/ Value(t)
             \/ Validate1(t) \/ Validate2(t)
  BY <1>1, <1>13 DEF Read, Epoch1, Epoch2, LoadEpoch, CheckHp, Scan, Value, Validate1, Validate2,
     shared
<1>14. CASE Operate(t)
  BY <1>2, <1>10, <1>14 DEF Operate, Body
<1>15. CASE Cuckoo(t)
  BY <1>3, <1>6, <1>7, <1>8, <1>11, <1>15 DEF Cuckoo
<1>16. CASE AllLocked(t)
  BY <1>4, <1>12, <1>16 DEF AllLocked
<1>17. CASE Lookup(t)
  BY <1>9, <1>13, <1>17 DEF Lookup
<1> QED BY <1>5, <1>10, <1>14, <1>15, <1>16, <1>17 DEF Step

\* What read_value relies on (1070-1118): no step of any thread changes a
\* bucket whose lock is free and whose epoch it leaves as it was, and the
\* hashpower grows by one, under all locks.
THEOREM BucketsChangeUnderLocks == Spec => ChangesAreUnderLocks
<1>1. LocksInv /\ [Next]_vars => [UnderLocks]_vars
  BY StepUnderLocks DEF Next, Finished
<1>2. [UnderLocks]_vars =>
        [/\ \A b \in DOMAIN table :
              table'[b] # table[b] => LET l == LockInd(b)
                                      IN  Locked(l) \/ locks'[l].epoch > locks[l].epoch
         /\ hp_' # hp_ => hp_' = hp_ + 1 /\ \A l \in LockIds : Locked(l)]_vars
  BY DEF UnderLocks
<1> QED BY <1>1, <1>2, LocksInvariant, PTL DEF Spec, ChangesAreUnderLocks

-----------------------------------------------------------------------------


\* The hashpower whose indexes tell where the entries of a bucket belong.
Basis(b) == IF Spreading \/ ~locks[LockInd(b)].migrated THEN hp_ - 1 ELSE hp_

Placed ==
    \A b \in DOMAIN table, i \in SlotIds :
        table[b][i] # Empty => b \in Homes(table[b][i].key, Basis(b))

\* Where a thread owns locks of its key's buckets only after their data moved.
OwnsHomes(t) ==
    \/ pc[t] \in HoldsSome \cup {"lock"}
    \/ pc[t] = "release" /\ Go(t) = "recheck"
Migrated(t) == OwnsHomes(t) => \A l \in Own(t) : locks[l].migrated

\* Where a thread relies on the slot its path has freed.
Freed(t) ==
    pc[t] = "recheck" \/ (pc[t] = "release" /\ Go(t) = "recheck") =>
        table[PathOf(t)[1].bucket][PathOf(t)[1].slot] = Empty

PlacesInv ==
    /\ Spreading => \A l \in LockIds : locks[l].migrated
    /\ Placed
    /\ \A t \in Threads : Migrated(t) /\ Freed(t)

-----------------------------------------------------------------------------
\* An entry that move_bucket leaves or moves is where the doubled table
\* searches it.
LEMMA StaysOrMoves ==
  ASSUME NEW k \in Keys, NEW h \in 0..MaxHp, NEW b \in Homes(k, h)
  PROVE  IF NeedToMove(k, b, h) THEN b + HashSize(h) \in Homes(k, h + 1)
                                ELSE b \in Homes(k, h + 1)
<1>1. /\ I1(k, h + 1) \in {I1(k, h), I1(k, h) + HashSize(h)}
      /\ I2(k, h + 1) \in {I2(k, h), I2(k, h) + HashSize(h)}
  BY DoubledHome
<1> QED BY <1>1 DEF NeedToMove, Homes

LEMMA MovedPlaced ==
  ASSUME NEW h \in 0..MaxHp, NEW tab \in [Buckets(h + 1) -> Rows], NEW B \in SUBSET Buckets(h),
         NEW b \in Buckets(h + 1), b \in B \/ b - HashSize(h) \in B,
         \A c \in Buckets(h + 1), j \in SlotIds :
            c \in {b, b - HashSize(h)} /\ tab[c][j] # Empty => c \in Homes(tab[c][j].key, h),
         NEW i \in SlotIds, MoveBuckets(tab, B, h)[b][i] # Empty
  PROVE  b \in Homes(MoveBuckets(tab, B, h)[b][i].key, h + 1)
<1> DEFINE o == b - HashSize(h)
           e == MoveBuckets(tab, B, h)[b][i]
           S == Moving(tab, o, h)
<1>1. HashSize(h) \in Nat \ {0} /\ HashSize(h + 1) = 2 * HashSize(h)
  BY MapAssumption, SizeNat, SizeDoubles
<1>2. b \in Int /\ B \subseteq Buckets(h + 1) /\ o + HashSize(h) = b
  BY <1>1 DEF Buckets
<1>3. ASSUME NEW c \in Buckets(h + 1), NEW j \in SlotIds, tab[c][j] # Empty
      PROVE  tab[c][j].key \in Keys
  <2>1. tab[c] \in Rows
    OBVIOUS
  <2> QED BY <1>3, <2>1 DEF Rows, EntryRecords
<1>4. CASE b \in B
  <2>1. o \notin B
    BY <1>1, <1>4 DEF Buckets
  <2>2. i \notin Moving(tab, b, h)
    <3>1. i \in Moving(tab, b, h) => e = Empty
      BY <1>4, <2>1 DEF MoveBuckets
    <3> HIDE DEF e
    <3> QED BY <3>1 DEF e
  <2>3. e = tab[b][i]
    BY <2>1, <2>2 DEF MoveBuckets
  <2> HIDE DEF e
  <2>4. ~NeedToMove(e.key, b, h)
    BY <2>2, <2>3 DEF Moving, e
  <2>5. b \in Homes(e.key, h) /\ e.key \in Keys
    BY <1>3, <2>3 DEF e
  <2>6. b \in Homes(e.key, h + 1)
    BY <2>4, <2>5, StaysOrMoves
  <2> QED BY <2>6 DEF e
<1>5. CASE b \notin B /\ o \in B
  <2>1. CASE i <= Cardinality(S)
    <3>1. e = tab[o][Nth(S, i)]
      BY <1>5, <2>1 DEF MoveBuckets
    <3>2. Nth(S, i) \in S /\ S \subseteq SlotIds
      <4>1. S \in SUBSET SlotIds
        BY DEF Moving
      <4>2. i \in 1..Cardinality(S)
        <5>1. Cardinality(S) \in Nat /\ i \in Nat /\ i >= 1 /\ i <= Cardinality(S)
          BY <2>1, <4>1, SlotSets
        <5> HIDE DEF S
        <5> QED BY <5>1
      <4> HIDE DEF S
      <4> QED BY <4>1, <4>2, NthSlot
    <3>3. e # Empty /\ NeedToMove(e.key, o, h)
      <4>1. tab[o][Nth(S, i)] # Empty /\ NeedToMove(tab[o][Nth(S, i)].key, o, h)
        BY <3>2 DEF Moving
      <4> QED BY <3>1, <4>1
    <3>4. o \in Homes(e.key, h) /\ e.key \in Keys
      <4>1. o \in Buckets(h + 1) /\ Nth(S, i) \in SlotIds /\ o \in {b, b - HashSize(h)}
        BY <1>2, <1>5, <3>2
      <4> HIDE DEF o, S, e
      <4> QED BY <1>3, <3>1, <3>3, <4>1
    <3> HIDE DEF e
    <3>5. b \in Homes(e.key, h + 1)
      BY <1>2, <3>3, <3>4, StaysOrMoves
    <3> QED BY <3>5 DEF e
  <2>2. CASE ~(i <= Cardinality(S))
    <3>1. e = tab[b][i]
      BY <1>5, <2>2 DEF MoveBuckets
    <3>2. b \in Homes(e.key, h) /\ e.key \in Keys
      BY <1>3, <3>1
    <3>3. b \in Buckets(h)
      <4> HIDE DEF e
      <4> QED BY <3>2, HomesAreBuckets
    <3>4. b >= HashSize(h)
      <4>1. o \in Nat
        BY <1>1, <1>5 DEF Buckets
      <4> HIDE DEF o
      <4> QED BY <1>1, <1>2, <4>1
    <3> QED BY <1>1, <3>3, <3>4 DEF Buckets
  <2> QED BY <2>1, <2>2
<1> QED BY <1>4, <1>5

-----------------------------------------------------------------------------
LEMMA SpreadingOwnsAll ==
  ASSUME LocksInv, NEW t \in Threads, pc[t] # "spread",
         Own(t) # {} \/ \E l \in LockIds : ~locks[l].flag
  PROVE  ~Spreading
<1> SUFFICES ASSUME NEW u \in Threads, pc[u] = "spread" PROVE FALSE
  BY DEF Spreading
<1>1. u # t /\ Own(u) = LockIds
  BY DEF LocksInv, LocalOK, OwnOK, HoldsAll
<1>2. Own(t) = {}
  BY <1>1, AllMine
<1>3. \A l \in LockIds : locks[l].flag
  BY <1>1 DEF LocksInv, Exclusive
<1> QED BY <1>2, <1>3

LEMMA FreedLock ==
  ASSUME LocksInv, NEW t \in Threads, pc[t] = "recheck" \/ (pc[t] = "release" /\ Go(t) = "recheck")
  PROVE  /\ PathOf(t)[1].bucket \in Buckets(hp_) /\ PathOf(t)[1] \in PathSlots
         /\ LockInd(PathOf(t)[1].bucket) \in Own(t)
<1>1. Typed /\ LocalOK(t) /\ OwnOK(t) /\ PathOK(t) /\ HpOK(t)
  BY DEF LocksInv, LocalOK
<1>2. Stage(t) = "recheck" /\ hp_ = Hp(t) /\ pc[t] # "idle"
  BY <1>1 DEF Stage, HpOK, Frozen, HoldsSome
<1>3. PathOf(t) \in Seq(PathSlots) /\ PathOf(t) # <<>>
  BY <1>1, <1>2 DEF Typed, SearchRecords, PathOf, PathOK
<1>4. PathOf(t)[1].bucket \in Homes(Key(t), Hp(t)) /\ PathOf(t)[1] \in PathSlots
  BY <1>1, <1>2, <1>3 DEF PathOK
<1>5. HomeLocks(t) \subseteq Own(t)
  BY <1>1, <1>2 DEF OwnOK, HoldsSome, Needed
<1>6. LockInd(PathOf(t)[1].bucket) \in HomeLocks(t)
  BY <1>4 DEF HomeLocks, LocksOf
<1> QED BY <1>2, <1>4, <1>5, <1>6, KeyFacts

\* A step of t: the others keep what they rely on, because their locks are
\* neither released nor marked, and the buckets of their locks do not change.
LEMMA PlacesStep ==
  ASSUME LocksInv, LocksInv', PlacesInv, NEW t \in Threads, Others(t),
         \A l \in LockIds \ Own(t) :
            locks[l].flag /\ locks[l].migrated => locks'[l].migrated,
         \A b \in Buckets(hp_) : table'[b] # table[b] =>
            LockInd(b) \in Own(t) \/ ~locks[LockInd(b)].flag,
         Spreading' => \A l \in LockIds' : locks'[l].migrated,
         Placed', Migrated(t)', Freed(t)'
  PROVE  PlacesInv'
<1>1. ASSUME NEW u \in Threads \ {t} PROVE Migrated(u)' /\ Freed(u)'
  <2>1. /\ Own(u)' = Own(u) /\ Go(u)' = Go(u) /\ PathOf(u)' = PathOf(u) /\ pc'[u] = pc[u]
        /\ OwnsHomes(u)' = OwnsHomes(u)
    BY DEF Others, Own, Go, PathOf, OwnsHomes
  <2>2. \A l \in Own(u) : l \in LockIds /\ l \notin Own(t) /\ locks[l].flag
    BY DEF LocksInv, LocalOK, OwnOK, Exclusive
  <2>3. Migrated(u) /\ Freed(u)
    BY DEF PlacesInv
  <2>4. Migrated(u)'
    BY <2>1, <2>2, <2>3 DEF Migrated
  <2>5. Freed(u)'
    <3> SUFFICES ASSUME pc[u] = "recheck" \/ (pc[u] = "release" /\ Go(u) = "recheck")
                 PROVE  table'[PathOf(u)[1].bucket][PathOf(u)[1].slot] = Empty
      BY <2>1 DEF Freed
    <3>1. PathOf(u)[1].bucket \in Buckets(hp_) /\ LockInd(PathOf(u)[1].bucket) \in Own(u)
      BY FreedLock
    <3>2. table'[PathOf(u)[1].bucket] = table[PathOf(u)[1].bucket]
      BY <2>2, <3>1
    <3> QED BY <2>3, <3>2 DEF Freed
  <2> QED BY <2>4, <2>5
<1> QED BY <1>1 DEF PlacesInv

\* A step that changes nothing of the shared state but flags, epochs and
\* counters.
LEMMA QuietPlaces ==
  ASSUME LocksInv, LocksInv', PlacesInv, NEW t \in Threads, Others(t),
         UNCHANGED <<hp_, table>>, LockIds' = LockIds,
         \A l \in LockIds : locks'[l].migrated <=> locks[l].migrated,
         pc[t] # "spread", pc'[t] # "spread", Migrated(t)', Freed(t)'
  PROVE  PlacesInv'
<1>1. Spreading' <=> Spreading
  BY DEF Spreading, Others
<1>2. \A b \in Buckets(hp_) : LockInd(b) \in LockIds
  BY BucketLocks
<1>3. Placed'
  <2>1. DOMAIN table = Buckets(hp_)
    BY BucketLocks
  <2>2. \A b \in Buckets(hp_) : Basis(b)' = Basis(b)
    BY <1>1, <1>2 DEF Basis
  <2> QED BY <2>1, <2>2 DEF PlacesInv, Placed
<1>4. Spreading' => \A l \in LockIds' : locks'[l].migrated
  BY <1>1 DEF PlacesInv
<1>5. \A l \in LockIds \ Own(t) : locks[l].flag /\ locks[l].migrated => locks'[l].migrated
  OBVIOUS
<1> QED BY <1>3, <1>4, <1>5, PlacesStep

\* Where a thread relies neither on migrated locks nor on a freed slot.
LEMMA Homeless ==
  ASSUME NEW t \in Threads, ~OwnsHomes(t)' PROVE Migrated(t)' /\ Freed(t)'
BY DEF Migrated, Freed, OwnsHomes, HoldsSome

-----------------------------------------------------------------------------
\* Each step touches the variables of one thread.
LEMMA StepOthers ==
  ASSUME LocksInv, NEW t \in Threads, Begin(t) \/ Step(t)
  PROVE  Others(t)
<1>1. /\ DOMAIN pc = Threads /\ DOMAIN locking = Threads /\ DOMAIN search = Threads
      /\ DOMAIN todo = Threads
  BY DEF LocksInv, Typed
<1>2. CASE Begin(t) \/ Snapshot(t) \/ Return(t)
  BY <1>1, <1>2 DEF Begin, Snapshot, Return, Goto, Others
<1>3. CASE TakeLock(t) \/ Release(t)
  BY <1>1, <1>3 DEF TakeLock, Release, Goto, Others
<1>4. CASE Body(t)
  <2>1. /\ UNCHANGED <<todo, search>> /\ \E a \in Answers, m \in BOOLEAN : Answer(t, a, m)
    BY <1>4, BodyEffect
  <2> QED BY <1>1, <2>1 DEF Answer, Goto, Others
<1>5. CASE NotFound(t) \/ NoFreeSlot(t) \/ ShiftFails(t) \/ DoubleThrows(t) \/ DoubleRaced(t)
  BY <1>1, <1>5 DEF NotFound, NoFreeSlot, ShiftFails, DoubleThrows, DoubleRaced, Answer,
     StartRelease, Goto, Others
<1>6. CASE Operate(t)
  BY <1>4, <1>5, <1>6, Zenon DEF Operate, Body
<1>7. CASE Search(t) \/ SearchInterrupted(t) \/ Move(t) \/ Check(t)
  BY <1>1, <1>7, Zenon DEF Search, SearchInterrupted, Move, Check, StartRelease, Goto, Others
<1>8. CASE Bfs(t)
  <2>1. /\ UNCHANGED todo
        /\ \E s : search' = [search EXCEPT ![t] = s] \/ \E q : search' = [search EXCEPT ![t].queue = q]
        /\ UNCHANGED pc \/ \E l : pc' = [pc EXCEPT ![t] = l]
        /\ UNCHANGED locking \/ locking' = [locking EXCEPT ![t].go = "double"]
    BY <1>8, Zenon DEF Bfs, Goto
  <2> QED BY <1>1, <2>1, Zenon DEF Others
<1>9. CASE Path(t)
  BY <1>1, <1>9, Zenon DEF Path, Goto, Others
<1>10. CASE Shift(t)
  <2>1. /\ UNCHANGED todo
        /\ \E q : search' = [search EXCEPT ![t].path = q]
        /\ ShiftEnds(t)
    BY <1>10, Zenon DEF Shift, ShiftEnds
  <2> QED BY <1>1, <2>1, Zenon DEF Others, ShiftEnds, StartRelease, Goto
<1>11. CASE Cuckoo(t)
  BY <1>5, <1>7, <1>8, <1>9, <1>10, <1>11, SMTT(60) DEF Cuckoo
<1>12. CASE TakeNextOfAll(t) \/ GrowLocks(t) \/ Resize(t) \/ Clear(t)
  BY <1>1, <1>12 DEF TakeNextOfAll, GrowLocks, Resize, Clear, Answer, Goto, Others
<1>13. CASE Spread(t)
  <2>1. /\ UNCHANGED <<todo, search>>
        /\ \/ StartRelease(t, locking[t].own, TRUE, "snapshot")
           \/ Goto(t, "expand_next") /\ UNCHANGED locking
    BY <1>13 DEF Spread
  <2> QED BY <1>1, <2>1 DEF StartRelease, Goto, Others
<1>14. CASE Expand(t) \/ ExpandAssert(t) \/ ExpandNext(t)
  BY <1>1, <1>14 DEF Expand, ExpandAssert, ExpandNext, Answer, Goto, Others
<1>15. CASE AllLocked(t)
  BY <1>5, <1>12, <1>13, <1>14, <1>15 DEF AllLocked
<1>16. CASE Lookup(t)
  <2>1. /\ UNCHANGED <<todo, search>>
        /\ UNCHANGED pc \/ \E l : pc' = [pc EXCEPT ![t] = l]
        /\ \/ UNCHANGED locking \/ \E h : locking' = [locking EXCEPT ![t].hp = h]
           \/ \E l : locking' = [locking EXCEPT ![t].lock1 = l]
    BY <1>16 DEF Lookup, Read, Epoch1, Epoch2, LoadEpoch, ReadRehash, CheckHp, Scan, Value,
       Validate1, Validate2, Goto
  <2> QED BY <1>1, <2>1, SMTT(60) DEF Others
<1> QED BY <1>2, <1>3, <1>6, <1>11, <1>15, <1>16 DEF Step

-----------------------------------------------------------------------------
\* The steps that leave the shared state alone.
LEMMA SharedPlaces ==
  ASSUME LocksInv, LocksInv', PlacesInv, NEW t \in Threads, Others(t), UNCHANGED shared,
         pc[t] # "spread", pc'[t] # "spread", Migrated(t)', Freed(t)'
  PROVE  PlacesInv'
BY QuietPlaces DEF shared, LockIds

LEMMA Lands ==
  ASSUME LocksInv, NEW t \in Threads,
         \/ Begin(t) \/ Return(t) \/ NotFound(t) \/ NoFreeSlot(t) \/ Search(t) \/ ShiftFails(t)
         \/ DoubleThrows(t) \/ DoubleRaced(t) \/ Expand(t) \/ ExpandAssert(t) \/ ExpandNext(t)
         \/ Read(t) \/ Epoch1(t) \/ Epoch2(t) \/ CheckHp(t) \/ Scan(t) \/ Value(t)
         \/ Validate1(t) \/ Validate2(t)
  PROVE  UNCHANGED shared /\ pc[t] # "spread" /\ pc'[t] # "spread" /\ ~OwnsHomes(t)'
<1>1. DOMAIN pc = Threads /\ DOMAIN locking = Threads /\ locking[t] \in LockingRecords
  BY DEF LocksInv, Typed
<1>2. CASE Begin(t) \/ Return(t) \/ Search(t) \/ Expand(t) \/ ExpandAssert(t)
  BY <1>1, <1>2 DEF Begin, Return, Search, Expand, ExpandAssert, Goto, OwnsHomes, HoldsSome
<1>3. CASE NotFound(t) \/ NoFreeSlot(t) \/ ShiftFails(t) \/ DoubleThrows(t) \/ DoubleRaced(t)
  <2>1. UNCHANGED shared /\ pc[t] # "spread" /\ pc'[t] = "release"
    BY <1>1, <1>3 DEF NotFound, NoFreeSlot, ShiftFails, DoubleThrows, DoubleRaced, Answer,
       StartRelease, Goto
  <2>2. Go(t)' \in {"return", "search", "snapshot"}
    BY <1>1, <1>3 DEF NotFound, NoFreeSlot, ShiftFails, DoubleThrows, DoubleRaced, Answer,
       StartRelease, Go, LockingRecords
  <2> QED BY <2>1, <2>2 DEF OwnsHomes, HoldsSome
<1>4. CASE ExpandNext(t)
  <2>1. UNCHANGED shared /\ pc[t] # "spread" /\ pc'[t] \in {"double", "release"}
    BY <1>1, <1>4 DEF ExpandNext, Answer, Goto
  <2>2. pc'[t] = "release" => Go(t)' = "return"
    BY <1>1, <1>4, SMTT(60) DEF ExpandNext, Answer, Goto, Go, LockingRecords
  <2> QED BY <2>1, <2>2 DEF OwnsHomes, HoldsSome
<1>5. CASE Read(t) \/ Epoch1(t) \/ Epoch2(t) \/ CheckHp(t) \/ Scan(t) \/ Value(t)
             \/ Validate1(t) \/ Validate2(t)
  <2>1. /\ UNCHANGED shared /\ pc[t] # "spread"
        /\ pc'[t] \in {"epoch1", "epoch2", "read", "rehash", "check_hp", "scan", "value",
                       "validate1", "validate2", "return"}
    BY <1>1, <1>5, Zenon DEF Read, Epoch1, Epoch2, LoadEpoch, CheckHp, Scan, Value, Validate1,
       Validate2, Goto
  <2> QED BY <2>1, Zenon DEF OwnsHomes, HoldsSome
<1> QED BY <1>2, <1>3, <1>4, <1>5

LEMMA CheckPlaces ==
  ASSUME LocksInv, LocksInv', PlacesInv, NEW t \in Threads, Others(t),
         Snapshot(t) \/ Move(t) \/ Check(t)
  PROVE  PlacesInv'
<1>1. DOMAIN pc = Threads /\ DOMAIN locking = Threads /\ locking[t] \in LockingRecords
  BY DEF LocksInv, Typed
<1>2. CASE Snapshot(t) \/ Move(t)
  <2>1. UNCHANGED shared /\ pc[t] # "spread" /\ pc'[t] = "lock"
    BY <1>1, <1>2, Zenon DEF Snapshot, Move, Goto
  <2>2. Own(t)' = {}
    <3>1. CASE Snapshot(t)
      <4>1. PICK n, L, l : locking' = [locking EXCEPT ![t] = [NoLocking EXCEPT
                              !.hp = n, !.want = L, !.lock1 = l, !.go = "body"]]
        BY <3>1 DEF Snapshot
      <4>2. Own(t)' = [NoLocking EXCEPT !.hp = n, !.want = L, !.lock1 = l, !.go = "body"].own
        BY <1>1, <4>1, Zenon DEF Own
      <4> QED BY <4>2 DEF NoLocking
    <3>2. CASE Move(t)
      <4>1. PICK L, l, go : locking' = [locking EXCEPT ![t].want = L, ![t].own = {},
                                                       ![t].lock1 = l, ![t].go = go]
        BY <3>2, Zenon DEF Move
      <4> DEFINE r == [locking[t] EXCEPT !.want = L, !.own = {}, !.lock1 = l, !.go = go]
      <4>2. locking' = [locking EXCEPT ![t] = r]
        BY <4>1
      <4>3. r.own = {}
        BY <1>1 DEF LockingRecords
      <4> HIDE DEF r
      <4> QED BY <1>1, <4>2, <4>3, Zenon DEF Own
    <3> QED BY <1>2, <3>1, <3>2
  <2>3. Migrated(t)' /\ Freed(t)'
    BY <2>1, <2>2 DEF Migrated, Freed
  <2> QED BY <2>1, <2>3, SharedPlaces, Zenon
<1>3. CASE Check(t)
  <2>1. UNCHANGED shared /\ UNCHANGED search /\ pc[t] = "check" /\ pc'[t] # "spread"
    BY <1>1, <1>3 DEF Check, StartRelease, Goto
  <2>2. CASE Goto(t, "recheck") /\ UNCHANGED locking
                /\ table[search[t].path[1].bucket][search[t].path[1].slot] = Empty
    <3>1. Own(t)' = Own(t) /\ PathOf(t)' = PathOf(t) /\ pc'[t] = "recheck"
      BY <1>1, <2>1, <2>2 DEF Own, PathOf, Goto
    <3>2. Freed(t)'
      BY <2>1, <2>2, <3>1 DEF Freed, PathOf, shared
    <3>3. Migrated(t)'
      <4>1. \A l \in Own(t) : locks[l].migrated
        BY <2>1 DEF PlacesInv, Migrated, OwnsHomes, HoldsSome
      <4> QED BY <2>1, <3>1, <4>1 DEF Migrated, shared
    <3> QED BY <2>1, <3>2, <3>3, SharedPlaces
  <2>3. CASE StartRelease(t, locking[t].own, TRUE, "search")
    <3>1. pc'[t] = "release" /\ Go(t)' = "search"
      BY <1>1, <2>3 DEF StartRelease, Goto, Go, LockingRecords
    <3>2. ~OwnsHomes(t)'
      BY <3>1 DEF OwnsHomes, HoldsSome
    <3> QED BY <2>1, <3>2, SharedPlaces, Homeless
  <2> QED BY <1>3, <2>2, <2>3 DEF Check
<1> QED BY <1>2, <1>3

LEMMA ReleasePlaces ==
  ASSUME LocksInv, LocksInv', PlacesInv, NEW t \in Threads, Others(t), Release(t)
  PROVE  PlacesInv'
<1>1. /\ DOMAIN pc = Threads /\ DOMAIN locking = Threads /\ locking[t] \in LockingRecords
      /\ locks \in [LockIds -> LockRecords] /\ OwnOK(t)
  BY DEF LocksInv, Typed, LocalOK
<1>2. PICK l \in Drop(t) :
         /\ locks' = Unlocked(l, locking[t].modified)
         /\ locking' = [locking EXCEPT ![t].drop = @ \ {l}, ![t].own = @ \ {l}]
         /\ Goto(t, IF Drop(t) = {l} THEN Go(t) ELSE "release")
  BY DEF Release, Drop, Go
<1>3. pc[t] = "release" /\ UNCHANGED <<hp_, table, todo, search>> /\ l \in LockIds
      /\ Go(t) \in {"return", "search", "snapshot", "move", "recheck"}
  BY <1>1 DEF Release, OwnOK
<1>4. LockIds' = LockIds /\ \A k \in LockIds : (locks'[k].migrated <=> locks[k].migrated)
  <2>1. locks[l] \in LockRecords
    BY <1>1, <1>3
  <2>2. LockIds' = LockIds
    BY <1>2 DEF Unlocked, LockIds
  <2>3. ASSUME NEW k \in LockIds, k # l PROVE locks'[k] = locks[k]
    BY <1>1, <1>2, <2>3 DEF Unlocked
  <2>4. locks'[l].migrated <=> locks[l].migrated
    BY <1>1, <1>2, <1>3, <2>1 DEF Unlocked, LockRecords
  <2> QED BY <2>2, <2>3, <2>4
<1>5. /\ Own(t)' = Own(t) \ {l} /\ Go(t)' = Go(t) /\ PathOf(t)' = PathOf(t)
      /\ pc'[t] \in {Go(t), "release"}
  BY <1>1, <1>2, <1>3 DEF Own, Go, PathOf, LockingRecords, Goto
<1>6. OwnsHomes(t)' => Go(t) = "recheck"
  BY <1>3, <1>5 DEF OwnsHomes, HoldsSome
<1>7. Migrated(t) /\ Freed(t)
  BY DEF PlacesInv
<1>8. Migrated(t)'
  <2> SUFFICES ASSUME Go(t) = "recheck" PROVE \A k \in Own(t)' : locks'[k].migrated
    BY <1>6 DEF Migrated
  <2>1. \A k \in Own(t) : locks[k].migrated /\ k \in LockIds
    BY <1>1, <1>3, <1>7 DEF Migrated, OwnsHomes, OwnOK
  <2> QED BY <1>4, <1>5, <2>1
<1>9. Freed(t)'
  BY <1>3, <1>5, <1>7 DEF Freed
<1>10. pc[t] # "spread" /\ pc'[t] # "spread"
  BY <1>3, <1>5
<1> QED BY <1>3, <1>4, <1>8, <1>9, <1>10, QuietPlaces

LEMMA TakeNextPlaces ==
  ASSUME LocksInv, LocksInv', PlacesInv, NEW t \in Threads, Others(t), TakeNextOfAll(t)
  PROVE  PlacesInv'
<1> DEFINE l == Cardinality(locking[t].own)
<1>1. /\ DOMAIN pc = Threads /\ locks \in [LockIds -> LockRecords] /\ OwnOK(t)
  BY DEF LocksInv, Typed, LocalOK
<1>2. /\ pc[t] = "lock_all" /\ UNCHANGED <<hp_, table>>
      /\ locks' = [locks EXCEPT ![l].flag = TRUE, ![l].epoch = @ + 1]
      /\ pc'[t] \in {"lock_all", locking[t].go}
  BY <1>1 DEF TakeNextOfAll, Goto
<1> HIDE DEF l
<1>3. LockIds' = LockIds /\ \A k \in LockIds : (locks'[k].migrated <=> locks[k].migrated)
  <2>1. LockIds' = LockIds
    BY <1>2 DEF LockIds
  <2>2. ASSUME NEW k \in LockIds PROVE locks'[k].migrated <=> locks[k].migrated
    <3>1. locks[k] \in LockRecords
      BY <1>1
    <3> QED BY <1>1, <1>2, <3>1 DEF LockRecords
  <2> QED BY <2>1, <2>2
<1>4. pc'[t] \in {"lock_all", "clear", "expand_next", "double"}
  BY <1>1, <1>2 DEF OwnOK, Go
<1>5. pc'[t] # "spread" /\ ~OwnsHomes(t)'
  BY <1>4 DEF OwnsHomes, HoldsSome
<1> QED BY <1>2, <1>3, <1>5, Homeless, QuietPlaces

-----------------------------------------------------------------------------
\* Moving what the last doubling left under the locks L brings the entries to
\* where the hashpower of the table has them.
LeftBuckets(L) == UNION {OldBuckets(l) : l \in L}

LEMMA LeftMoved ==
  ASSUME LocksInv, PlacesInv, ~Spreading, NEW L \in SUBSET LockIds,
         \A l \in L : ~locks[l].migrated,
         NEW b \in Buckets(hp_), LockInd(b) \in L, NEW i \in SlotIds,
         MoveBuckets(table, LeftBuckets(L), hp_ - 1)[b][i] # Empty
  PROVE  b \in Homes(MoveBuckets(table, LeftBuckets(L), hp_ - 1)[b][i].key, hp_)
<1> DEFINE h == hp_ - 1
           B == LeftBuckets(L)
<1>1. hp_ \in 0..MaxHp /\ hp_ > LockPow /\ LockPow \in Nat /\ MaxHp \in Nat
  <2>1. LockInd(b) \in LockIds /\ ~locks[LockInd(b)].migrated
    OBVIOUS
  <2> QED BY <2>1, MapAssumption DEF LocksInv, LocksOK, Typed
<1>2. h \in LockPow..MaxHp /\ h \in 0..MaxHp /\ h + 1 = hp_
  BY <1>1
<1>3. B \in SUBSET Buckets(h) /\ \A c \in Buckets(h) : LockInd(c) \in L => c \in B
  BY DEF OldBuckets, Buckets, LeftBuckets
<1> HIDE DEF B
<1>4. HashSize(h) \in Nat \ {0} /\ HashSize(h + 1) = 2 * HashSize(h)
  BY <1>2, SizeNat, SizeDoubles, MapAssumption
<1> HIDE DEF h
<1>5. b \in Buckets(h + 1) /\ b \in Nat /\ DOMAIN table = Buckets(hp_)
      /\ table \in [Buckets(h + 1) -> Rows]
  BY <1>2, BucketLocks
<1>6. b - HashSize(h) \in Nat => LockInd(b - HashSize(h)) \in L
  <2> HAVE b - HashSize(h) \in Nat
  <2>1. LockInd((b - HashSize(h)) + HashSize(h)) = LockInd(b - HashSize(h))
    BY <1>2, DoubledLock
  <2>2. (b - HashSize(h)) + HashSize(h) = b
    BY <1>4, <1>5
  <2> QED BY <2>1, <2>2
<1>7. b \in B \/ b - HashSize(h) \in B
  <2>1. CASE b < HashSize(h)
    <3>1. b \in Buckets(h)
      BY <1>4, <1>5, <2>1 DEF Buckets
    <3> QED BY <1>3, <3>1
  <2>2. CASE ~(b < HashSize(h))
    <3>1. b - HashSize(h) \in Buckets(h) /\ b - HashSize(h) \in Nat
      BY <1>4, <1>5, <2>2 DEF Buckets
    <3> QED BY <1>3, <1>6, <3>1
  <2> QED BY <2>1, <2>2
<1>8. ASSUME NEW c \in Buckets(h + 1), NEW j \in SlotIds,
             c \in {b, b - HashSize(h)}, table[c][j] # Empty
      PROVE  c \in Homes(table[c][j].key, h)
  <2>1. LockInd(c) \in L /\ c \in Buckets(hp_)
    BY <1>2, <1>6, <1>8, BucketLocks
  <2>2. Basis(c) = h
    BY <2>1 DEF Basis, h
  <2> QED BY <1>5, <1>8, <2>1, <2>2 DEF Placed, PlacesInv
<1>9. MoveBuckets(table, B, h)[b][i] # Empty
  BY DEF B, h
<1>10. b \in Homes(MoveBuckets(table, B, h)[b][i].key, h + 1)
  BY <1>2, <1>3, <1>5, <1>7, <1>8, <1>9, MovedPlaced
<1> QED BY <1>2, <1>10 DEF B, h

-----------------------------------------------------------------------------
\* What taking a lock does to the entries: those of an unmigrated lock move to
\* where the hashpower of the table has them.
LEMMA MigratePlaces ==
  ASSUME LocksInv, PlacesInv, NEW l \in LockIds,
         LockAndRelease(l) \/ LockAndRehash(l), hp_' = hp_, ~Spreading, ~Spreading',
         LockIds' = LockIds
  PROVE  /\ Placed'
         /\ \A b \in Buckets(hp_) : table'[b] # table[b] => LockInd(b) = l
         /\ locks'[l].migrated
         /\ \A k \in LockIds \ {l} : (locks'[k].migrated <=> locks[k].migrated)
<1>1. Typed /\ LocksOK /\ locks \in [LockIds -> LockRecords] /\ locks[l] \in LockRecords
  BY DEF LocksInv, Typed
<1>2. table' = Migrate(l) /\ ~locks[l].flag
  BY DEF LockAndRelease, LockAndRehash
<1>3. Migrate(l) \in [Buckets(hp_) -> Rows]
      /\ \A b \in Buckets(hp_) : Migrate(l)[b] # table[b] => LockInd(b) = l
  BY <1>1, MigrateFacts
<1>4. locks'[l].migrated /\ \A k \in LockIds \ {l} : (locks'[k].migrated <=> locks[k].migrated)
  <2>1. CASE LockAndRelease(l)
    <3> DEFINE r == [locks[l] EXCEPT !.epoch = @ + 2, !.migrated = TRUE]
    <3>1. locks' = [locks EXCEPT ![l] = r]
      BY <1>1, <2>1 DEF LockAndRelease
    <3>2. r.migrated
      BY <1>1 DEF LockRecords
    <3> HIDE DEF r
    <3> QED BY <1>1, <3>1, <3>2
  <2>2. CASE LockAndRehash(l)
    <3> DEFINE r == [locks[l] EXCEPT !.flag = TRUE, !.epoch = @ + 1, !.migrated = TRUE]
    <3>1. locks' = [locks EXCEPT ![l] = r]
      BY <1>1, <2>2 DEF LockAndRehash
    <3>2. r.migrated
      BY <1>1 DEF LockRecords
    <3> HIDE DEF r
    <3> QED BY <1>1, <3>1, <3>2
  <2> QED BY <2>1, <2>2
<1>5. \A b \in Buckets(hp_) : b \in Nat /\ LockInd(b) \in LockIds
  BY BucketLocks
<1>6. Placed
  BY DEF PlacesInv
<1>7. DOMAIN table = Buckets(hp_) /\ DOMAIN table' = Buckets(hp_) /\ table \in [Buckets(hp_) -> Rows]
  BY <1>1, <1>2, <1>3, BucketLocks
<1>8. ASSUME NEW b \in Buckets(hp_), NEW i \in SlotIds, LockInd(b) # l, table'[b][i] # Empty
      PROVE  b \in Homes(table'[b][i].key, Basis(b)')
  <2>1. table'[b] = table[b]
    BY <1>2, <1>3, <1>8
  <2>2. Basis(b)' = Basis(b)
    BY <1>4, <1>5, <1>8 DEF Basis
  <2> QED BY <1>6, <1>7, <1>8, <2>1, <2>2 DEF Placed
<1>9. ASSUME NEW b \in Buckets(hp_), NEW i \in SlotIds, LockInd(b) = l, table'[b][i] # Empty
      PROVE  b \in Homes(table'[b][i].key, hp_)
  <2>1. CASE locks[l].migrated
    <3>1. table' = table
      BY <1>2, <2>1 DEF Migrate
    <3>2. Basis(b) = hp_
      BY <1>9, <2>1 DEF Basis
    <3> QED BY <1>6, <1>7, <1>9, <3>1, <3>2 DEF Placed
  <2>2. CASE ~locks[l].migrated
    <3>1. table' = MoveBuckets(table, LeftBuckets({l}), hp_ - 1)
      <4>1. LeftBuckets({l}) = OldBuckets(l)
        BY DEF LeftBuckets
      <4> QED BY <1>2, <2>2, <4>1 DEF Migrate
    <3> QED BY <1>9, <2>2, <3>1, LeftMoved
  <2> QED BY <2>1, <2>2
<1>10. Placed'
  <2> SUFFICES ASSUME NEW b \in Buckets(hp_), NEW i \in SlotIds, table'[b][i] # Empty
               PROVE  b \in Homes(table'[b][i].key, Basis(b)')
    BY <1>7 DEF Placed
  <2>1. LockInd(b) = l => Basis(b)' = hp_
    BY <1>4 DEF Basis
  <2> QED BY <1>8, <1>9, <2>1
<1> QED BY <1>2, <1>3, <1>4, <1>10

\* A step that takes lock l and owns it afterwards, or releases it again.
LEMMA TakesPlaces ==
  ASSUME LocksInv, LocksInv', PlacesInv, NEW t \in Threads, Others(t), NEW l \in LockIds,
         LockAndRelease(l) \/ LockAndRehash(l), hp_' = hp_,
         pc[t] # "spread", pc'[t] # "spread",
         OwnsHomes(t)' => OwnsHomes(t) /\ Own(t)' \subseteq Own(t) \cup {l},
         pc'[t] # "recheck" /\ ~(pc'[t] = "release" /\ Go(t)' = "recheck")
  PROVE  PlacesInv'
<1>1. ~locks[l].flag /\ LockIds' = LockIds
  BY DEF LockAndRelease, LockAndRehash, LockIds
<1>2. ~Spreading
  BY <1>1, SpreadingOwnsAll
<1>3. ~Spreading'
  BY <1>2 DEF Spreading, Others
<1>4. /\ Placed'
      /\ \A b \in Buckets(hp_) : table'[b] # table[b] => LockInd(b) = l
      /\ locks'[l].migrated
      /\ \A k \in LockIds \ {l} : (locks'[k].migrated <=> locks[k].migrated)
  BY <1>1, <1>2, <1>3, MigratePlaces
<1>5. Freed(t)'
  BY DEF Freed
<1>6. Migrated(t)'
  <2> SUFFICES ASSUME OwnsHomes(t)', NEW k \in Own(t)' PROVE locks'[k].migrated
    BY DEF Migrated
  <2>1. k \in Own(t) \cup {l}
    OBVIOUS
  <2>2. k \in Own(t) => k \in LockIds /\ locks[k].migrated
    BY DEF PlacesInv, Migrated, LocksInv, LocalOK, OwnOK
  <2> QED BY <1>4, <2>1, <2>2
<1>7. \A k \in LockIds \ Own(t) : locks[k].flag /\ locks[k].migrated => locks'[k].migrated
  BY <1>4
<1>8. \A b \in Buckets(hp_) : table'[b] # table[b] => LockInd(b) \in Own(t) \/ ~locks[LockInd(b)].flag
  BY <1>1, <1>4
<1> QED BY <1>3, <1>4, <1>5, <1>6, <1>7, <1>8, PlacesStep

LEMMA TakeLockPlaces ==
  ASSUME LocksInv, LocksInv', PlacesInv, NEW t \in Threads, Others(t), TakeLock(t)
  PROVE  PlacesInv'
<1> DEFINE l == NextLock(t)
<1>1. /\ DOMAIN pc = Threads /\ DOMAIN locking = Threads /\ locking[t] \in LockingRecords
      /\ OwnOK(t)
  BY DEF LocksInv, Typed, LocalOK
<1>2. pc[t] = "lock" /\ l \in LockIds /\ hp_' = hp_ /\ Go(t) \in {"body", "check", "shift"}
  BY <1>1 DEF TakeLock, OwnOK
<1>3. OwnsHomes(t)
  BY <1>2 DEF OwnsHomes
<1>4. ASSUME LockAndRelease(l), Goto(t, "snapshot") PROVE PlacesInv'
  <2>1. pc'[t] = "snapshot"
    BY <1>1, <1>4 DEF Goto
  <2>2. ~OwnsHomes(t)'
    BY <2>1 DEF OwnsHomes, HoldsSome
  <2> HIDE DEF l
  <2> QED BY <1>2, <1>4, <2>1, <2>2, TakesPlaces
<1>5. ASSUME LockAndRehash(l), 
             locking' = [locking EXCEPT ![t].want = @ \ {l}, ![t].own = @ \cup {l}],
             Goto(t, IF locking[t].want = {l} THEN locking[t].go ELSE "lock")
      PROVE  PlacesInv'
  <2> HIDE DEF l
  <2> DEFINE r == [locking[t] EXCEPT !.want = @ \ {l}, !.own = @ \cup {l}]
  <2>1. locking' = [locking EXCEPT ![t] = r]
    BY <1>5
  <2>2. r.own = Own(t) \cup {l}
    BY <1>1 DEF LockingRecords, Own
  <2> HIDE DEF r
  <2>3. Own(t)' = Own(t) \cup {l}
    BY <1>1, <2>1, <2>2 DEF Own
  <2>4. pc'[t] \in {"lock", "body", "check", "shift"}
    BY <1>1, <1>2, <1>5 DEF Goto, Go
  <2> QED BY <1>2, <1>3, <1>5, <2>3, <2>4, TakesPlaces
<1> HIDE DEF l
<1> QED BY <1>4, <1>5 DEF TakeLock, l

LEMMA TouchPlaces ==
  ASSUME LocksInv, LocksInv', PlacesInv, NEW t \in Threads, Others(t),
         SearchInterrupted(t) \/ Bfs(t) \/ Path(t) \/ ReadRehash(t)
  PROVE  PlacesInv'
<1>1. DOMAIN pc = Threads
  BY DEF LocksInv, Typed
<1>2. /\ hp_' = hp_ /\ pc[t] \in {"bfs", "path", "rehash"}
      /\ pc'[t] \in {"snapshot", "bfs", "path", "move", "lock_all", "read"}
  <2>1. CASE SearchInterrupted(t) \/ ReadRehash(t)
    BY <1>1, <2>1, Zenon DEF SearchInterrupted, ReadRehash, Goto
  <2>2. CASE Bfs(t)
    BY <1>1, <2>2, Zenon DEF Bfs, Goto
  <2>3. CASE Path(t)
    BY <1>1, <2>3 DEF Path, Goto
  <2> QED BY <2>1, <2>2, <2>3, Zenon
<1>3. ~OwnsHomes(t)'
  BY <1>2 DEF OwnsHomes, HoldsSome
<1>4. \E l \in LockIds : LockAndRelease(l)
  <2>1. CASE SearchInterrupted(t)
    <3>1. LockInd(IF pc[t] = "bfs" THEN Head(search[t].queue).bucket ELSE search[t].next) \in LockIds
      BY <2>1, SearchLock, Zenon DEF SearchInterrupted
    <3> QED BY <2>1, <3>1 DEF SearchInterrupted
  <2>2. CASE Bfs(t)
    <3>1. LockInd(Head(search[t].queue).bucket) \in LockIds
      BY <2>2, SearchLock, Zenon DEF Bfs
    <3> QED BY <2>2, <3>1, Zenon DEF Bfs
  <2>3. CASE Path(t)
    <3>1. LockInd(search[t].next) \in LockIds
      BY <2>3, SearchLock, Zenon DEF Path
    <3> QED BY <2>3, <3>1, Zenon DEF Path
  <2>4. CASE ReadRehash(t)
    <3>1. locking[t].lock1 \in LockIds
      BY <2>4 DEF ReadRehash, LocksInv, LocalOK, HpOK
    <3> QED BY <2>4, <3>1 DEF ReadRehash
  <2> QED BY <2>1, <2>2, <2>3, <2>4
<1> QED BY <1>2, <1>3, <1>4, TakesPlaces

-----------------------------------------------------------------------------
\* The steps that write a bucket write one of the thread's own locks, whose
\* data have moved.
LEMMA OwnedBasis ==
  ASSUME LocksInv, PlacesInv, NEW t \in Threads, pc[t] \in HoldsSome
  PROVE  /\ ~Spreading /\ hp_ = Hp(t) /\ OwnsHomes(t)
         /\ \A b : LockInd(b) \in Own(t) => Basis(b) = hp_
<1>1. Own(t) # {}
  BY OwnsSome
<1>2. pc[t] # "spread"
  BY DEF HoldsSome
<1>3. ~Spreading
  BY <1>1, <1>2, SpreadingOwnsAll
<1>4. hp_ = Hp(t) /\ OwnsHomes(t)
  BY DEF LocksInv, LocalOK, HpOK, Frozen, OwnsHomes
<1>5. \A l \in Own(t) : locks[l].migrated
  BY <1>4 DEF PlacesInv, Migrated
<1> QED BY <1>3, <1>4, <1>5 DEF Basis

\* Such a step keeps Placed when the buckets that change hold keys of theirs.
LEMMA OwnedPlaces ==
  ASSUME LocksInv, LocksInv', PlacesInv, NEW t \in Threads, Others(t), pc[t] \in HoldsSome,
         pc'[t] # "spread", hp_' = hp_, LockIds' = LockIds,
         \A l \in LockIds : (locks'[l].migrated <=> locks[l].migrated),
         \A b \in Buckets(hp_) : table'[b] # table[b] => LockInd(b) \in Own(t),
         \A b \in Buckets(hp_), i \in SlotIds :
            table'[b][i] # Empty /\ table'[b][i] # table[b][i] => b \in Homes(table'[b][i].key, hp_),
         Own(t)' = Own(t), Freed(t)'
  PROVE  PlacesInv'
<1>1. /\ ~Spreading /\ OwnsHomes(t) /\ \A b : LockInd(b) \in Own(t) => Basis(b) = hp_
  BY OwnedBasis
<1>2. ~Spreading'
  BY <1>1 DEF Spreading, Others
<1>3. \A b \in Buckets(hp_) : Basis(b)' = Basis(b)
  BY <1>1, <1>2, BucketLocks DEF Basis
<1>4. DOMAIN table = Buckets(hp_) /\ DOMAIN table' = Buckets(hp_)
  BY DEF LocksInv, Typed
<1>5. Placed'
  <2> SUFFICES ASSUME NEW b \in Buckets(hp_), NEW i \in SlotIds, table'[b][i] # Empty
               PROVE  b \in Homes(table'[b][i].key, Basis(b))
    BY <1>3, <1>4 DEF Placed
  <2>1. CASE table'[b][i] = table[b][i]
    BY <1>4, <2>1 DEF PlacesInv, Placed
  <2>2. CASE table'[b][i] # table[b][i]
    <3>1. LockInd(b) \in Own(t)
      BY <2>2
    <3> QED BY <1>1, <2>2, <3>1
  <2> QED BY <2>1, <2>2
<1>6. Migrated(t)'
  <2>1. \A l \in Own(t) : l \in LockIds /\ locks[l].migrated
    BY <1>1 DEF PlacesInv, Migrated, LocksInv, LocalOK, OwnOK
  <2> QED BY <2>1 DEF Migrated
<1> QED BY <1>2, <1>5, <1>6, PlacesStep

LEMMA BodyPlaces ==
  ASSUME LocksInv, LocksInv', PlacesInv, NEW t \in Threads, Others(t), Body(t)
  PROVE  PlacesInv'
<1>1. /\ Writes(t) /\ hp_' = hp_ /\ pc[t] \in {"body", "recheck"}
      /\ \/ locks' = [locks EXCEPT ![locking[t].lock1].count = @ + 1]
         \/ locks' = [locks EXCEPT ![locking[t].lock1].count = @ - 1]
         \/ locks' = locks
      /\ \E a \in Answers, m \in BOOLEAN : Answer(t, a, m)
  BY BodyEffect
<1>2. Typed /\ LocksOK
  BY DEF LocksInv
<1>3. LockIds' = LockIds /\ \A l \in LockIds : (locks'[l].migrated <=> locks[l].migrated)
  BY <1>1, <1>2, CountEffect
<1>4. pc'[t] = "release" /\ Own(t)' = Own(t) /\ Go(t)' = "return"
  BY <1>1, <1>2, AnswerEffect
<1>5. pc[t] \in HoldsSome /\ pc[t] # "idle" /\ hp_ = Hp(t)
  BY <1>1 DEF HoldsSome, LocksInv, LocalOK, HpOK, Frozen
<1>6. \A b \in Buckets(hp_) : table'[b] # table[b] => LockInd(b) \in Own(t)
  BY BodyChanges DEF OwnedChanges
<1>7. ASSUME NEW c \in Buckets(hp_), NEW j \in SlotIds,
             table'[c][j] # Empty, table'[c][j] # table[c][j]
      PROVE  c \in Homes(table'[c][j].key, hp_)
  <2>1. PICK b \in Homes(Key(t), Hp(t)), i \in SlotIds, v \in EntryRecords \cup {Empty} :
           table' = [table EXCEPT ![b][i] = v] /\ (v # Empty => v.key = Key(t))
    BY <1>1, <1>7 DEF Writes
  <2>2. b \in Buckets(hp_) /\ table \in [Buckets(hp_) -> Rows]
    BY <1>5, <2>1, KeyFacts, BucketLocks
  <2>3. c = b /\ j = i /\ table'[c][j] = v
    BY <1>7, <2>1, <2>2, PutTyped
  <2> QED BY <1>5, <1>7, <2>1, <2>3
<1>8. Freed(t)'
  BY <1>4 DEF Freed
<1> QED BY <1>1, <1>3, <1>4, <1>5, <1>6, <1>7, <1>8, OwnedPlaces

\* A key moves along its path to its other bucket.
LEMMA SameHomes ==
  ASSUME NEW k \in Keys, NEW m \in Keys, SameHash(k, m), NEW h
  PROVE  Homes(k, h) = Homes(m, h)
BY MapAssumption DEF SameHash, Homes, I1, I2

LEMMA ShiftMoves ==
  ASSUME LocksInv, PlacesInv, NEW t \in Threads, Shift(t)
  PROVE  /\ \A b \in Buckets(hp_), i \in SlotIds :
               table'[b][i] # Empty /\ table'[b][i] # table[b][i] => b \in Homes(table'[b][i].key, hp_)
         /\ table'[PathOf(t)[Depth(t)].bucket][PathOf(t)[Depth(t)].slot] = Empty
<1> DEFINE from == PathOf(t)[Depth(t)]
           to == PathOf(t)[Depth(t) + 1]
           v == table[from.bucket][from.slot]
           b == to.bucket
           i == to.slot
           c == from.bucket
           j == from.slot
           mid == [table EXCEPT ![b][i] = v]
<1>1. /\ pc[t] = "shift"
      /\ StillValid(from, to)
      /\ table' = [table EXCEPT ![to.bucket][to.slot] = v, ![from.bucket][from.slot] = Empty]
  BY Zenon DEF Shift, PathOf
<1>2. /\ from \in PathSlots /\ from.bucket \in Buckets(hp_)
      /\ to \in PathSlots /\ to.bucket \in Buckets(hp_)
      /\ to.bucket \in Homes(from.key, hp_)
  <2>1. /\ PathOf(t) \in Seq(PathSlots) /\ Depth(t) = Len(PathOf(t)) - 1
        /\ Depth(t) \in 1..Len(PathOf(t)) /\ Linked(PathOf(t), Hp(t)) /\ hp_ = Hp(t)
    BY <1>1, ShiftTyped
  <2>2. Depth(t) + 1 \in 1..Len(PathOf(t)) /\ Depth(t) \in 1..Len(PathOf(t)) - 1
    <3>1. Len(PathOf(t)) \in Nat
      BY <2>1
    <3> QED BY <2>1, <3>1
  <2>3. to.bucket \in Homes(from.key, hp_)
    BY <2>1, <2>2 DEF Linked
  <2>4. from \in PathSlots /\ from.bucket \in Buckets(hp_)
    BY <1>1, <2>1, ShiftTyped
  <2>5. to \in PathSlots /\ to.bucket \in Buckets(hp_)
    BY <1>1, <2>2, ShiftTyped
  <2> QED BY <2>3, <2>4, <2>5
<1>3. table \in [Buckets(hp_) -> Rows]
  BY BucketLocks
<1> HIDE DEF from, to
<1>4. /\ b \in Buckets(hp_) /\ i \in SlotIds /\ c \in Buckets(hp_) /\ j \in SlotIds
      /\ from.key \in Keys
  BY <1>2 DEF PathSlots
<1>5. v \in EntryRecords /\ v.key \in Keys /\ v # Empty
  <2>1. v # Empty
    BY <1>1 DEF StillValid
  <2>2. v = table[c][j]
    OBVIOUS
  <2> HIDE DEF v, c, j
  <2> QED BY <1>3, <1>4, <2>1, <2>2, FullBucket
<1>6. b \in Homes(v.key, hp_)
  <2>1. SameHash(v.key, from.key)
    BY <1>1 DEF StillValid
  <2> HIDE DEF v, b
  <2>2. Homes(v.key, hp_) = Homes(from.key, hp_)
    BY <1>4, <1>5, <2>1, SameHomes
  <2> QED BY <1>2, <2>2 DEF b
<1>7. table' = [mid EXCEPT ![c][j] = Empty]
  BY <1>1
<1> HIDE DEF v, b, i, c, j
<1>8. /\ mid \in [Buckets(hp_) -> Rows]
      /\ \A d \in Buckets(hp_) \ {b} : mid[d] = table[d]
      /\ \A e \in SlotIds \ {i} : mid[b][e] = table[b][e]
      /\ mid[b][i] = v
  BY <1>3, <1>4, <1>5, PutTyped
<1> HIDE DEF mid
<1>9. /\ \A d \in Buckets(hp_) \ {c} : table'[d] = mid[d]
      /\ \A e \in SlotIds \ {j} : table'[c][e] = mid[c][e]
      /\ table'[c][j] = Empty
  BY <1>4, <1>7, <1>8, PutTyped, SMTT(60)
<1>10. ASSUME NEW d \in Buckets(hp_), NEW e \in SlotIds, table'[d][e] # Empty,
              table'[d][e] # table[d][e]
       PROVE  d \in Homes(table'[d][e].key, hp_)
  <2>1. table'[d][e] = mid[d][e]
    BY <1>9, <1>10
  <2>2. d = b /\ e = i /\ mid[d][e] = v
    BY <1>8, <1>10, <2>1
  <2> QED BY <1>6, <2>1, <2>2
<1> QED BY <1>9, <1>10, Zenon DEF c, j, from

LEMMA ShiftPlaces ==
  ASSUME LocksInv, LocksInv', PlacesInv, NEW t \in Threads, Others(t), Shift(t)
  PROVE  PlacesInv'
<1>1. /\ pc[t] = "shift" /\ UNCHANGED <<hp_, locks>> /\ ShiftEnds(t)
      /\ search' = [search EXCEPT ![t] = [search[t] EXCEPT !.path = SubSeq(search[t].path, 1, Depth(t))]]
  BY Zenon DEF Shift, ShiftEnds
<1>2. /\ Typed /\ OwnOK(t) /\ DOMAIN locking = Threads /\ DOMAIN search = Threads
      /\ DOMAIN pc = Threads /\ search[t] \in SearchRecords /\ locking[t] \in LockingRecords
  BY DEF LocksInv, LocalOK, Typed
<1>3. /\ PathOf(t) \in Seq(PathSlots) /\ PathOf(t) = search[t].path
      /\ Depth(t) \in 1..Len(PathOf(t)) /\ Linked(PathOf(t), Hp(t))
  BY <1>1, ShiftTyped
<1>4. PathOf(t)'[1] = PathOf(t)[1]
  <2>1. PathOf(t)' = SubSeq(PathOf(t), 1, Depth(t))
    BY <1>1, <1>2, <1>3 DEF PathOf, SearchRecords
  <2> QED BY <1>3, <2>1, LinkedPrefix
<1>5. /\ \A b \in Buckets(hp_), i \in SlotIds :
            table'[b][i] # Empty /\ table'[b][i] # table[b][i] => b \in Homes(table'[b][i].key, hp_)
      /\ table'[PathOf(t)[Depth(t)].bucket][PathOf(t)[Depth(t)].slot] = Empty
  BY ShiftMoves
<1>6. Own(t)' = Own(t) /\ pc'[t] # "spread"
      /\ (Depth(t) = 1 \/ (pc'[t] = "release" /\ Go(t)' = "move"))
  <2>1. CASE Depth(t) > 1
    <3>1. Depth(t) # 1 /\ "move" \in Labels
      BY <2>1 DEF Labels, HoldsNone
    <3>2. StartRelease(t, Own(t), TRUE, "move")
      BY <1>1, <2>1, <3>1, ShiftEndsCases, Zenon
    <3>3. Own(t) \in SUBSET Nat
      BY <1>2 DEF Own, LockingRecords
    <3> QED BY <1>2, <3>1, <3>2, <3>3, ReleaseEffect
  <2>2. CASE Depth(t) = 1 /\ Own(t) \ HomeLocks(t) # {}
    <3> DEFINE L == Own(t) \ HomeLocks(t)
    <3>1. StartRelease(t, L, TRUE, "recheck") /\ "recheck" \in Labels
      BY <1>1, <2>2, ShiftEndsCases DEF Labels, HoldsSome
    <3>2. L \in SUBSET Nat
      BY <1>2 DEF Own, LockingRecords
    <3> HIDE DEF L
    <3> QED BY <1>2, <2>2, <3>1, <3>2, ReleaseEffect
  <2>3. CASE Depth(t) = 1 /\ Own(t) \ HomeLocks(t) = {}
    <3>1. Goto(t, "recheck") /\ UNCHANGED locking
      BY <1>1, <2>3, ShiftEndsCases
    <3> QED BY <1>2, <2>3, <3>1 DEF Goto, Own
  <2> QED BY <1>3, <2>1, <2>2, <2>3
<1>7. Freed(t)'
  <2> SUFFICES ASSUME Depth(t) = 1
               PROVE  table'[PathOf(t)'[1].bucket][PathOf(t)'[1].slot] = Empty
    BY <1>6 DEF Freed
  <2> QED BY <1>4, <1>5
<1>8. \A b \in Buckets(hp_) : table'[b] # table[b] => LockInd(b) \in Own(t)
  BY ShiftChanges DEF OwnedChanges
<1>9. pc[t] \in HoldsSome /\ LockIds' = LockIds
  BY <1>1 DEF HoldsSome, LockIds
<1> QED BY <1>1, <1>5, <1>6, <1>7, <1>8, <1>9, OwnedPlaces, Zenon

-----------------------------------------------------------------------------
\* The steps under the locks of all buckets.
LEMMA AllPlaces ==
  ASSUME LocksInv, LocksInv', PlacesInv, NEW t \in Threads, Others(t), Own(t) = LockIds,
         Spreading' => \A l \in LockIds' : locks'[l].migrated, Placed', ~OwnsHomes(t)'
  PROVE  PlacesInv'
BY BucketLocks, Homeless, PlacesStep

LEMMA GrowLocksPlaces ==
  ASSUME LocksInv, LocksInv', PlacesInv, NEW t \in Threads, Others(t), GrowLocks(t)
  PROVE  PlacesInv'
<1> DEFINE n == NumLocks(IF hp_ < LockPow THEN hp_ + 1 ELSE hp_)
           new == [flag |-> TRUE, epoch |-> 1, migrated |-> TRUE, count |-> 0]
<1>1. Typed /\ LockRange /\ OwnOK(t) /\ Typed' /\ LockRange' /\ DOMAIN pc = Threads
  BY DEF LocksInv, LocalOK, Typed
<1>2. /\ pc[t] = "double" /\ UNCHANGED <<hp_, table>> /\ pc'[t] = "resize"
      /\ locks' = [l \in 0..n - 1 |-> IF l \in LockIds THEN locks[l] ELSE new]
  BY <1>1 DEF GrowLocks, Goto, LockIds
<1>3. Own(t) = LockIds
  BY <1>1, <1>2 DEF OwnOK, HoldsAll
<1>4. ~Spreading /\ ~Spreading'
  <2>1. Own(t) # {}
    BY <1>2, OwnsSome DEF HoldsAll
  <2>2. ~Spreading
    BY <1>2, <2>1, SpreadingOwnsAll
  <2> QED BY <1>2, <2>2 DEF Spreading, Others
<1> HIDE DEF n, new
<1>5. \A l \in LockIds : locks'[l] = locks[l]
  <2>1. LockIds \subseteq 0..n - 1
    <3>1. hp_ \in 0..MaxHp
      BY <1>1 DEF Typed
    <3>2. ~Growing
      BY <1>1, <1>2, <1>3, AllMine DEF Growing, LocksInv, HoldsAll
    <3>3. LockIds = 0..NumLocks(hp_) - 1
      BY <1>1, <3>2 DEF LockRange
    <3>4. NumLocks(hp_) \in Nat /\ n \in Nat /\ NumLocks(hp_) <= n
      BY <3>1, NumLocksFacts DEF n
    <3> QED BY <3>3, <3>4
  <2>2. LockIds' = 0..n - 1
    BY <1>2 DEF LockIds
  <2> QED BY <1>2, <2>1, <2>2
<1>6. Placed'
  <2>1. \A b \in Buckets(hp_) : Basis(b)' = Basis(b)
    BY <1>2, <1>4, <1>5, BucketLocks DEF Basis
  <2> QED BY <1>2, <2>1, BucketLocks DEF PlacesInv, Placed
<1>7. ~OwnsHomes(t)'
  BY <1>2 DEF OwnsHomes, HoldsSome
<1> QED BY <1>3, <1>4, <1>6, <1>7, AllPlaces

LEMMA ResizePlaces ==
  ASSUME LocksInv, LocksInv', PlacesInv, NEW t \in Threads, Others(t), Resize(t)
  PROVE  PlacesInv'
<1> DEFINE left == {l \in LockIds : ~locks[l].migrated}
           moved == MoveBuckets(table, LeftBuckets(left), hp_ - 1)
           tab == IF Hp(t) > LockPow THEN moved ELSE table
<1>1. /\ hp_ = Hp(t) /\ hp_ \in 0..MaxHp - 1 /\ hp_' = hp_ + 1 /\ Own(t) = LockIds
      /\ LockIds' = LockIds
  BY ResizeEffect
<1>2. /\ pc[t] = "resize"
      /\ table' = [b \in 0..HashSize(hp_ + 1) - 1 |->
                     IF b \in DOMAIN table THEN tab[b] ELSE [i \in SlotIds |-> Empty]]
      /\ locks' = IF Hp(t) > LockPow THEN [l \in LockIds |-> [locks[l] EXCEPT !.migrated = TRUE]]
                                     ELSE locks
  BY DEF Resize, LeftBuckets
<1>3. Typed /\ LocksOK /\ pc'[t] = "spread" /\ DOMAIN table' = Buckets(hp_ + 1)
  <2>1. Typed /\ Typed' /\ LocksOK
    BY DEF LocksInv
  <2> QED BY <1>1, <2>1 DEF Resize, Goto, Typed
<1>4. ~Spreading
  <2>1. Own(t) # {}
    BY <1>2, OwnsSome DEF HoldsAll
  <2> QED BY <1>2, <2>1, SpreadingOwnsAll
<1>5. \A l \in LockIds : locks'[l].migrated
  <2>1. CASE Hp(t) > LockPow
    <3> SUFFICES ASSUME NEW l \in LockIds PROVE locks'[l].migrated
      OBVIOUS
    <3>1. locks[l] \in LockRecords
      BY <1>3 DEF Typed
    <3>2. [locks[l] EXCEPT !.migrated = TRUE].migrated
      BY <3>1 DEF LockRecords
    <3> QED BY <1>2, <2>1, <3>2
  <2>2. CASE ~(Hp(t) > LockPow)
    BY <1>1, <1>2, <1>3, <2>2 DEF LocksOK
  <2> QED BY <2>1, <2>2
<1> HIDE DEF tab
<1>6. ASSUME NEW b \in Buckets(hp_), NEW i \in SlotIds, tab[b][i] # Empty
      PROVE  b \in Homes(tab[b][i].key, hp_)
  <2>1. LockInd(b) \in LockIds /\ DOMAIN table = Buckets(hp_)
    BY BucketLocks
  <2>2. ASSUME tab[b] = table[b], locks[LockInd(b)].migrated
        PROVE  b \in Homes(tab[b][i].key, hp_)
    <3>1. Basis(b) = hp_
      BY <1>4, <2>2 DEF Basis
    <3> QED BY <1>6, <2>1, <2>2, <3>1 DEF PlacesInv, Placed
  <2>3. CASE Hp(t) > LockPow
    <3>1. tab = moved
      BY <2>3 DEF tab
    <3>2. left \in SUBSET LockIds /\ \A l \in left : ~locks[l].migrated
      OBVIOUS
    <3>3. LockInd(b) \in left \/ locks[LockInd(b)].migrated
      BY <2>1
    <3> HIDE DEF left
    <3>4. CASE LockInd(b) \in left
      BY <1>4, <1>6, <3>1, <3>2, <3>4, LeftMoved
    <3>5. CASE LockInd(b) \notin left
      <4>1. moved[b] = table[b]
        BY <1>1, <1>3, <2>3, <3>2, <3>5, RestMoved DEF LeftBuckets
      <4> QED BY <2>2, <3>1, <3>3, <3>5, <4>1
    <3> QED BY <3>4, <3>5
  <2>4. CASE ~(Hp(t) > LockPow)
    <3>1. tab = table
      BY <2>4 DEF tab
    <3>2. locks[LockInd(b)].migrated
      BY <1>1, <1>3, <2>1, <2>4 DEF LocksOK
    <3> QED BY <2>2, <3>1, <3>2
  <2> QED BY <2>3, <2>4
<1>7. Placed'
  <2> SUFFICES ASSUME NEW b \in Buckets(hp_ + 1), NEW i \in SlotIds, table'[b][i] # Empty
               PROVE  b \in Homes(table'[b][i].key, Basis(b)')
    BY <1>3 DEF Placed
  <2>1. Basis(b)' = hp_
    <3>1. Spreading'
      BY <1>3 DEF Spreading
    <3>2. Basis(b)' = hp_' - 1
      BY <3>1 DEF Basis
    <3>3. (hp_ + 1) - 1 = hp_
      BY <1>1
    <3> QED BY <1>1, <3>2, <3>3
  <2>2. DOMAIN table = Buckets(hp_)
    BY BucketLocks
  <2>3. table'[b] = IF b \in DOMAIN table THEN tab[b] ELSE [j \in SlotIds |-> Empty]
    BY <1>2 DEF Buckets
  <2>4. b \in Buckets(hp_) /\ table'[b][i] = tab[b][i]
    BY <2>2, <2>3
  <2> QED BY <1>6, <2>1, <2>4
<1>8. ~OwnsHomes(t)'
  BY <1>3 DEF OwnsHomes, HoldsSome
<1> QED BY <1>1, <1>5, <1>7, <1>8, AllPlaces

\* What a doubling does to the marks of the locks.
LEMMA SpreadMarks ==
  ASSUME LocksInv, NEW t \in Threads, Spread(t)
  PROVE  \/ /\ table' = MoveBuckets(table, Buckets(Hp(t)), Hp(t))
            /\ \A l \in LockIds : (locks'[l].migrated <=> locks[l].migrated)
         \/ table' = table /\ \A l \in LockIds : ~locks'[l].migrated
<1> DEFINE h == Hp(t)
           old == 0..HashSize(h) - 1
           tab == MoveBuckets(table, old, h)
           moved(b) == Cardinality(FreeSlots(tab, b)) - Cardinality(FreeSlots(table, b))
           delta(l) == moved(IF l \in old THEN l ELSE l - HashSize(h)) * (IF l \in old THEN -1 ELSE 1)
           recount(l) == [locks[l] EXCEPT !.count = @ + delta(l)]
           mark(l) == [locks[l] EXCEPT !.migrated = FALSE]
<1>1. \/ /\ h < LockPow /\ table' = tab
         /\ locks' = [l \in LockIds |-> recount(l)]
      \/ /\ h >= LockPow /\ table' = table
         /\ locks' = [l \in LockIds |-> mark(l)]
      \/ table' = tab /\ locks' = locks
  BY Zenon DEF Spread
<1>2. tab = MoveBuckets(table, Buckets(Hp(t)), Hp(t))
  BY DEF Buckets
<1> HIDE DEF delta, tab
<1>3. ASSUME NEW l \in LockIds
      PROVE  (recount(l).migrated <=> locks[l].migrated) /\ ~mark(l).migrated
  <2>1. locks[l] \in LockRecords
    BY DEF LocksInv, Typed
  <2>2. recount(l).migrated <=> locks[l].migrated
    BY <2>1 DEF LockRecords
  <2>3. mark(l).migrated = FALSE
    BY <2>1 DEF LockRecords
  <2> QED BY <2>2, <2>3
<1> HIDE DEF recount, mark
<1>4. CASE table' = tab /\ locks' = [l \in LockIds |-> recount(l)]
  <2>1. \A l \in LockIds : locks'[l] = recount(l)
    BY <1>4
  <2>2. \A l \in LockIds : (locks'[l].migrated <=> locks[l].migrated)
    BY <1>3, <2>1
  <2> QED BY <1>2, <1>4, <2>2
<1>5. CASE table' = table /\ locks' = [l \in LockIds |-> mark(l)]
  <2>1. \A l \in LockIds : locks'[l] = mark(l)
    BY <1>5
  <2>2. \A l \in LockIds : ~locks'[l].migrated
    BY <1>3, <2>1
  <2> QED BY <1>5, <2>2
<1>6. CASE table' = tab /\ locks' = locks
  BY <1>2, <1>6
<1> QED BY <1>1, <1>4, <1>5, <1>6

LEMMA SpreadPlaces ==
  ASSUME LocksInv, LocksInv', PlacesInv, NEW t \in Threads, Others(t), Spread(t)
  PROVE  PlacesInv'
<1> DEFINE h == Hp(t)
<1>1. hp_ = h + 1 /\ h \in 0..MaxHp /\ Own(t) = LockIds /\ LockIds' = LockIds
  BY SpreadEffect
<1>2. /\ pc[t] = "spread" /\ hp_' = hp_ /\ Typed
      /\ \/ StartRelease(t, locking[t].own, TRUE, "snapshot")
         \/ Goto(t, "expand_next") /\ UNCHANGED locking
  BY DEF Spread, LocksInv
<1>3. \/ pc'[t] = "release" /\ Go(t)' = "snapshot"
      \/ pc'[t] = "expand_next"
  <2>1. CASE StartRelease(t, locking[t].own, TRUE, "snapshot")
    <3>1. "snapshot" \in Labels /\ locking[t].own \in SUBSET Nat
      BY <1>2 DEF Labels, HoldsNone, Typed, LockingRecords
    <3> QED BY <1>2, <2>1, <3>1, ReleaseEffect
  <2>2. CASE Goto(t, "expand_next") /\ UNCHANGED locking
    BY <1>2, <2>2 DEF Goto, Typed
  <2> QED BY <1>2, <2>1, <2>2
<1>4. ~OwnsHomes(t)' /\ pc'[t] # "spread"
  BY <1>3 DEF OwnsHomes, HoldsSome
<1>5. Spreading /\ \A l \in LockIds : locks[l].migrated
  BY <1>2 DEF Spreading, PlacesInv
<1>6. ~Spreading'
  <2>1. \A u \in Threads \ {t} : pc[u] # "spread"
    BY <1>1, AllMine DEF HoldsAll
  <2> QED BY <1>4, <2>1 DEF Spreading, Others
<1>7. DOMAIN table = Buckets(hp_) /\ table \in [Buckets(hp_) -> Rows] /\ DOMAIN table' = Buckets(hp_)
  <2>1. Typed'
    BY DEF LocksInv
  <2> QED BY <1>2, <2>1, BucketLocks DEF Typed
<1> HIDE DEF h
<1>8. ASSUME NEW c \in Buckets(hp_), NEW j \in SlotIds, table[c][j] # Empty
      PROVE  c \in Homes(table[c][j].key, h)
  <2>1. Basis(c) = h
    BY <1>1, <1>5 DEF Basis
  <2> QED BY <1>7, <1>8, <2>1 DEF PlacesInv, Placed
<1>9. CASE /\ table' = MoveBuckets(table, Buckets(h), h)
           /\ \A l \in LockIds : (locks'[l].migrated <=> locks[l].migrated)
  <2> SUFFICES ASSUME NEW b \in Buckets(hp_), NEW i \in SlotIds, table'[b][i] # Empty
               PROVE  b \in Homes(table'[b][i].key, Basis(b)')
    <3>1. Placed'
      BY <1>7 DEF Placed
    <3> QED BY <1>1, <1>4, <1>6, <3>1, AllPlaces
  <2>1. Basis(b)' = h + 1
    BY <1>1, <1>2, <1>5, <1>6, <1>9, BucketLocks DEF Basis
  <2>2. b \in Buckets(h + 1) /\ (b \in Buckets(h) \/ b - HashSize(h) \in Buckets(h))
    <3>1. HashSize(h) \in Nat \ {0} /\ HashSize(h + 1) = 2 * HashSize(h)
      BY <1>1, MapAssumption, SizeNat, SizeDoubles
    <3>2. b \in Buckets(h + 1)
      BY <1>1
    <3> QED BY <3>1, <3>2 DEF Buckets
  <2> DEFINE B == Buckets(h)
  <2>3. /\ B \in SUBSET Buckets(h) /\ (b \in B \/ b - HashSize(h) \in B)
        /\ table \in [Buckets(h + 1) -> Rows] /\ MoveBuckets(table, B, h)[b][i] # Empty
    BY <1>1, <1>7, <1>9, <2>2
  <2>4. \A c \in Buckets(h + 1), j \in SlotIds :
           c \in {b, b - HashSize(h)} /\ table[c][j] # Empty => c \in Homes(table[c][j].key, h)
    BY <1>1, <1>8
  <2>5. table' = MoveBuckets(table, B, h)
    BY <1>9
  <2> HIDE DEF B
  <2>6. b \in Homes(MoveBuckets(table, B, h)[b][i].key, h + 1)
    BY <1>1, <2>2, <2>3, <2>4, MovedPlaced
  <2> QED BY <2>1, <2>5, <2>6
<1>10. CASE table' = table /\ \A l \in LockIds : ~locks'[l].migrated
  <2> SUFFICES ASSUME NEW b \in Buckets(hp_), NEW i \in SlotIds, table'[b][i] # Empty
               PROVE  b \in Homes(table'[b][i].key, Basis(b)')
    <3>1. Placed'
      BY <1>7 DEF Placed
    <3> QED BY <1>1, <1>4, <1>6, <3>1, AllPlaces
  <2>1. Basis(b)' = h
    BY <1>1, <1>2, <1>10, BucketLocks DEF Basis
  <2> QED BY <1>8, <1>10, <2>1
<1> QED BY <1>9, <1>10, SpreadMarks DEF h

LEMMA ClearPlaces ==
  ASSUME LocksInv, LocksInv', PlacesInv, NEW t \in Threads, Others(t), Clear(t)
  PROVE  PlacesInv'
<1>1. Typed /\ OwnOK(t) /\ DOMAIN table = Buckets(hp_)
  BY DEF LocksInv, LocalOK, Typed
<1>2. /\ pc[t] = "clear" /\ Answer(t, TRUE, TRUE)
      /\ table' = [b \in DOMAIN table |-> [i \in SlotIds |-> Empty]]
  BY DEF Clear
<1>3. Own(t) = LockIds
  BY <1>1, <1>2 DEF OwnOK, HoldsAll
<1>4. pc'[t] = "release" /\ Go(t)' = "return"
  BY <1>1, <1>2, AnswerEffect DEF Answers
<1>5. ~OwnsHomes(t)'
  BY <1>4 DEF OwnsHomes, HoldsSome
<1>6. ~Spreading'
  <2>1. Own(t) # {}
    BY <1>2, OwnsSome DEF HoldsAll
  <2>2. ~Spreading
    BY <1>2, <2>1, SpreadingOwnsAll
  <2> QED BY <1>4, <2>2 DEF Spreading, Others
<1>7. Placed'
  BY <1>2 DEF Placed
<1> QED BY <1>3, <1>5, <1>6, <1>7, AllPlaces

-----------------------------------------------------------------------------
\* The initial states, and all steps together.
LEMMA InitPlaces == Init => PlacesInv
<1> SUFFICES ASSUME Init PROVE PlacesInv
  OBVIOUS
<1>1. PICK p \in Programs : hp_ = p.hp /\ table = InitTable(p) /\ locks = InitLocks(p)
  BY DEF Init
<1>2. \A e \in p.entries : e.bucket \in Homes(e.key, hp_)
  BY <1>1, ProgramAssumption
<1>3. \A t \in Threads : pc[t] = "idle"
  BY DEF Init
<1>4. ~Spreading /\ \A t \in Threads : Migrated(t) /\ Freed(t)
  BY <1>3 DEF Spreading, Migrated, OwnsHomes, HoldsSome, Freed
<1>5. LocksInv
  BY InitInv
<1>6. \A l \in LockIds : locks[l].migrated
  <2>1. hp_ \in 0..MaxHp
    BY <1>5 DEF LocksInv, Typed
  <2>2. \A l \in LockIds : locks[l] = InitLocks(p)[l]
    BY <1>1
  <2> QED BY <1>1, <2>2 DEF InitLocks, LockIds
<1>7. ASSUME NEW b \in DOMAIN table, NEW i \in SlotIds, table[b][i] # Empty
      PROVE  b \in Homes(table[b][i].key, hp_)
  <2> DEFINE e == CHOOSE e \in p.entries : e.bucket = b /\ e.slot = i
  <2>1. b \in 0..HashSize(p.hp) - 1
    BY <1>1 DEF InitTable
  <2>2. table[b][i] = IF \E x \in p.entries : x.bucket = b /\ x.slot = i
                      THEN Entry(e.key, e.val) ELSE Empty
    BY <1>1, <2>1 DEF InitTable
  <2>3. \E x \in p.entries : x.bucket = b /\ x.slot = i
    BY <1>7, <2>2
  <2>4. e \in p.entries /\ e.bucket = b
    BY <2>3
  <2>5. table[b][i] = Entry(e.key, e.val)
    BY <2>2, <2>3
  <2> HIDE DEF e
  <2>6. table[b][i].key = e.key
    BY <2>5 DEF Entry
  <2> QED BY <1>2, <2>4, <2>6
<1>8. Placed
  <2>1. \A b \in DOMAIN table : Basis(b) = hp_
    BY <1>4, <1>5, <1>6, BucketLocks DEF Basis
  <2> QED BY <1>7, <2>1 DEF Placed
<1> QED BY <1>4, <1>8 DEF PlacesInv

LEMMA StepsKeepPlaces ==
  ASSUME LocksInv, LocksInv', PlacesInv, NEW t \in Threads, Begin(t) \/ Step(t)
  PROVE  PlacesInv'
<1>1. Others(t)
  BY StepOthers
<1>2. ASSUME UNCHANGED shared, pc[t] # "spread", pc'[t] # "spread", ~OwnsHomes(t)' PROVE PlacesInv'
  BY <1>1, <1>2, Homeless, SharedPlaces
<1>3. CASE Begin(t) \/ Return(t)
  BY <1>2, <1>3, Lands
<1>4. CASE Snapshot(t) \/ TakeLock(t) \/ Release(t)
  BY <1>1, <1>4, CheckPlaces, TakeLockPlaces, ReleasePlaces
<1>5. CASE Operate(t)
  <2>1. Body(t) \/ NotFound(t) \/ NoFreeSlot(t)
    BY <1>5 DEF Operate, Body
  <2> QED BY <1>1, <1>2, <2>1, BodyPlaces, Lands
<1>6. CASE Cuckoo(t)
  BY <1>1, <1>2, <1>6, Lands, TouchPlaces, CheckPlaces, ShiftPlaces DEF Cuckoo
<1>7. CASE AllLocked(t)
  BY <1>1, <1>2, <1>7, Lands, TakeNextPlaces, GrowLocksPlaces, ResizePlaces, SpreadPlaces,
     ClearPlaces DEF AllLocked
<1>8. CASE Lookup(t)
  BY <1>1, <1>2, <1>8, Lands, TouchPlaces DEF Lookup
<1> QED BY <1>3, <1>4, <1>5, <1>6, <1>7, <1>8 DEF Step

LEMMA NextPlaces == LocksInv /\ LocksInv' /\ PlacesInv /\ [Next]_vars => PlacesInv'
<1> SUFFICES ASSUME LocksInv, LocksInv', PlacesInv, [Next]_vars PROVE PlacesInv'
  OBVIOUS
<1>1. ASSUME NEW t \in Threads, Begin(t) \/ Step(t) PROVE PlacesInv'
  BY <1>1, StepsKeepPlaces
<1>2. CASE UNCHANGED vars
  <2>1. UNCHANGED <<hp_, table, locks, pc, todo, locking, search>>
    BY <1>2 DEF vars, shared
  <2>2. Spreading' = Spreading /\ LockIds' = LockIds /\ Placed' = Placed
    BY <2>1 DEF Spreading, LockIds, Placed, Basis
  <2>3. \A t \in Threads : Migrated(t)' = Migrated(t) /\ Freed(t)' = Freed(t)
    BY <2>1 DEF Migrated, Freed, OwnsHomes, Own, Go, PathOf
  <2> QED BY <2>1, <2>2, <2>3 DEF PlacesInv
<1> QED BY <1>1, <1>2 DEF Next, Finished

\* Every entry lies in one of the two buckets of its key, for the hashpower
\* its data have been migrated to; the locks of a running operation are
\* migrated, and the slot at the root of a moved path stays free until the
\* insertion uses it (1271-1278, 1736-1808).
THEOREM PlacesInvariant == Spec => []PlacesInv
<1>1. LocksInv /\ PlacesInv /\ [Next]_vars => LocksInv' /\ PlacesInv'
  BY NextInv, NextPlaces
<1> QED BY <1>1, InitInv, InitPlaces, PTL DEF Spec

\* Between two doublings every entry is where a lookup searches it, before
\* and after its data have been migrated (1736-1808).
THEOREM EntriesAreWellPlaced == Spec => []WellPlaced
<1>1. LocksInv /\ PlacesInv => WellPlaced
  <2> SUFFICES ASSUME LocksInv, PlacesInv, ~Spreading, NEW p \in Entries(table)
               PROVE  p[1] \in Homes(table[p[1]][p[2]].key,
                                IF locks[LockInd(p[1])].migrated THEN hp_ ELSE hp_ - 1)
    BY DEF WellPlaced
  <2>1. p[1] \in DOMAIN table /\ p[2] \in SlotIds /\ table[p[1]][p[2]] # Empty
    BY DEF Entries
  <2>2. Basis(p[1]) = IF locks[LockInd(p[1])].migrated THEN hp_ ELSE hp_ - 1
    BY DEF Basis
  <2> QED BY <2>1, <2>2 DEF PlacesInv, Placed
<1> QED BY <1>1, LocksInvariant, PlacesInvariant, PTL

\* What cuckoo_insert and run_cuckoo assert after a successful cuckoo path
\* (1271-1278, 1402-1407), for any path length and any number of threads.
THEOREM FreedSlotsAreUsable == Spec => []FreedSlotIsUsable
<1>1. LocksInv /\ PlacesInv => FreedSlotIsUsable
  <2> SUFFICES ASSUME LocksInv, PlacesInv, NEW t \in Threads, pc[t] = "recheck"
               PROVE  /\ hp_ = Hp(t)
                      /\ locking[t].own = LocksOf(Homes(Key(t), hp_))
                      /\ search[t].path[1].bucket \in Homes(Key(t), hp_)
                      /\ table[search[t].path[1].bucket][search[t].path[1].slot] = Empty
    BY DEF FreedSlotIsUsable
  <2>1. LocalOK(t) /\ Stage(t) = "recheck"
    BY DEF LocksInv, Stage
  <2>2. hp_ = Hp(t)
    BY <2>1 DEF LocalOK, HpOK, Frozen, HoldsSome
  <2>3. Own(t) = HomeLocks(t)
    BY <2>1 DEF LocalOK, OwnOK, HoldsSome, Needed
  <2>4. PathOf(t) # <<>> /\ PathOf(t)[1].bucket \in Homes(Key(t), Hp(t))
    BY <2>1 DEF LocalOK, PathOK
  <2>5. table[PathOf(t)[1].bucket][PathOf(t)[1].slot] = Empty
    BY DEF PlacesInv, Freed
  <2> QED BY <2>2, <2>3, <2>4, <2>5 DEF Own, HomeLocks, PathOf
<1> QED BY <1>1, LocksInvariant, PlacesInvariant, PTL

-----------------------------------------------------------------------------
(***************************************************************************)
(* The number of elements.                                                 *)
(***************************************************************************)
\* Every slot of a set of slots is its j-th for some j.
LEMMA SlotNth ==
  ASSUME NEW S \in SUBSET SlotIds, NEW i \in S
  PROVE  \E j \in 1..Cardinality(S) : Nth(S, j) = i
<1> DEFINE Upto(x) == {y \in S : y <= x}
           j == Cardinality(Upto(i))
<1>1. /\ S \subseteq Nat /\ IsFiniteSet(S) /\ Cardinality(S) \in Nat
      /\ \A x : IsFiniteSet(Upto(x)) /\ Cardinality(Upto(x)) \in Nat
                /\ Cardinality(Upto(x)) <= Cardinality(S)
  <2>1. S \subseteq Nat /\ IsFiniteSet(S) /\ Cardinality(S) \in Nat
    BY SlotSets
  <2>2. \A x : Upto(x) \in SUBSET S
    OBVIOUS
  <2> HIDE DEF Upto
  <2>3. \A T \in SUBSET S : IsFiniteSet(T) /\ Cardinality(T) \in Nat /\ Cardinality(T) <= Cardinality(S)
    BY <2>1, FS_Subset, FS_CardinalityType
  <2> QED BY <2>1, <2>2, <2>3
<1>2. \A x, y \in S : x < y => Upto(x) \in SUBSET Upto(y) /\ y \in Upto(y) /\ y \notin Upto(x)
  <2>1. \A x \in S : x \in Nat
    BY <1>1
  <2> QED BY <2>1
<1>3. i \in Upto(i)
  BY <1>1
<1> HIDE DEF Upto
<1>4. \A x, y \in S : x < y => Cardinality(Upto(x)) # Cardinality(Upto(y))
  BY <1>1, <1>2, FS_Subset
<1>5. j # 0
  BY <1>1, <1>3, FS_EmptySet
<1>6. j \in 1..Cardinality(S)
  BY <1>1, <1>5
<1> HIDE DEF j
<1>7. Nth(S, j) \in S /\ Cardinality(Upto(Nth(S, j))) = j
  BY <1>6, NthSlot DEF Upto
<1>8. Cardinality(Upto(i)) = j
  BY DEF j
<1>9. Nth(S, j) = i
  <2>1. PICK x : x = Nth(S, j)
    OBVIOUS
  <2>2. x \in S /\ x \in Nat /\ i \in Nat /\ Cardinality(Upto(x)) = Cardinality(Upto(i))
    BY <1>1, <1>7, <1>8, <2>1
  <2>3. ~(x < i) /\ ~(i < x)
    BY <1>4, <2>2
  <2> QED BY <2>1, <2>2, <2>3
<1> QED BY <1>6, <1>9

\* The cells of a table that a doubling moves keys in.
LEMMA MovedCells ==
  ASSUME NEW h \in 0..MaxHp, NEW tab \in [Buckets(h + 1) -> Rows], NEW B \in SUBSET Buckets(h),
         NEW c \in Buckets(h + 1), NEW j \in SlotIds
  PROVE  LET o == c - HashSize(h)
             x == MoveBuckets(tab, B, h)[c][j]
         IN  /\ c \in B => o \notin B /\ x = IF j \in Moving(tab, c, h) THEN Empty ELSE tab[c][j]
             /\ o \in B => x = IF j <= Cardinality(Moving(tab, o, h))
                               THEN tab[o][Nth(Moving(tab, o, h), j)] ELSE tab[c][j]
             /\ c \notin B /\ o \notin B => x = tab[c][j]
<1> DEFINE o == c - HashSize(h)
           x == MoveBuckets(tab, B, h)[c][j]
<1>1. x = CASE c \in B /\ j \in Moving(tab, c, h) -> Empty
            [] o \in B /\ j <= Cardinality(Moving(tab, o, h)) -> tab[o][Nth(Moving(tab, o, h), j)]
            [] OTHER -> tab[c][j]
  BY DEF MoveBuckets
<1>2. c \in B => o \notin B
  <2>1. \A d \in B : d - HashSize(h) \notin B
    BY OldHalf
  <2> QED BY <2>1
<1> HIDE DEF x, o
<1>3. /\ c \in B => x = IF j \in Moving(tab, c, h) THEN Empty ELSE tab[c][j]
      /\ o \in B => x = IF j <= Cardinality(Moving(tab, o, h))
                        THEN tab[o][Nth(Moving(tab, o, h), j)] ELSE tab[c][j]
      /\ c \notin B /\ o \notin B => x = tab[c][j]
  BY <1>1, <1>2
<1> QED BY <1>2, <1>3 DEF x, o

\* The slots of a bucket whose entries move hold entries, and there are
\* finitely many of them.
LEMMA MovingSlots ==
  ASSUME NEW tab, NEW b, NEW h
  PROVE  /\ Moving(tab, b, h) \in SUBSET SlotIds /\ Cardinality(Moving(tab, b, h)) \in Nat
         /\ \A i \in Moving(tab, b, h) : tab[b][i] # Empty
<1>1. Moving(tab, b, h) \in SUBSET SlotIds
  BY DEF Moving
<1>2. Cardinality(Moving(tab, b, h)) \in Nat
  BY <1>1, SlotSets
<1> QED BY <1>1, <1>2 DEF Moving

\* Moving keys to the new half of a table, when it is empty there, loses none
\* and doubles none.
LEMMA MovedCount ==
  ASSUME NEW h \in 0..MaxHp, NEW tab \in [Buckets(h + 1) -> Rows], NEW B \in SUBSET Buckets(h),
         \A c \in B, j \in SlotIds : tab[c + HashSize(h)][j] = Empty,
         IsFiniteSet(Entries(tab))
  PROVE  Cardinality(Entries(MoveBuckets(tab, B, h))) = Cardinality(Entries(tab))
<1> DEFINE n == HashSize(h)
           new == MoveBuckets(tab, B, h)
           M(b) == Moving(tab, b, h)
           From(p) == IF p[1] - n \in B THEN <<p[1] - n, Nth(M(p[1] - n), p[2])>> ELSE p
           F == [p \in Entries(new) |-> From(p)]
<1>1. n \in Nat \ {0} /\ HashSize(h + 1) = 2 * n
  BY MapAssumption, SizeNat, SizeDoubles
<1>2. \A c \in B : c \in 0..n - 1 /\ c \in Nat
  BY <1>1 DEF Buckets
<1>3. Buckets(h + 1) = 0..2 * n - 1
  BY <1>1 DEF Buckets
<1>4. DOMAIN tab = Buckets(h + 1) /\ DOMAIN new = Buckets(h + 1)
  BY DEF MoveBuckets
<1>5. \A p : p \in Entries(tab) <=>
          /\ p \in Buckets(h + 1) \X SlotIds
          /\ tab[p[1]][p[2]] # Empty
  BY <1>4 DEF Entries
<1>6. \A p : p \in Entries(new) <=>
          /\ p \in Buckets(h + 1) \X SlotIds
          /\ new[p[1]][p[2]] # Empty
  BY <1>4 DEF Entries
<1>7. \A b : M(b) \in SUBSET SlotIds /\ Cardinality(M(b)) \in Nat
             /\ \A i \in M(b) : tab[b][i] # Empty
  BY MovingSlots
<1>8. \A c \in Buckets(h + 1), j \in SlotIds :
         /\ c \in B => c - n \notin B /\ new[c][j] = IF j \in M(c) THEN Empty ELSE tab[c][j]
         /\ c - n \in B => new[c][j] = IF j <= Cardinality(M(c - n))
                                       THEN tab[c - n][Nth(M(c - n), j)] ELSE tab[c][j]
         /\ c \notin B /\ c - n \notin B => new[c][j] = tab[c][j]
  BY MovedCells
<1>9. \A c \in Buckets(h + 1) : c - n \in B => \A j \in SlotIds : tab[c][j] = Empty
  <2> SUFFICES ASSUME NEW c \in Buckets(h + 1), c - n \in B, NEW j \in SlotIds
               PROVE  tab[c][j] = Empty
    OBVIOUS
  <2>1. (c - n) + n = c
    BY <1>1, <1>3
  <2> QED BY <2>1
<1>10. SlotIds = 1..Slots /\ Slots \in Nat
  BY SlotSets
<1> HIDE DEF n, new, M
\* What the slots of the new table come from.
<1>11. ASSUME NEW c \in Buckets(h + 1), NEW j \in SlotIds, new[c][j] # Empty
       PROVE  /\ c - n \in B => /\ j \in 1..Cardinality(M(c - n))
                                /\ Nth(M(c - n), j) \in M(c - n)
                                /\ Cardinality({x \in M(c - n) : x <= Nth(M(c - n), j)}) = j
              /\ c - n \notin B => /\ tab[c][j] # Empty
                                   /\ c \in B => j \notin M(c)
  <2>1. ASSUME c - n \in B PROVE j \in 1..Cardinality(M(c - n))
    <3>1. j <= Cardinality(M(c - n))
      BY <1>8, <1>9, <1>11, <2>1
    <3> QED BY <1>7, <1>10, <3>1
  <2>2. ASSUME c - n \in B PROVE /\ Nth(M(c - n), j) \in M(c - n)
                                 /\ Cardinality({x \in M(c - n) : x <= Nth(M(c - n), j)}) = j
    BY <1>7, <2>1, <2>2, NthSlot
  <2>3. ASSUME c - n \notin B PROVE tab[c][j] # Empty /\ (c \in B => j \notin M(c))
    <3>1. CASE c \in B
      BY <1>8, <1>11, <3>1
    <3>2. CASE c \notin B
      BY <1>8, <1>11, <2>3, <3>2
    <3> QED BY <3>1, <3>2
  <2> QED BY <2>1, <2>2, <2>3
<1>12. ASSUME NEW p \in Entries(new)
       PROVE  /\ p[1] \in Buckets(h + 1) /\ p[2] \in SlotIds /\ p = <<p[1], p[2]>>
              /\ new[p[1]][p[2]] # Empty
  BY <1>6
<1>13. F \in [Entries(new) -> Entries(tab)]
  <2> SUFFICES ASSUME NEW p \in Entries(new) PROVE From(p) \in Entries(tab)
    OBVIOUS
  <2>1. CASE p[1] - n \in B
    <3>1. Nth(M(p[1] - n), p[2]) \in M(p[1] - n)
      BY <1>11, <1>12, <2>1
    <3>2. p[1] - n \in Buckets(h + 1)
      BY <1>1, <1>2, <1>3, <2>1
    <3>3. tab[p[1] - n][Nth(M(p[1] - n), p[2])] # Empty /\ Nth(M(p[1] - n), p[2]) \in SlotIds
      BY <1>7, <3>1
    <3> QED BY <1>5, <2>1, <3>2, <3>3
  <2>2. CASE p[1] - n \notin B
    <3>1. tab[p[1]][p[2]] # Empty
      <4>1. p[1] \in Buckets(h + 1) /\ p[2] \in SlotIds /\ new[p[1]][p[2]] # Empty
        BY <1>12
      <4> HIDE DEF F
      <4> QED BY <4>1, <2>2, <1>11
    <3>2. p \in Buckets(h + 1) \X SlotIds
      BY <1>6
    <3>3. p \in Entries(tab)
      BY <1>5, <3>1, <3>2
    <3> QED BY <2>2, <3>3
  <2> QED BY <2>1, <2>2
<1>14. \A p, q \in Entries(new) : F[p] = F[q] => p = q
  <2> SUFFICES ASSUME NEW p \in Entries(new), NEW q \in Entries(new), From(p) = From(q)
               PROVE  p = q
    OBVIOUS
  <2>1. CASE p[1] - n \in B /\ q[1] - n \in B
    <3> DEFINE S == M(p[1] - n)
    <3>1. p[1] - n = q[1] - n /\ Nth(S, p[2]) = Nth(S, q[2])
      BY <2>1
    <3>2. p[1] = q[1]
      BY <1>1, <1>3, <1>12, <3>1
    <3>3. /\ Cardinality({x \in S : x <= Nth(S, p[2])}) = p[2]
          /\ Cardinality({x \in S : x <= Nth(S, q[2])}) = q[2]
      BY <1>11, <1>12, <2>1, <3>1
    <3>4. p[2] = q[2]
      BY <3>1, <3>3
    <3> QED BY <1>12, <3>2, <3>4
  <2>2. ASSUME NEW x \in Entries(new), NEW y \in Entries(new), From(x) = From(y),
               x[1] - n \in B, y[1] - n \notin B
        PROVE  FALSE
    <3>1. y = <<x[1] - n, Nth(M(x[1] - n), x[2])>>
      BY <2>2
    <3>2. y[1] = x[1] - n /\ y[2] \in M(x[1] - n)
      BY <1>11, <1>12, <2>2, <3>1
    <3>3. y[1] \in B /\ y[2] \in M(y[1])
      BY <2>2, <3>2
    <3> QED BY <1>11, <1>12, <2>2, <3>3
  <2>3. CASE p[1] - n \notin B /\ q[1] - n \notin B
    BY <2>3
  <2> QED BY <2>1, <2>2, <2>3
<1>15. \A q \in Entries(tab) : \E p \in Entries(new) : F[p] = q
  <2> SUFFICES ASSUME NEW q \in Entries(tab) PROVE \E p \in Entries(new) : From(p) = q
    OBVIOUS
  <2>1. /\ q[1] \in Buckets(h + 1) /\ q[2] \in SlotIds /\ q = <<q[1], q[2]>>
        /\ tab[q[1]][q[2]] # Empty
    BY <1>5
  <2>2. q[1] - n \notin B
    BY <1>9, <2>1
  <2>3. CASE q[1] \in B /\ q[2] \in M(q[1])
    <3>1. PICK j \in 1..Cardinality(M(q[1])) : Nth(M(q[1]), j) = q[2]
      BY <1>7, <2>3, SlotNth
    <3> DEFINE c == q[1] + n
    <3>2. c - n = q[1] /\ c \in Buckets(h + 1)
      BY <1>1, <1>2, <1>3, <2>3
    <3>3. j \in SlotIds /\ j <= Cardinality(M(q[1]))
      <4>1. M(q[1]) \in SUBSET SlotIds /\ Cardinality(M(q[1])) \in Nat
        BY <1>7
      <4>2. IsFiniteSet(SlotIds) /\ Cardinality(SlotIds) = Slots
        <5>1. IsFiniteSet(1..Slots) /\ Cardinality(1..Slots) = IF 1 > Slots THEN 0 ELSE Slots - 1 + 1
          BY <1>10, FS_Interval
        <5> QED BY <1>10, <5>1
      <4>3. Cardinality(M(q[1])) <= Slots
        <5> DEFINE S == M(q[1])
        <5> HIDE DEF S
        <5> QED BY <4>1, <4>2, FS_Subset DEF S
      <4> QED BY <1>10, <4>1, <4>3
    <3> HIDE DEF c
    <3>4. new[c][j] = tab[q[1]][q[2]]
      BY <1>8, <2>3, <3>1, <3>2, <3>3
    <3>5. <<c, j>> \in Entries(new)
      BY <1>6, <2>1, <3>2, <3>3, <3>4
    <3>6. From(<<c, j>>) = q
      BY <2>1, <2>3, <3>1, <3>2
    <3> QED BY <3>5, <3>6
  <2>4. CASE ~(q[1] \in B /\ q[2] \in M(q[1]))
    <3>1. new[q[1]][q[2]] = tab[q[1]][q[2]]
      BY <1>8, <2>1, <2>2, <2>4
    <3>2. q \in Entries(new)
      BY <1>6, <2>1, <3>1
    <3> QED BY <2>2, <3>2
  <2> QED BY <2>3, <2>4
<1> HIDE DEF F
<1> QED BY <1>13, <1>14, <1>15, SameCount DEF new


\* A table has finitely many entries.
LEMMA FiniteEntries ==
  ASSUME NEW h \in 0..MaxHp + 1, NEW tab, DOMAIN tab = Buckets(h)
  PROVE  IsFiniteSet(Entries(tab)) /\ Cardinality(Entries(tab)) \in Nat
<1>1. IsFiniteSet(Buckets(h)) /\ IsFiniteSet(SlotIds)
  <2>1. HashSize(h) \in Nat
    BY SizeNat, MapAssumption
  <2>2. IsFiniteSet(0..HashSize(h) - 1)
    BY <2>1, FS_Interval
  <2> QED BY <2>2, SlotSets DEF Buckets
<1>2. IsFiniteSet(Buckets(h) \X SlotIds)
  BY <1>1, FS_Product
<1>3. Entries(tab) \in SUBSET (Buckets(h) \X SlotIds)
  BY DEF Entries
<1> QED BY <1>2, <1>3, FS_Subset, FS_CardinalityType

\* The counters of the locks.
Counts == [l \in LockIds |-> locks[l].count]

\* size() is the sum of finitely many integers.
LEMMA CountFacts ==
  ASSUME LocksInv
  PROVE  /\ IsFiniteSet(LockIds) /\ Size = Sum(Counts, LockIds)
         /\ \A l \in LockIds : Counts[l] = locks[l].count /\ Counts[l] \in Int
         /\ IsFiniteSet(Entries(table)) /\ Cardinality(Entries(table)) \in Nat
<1>1. locks \in [LockIds -> LockRecords] /\ hp_ \in 0..MaxHp /\ DOMAIN table = Buckets(hp_)
  BY BucketLocks DEF LocksInv, Typed
<1>2. PICK n \in Nat \ {0} : LockIds = 0..n - 1
  BY LockSet DEF LocksInv
<1>3. IsFiniteSet(LockIds)
  BY <1>2, FS_Interval
<1>4. \A l \in LockIds : Counts[l] = locks[l].count /\ Counts[l] \in Int
  BY <1>1 DEF Counts, LockRecords
<1>5. Size = Sum(Counts, LockIds)
  BY DEF Size, SumFunction, Sum, Counts
<1>6. IsFiniteSet(Entries(table)) /\ Cardinality(Entries(table)) \in Nat
  BY <1>1, MapAssumption, FiniteEntries
<1> QED BY <1>3, <1>4, <1>5, <1>6

\* The lock at which a running operation counts its key is one of the key's.
CountsHere(t) == OwnsHomes(t) => locking[t].lock1 \in HomeLocks(t)

\* What the counters add up to at every step.
CountInv == Size = Cardinality(Entries(table)) /\ \A t \in Threads : CountsHere(t)

\* Counters that stay add up to the same size.
LEMMA SameCounts ==
  ASSUME LocksInv, LocksInv', LockIds' = LockIds,
         \A l \in LockIds : locks'[l].count = locks[l].count
  PROVE  Size' = Size
<1>1. /\ IsFiniteSet(LockIds) /\ Size = Sum(Counts, LockIds)
      /\ \A l \in LockIds : Counts[l] = locks[l].count
  BY CountFacts
<1>2. Size' = Sum(Counts', LockIds')
  BY DEF Size, SumFunction, Sum, Counts
<1>3. \A l \in LockIds : Counts'[l] = Counts[l]
  BY <1>1, SMTT(60) DEF Counts
<1> HIDE DEF Size
<1>4. Sum(Counts', LockIds) = Sum(Counts, LockIds)
  BY <1>1, <1>3, SumSame, SMTT(60)
<1> QED BY <1>1, <1>2, <1>4

\* A step of one thread that counts what it changes.
LEMMA CountStep ==
  ASSUME CountInv, NEW t \in Threads, Others(t), Size' = Cardinality(Entries(table))',
         CountsHere(t)'
  PROVE  CountInv'
<1> SUFFICES ASSUME NEW u \in Threads \ {t} PROVE CountsHere(u)'
  BY DEF CountInv
<1>1. pc'[u] = pc[u] /\ locking'[u] = locking[u] /\ todo'[u] = todo[u]
  BY DEF Others
<1>2. CountsHere(u)
  BY DEF CountInv
<1> QED BY <1>1, <1>2 DEF CountsHere, OwnsHomes, Go, HomeLocks, LocksOf, LockInd, Homes, I1, I2,
        Key, Call, Hp


\* A step that moves entries without counting anything.
LEMMA QuietCount ==
  ASSUME LocksInv, LocksInv', CountInv, NEW t \in Threads, Others(t), LockIds' = LockIds,
         \A l \in LockIds : locks'[l].count = locks[l].count,
         Cardinality(Entries(table)') = Cardinality(Entries(table)), CountsHere(t)'
  PROVE  CountInv'
<1>1. Size' = Size
  BY SameCounts
<1>2. Size = Cardinality(Entries(table))
  BY DEF CountInv
<1> QED BY <1>1, <1>2, CountStep

\* A step that changes neither the table nor the locks.
LEMMA SharedCount ==
  ASSUME LocksInv, LocksInv', CountInv, NEW t \in Threads, Others(t), UNCHANGED shared,
         CountsHere(t)'
  PROVE  CountInv'
<1>1. LockIds' = LockIds /\ (\A l \in LockIds : locks'[l].count = locks[l].count)
  BY Zenon DEF shared, LockIds
<1>2. Entries(table)' = Entries(table)
  BY Zenon DEF shared, Entries
<1> QED BY <1>1, <1>2, QuietCount

\* lock_two and lock_three choose the lock that counts among the locks of
\* the key.
LEMMA PlainCount ==
  ASSUME LocksInv, LocksInv', CountInv, NEW t \in Threads, Others(t),
         Snapshot(t) \/ Move(t) \/ Check(t)
  PROVE  CountInv'
<1>1. /\ DOMAIN pc = Threads /\ DOMAIN locking = Threads /\ locking[t] \in LockingRecords
      /\ UNCHANGED shared /\ UNCHANGED todo
  BY Zenon DEF LocksInv, Typed, Snapshot, Move, Check
<1>2. pc[t] # "idle" /\ Key(t)' = Key(t)
  BY <1>1, Zenon DEF Snapshot, Move, Check, Key, Call
<1>3. CASE Snapshot(t)
  <2> DEFINE L == LocksOf(Homes(Key(t), hp_))
             r == [NoLocking EXCEPT !.hp = hp_, !.want = L, !.lock1 = Min(L), !.go = "body"]
  <2>1. locking' = [locking EXCEPT ![t] = r]
    BY <1>3 DEF Snapshot
  <2>2. r.hp = hp_ /\ r.lock1 = Min(L)
    BY DEF NoLocking
  <2> HIDE DEF r
  <2>3. Hp(t)' = hp_ /\ locking'[t].lock1 = Min(L)
    BY <1>1, <2>1, <2>2 DEF Hp
  <2>4. HomeLocks(t)' = L
    BY <1>2, <2>3 DEF HomeLocks, LocksOf, LockInd, Homes, I1, I2
  <2>5. Min(L) \in L
    <3>1. Key(t) \in Keys /\ hp_ \in 0..MaxHp
      BY <1>2, KeyFacts
    <3>2. \A b \in Homes(Key(t), hp_) : b \in Buckets(hp_)
      BY <3>1, HomesAreBuckets
    <3>3. L \in SUBSET Nat
      <4>1. \A b \in Buckets(hp_) : b \in Nat /\ LockInd(b) \in 0..NumLocks(hp_) - 1
        BY <3>1, BucketLocks, LockIndRange
      <4>2. \A b \in Homes(Key(t), hp_) : LockInd(b) \in Nat
        BY <3>1, <3>2, <4>1, NumLocksFacts
      <4> QED BY <4>2 DEF LocksOf
    <3>4. L # {}
      BY DEF LocksOf, Homes
    <3> QED BY <3>3, <3>4, MinIsLeast
  <2>6. CountsHere(t)'
    BY <2>3, <2>4, <2>5, Zenon DEF CountsHere
  <2> QED BY <1>1, <2>6, SharedCount
<1>4. CASE Move(t)
  <2>1. PICK L, l, go :
           /\ l = IF Depth(t) = 1 THEN LockInd(I1(Key(t), Hp(t)))
                                  ELSE Min(LocksOf(Homes(Key(t), Hp(t))))
           /\ locking' = [locking EXCEPT ![t].want = L, ![t].own = {},
                                          ![t].lock1 = l, ![t].go = go]
    BY <1>4, Zenon DEF Move
  <2> DEFINE r == [locking[t] EXCEPT !.want = L, !.own = {}, !.lock1 = l, !.go = go]
  <2>2. locking' = [locking EXCEPT ![t] = r]
    BY <2>1
  <2>3. r.hp = Hp(t) /\ r.lock1 = l
    BY <1>1 DEF LockingRecords, Hp
  <2> HIDE DEF r
  <2>4. Hp(t)' = Hp(t) /\ locking'[t].lock1 = l
    BY <1>1, <2>2, <2>3 DEF Hp
  <2>5. HomeLocks(t)' = HomeLocks(t)
    BY <1>2, <2>4 DEF HomeLocks, LocksOf, LockInd, Homes, I1, I2
  <2>6. l \in HomeLocks(t)
    <3>1. LockInd(I1(Key(t), Hp(t))) \in HomeLocks(t)
      BY DEF HomeLocks, LocksOf, Homes
    <3>2. Min(HomeLocks(t)) \in HomeLocks(t)
      <4>1. HomeLocks(t) \in SUBSET Nat
        BY <1>2, KeyFacts DEF HomeLocks, LocksOf
      <4> QED BY <3>1, <4>1, MinIsLeast
    <3> QED BY <2>1, <3>1, <3>2 DEF HomeLocks
  <2>7. CountsHere(t)'
    BY <2>4, <2>5, <2>6 DEF CountsHere
  <2> QED BY <1>1, <2>7, SharedCount
<1>5. CASE Check(t)
  <2>1. pc[t] = "check"
    BY <1>5 DEF Check
  <2>2. Hp(t)' = Hp(t) /\ locking'[t].lock1 = locking[t].lock1
    BY <1>1, <1>5 DEF Check, StartRelease, Hp, LockingRecords
  <2>3. HomeLocks(t)' = HomeLocks(t)
    BY <1>2, <2>2 DEF HomeLocks, LocksOf, LockInd, Homes, I1, I2
  <2>4. CountsHere(t)
    BY DEF CountInv
  <2>5. CountsHere(t)'
    BY <2>1, <2>2, <2>3, <2>4 DEF CountsHere, OwnsHomes, HoldsSome
  <2> QED BY <1>1, <2>5, SharedCount
<1> QED BY <1>3, <1>4, <1>5, Zenon

\* Releasing a lock counts nothing.
LEMMA ReleaseCount ==
  ASSUME LocksInv, LocksInv', CountInv, NEW t \in Threads, Others(t), Release(t)
  PROVE  CountInv'
<1>1. /\ DOMAIN pc = Threads /\ DOMAIN locking = Threads /\ locking[t] \in LockingRecords
      /\ locks \in [LockIds -> LockRecords] /\ OwnOK(t)
  BY DEF LocksInv, Typed, LocalOK
<1>2. PICK l \in Drop(t) :
         /\ locks' = Unlocked(l, locking[t].modified)
         /\ locking' = [locking EXCEPT ![t].drop = @ \ {l}, ![t].own = @ \ {l}]
         /\ Goto(t, IF Drop(t) = {l} THEN Go(t) ELSE "release")
  BY DEF Release, Drop, Go
<1>3. pc[t] = "release" /\ UNCHANGED <<hp_, table, todo>> /\ l \in LockIds
      /\ Go(t) \in {"return", "search", "snapshot", "move", "recheck"}
  BY <1>1 DEF Release, OwnOK
<1>4. LockIds' = LockIds /\ \A k \in LockIds : locks'[k].count = locks[k].count
  <2>1. locks[l] \in LockRecords
    BY <1>1, <1>3
  <2>2. LockIds' = LockIds
    BY <1>2 DEF Unlocked, LockIds
  <2>3. ASSUME NEW k \in LockIds, k # l PROVE locks'[k] = locks[k]
    BY <1>1, <1>2, <2>3 DEF Unlocked
  <2>4. locks'[l].count = locks[l].count
    BY <1>1, <1>2, <1>3, <2>1 DEF Unlocked, LockRecords
  <2> QED BY <2>2, <2>3, <2>4
<1>5. /\ Go(t)' = Go(t) /\ Hp(t)' = Hp(t) /\ locking'[t].lock1 = locking[t].lock1
      /\ pc'[t] \in {Go(t), "release"}
  BY <1>1, <1>2, <1>3 DEF Hp, Go, LockingRecords, Goto
<1>6. HomeLocks(t)' = HomeLocks(t)
  BY <1>3, <1>5 DEF HomeLocks, LocksOf, LockInd, Homes, I1, I2, Key, Call
<1>7. CountsHere(t)'
  <2>1. OwnsHomes(t)' => OwnsHomes(t)
    BY <1>3, <1>5 DEF OwnsHomes, HoldsSome
  <2>2. CountsHere(t)
    BY DEF CountInv
  <2> QED BY <1>5, <1>6, <2>1, <2>2 DEF CountsHere
<1>8. Entries(table)' = Entries(table)
  BY <1>3 DEF Entries
<1> QED BY <1>4, <1>7, <1>8, QuietCount

\* Taking one of all locks counts nothing.
LEMMA TakeNextCount ==
  ASSUME LocksInv, LocksInv', CountInv, NEW t \in Threads, Others(t), TakeNextOfAll(t)
  PROVE  CountInv'
<1> DEFINE l == Cardinality(locking[t].own)
<1>1. /\ DOMAIN pc = Threads /\ locks \in [LockIds -> LockRecords] /\ OwnOK(t)
  BY DEF LocksInv, Typed, LocalOK
<1>2. /\ pc[t] = "lock_all" /\ UNCHANGED <<hp_, table>>
      /\ locks' = [locks EXCEPT ![l].flag = TRUE, ![l].epoch = @ + 1]
      /\ pc'[t] \in {"lock_all", locking[t].go}
  BY <1>1 DEF TakeNextOfAll, Goto
<1> HIDE DEF l
<1>3. LockIds' = LockIds /\ (\A k \in LockIds : locks'[k].count = locks[k].count)
  <2>1. LockIds' = LockIds
    BY <1>2 DEF LockIds
  <2>2. ASSUME NEW k \in LockIds PROVE locks'[k].count = locks[k].count
    <3>1. locks[k] \in LockRecords
      BY <1>1
    <3> QED BY <1>1, <1>2, <3>1 DEF LockRecords
  <2> QED BY <2>1, <2>2
<1>4. pc'[t] \in {"lock_all", "clear", "expand_next", "double"}
  BY <1>1, <1>2 DEF OwnOK, Go
<1>5. CountsHere(t)'
  BY <1>4 DEF CountsHere, OwnsHomes, HoldsSome
<1>6. Entries(table)' = Entries(table)
  BY <1>2 DEF Entries
<1> QED BY <1>3, <1>5, <1>6, QuietCount


\* The steps that leave the map alone and rely on no lock of a key.
LEMMA LandsCount ==
  ASSUME LocksInv, LocksInv', CountInv, NEW t \in Threads, Others(t), UNCHANGED shared,
         ~OwnsHomes(t)'
  PROVE  CountInv'
<1>1. CountsHere(t)'
  BY DEF CountsHere
<1> QED BY <1>1, SharedCount

\* Until its data are migrated, the new half of a lock's buckets is empty.
LEMMA NewHalfEmpty ==
  ASSUME LocksInv, PlacesInv, NEW b \in Buckets(hp_), NEW i \in SlotIds,
         hp_ \in Nat \ {0}, Basis(b) = hp_ - 1, b >= HashSize(hp_ - 1)
  PROVE  table[b][i] = Empty
<1> SUFFICES ASSUME table[b][i] # Empty PROVE FALSE
  OBVIOUS
<1>1. /\ DOMAIN table = Buckets(hp_) /\ table \in [Buckets(hp_) -> Rows]
      /\ hp_ \in 0..MaxHp /\ MaxHp \in Nat
  BY BucketLocks, MapAssumption DEF LocksInv, Typed
<1>2. b \in Homes(table[b][i].key, hp_ - 1)
  BY <1>1 DEF PlacesInv, Placed
<1>3. table[b][i].key \in Keys
  BY <1>1, FullBucket
<1>4. hp_ - 1 \in 0..MaxHp
  BY <1>1
<1>5. b \in Buckets(hp_ - 1)
  BY <1>2, <1>3, <1>4, HomesAreBuckets
<1>6. HashSize(hp_ - 1) \in Nat
  BY <1>4, SizeNat, <1>1, MapAssumption
<1> QED BY <1>5, <1>6 DEF Buckets

\* Migrating locks whose data were left behind keeps every entry.
LEMMA LeftCount ==
  ASSUME LocksInv, PlacesInv, ~Spreading, NEW L \in SUBSET LockIds,
         \A l \in L : ~locks[l].migrated
  PROVE  Cardinality(Entries(MoveBuckets(table, LeftBuckets(L), hp_ - 1)))
           = Cardinality(Entries(table))
<1>1. /\ DOMAIN table = Buckets(hp_) /\ table \in [Buckets(hp_) -> Rows]
      /\ hp_ \in 0..MaxHp /\ MaxHp \in Nat /\ LockPow \in Nat
      /\ \A l \in LockIds : ~locks[l].migrated => hp_ > LockPow
  BY BucketLocks, MapAssumption DEF LocksInv, Typed, LocksOK
<1>2. IsFiniteSet(Entries(table))
  BY CountFacts
<1>3. CASE L = {}
  <2> DEFINE new == MoveBuckets(table, LeftBuckets(L), hp_ - 1)
  <2>1. LeftBuckets(L) = {}
    BY <1>3 DEF LeftBuckets
  <2>2. DOMAIN new = DOMAIN table
    BY DEF MoveBuckets
  <2>3. \A c \in DOMAIN table, j \in SlotIds : new[c][j] = table[c][j]
    BY <2>1 DEF MoveBuckets
  <2> HIDE DEF new
  <2>4. Entries(new) = Entries(table)
    BY <2>2, <2>3 DEF Entries
  <2> QED BY <2>4 DEF new
<1>4. CASE L # {}
  <2>1. hp_ > LockPow
    BY <1>1, <1>4
  <2> DEFINE h == hp_ - 1
  <2>2. h \in 0..MaxHp /\ h \in LockPow..MaxHp /\ h + 1 = hp_
    BY <1>1, <2>1
  <2>3. LeftBuckets(L) \in SUBSET Buckets(h)
    BY DEF LeftBuckets, OldBuckets, Buckets
  <2>4. ASSUME NEW c \in LeftBuckets(L), NEW j \in SlotIds
        PROVE  table[c + HashSize(h)][j] = Empty
    <3>1. c \in Buckets(h) /\ LockInd(c) \in L
      BY DEF LeftBuckets, OldBuckets, Buckets
    <3>2. HashSize(h) \in Nat \ {0} /\ HashSize(hp_) = 2 * HashSize(h)
      BY <2>2, <1>1, MapAssumption, SizeNat, SizeDoubles
    <3>3. c \in Nat /\ c + HashSize(h) \in Buckets(hp_) /\ c + HashSize(h) >= HashSize(h)
      BY <3>1, <3>2 DEF Buckets
    <3>4. LockInd(c + HashSize(h)) = LockInd(c)
      BY <2>2, <3>3, DoubledLock
    <3>5. Basis(c + HashSize(h)) = hp_ - 1
      BY <3>1, <3>4 DEF Basis
    <3> QED BY <3>3, <3>5, <2>1, <1>1, NewHalfEmpty
  <2> HIDE DEF h
  <2>5. table \in [Buckets(h + 1) -> Rows]
    BY <1>1, <2>2
  <2>6. Cardinality(Entries(MoveBuckets(table, LeftBuckets(L), h))) = Cardinality(Entries(table))
    BY <1>2, <2>2, <2>3, <2>4, <2>5, MovedCount
  <2> QED BY <2>6 DEF h
<1> QED BY <1>3, <1>4

\* Migrating the data of one lock loses no entry and counts none.
LEMMA MigrateCount ==
  ASSUME LocksInv, PlacesInv, NEW l \in LockIds, ~Spreading,
         LockAndRelease(l) \/ LockAndRehash(l)
  PROVE  /\ Cardinality(Entries(table)') = Cardinality(Entries(table))
         /\ LockIds' = LockIds /\ \A k \in LockIds : locks'[k].count = locks[k].count
<1>1. locks \in [LockIds -> LockRecords]
  BY DEF LocksInv, Typed
<1>2. Cardinality(Entries(Migrate(l))) = Cardinality(Entries(table))
  <2>1. CASE locks[l].migrated
    BY <2>1 DEF Migrate
  <2>2. CASE ~locks[l].migrated
    <3>1. LeftBuckets({l}) = OldBuckets(l)
      BY DEF LeftBuckets
    <3> QED BY <2>2, <3>1, LeftCount DEF Migrate
  <2> QED BY <2>1, <2>2
<1>3. table' = Migrate(l)
  BY DEF LockAndRelease, LockAndRehash
<1>4. Entries(table)' = Entries(table')
  BY DEF Entries
<1>5. LockIds' = LockIds /\ (\A k \in LockIds : locks'[k].count = locks[k].count)
  <2>1. CASE LockAndRelease(l)
    <3>1. locks' = [locks EXCEPT ![l].epoch = @ + 2, ![l].migrated = TRUE]
      BY <2>1 DEF LockAndRelease
    <3>2. ASSUME NEW k \in LockIds PROVE locks'[k].count = locks[k].count
      BY <3>1, <1>1 DEF LockRecords
    <3> QED BY <3>1, <3>2 DEF LockIds
  <2>2. CASE LockAndRehash(l)
    <3>1. locks' = [locks EXCEPT ![l].flag = TRUE, ![l].epoch = @ + 1, ![l].migrated = TRUE]
      BY <2>2 DEF LockAndRehash
    <3>2. ASSUME NEW k \in LockIds PROVE locks'[k].count = locks[k].count
      BY <3>1, <1>1 DEF LockRecords
    <3> QED BY <3>1, <3>2 DEF LockIds
  <2> QED BY <2>1, <2>2
<1> QED BY <1>2, <1>3, <1>4, <1>5


\* Taking and releasing one lock for a search or a lookup.
LEMMA TouchCount ==
  ASSUME LocksInv, LocksInv', PlacesInv, CountInv, NEW t \in Threads, Others(t),
         SearchInterrupted(t) \/ Bfs(t) \/ Path(t) \/ ReadRehash(t)
  PROVE  CountInv'
<1>1. DOMAIN pc = Threads
  BY DEF LocksInv, Typed
<1>2. /\ pc[t] \in {"bfs", "path", "rehash"}
      /\ pc'[t] \in {"snapshot", "bfs", "path", "move", "lock_all", "read"}
  <2>1. CASE SearchInterrupted(t) \/ ReadRehash(t)
    BY <1>1, <2>1, Zenon DEF SearchInterrupted, ReadRehash, Goto
  <2>2. CASE Bfs(t)
    BY <1>1, <2>2, Zenon DEF Bfs, Goto
  <2>3. CASE Path(t)
    BY <1>1, <2>3 DEF Path, Goto
  <2> QED BY <2>1, <2>2, <2>3
<1>3. CountsHere(t)'
  BY <1>2 DEF CountsHere, OwnsHomes, HoldsSome
<1>4. PICK l \in LockIds : LockAndRelease(l)
  <2>1. CASE SearchInterrupted(t)
    <3>1. LockInd(IF pc[t] = "bfs" THEN Head(search[t].queue).bucket ELSE search[t].next) \in LockIds
      BY <2>1, SearchLock, Zenon DEF SearchInterrupted
    <3> QED BY <2>1, <3>1 DEF SearchInterrupted
  <2>2. CASE Bfs(t)
    <3>1. LockInd(Head(search[t].queue).bucket) \in LockIds
      BY <2>2, SearchLock, Zenon DEF Bfs
    <3> QED BY <2>2, <3>1, Zenon DEF Bfs
  <2>3. CASE Path(t)
    <3>1. LockInd(search[t].next) \in LockIds
      BY <2>3, SearchLock DEF Path
    <3> QED BY <2>3, <3>1, Zenon DEF Path
  <2>4. CASE ReadRehash(t)
    <3>1. locking[t].lock1 \in LockIds
      BY <2>4 DEF ReadRehash, LocksInv, LocalOK, HpOK
    <3> QED BY <2>4, <3>1 DEF ReadRehash
  <2> QED BY <2>1, <2>2, <2>3, <2>4
<1>5. ~locks[l].flag
  BY <1>4 DEF LockAndRelease
<1>6. ~Spreading
  BY <1>2, <1>5, SpreadingOwnsAll
<1> QED BY <1>3, <1>4, <1>6, MigrateCount, QuietCount

\* Taking the next lock of a key, or giving it back to start over.
LEMMA TakeLockCount ==
  ASSUME LocksInv, LocksInv', PlacesInv, CountInv, NEW t \in Threads, Others(t), TakeLock(t)
  PROVE  CountInv'
<1> DEFINE l == NextLock(t)
<1>1. /\ DOMAIN pc = Threads /\ DOMAIN locking = Threads /\ locking[t] \in LockingRecords
      /\ OwnOK(t)
  BY DEF LocksInv, Typed, LocalOK
<1>2. pc[t] = "lock" /\ l \in LockIds /\ UNCHANGED todo /\ Go(t) \in {"body", "check", "shift"}
  BY <1>1 DEF TakeLock, OwnOK
<1>3. CountsHere(t)
  BY DEF CountInv
<1>4. OwnsHomes(t)
  BY <1>2 DEF OwnsHomes
<1>5. ASSUME LockAndRelease(l), Goto(t, "snapshot") PROVE CountsHere(t)'
  BY <1>1, <1>5 DEF Goto, CountsHere, OwnsHomes, HoldsSome
<1>6. ASSUME LockAndRehash(l),
             locking' = [locking EXCEPT ![t].want = @ \ {l}, ![t].own = @ \cup {l}]
      PROVE  CountsHere(t)'
  <2> HIDE DEF l
  <2> DEFINE r == [locking[t] EXCEPT !.want = @ \ {l}, !.own = @ \cup {l}]
  <2>1. locking' = [locking EXCEPT ![t] = r]
    BY <1>6
  <2>2. r.hp = Hp(t) /\ r.lock1 = locking[t].lock1
    BY <1>1 DEF LockingRecords, Hp
  <2> HIDE DEF r
  <2>3. Hp(t)' = Hp(t) /\ locking'[t].lock1 = locking[t].lock1
    BY <1>1, <2>1, <2>2 DEF Hp
  <2>4. HomeLocks(t)' = HomeLocks(t)
    BY <1>2, <2>3 DEF HomeLocks, LocksOf, LockInd, Homes, I1, I2, Key, Call
  <2> QED BY <1>3, <1>4, <2>3, <2>4 DEF CountsHere
<1>7. (LockAndRelease(l) \/ LockAndRehash(l)) /\ CountsHere(t)'
  <2> HIDE DEF l
  <2> QED BY <1>5, <1>6 DEF TakeLock, l
<1> HIDE DEF l
<1>8. ~locks[l].flag
  BY <1>7 DEF LockAndRelease, LockAndRehash
<1>9. ~Spreading
  BY <1>2, <1>8, SpreadingOwnsAll
<1> QED BY <1>2, <1>7, <1>9, MigrateCount, QuietCount


\* Writing one slot adds or removes at most that slot.
LEMMA PutEntries ==
  ASSUME NEW D, NEW tab \in [D -> Rows], NEW new \in [D -> Rows], NEW b \in D, NEW i \in SlotIds,
         \A c \in D \ {b} : new[c] = tab[c],
         \A j \in SlotIds \ {i} : new[b][j] = tab[b][j]
  PROVE  Entries(new) = IF new[b][i] = Empty THEN Entries(tab) \ {<<b, i>>}
                                             ELSE Entries(tab) \cup {<<b, i>>}
<1>2. DOMAIN new = D /\ DOMAIN tab = D
  OBVIOUS
<1>3. \A p \in D \X SlotIds : p = <<p[1], p[2]>> /\ p[1] \in D /\ p[2] \in SlotIds
  OBVIOUS
<1>4. ASSUME NEW p \in D \X SlotIds, p # <<b, i>> PROVE new[p[1]][p[2]] = tab[p[1]][p[2]]
  BY <1>3, <1>4
<1>5. \A p : p \in Entries(new) <=> p \in D \X SlotIds /\ new[p[1]][p[2]] # Empty
  BY <1>2 DEF Entries
<1>6. \A p : p \in Entries(tab) <=> p \in D \X SlotIds /\ tab[p[1]][p[2]] # Empty
  BY <1>2 DEF Entries
<1>7. <<b, i>> \in D \X SlotIds /\ <<b, i>>[1] = b /\ <<b, i>>[2] = i
  OBVIOUS
<1>8. <<b, i>> \in Entries(new) <=> new[b][i] # Empty
  BY <1>5, <1>7
<1>9. \A p : p # <<b, i>> => (p \in Entries(new) <=> p \in Entries(tab))
  BY <1>4, <1>5, <1>6
<1> QED BY <1>8, <1>9

\* One lock counts one element more or less.
LEMMA OneCounted ==
  ASSUME LocksInv, LocksInv', NEW l \in LockIds, NEW d \in {1, -1},
         locks' = [locks EXCEPT ![l].count = @ + d]
  PROVE  Size' = Size + d
<1>1. /\ IsFiniteSet(LockIds) /\ Size = Sum(Counts, LockIds)
      /\ \A k \in LockIds : Counts[k] = locks[k].count /\ Counts[k] \in Int
  BY CountFacts
<1>2. Size' = Sum(Counts', LockIds')
  BY DEF Size, SumFunction, Sum, Counts
<1>3. locks \in [LockIds -> LockRecords] /\ locks[l] \in LockRecords
  BY DEF LocksInv, Typed
<1>4. LockIds' = LockIds
  BY DEF LockIds
<1>5. locks'[l].count = locks[l].count + d /\ \A k \in LockIds \ {l} : locks'[k] = locks[k]
  <2> DEFINE r == [locks[l] EXCEPT !.count = @ + d]
  <2>1. locks' = [locks EXCEPT ![l] = r]
    OBVIOUS
  <2>2. r.count = locks[l].count + d
    BY <1>3 DEF LockRecords
  <2> HIDE DEF r
  <2> QED BY <1>3, <2>1, <2>2
<1>6. \A k \in LockIds : Counts'[k] = locks'[k].count
  BY <1>4 DEF Counts
<1>7. Counts'[l] = Counts[l] + d /\ Counts'[l] \in Int /\ \A k \in LockIds \ {l} : Counts'[k] = Counts[k]
  BY <1>1, <1>5, <1>6
<1> HIDE DEF Size
<1>8. Sum(Counts', LockIds) = Sum(Counts, LockIds) + (Counts'[l] - Counts[l])
  BY <1>1, <1>7, SumChange
<1> QED BY <1>1, <1>2, <1>4, <1>7, <1>8

\* What an operation does to the entries and to the counters.
Puts(t) ==
    \/ locks' = locks /\ Entries(table)' = Entries(table)
    \/ /\ locks' = [locks EXCEPT ![locking[t].lock1].count = @ - 1]
       /\ \E p \in Entries(table) : Entries(table)' = Entries(table) \ {p}
    \/ /\ locks' = [locks EXCEPT ![locking[t].lock1].count = @ + 1]
       /\ \E p : p \notin Entries(table) /\ Entries(table)' = Entries(table) \cup {p}

\* An operation writes one slot of the table and counts what it adds or
\* removes.
LEMMA BodyPuts ==
  ASSUME LocksInv, PlacesInv, NEW t \in Threads, Body(t)
  PROVE  Puts(t)
<1>1. pc[t] \in {"body", "recheck"}
  BY DEF Body, Update, Erase, Duplicate, AddToFreeSlot, AddToFreedSlot
<1>2. /\ Typed /\ hp_ = Hp(t) /\ pc[t] # "idle" /\ todo[t] # <<>>
      /\ table \in [Buckets(hp_) -> Rows] /\ DOMAIN table = Buckets(hp_)
  BY <1>1 DEF LocksInv, Typed, LocalOK, HpOK, Frozen, HoldsSome
<1>3. Call(t).op \in Stores => Call(t).val \in Vals
  BY <1>2, CallTyped
<1>4. Homes(Key(t), Hp(t)) \subseteq Buckets(hp_) /\ Key(t) \in Keys
  BY <1>2, KeyFacts
<1>5. Empty \notin EntryRecords
  BY MapAssumption DEF EntryRecords
<1>6. \A b \in Buckets(hp_), i \in SlotIds : <<b, i>> \in Entries(table) <=> table[b][i] # Empty
  BY <1>2 DEF Entries
<1>7. Entries(table)' = Entries(table')
  BY DEF Entries
<1>8. ASSUME NEW p \in Here(t), StoreValue(t, p), Call(t).op \in Stores
      PROVE  Puts(t)
  <2> DEFINE e == table[p[1]][p[2]]
             v == [e EXCEPT !.val = Call(t).val]
  <2>1. p[1] \in Buckets(hp_) /\ p[2] \in SlotIds /\ e \in EntryRecords
    BY <1>1, <1>4, HereFacts
  <2>2. table' = [table EXCEPT ![p[1]][p[2]] = v] /\ locks' = locks
    BY <1>8 DEF StoreValue
  <2>3. v \in EntryRecords
    BY <1>3, <1>8, <2>1 DEF EntryRecords
  <2>4. e # Empty /\ v # Empty
    BY <1>5, <2>1, <2>3
  <2> HIDE DEF v
  <2>5. Entries(table') = Entries(table) \cup {<<p[1], p[2]>>}
    <3>1. /\ table' \in [Buckets(hp_) -> Rows]
          /\ \A c \in Buckets(hp_) \ {p[1]} : table'[c] = table[c]
          /\ \A j \in SlotIds \ {p[2]} : table'[p[1]][j] = table[p[1]][j]
          /\ table'[p[1]][p[2]] = v
      BY <1>2, <2>1, <2>2, <2>3, PutTyped
    <3>2. Entries(table') = IF table'[p[1]][p[2]] = Empty THEN Entries(table) \ {<<p[1], p[2]>>}
                                                   ELSE Entries(table) \cup {<<p[1], p[2]>>}
      BY <1>2, <2>1, <3>1, PutEntries
    <3> QED BY <3>1, <3>2, <2>4
  <2>6. <<p[1], p[2]>> \in Entries(table)
    BY <1>6, <2>1, <2>4
  <2>7. Entries(table') = Entries(table)
    BY <2>5, <2>6
  <2>8. locks' = locks /\ Entries(table)' = Entries(table)
    BY <1>7, <2>2, <2>7
  <2> QED BY <2>8 DEF Puts
<1>9. ASSUME NEW p \in Here(t), DelFromBucket(t, p)
      PROVE  Puts(t)
  <2>1. p[1] \in Buckets(hp_) /\ p[2] \in SlotIds /\ table[p[1]][p[2]] \in EntryRecords
    BY <1>1, <1>4, HereFacts
  <2>2. locks' = [locks EXCEPT ![locking[t].lock1].count = @ - 1]
    BY <1>9 DEF DelFromBucket
  <2>8. table' = [table EXCEPT ![p[1]][p[2]] = Empty] /\ Empty \in EntryRecords \cup {Empty}
    BY <1>9 DEF DelFromBucket
  <2>3. Entries(table') = Entries(table) \ {<<p[1], p[2]>>}
    <3>1. /\ table' \in [Buckets(hp_) -> Rows]
          /\ \A c \in Buckets(hp_) \ {p[1]} : table'[c] = table[c]
          /\ \A j \in SlotIds \ {p[2]} : table'[p[1]][j] = table[p[1]][j]
          /\ table'[p[1]][p[2]] = Empty
      <4> DEFINE b == p[1]
                 i == p[2]
                 D == Buckets(hp_)
      <4>1. table \in [D -> Rows] /\ b \in D /\ i \in SlotIds /\ Empty \in EntryRecords \cup {Empty}
        BY <1>2, <2>1, <2>8, Zenon
      <4>2. table' = [table EXCEPT ![b][i] = Empty]
        BY <2>8, Zenon
      <4> HIDE DEF b, i, D
      <4>3. /\ [table EXCEPT ![b][i] = Empty] \in [D -> Rows]
            /\ \A c \in D \ {b} : [table EXCEPT ![b][i] = Empty][c] = table[c]
            /\ \A j \in SlotIds \ {i} : [table EXCEPT ![b][i] = Empty][b][j] = table[b][j]
            /\ [table EXCEPT ![b][i] = Empty][b][i] = Empty
        BY <4>1, PutTyped, SMTT(60)
      <4>4. /\ table' \in [D -> Rows]
            /\ \A c \in D \ {b} : table'[c] = table[c]
            /\ \A j \in SlotIds \ {i} : table'[b][j] = table[b][j]
            /\ table'[b][i] = Empty
        BY <4>2, <4>3, ZenonT(60)
      <4> QED BY <4>4, Zenon DEF b, i, D
    <3>2. Entries(table') = IF table'[p[1]][p[2]] = Empty THEN Entries(table) \ {<<p[1], p[2]>>}
                                                   ELSE Entries(table) \cup {<<p[1], p[2]>>}
      BY <1>2, <2>1, <3>1, PutEntries
    <3> QED BY <3>1, <3>2
  <2>4. table[p[1]][p[2]] # Empty
    BY <1>5, <2>1
  <2>5. <<p[1], p[2]>> \in Entries(table)
    BY <1>6, <2>1, <2>4
  <2>6. Entries(table)' = Entries(table) \ {<<p[1], p[2]>>}
    BY <1>7, <2>3
  <2>7. \E q \in Entries(table) : Entries(table)' = Entries(table) \ {q}
    BY <2>5, <2>6
  <2> QED BY <2>2, <2>7 DEF Puts
<1>10. ASSUME NEW bb \in Buckets(hp_), NEW ii \in SlotIds, AddToBucket(t, bb, ii),
              Call(t).op \in Stores, table[bb][ii] = Empty
       PROVE  Puts(t)
  <2> DEFINE v == Entry(Key(t), Call(t).val)
  <2>1. v \in EntryRecords
    BY <1>3, <1>4, <1>10 DEF Entry, EntryRecords
  <2>2. locks' = [locks EXCEPT ![locking[t].lock1].count = @ + 1]
    BY <1>10 DEF AddToBucket
  <2>8. table' = [table EXCEPT ![bb][ii] = v] /\ v \in EntryRecords \cup {Empty}
    BY <1>10, <2>1 DEF AddToBucket
  <2>9. table \in [Buckets(hp_) -> Rows] /\ bb \in Buckets(hp_)
    BY <1>2
  <2>3. v # Empty
    BY <1>5, <2>1
  <2> HIDE DEF v
  <2>4. Entries(table') = Entries(table) \cup {<<bb, ii>>}
    <3>1. /\ table' \in [Buckets(hp_) -> Rows]
          /\ \A c \in Buckets(hp_) \ {bb} : table'[c] = table[c]
          /\ \A j \in SlotIds \ {ii} : table'[bb][j] = table[bb][j]
          /\ table'[bb][ii] = v
      <4>1. PICK w \in EntryRecords \cup {Empty} : w = v
        BY <2>8
      <4>2. table' = [table EXCEPT ![bb][ii] = w]
        BY <2>8, <4>1
      <4>3. DOMAIN table = Buckets(hp_) /\ table[bb] \in Rows /\ DOMAIN table[bb] = SlotIds
        BY <2>9 DEF Rows
      <4>4. \A c \in Buckets(hp_) \ {bb} : table'[c] = table[c]
        BY <4>2, <4>3
      <4>5. table'[bb] = [table[bb] EXCEPT ![ii] = w]
        BY <4>2, <4>3
      <4>6. table' \in [Buckets(hp_) -> Rows]
        BY <2>9, <4>2, <4>3 DEF Rows
      <4>7. (\A j \in SlotIds \ {ii} : table'[bb][j] = table[bb][j]) /\ table'[bb][ii] = w
        BY <4>3, <4>5
      <4> QED BY <4>1, <4>4, <4>6, <4>7
    <3>2. Entries(table') = IF table'[bb][ii] = Empty THEN Entries(table) \ {<<bb, ii>>}
                                                   ELSE Entries(table) \cup {<<bb, ii>>}
      BY <1>2, <3>1, PutEntries
    <3> QED BY <3>1, <3>2, <2>3
  <2>5. <<bb, ii>> \notin Entries(table)
    BY <1>6, <1>10
  <2>6. Entries(table)' = Entries(table) \cup {<<bb, ii>>}
    BY <1>7, <2>4
  <2>7. \E q : q \notin Entries(table) /\ Entries(table)' = Entries(table) \cup {q}
    BY <2>5, <2>6
  <2> QED BY <2>2, <2>7 DEF Puts
<1>11. Inserts \subseteq Stores /\ "update" \in Stores /\ "insert_or_assign" \in Stores
  BY DEF Inserts, Stores
<1>12. CASE Update(t)
  BY <1>8, <1>11, <1>12 DEF Update
<1>13. CASE Erase(t)
  BY <1>9, <1>13 DEF Erase
<1>14. CASE Duplicate(t)
  <2>1. PICK p \in Here(t) :
          \/ Call(t).op = "insert" /\ UNCHANGED <<table, locks, legal>>
          \/ Call(t).op = "insert_or_assign" /\ StoreValue(t, p)
          \/ Call(t).op = "uprase" /\ DelFromBucket(t, p)
    BY <1>14 DEF Duplicate, Inserts
  <2>2. CASE UNCHANGED <<table, locks, legal>>
    BY <1>7, <2>2 DEF Puts
  <2>3. CASE Call(t).op = "insert_or_assign" /\ StoreValue(t, p)
    BY <1>8, <1>11, <2>3
  <2>4. CASE DelFromBucket(t, p)
    BY <1>9, <2>4
  <2> QED BY <2>1, <2>2, <2>3, <2>4
<1>15. CASE AddToFreeSlot(t)
  <2> DEFINE b == IF FreeSlots(table, I1(Key(t), Hp(t))) # {} THEN I1(Key(t), Hp(t))
                                                             ELSE I2(Key(t), Hp(t))
             S == FreeSlots(table, b)
  <2>1. S # {} /\ AddToBucket(t, b, Max(S)) /\ Call(t).op \in Inserts
    BY <1>15 DEF AddToFreeSlot
  <2>2. b \in Buckets(hp_)
    BY <1>4 DEF Homes
  <2>3. S \in SUBSET SlotIds /\ \A i \in S : table[b][i] = Empty
    BY DEF FreeSlots
  <2> HIDE DEF b, S
  <2>4. Max(S) \in S
    <3>1. S \in SUBSET (0..(Slots + 1) - 1) /\ Slots + 1 \in Nat
      BY <2>3, SlotSets
    <3>2. \E x \in S : \A y \in S : y <= x
      BY <2>1, <3>1, Greatest
    <3>3. \E x \in S : \A y \in S : x >= y
      BY <2>3, <3>2, SlotSets
    <3> QED BY <3>3 DEF Max
  <2>5. Max(S) \in SlotIds /\ table[b][Max(S)] = Empty
    BY <2>3, <2>4
  <2> QED BY <1>10, <1>11, <2>1, <2>2, <2>5
<1>16. CASE AddToFreedSlot(t)
  <2>1. /\ AddToBucket(t, search[t].path[1].bucket, search[t].path[1].slot)
        /\ Call(t).op \in Inserts /\ pc[t] = "recheck"
    BY <1>16 DEF AddToFreedSlot
  <2>2. PathOf(t)[1].bucket \in Buckets(hp_) /\ PathOf(t)[1] \in PathSlots
    BY <2>1, FreedLock
  <2>3. table[PathOf(t)[1].bucket][PathOf(t)[1].slot] = Empty
    BY <2>1 DEF PlacesInv, Freed
  <2>4. PathOf(t)[1].slot \in SlotIds /\ PathOf(t) = search[t].path
    BY <2>2 DEF PathSlots, PathOf
  <2> QED BY <1>10, <1>11, <2>1, <2>2, <2>3, <2>4
<1> QED BY <1>12, <1>13, <1>14, <1>15, <1>16 DEF Body

\* The bodies of the operations.
LEMMA BodyCount ==
  ASSUME LocksInv, LocksInv', PlacesInv, CountInv, NEW t \in Threads, Others(t), Body(t)
  PROVE  CountInv'
<1>1. /\ pc[t] \in {"body", "recheck"} /\ \E a \in Answers, m \in BOOLEAN : Answer(t, a, m)
  BY BodyEffect
<1>2. CountsHere(t)'
  <2>1. pc'[t] = "release" /\ Go(t)' = "return"
    BY <1>1, AnswerEffect DEF LocksInv
  <2> QED BY <2>1 DEF CountsHere, OwnsHomes, HoldsSome
<1>3. locking[t].lock1 \in LockIds
  <2>1. locking[t].lock1 \in HomeLocks(t)
    BY <1>1 DEF CountInv, CountsHere, OwnsHomes, HoldsSome
  <2> QED BY <1>1, <2>1, KeyFacts DEF HomeLocks, LocksOf
<1>4. /\ Size = Cardinality(Entries(table))
      /\ IsFiniteSet(Entries(table)) /\ Cardinality(Entries(table)) \in Nat
  BY CountFacts DEF CountInv
<1>5. CASE locks' = locks /\ Entries(table)' = Entries(table)
  <2>1. Size' = Size
    BY <1>5 DEF Size, LockIds
  <2> QED BY <1>2, <1>4, <1>5, <2>1, CountStep
<1>6. ASSUME locks' = [locks EXCEPT ![locking[t].lock1].count = @ - 1],
             NEW p \in Entries(table), Entries(table)' = Entries(table) \ {p}
      PROVE  CountInv'
  <2>1. locks' = [locks EXCEPT ![locking[t].lock1].count = @ + (-1)]
    <3>1. locks \in [LockIds -> LockRecords] /\ locks[locking[t].lock1] \in LockRecords
      BY <1>3 DEF LocksInv, Typed
    <3>2. locks[locking[t].lock1].count \in Int
      BY <3>1 DEF LockRecords
    <3>3. locks[locking[t].lock1].count - 1 = locks[locking[t].lock1].count + (-1)
      BY <3>2
    <3> QED BY <1>6, <3>3
  <2>2. Size' = Size + (-1)
    BY <1>3, <2>1, OneCounted
  <2>3. Cardinality(Entries(table) \ {p}) = Cardinality(Entries(table)) - 1
    BY <1>4, FS_RemoveElement
  <2>4. Size' = Cardinality(Entries(table))'
    BY <1>4, <1>6, <2>2, <2>3
  <2> QED BY <1>2, <2>4, CountStep
<1>7. ASSUME locks' = [locks EXCEPT ![locking[t].lock1].count = @ + 1],
             NEW p, p \notin Entries(table), Entries(table)' = Entries(table) \cup {p}
      PROVE  CountInv'
  <2>1. Size' = Size + 1
    BY <1>3, <1>7, OneCounted
  <2>2. Cardinality(Entries(table) \cup {p}) = Cardinality(Entries(table)) + 1
    BY <1>4, <1>7, FS_AddElement
  <2>3. Size' = Cardinality(Entries(table))'
    BY <1>4, <1>7, <2>1, <2>2
  <2> QED BY <1>2, <2>3, CountStep
<1>8. Puts(t)
  BY BodyPuts
<1> QED BY <1>5, <1>6, <1>7, <1>8 DEF Puts


\* A move frees one slot and fills another.
LEMMA ShiftEntries ==
  ASSUME LocksInv, NEW t \in Threads, Shift(t)
  PROVE  \E p \in Entries(table) : \E q :
            q \notin Entries(table) /\ Entries(table') = (Entries(table) \cup {q}) \ {p}
<1> DEFINE from == PathOf(t)[Depth(t)]
           to == PathOf(t)[Depth(t) + 1]
           v == table[from.bucket][from.slot]
           b == to.bucket
           i == to.slot
           c == from.bucket
           j == from.slot
           mid == [table EXCEPT ![b][i] = v]
<1>1. /\ pc[t] = "shift"
      /\ StillValid(from, to)
      /\ table' = [table EXCEPT ![to.bucket][to.slot] = v, ![from.bucket][from.slot] = Empty]
  BY Zenon DEF Shift, PathOf
<1>2. /\ from \in PathSlots /\ from.bucket \in Buckets(hp_)
      /\ to \in PathSlots /\ to.bucket \in Buckets(hp_)
  <2>1. /\ PathOf(t) \in Seq(PathSlots) /\ Depth(t) = Len(PathOf(t)) - 1
        /\ Depth(t) \in 1..Len(PathOf(t))
    BY <1>1, ShiftTyped
  <2>2. Depth(t) + 1 \in 1..Len(PathOf(t))
    <3>1. Len(PathOf(t)) \in Nat
      BY <2>1
    <3> QED BY <2>1, <3>1
  <2>3. from \in PathSlots /\ from.bucket \in Buckets(hp_)
    BY <1>1, <2>1, ShiftTyped
  <2>4. to \in PathSlots /\ to.bucket \in Buckets(hp_)
    BY <1>1, <2>2, ShiftTyped
  <2> QED BY <2>3, <2>4
<1>3. table \in [Buckets(hp_) -> Rows] /\ DOMAIN table = Buckets(hp_)
  BY BucketLocks
<1> HIDE DEF from, to
<1>4. b \in Buckets(hp_) /\ i \in SlotIds /\ c \in Buckets(hp_) /\ j \in SlotIds
  BY <1>2 DEF PathSlots
<1>5. table[b][i] = Empty /\ table[c][j] = v /\ v # Empty
  BY <1>1 DEF StillValid
<1>6. v \in EntryRecords
  <2>1. v = table[c][j] /\ v # Empty
    BY <1>5
  <2> HIDE DEF v, c, j
  <2> QED BY <1>3, <1>4, <2>1, FullBucket
<1>7. table' = [mid EXCEPT ![c][j] = Empty]
  BY <1>1
<1> HIDE DEF v, b, i, c, j
<1>8. /\ mid \in [Buckets(hp_) -> Rows]
      /\ \A d \in Buckets(hp_) \ {b} : mid[d] = table[d]
      /\ \A e \in SlotIds \ {i} : mid[b][e] = table[b][e]
      /\ mid[b][i] = v
  BY <1>3, <1>4, <1>6, PutTyped
<1> HIDE DEF mid
<1>14. table' \in [Buckets(hp_) -> Rows]
  BY ShiftTable
<1>9. /\ \A d \in Buckets(hp_) \ {c} : table'[d] = mid[d]
      /\ \A e \in SlotIds \ {j} : table'[c][e] = mid[c][e]
      /\ table'[c][j] = Empty
  BY <1>4, <1>7, <1>8, PutTyped, SMTT(60)
<1>10. Entries(mid) = IF mid[b][i] = Empty THEN Entries(table) \ {<<b, i>>}
                                           ELSE Entries(table) \cup {<<b, i>>}
  BY <1>3, <1>4, <1>8, PutEntries
<1>11. Entries(table') = IF table'[c][j] = Empty THEN Entries(mid) \ {<<c, j>>}
                                                 ELSE Entries(mid) \cup {<<c, j>>}
  BY <1>4, <1>8, <1>9, <1>14, PutEntries
<1>12. Entries(table') = (Entries(table) \cup {<<b, i>>}) \ {<<c, j>>}
  BY <1>5, <1>8, <1>9, <1>10, <1>11
<1>13. <<c, j>> \in Entries(table) /\ <<b, i>> \notin Entries(table)
  BY <1>3, <1>4, <1>5 DEF Entries
<1> QED BY <1>12, <1>13, Zenon

\* Moving a key along a path counts nothing: the two locks may then count
\* more, or less, than they have.
LEMMA ShiftCount ==
  ASSUME LocksInv, LocksInv', CountInv, NEW t \in Threads, Others(t), Shift(t)
  PROVE  CountInv'
<1>1. pc[t] = "shift" /\ UNCHANGED <<hp_, locks, todo>> /\ ShiftEnds(t)
  BY Zenon DEF Shift, ShiftEnds
<1>2. DOMAIN locking = Threads /\ DOMAIN pc = Threads /\ locking[t] \in LockingRecords
  BY DEF LocksInv, Typed
<1>3. Hp(t)' = Hp(t) /\ locking'[t].lock1 = locking[t].lock1
  BY <1>1, <1>2 DEF ShiftEnds, StartRelease, Hp, LockingRecords
<1>4. HomeLocks(t)' = HomeLocks(t)
  BY <1>1, <1>3 DEF HomeLocks, LocksOf, LockInd, Homes, I1, I2, Key, Call
<1>5. locking[t].lock1 \in HomeLocks(t)
  BY <1>1 DEF CountInv, CountsHere, OwnsHomes, HoldsSome
<1>6. CountsHere(t)'
  BY <1>3, <1>4, <1>5 DEF CountsHere
<1>7. IsFiniteSet(Entries(table)) /\ Cardinality(Entries(table)) \in Nat
  BY CountFacts
<1>8. Cardinality(Entries(table')) = Cardinality(Entries(table))
  <2>6. PICK p \in Entries(table) : \E q :
            q \notin Entries(table) /\ Entries(table') = (Entries(table) \cup {q}) \ {p}
    BY ShiftEntries
  <2>1. PICK q :
            q \notin Entries(table) /\ Entries(table') = (Entries(table) \cup {q}) \ {p}
    BY <2>6
  <2> DEFINE E == Entries(table)
             M == E \cup {q}
  <2>2. IsFiniteSet(M) /\ Cardinality(M) = Cardinality(E) + 1
    BY <1>7, <2>1, FS_AddElement
  <2>3. p \in M
    OBVIOUS
  <2>4. Cardinality(M \ {p}) = Cardinality(M) - 1
    BY <2>2, <2>3, FS_RemoveElement
  <2>5. Entries(table') = M \ {p}
    BY <2>1
  <2> HIDE DEF M
  <2> QED BY <1>7, <2>2, <2>4, <2>5
<1>9. Entries(table)' = Entries(table')
  BY DEF Entries
<1>10. LockIds' = LockIds /\ \A l \in LockIds : locks'[l].count = locks[l].count
  BY <1>1 DEF LockIds
<1> QED BY <1>6, <1>8, <1>9, <1>10, QuietCount, Zenon


\* New locks count nothing.
LEMMA GrowLocksCount ==
  ASSUME LocksInv, LocksInv', CountInv, NEW t \in Threads, Others(t), GrowLocks(t)
  PROVE  CountInv'
<1> DEFINE n == NumLocks(IF hp_ < LockPow THEN hp_ + 1 ELSE hp_)
           new == [flag |-> TRUE, epoch |-> 1, migrated |-> TRUE, count |-> 0]
<1>1. Typed /\ LockRange /\ OwnOK(t) /\ Typed' /\ DOMAIN pc = Threads
  BY DEF LocksInv, LocalOK, Typed
<1>2. /\ pc[t] = "double" /\ UNCHANGED <<hp_, table>> /\ pc'[t] = "resize"
      /\ locks' = [l \in 0..n - 1 |-> IF l \in LockIds THEN locks[l] ELSE new]
  BY <1>1 DEF GrowLocks, Goto, LockIds
<1>3. Own(t) = LockIds
  BY <1>1, <1>2 DEF OwnOK, HoldsAll
<1>4. new.count = 0
  OBVIOUS
<1> HIDE DEF n, new
<1>5. LockIds \subseteq 0..n - 1 /\ n \in Nat
  <2>1. hp_ \in 0..MaxHp
    BY <1>1 DEF Typed
  <2>2. ~Growing
    BY <1>1, <1>2, <1>3, AllMine DEF Growing, LocksInv, HoldsAll
  <2>3. LockIds = 0..NumLocks(hp_) - 1
    BY <1>1, <2>2 DEF LockRange
  <2>4. NumLocks(hp_) \in Nat /\ n \in Nat /\ NumLocks(hp_) <= n
    BY <2>1, NumLocksFacts DEF n
  <2> QED BY <2>3, <2>4
<1>6. LockIds' = 0..n - 1
  BY <1>2 DEF LockIds
<1>7. \A l \in LockIds' : locks'[l] = IF l \in LockIds THEN locks[l] ELSE new
  BY <1>2, <1>6
<1>8. \A l \in LockIds' : Counts'[l] = locks'[l].count
  BY DEF Counts
<1>9. /\ IsFiniteSet(LockIds) /\ Size = Sum(Counts, LockIds)
      /\ \A l \in LockIds : Counts[l] = locks[l].count /\ Counts[l] \in Int
  BY CountFacts
<1> DEFINE R == LockIds' \ LockIds
<1>10. /\ LockIds' = LockIds \cup R /\ LockIds \cap R = {} /\ IsFiniteSet(R)
       /\ \A l \in LockIds : l \in LockIds'
  <2>1. IsFiniteSet(0..n - 1)
    BY <1>5, FS_Interval
  <2>2. IsFiniteSet(R)
    BY <1>6, <2>1, FS_Subset
  <2>3. \A l \in LockIds : l \in LockIds'
    BY <1>5, <1>6
  <2> QED BY <2>2, <2>3
<1>11. (\A l \in LockIds : Counts'[l] = Counts[l]) /\ (\A l \in R : Counts'[l] = 0)
  <2>1. ASSUME NEW l \in LockIds PROVE Counts'[l] = Counts[l]
    BY <1>7, <1>8, <1>9, <1>10
  <2>2. ASSUME NEW l \in R PROVE Counts'[l] = 0
    BY <1>4, <1>7, <1>8
  <2> QED BY <2>1, <2>2
<1>12. \A l \in LockIds \cup R : Counts'[l] \in Int
  BY <1>9, <1>11
<1>13. Size' = Sum(Counts', LockIds')
  BY DEF Size, SumFunction, Sum, Counts
<1> HIDE DEF R, Size
<1>14. Sum(Counts', LockIds \cup R) = Sum(Counts', LockIds) + Sum(Counts', R)
  BY <1>9, <1>10, <1>12, SumUnion
<1>15. Sum(Counts', LockIds) = Sum(Counts, LockIds)
  BY <1>9, <1>11, SumSame
<1>16. Sum(Counts', R) = 0
  BY <1>10, <1>11, SumZeros
<1>17. Sum(Counts, LockIds) \in Int
  BY <1>9, SumType
<1>18. Size' = Size
  BY <1>9, <1>10, <1>13, <1>14, <1>15, <1>16, <1>17
<1>19. Size' = Cardinality(Entries(table))'
  <2>1. Entries(table)' = Entries(table)
    BY <1>2 DEF Entries
  <2> QED BY <1>18, <2>1 DEF CountInv
<1>20. CountsHere(t)'
  BY <1>2 DEF CountsHere, OwnsHomes, HoldsSome
<1> QED BY <1>19, <1>20, CountStep

\* What is left of the last doubling is migrated and the new half is empty.
LEMMA ResizeCount ==
  ASSUME LocksInv, LocksInv', PlacesInv, CountInv, NEW t \in Threads, Others(t), Resize(t)
  PROVE  CountInv'
<1> DEFINE left == {l \in LockIds : ~locks[l].migrated}
           moved == MoveBuckets(table, LeftBuckets(left), hp_ - 1)
           tab == IF Hp(t) > LockPow THEN moved ELSE table
<1>1. /\ hp_ = Hp(t) /\ hp_ \in 0..MaxHp - 1 /\ hp_' = hp_ + 1 /\ LockIds' = LockIds
  BY ResizeEffect
<1>2. /\ pc[t] = "resize"
      /\ table' = [b \in 0..HashSize(hp_ + 1) - 1 |->
                     IF b \in DOMAIN table THEN tab[b] ELSE [i \in SlotIds |-> Empty]]
      /\ locks' = IF Hp(t) > LockPow THEN [l \in LockIds |-> [locks[l] EXCEPT !.migrated = TRUE]]
                                     ELSE locks
  BY DEF Resize, LeftBuckets
<1>3. locks \in [LockIds -> LockRecords] /\ pc'[t] = "spread"
  BY DEF LocksInv, Resize, Goto, Typed
<1>4. ~Spreading
  <2>1. Own(t) # {}
    BY <1>2, OwnsSome DEF HoldsAll
  <2> QED BY <1>2, <2>1, SpreadingOwnsAll
<1>5. \A l \in LockIds : locks'[l].count = locks[l].count
  <2> SUFFICES ASSUME NEW l \in LockIds PROVE locks'[l].count = locks[l].count
    OBVIOUS
  <2>1. locks[l] \in LockRecords
    BY <1>3
  <2>2. [locks[l] EXCEPT !.migrated = TRUE].count = locks[l].count
    BY <2>1 DEF LockRecords
  <2>3. CASE Hp(t) > LockPow
    <3>1. locks'[l] = [locks[l] EXCEPT !.migrated = TRUE]
      BY <1>2, <2>3
    <3> QED BY <2>2, <3>1
  <2>4. CASE ~(Hp(t) > LockPow)
    BY <1>2, <2>4
  <2> QED BY <2>3, <2>4
<1>6. Cardinality(Entries(tab)) = Cardinality(Entries(table))
  <2>1. left \in SUBSET LockIds /\ \A l \in left : ~locks[l].migrated
    OBVIOUS
  <2> HIDE DEF left
  <2>2. Cardinality(Entries(moved)) = Cardinality(Entries(table))
    BY <1>4, <2>1, LeftCount
  <2> QED BY <2>2
<1>7. Buckets(hp_) \subseteq Buckets(hp_ + 1) /\ DOMAIN table = Buckets(hp_)
  <2>1. hp_ + 1 \in 0..MaxHp /\ hp_ \in 0..hp_ + 1
    BY <1>1, MapAssumption
  <2> QED BY <2>1, HomesMonotone, BucketLocks
<1>8. DOMAIN tab = Buckets(hp_)
  BY <1>7 DEF MoveBuckets
<1> HIDE DEF tab
<1>9. Entries(table') = Entries(tab)
  <2>1. \A b \in Buckets(hp_ + 1) :
           table'[b] = IF b \in Buckets(hp_) THEN tab[b] ELSE [i \in SlotIds |-> Empty]
    BY <1>2, <1>7 DEF Buckets
  <2>2. DOMAIN table' = Buckets(hp_ + 1)
    BY <1>2 DEF Buckets
  <2>3. \A p \in Buckets(hp_ + 1) \X SlotIds : p[1] \in Buckets(hp_ + 1) /\ p[2] \in SlotIds
    OBVIOUS
  <2>4. \A p : p \in Entries(table') <=>
           p \in Buckets(hp_ + 1) \X SlotIds /\ table'[p[1]][p[2]] # Empty
    BY <2>2 DEF Entries
  <2>5. \A p : p \in Entries(tab) <=> p \in Buckets(hp_) \X SlotIds /\ tab[p[1]][p[2]] # Empty
    BY <1>8 DEF Entries
  <2>6. ASSUME NEW p \in Entries(table') PROVE p \in Entries(tab)
    <3>1. /\ p[1] \in Buckets(hp_ + 1) /\ p[2] \in SlotIds /\ table'[p[1]][p[2]] # Empty
          /\ p \in Buckets(hp_ + 1) \X SlotIds
      BY <2>3, <2>4
    <3>2. p[1] \in Buckets(hp_) /\ table'[p[1]] = tab[p[1]]
      BY <2>1, <3>1
    <3>3. p \in Buckets(hp_) \X SlotIds
      BY <3>1, <3>2
    <3> QED BY <2>5, <3>1, <3>2, <3>3
  <2>7. ASSUME NEW p \in Entries(tab) PROVE p \in Entries(table')
    <3>1. p \in Buckets(hp_) \X SlotIds /\ tab[p[1]][p[2]] # Empty
      BY <2>5
    <3>2. p[1] \in Buckets(hp_) /\ p[1] \in Buckets(hp_ + 1) /\ p \in Buckets(hp_ + 1) \X SlotIds
      BY <1>7, <3>1
    <3>3. table'[p[1]] = tab[p[1]]
      BY <2>1, <3>2
    <3> QED BY <2>4, <3>1, <3>2, <3>3
  <2> QED BY <2>6, <2>7
<1>10. Entries(table)' = Entries(table')
  BY DEF Entries
<1>11. CountsHere(t)'
  BY <1>3 DEF CountsHere, OwnsHomes, HoldsSome
<1> QED BY <1>1, <1>5, <1>6, <1>9, <1>10, <1>11, QuietCount

\* clear() removes all entries and sets all counters to zero.
LEMMA ClearCount ==
  ASSUME LocksInv, LocksInv', CountInv, NEW t \in Threads, Others(t), Clear(t)
  PROVE  CountInv'
<1>1. Typed /\ locks \in [LockIds -> LockRecords]
  BY DEF LocksInv, Typed
<1>2. /\ Answer(t, TRUE, TRUE)
      /\ table' = [b \in DOMAIN table |-> [i \in SlotIds |-> Empty]]
      /\ locks' = [l \in LockIds |-> [locks[l] EXCEPT !.count = 0, !.migrated = TRUE]]
  BY DEF Clear
<1>3. pc'[t] = "release" /\ Go(t)' = "return"
  BY <1>1, <1>2, AnswerEffect DEF Answers
<1>4. CountsHere(t)'
  BY <1>3 DEF CountsHere, OwnsHomes, HoldsSome
<1>5. LockIds' = LockIds
  BY <1>2 DEF LockIds
<1>6. \A l \in LockIds : locks'[l].count = 0
  <2> SUFFICES ASSUME NEW l \in LockIds PROVE locks'[l].count = 0
    OBVIOUS
  <2> DEFINE r == [locks[l] EXCEPT !.count = 0, !.migrated = TRUE]
  <2>1. locks[l] \in LockRecords
    BY <1>1
  <2>2. r.count = 0
    BY <2>1 DEF LockRecords
  <2>3. locks'[l] = r
    BY <1>2
  <2> QED BY <2>2, <2>3
<1>7. Size' = Sum(Counts', LockIds')
  BY DEF Size, SumFunction, Sum, Counts
<1>8. \A l \in LockIds : Counts'[l] = 0
  BY <1>5, <1>6 DEF Counts
<1>9. IsFiniteSet(LockIds)
  BY CountFacts
<1> HIDE DEF Size
<1>10. Size' = 0
  BY <1>5, <1>7, <1>8, <1>9, SumZeros
<1>11. Entries(table)' = {}
  <2>1. \A b \in DOMAIN table', i \in SlotIds : table'[b][i] = Empty
    BY <1>2
  <2> QED BY <2>1 DEF Entries
<1>12. Cardinality(Entries(table)') = 0
  BY <1>11, FS_EmptySet
<1> QED BY <1>4, <1>10, <1>12, CountStep


\* The counts of the old half lose what those of the new half gain.
LEMMA HalvesCount ==
  ASSUME LocksInv, LocksInv', LockIds' = LockIds, NEW n \in Nat, LockIds = 0..2 * n - 1,
         NEW d, \A b \in 0..n - 1 : d[b] \in Int,
         \A l \in 0..n - 1 : locks'[l].count = locks[l].count - d[l],
         \A l \in 0..n - 1 : locks'[l + n].count = locks[l + n].count + d[l]
  PROVE  Size' = Size
<1>1. /\ IsFiniteSet(LockIds) /\ Size = Sum(Counts, LockIds)
      /\ \A l \in LockIds : Counts[l] = locks[l].count /\ Counts[l] \in Int
  BY CountFacts
<1>2. \A l \in LockIds : Counts'[l] = locks'[l].count /\ Counts'[l] \in Int
  <2>1. locks' \in [LockIds -> LockRecords]
    BY DEF LocksInv, Typed
  <2>2. \A l \in LockIds : locks'[l].count \in Int
    BY <2>1 DEF LockRecords
  <2> QED BY <2>2 DEF Counts
<1>3. Size' = Sum(Counts', LockIds')
  BY DEF Size, SumFunction, Sum, Counts
<1> DEFINE c == Counts
           e == Counts'
<1>4. \A x \in 0..2 * n - 1 : c[x] \in Int /\ e[x] \in Int
  BY <1>1, <1>2
<1>5. \A x \in 0..n - 1 : e[x] + e[x + n] = c[x] + c[x + n]
  <2> SUFFICES ASSUME NEW x \in 0..n - 1 PROVE e[x] + e[x + n] = c[x] + c[x + n]
    OBVIOUS
  <2>1. locks'[x].count = locks[x].count - d[x] /\ locks'[x + n].count = locks[x + n].count + d[x]
    OBVIOUS
  <2>2. x \in LockIds /\ x + n \in LockIds
    OBVIOUS
  <2>3. e[x] = c[x] - d[x] /\ e[x + n] = c[x + n] + d[x]
    BY <1>1, <1>2, <2>1, <2>2
  <2>4. c[x] \in Int /\ c[x + n] \in Int /\ d[x] \in Int
    BY <1>1, <2>2
  <2> HIDE DEF c, e
  <2> QED BY <2>3, <2>4
<1> HIDE DEF c, e
<1>6. Sum(c, 0..2 * n - 1) = Sum(e, 0..2 * n - 1)
  BY <1>4, <1>5, SumHalves
<1> HIDE DEF Size
<1> QED BY <1>1, <1>3, <1>6 DEF c, e

\* Spreading the entries over both halves: the counters of a bucket pair keep
\* their sum.
LEMMA SpreadCount ==
  ASSUME LocksInv, LocksInv', PlacesInv, CountInv, NEW t \in Threads, Others(t), Spread(t)
  PROVE  CountInv'
<1> DEFINE h == Hp(t)
           n == HashSize(h)
           old == 0..n - 1
           tab == MoveBuckets(table, old, h)
           moved(b) == Cardinality(FreeSlots(tab, b)) - Cardinality(FreeSlots(table, b))
           delta(l) == moved(IF l \in old THEN l ELSE l - n) * (IF l \in old THEN -1 ELSE 1)
           recount(l) == [locks[l] EXCEPT !.count = @ + delta(l)]
           mark(l) == [locks[l] EXCEPT !.migrated = FALSE]
<1>1. /\ hp_ = h + 1 /\ h \in 0..MaxHp /\ hp_ \in 0..MaxHp /\ Own(t) = LockIds /\ LockIds' = LockIds
      /\ LockPow \in Nat /\ MaxHp \in Nat
  BY SpreadEffect, MapAssumption DEF LocksInv, Typed
<1>2. /\ pc[t] = "spread" /\ hp_' = hp_ /\ Typed
      /\ \/ StartRelease(t, locking[t].own, TRUE, "snapshot")
         \/ Goto(t, "expand_next") /\ UNCHANGED locking
  BY DEF Spread, LocksInv
<1>3. \/ /\ h < LockPow /\ table' = tab
         /\ locks' = [l \in LockIds |-> recount(l)]
      \/ /\ h >= LockPow /\ table' = table
         /\ locks' = [l \in LockIds |-> mark(l)]
      \/ table' = tab /\ locks' = locks
  BY Zenon DEF Spread
<1>4. CountsHere(t)'
  <2>1. CASE StartRelease(t, locking[t].own, TRUE, "snapshot")
    <3>1. "snapshot" \in Labels /\ locking[t].own \in SUBSET Nat
      BY <1>2 DEF Labels, HoldsNone, Typed, LockingRecords
    <3>2. pc'[t] = "release" /\ Go(t)' = "snapshot"
      BY <1>2, <2>1, <3>1, ReleaseEffect
    <3> QED BY <3>2 DEF CountsHere, OwnsHomes, HoldsSome
  <2>2. CASE Goto(t, "expand_next") /\ UNCHANGED locking
    <3>1. pc'[t] = "expand_next"
      BY <1>2, <2>2 DEF Goto, Typed
    <3> QED BY <3>1 DEF CountsHere, OwnsHomes, HoldsSome
  <2> QED BY <1>2, <2>1, <2>2
<1>5. Spreading /\ \A l \in LockIds : locks[l].migrated
  BY <1>2 DEF Spreading, PlacesInv
<1>6. /\ DOMAIN table = Buckets(hp_) /\ table \in [Buckets(h + 1) -> Rows]
      /\ locks \in [LockIds -> LockRecords] /\ IsFiniteSet(Entries(table))
  BY <1>1, BucketLocks, CountFacts DEF LocksInv, Typed
<1>7. n \in Nat /\ HashSize(h + 1) = 2 * n
  BY <1>1, MapAssumption, SizeNat, SizeDoubles
<1>8. \A c \in Buckets(h), j \in SlotIds : table[c + HashSize(h)][j] = Empty
  <2> SUFFICES ASSUME NEW c \in Buckets(h), NEW j \in SlotIds
               PROVE  table[c + HashSize(h)][j] = Empty
    OBVIOUS
  <2>1. c + HashSize(h) \in Buckets(hp_) /\ c + HashSize(h) >= HashSize(h)
    BY <1>1, <1>7 DEF Buckets
  <2>2. Basis(c + HashSize(h)) = hp_ - 1 /\ hp_ - 1 = h /\ hp_ \in Nat \ {0}
    BY <1>1, <1>5 DEF Basis
  <2> HIDE DEF h
  <2> QED BY <2>1, <2>2, NewHalfEmpty
<1>9. Cardinality(Entries(tab)) = Cardinality(Entries(table))
  <2>1. old = Buckets(h) /\ Buckets(h) \in SUBSET Buckets(h)
    BY DEF Buckets
  <2> HIDE DEF h, old
  <2> QED BY <1>1, <1>6, <1>8, <2>1, MovedCount
<1>10. Entries(table)' = Entries(table')
  BY DEF Entries
<1> HIDE DEF tab
<1>11. CASE table' = tab /\ locks' = locks
  <2>1. Cardinality(Entries(table)') = Cardinality(Entries(table))
    BY <1>9, <1>10, <1>11
  <2> QED BY <1>1, <1>4, <1>11, <2>1, QuietCount
<1>12. CASE h >= LockPow /\ table' = table /\ locks' = [l \in LockIds |-> mark(l)]
  <2>1. ASSUME NEW l \in LockIds PROVE locks'[l].count = locks[l].count
    <3>1. locks[l] \in LockRecords
      BY <1>6
    <3>2. mark(l).count = locks[l].count
      BY <3>1 DEF LockRecords
    <3>3. locks'[l] = mark(l)
      BY <1>12
    <3> QED BY <3>2, <3>3
  <2>2. Cardinality(Entries(table)') = Cardinality(Entries(table))
    BY <1>10, <1>12
  <2> HIDE DEF mark
  <2> QED BY <1>1, <1>4, <2>1, <2>2, QuietCount
<1>13. CASE h < LockPow /\ table' = tab /\ locks' = [l \in LockIds |-> recount(l)]
  <2>1. LockIds = 0..2 * n - 1
    <3>1. ~Growing
      <4>1. \A u \in Threads \ {t} : pc[u] # "resize"
        BY <1>1, AllMine DEF HoldsAll
      <4> QED BY <1>2, <4>1 DEF Growing
    <3>2. LockIds = 0..NumLocks(hp_) - 1
      BY <3>1 DEF LocksInv, LockRange
    <3>3. NumLocks(hp_) = HashSize(hp_)
      <4>1. hp_ < LockPow \/ hp_ = LockPow
        BY <1>1, <1>13
      <4> QED BY <4>1 DEF NumLocks
    <3> QED BY <1>1, <1>7, <3>2, <3>3
  <2> DEFINE d == [b \in old |-> moved(b)]
  <2>2. \A b : moved(b) \in Int
    <3>1. \A x, b : FreeSlots(x, b) \in SUBSET SlotIds
      BY DEF FreeSlots
    <3>2. \A x, b : Cardinality(FreeSlots(x, b)) \in Nat
      BY <3>1, SlotSets
    <3> QED BY <3>2
  <2> HIDE DEF moved
  <2>3. \A b \in old : d[b] = moved(b) /\ d[b] \in Int
    BY <2>2
  <2>4. ASSUME NEW l \in old PROVE delta(l) = -d[l]
    <3>1. delta(l) = moved(l) * (-1)
      BY <2>4
    <3> QED BY <2>2, <2>3, <3>1
  <2>5. ASSUME NEW l \in old PROVE delta(l + n) = d[l]
    <3>1. l + n \notin old /\ (l + n) - n = l
      BY <1>7
    <3>2. delta(l + n) = moved(l) * 1
      BY <3>1
    <3> QED BY <2>2, <2>3, <3>2
  <2>6. \A l \in LockIds : delta(l) \in Int
    <3> SUFFICES ASSUME NEW l \in LockIds PROVE delta(l) \in Int
      OBVIOUS
    <3>1. l \in old \/ (l - n \in old /\ l = (l - n) + n)
      BY <1>7, <2>1
    <3>2. CASE l \in old
      BY <2>3, <2>4, <3>2
    <3>3. CASE l - n \in old /\ l = (l - n) + n
      BY <2>3, <2>5, <3>3
    <3> QED BY <3>1, <3>2, <3>3
  <2>7. \A l \in old : l \in LockIds /\ l + n \in LockIds
    BY <1>7, <2>1
  <2> HIDE DEF delta, d
  <2>8. ASSUME NEW l \in LockIds PROVE locks'[l].count = locks[l].count + delta(l)
    <3>1. locks[l] \in LockRecords /\ delta(l) \in Int
      BY <1>6, <2>6
    <3>2. recount(l).count = locks[l].count + delta(l)
      BY <3>1 DEF LockRecords
    <3>3. locks'[l] = recount(l)
      BY <1>13
    <3> QED BY <3>2, <3>3
  <2>9. \A l \in LockIds : locks[l].count \in Int
    BY <1>6 DEF LockRecords
  <2>10. \A l \in old : locks'[l].count = locks[l].count - d[l]
    BY <2>3, <2>4, <2>7, <2>8, <2>9
  <2>11. \A l \in old : locks'[l + n].count = locks[l + n].count + d[l]
    BY <2>3, <2>5, <2>7, <2>8, <2>9
  <2>12. Size' = Size
    <3>1. \A b \in 0..n - 1 : d[b] \in Int
      BY <2>3
    <3>2. \A l \in 0..n - 1 : locks'[l].count = locks[l].count - d[l]
      BY <2>10
    <3>3. \A l \in 0..n - 1 : locks'[l + n].count = locks[l + n].count + d[l]
      BY <2>11
    <3> HIDE DEF n
    <3> QED BY <1>1, <1>7, <2>1, <3>1, <3>2, <3>3, HalvesCount
  <2>13. Size' = Cardinality(Entries(table))'
    BY <1>9, <1>10, <1>13, <2>12 DEF CountInv
  <2> QED BY <1>4, <2>13, CountStep
<1> QED BY <1>3, <1>11, <1>12, <1>13 DEF tab


\* The counters of the initial map count each entry once.
LEMMA InitCount == Init => CountInv
<1> SUFFICES ASSUME Init PROVE CountInv
  OBVIOUS
<1>1. PICK p \in Programs : hp_ = p.hp /\ table = InitTable(p) /\ locks = InitLocks(p)
  BY DEF Init
<1> DEFINE E == p.entries
           h == p.hp
           home(e) == Min(LocksOf(Homes(e.key, h)))
           c == [e \in E |-> home(e)]
<1>2. /\ h \in 0..MaxHp /\ IsFiniteSet(E)
      /\ \A e \in E : /\ e.key \in Keys /\ e.val \in Vals
                      /\ e.bucket \in Homes(e.key, h) /\ e.slot \in SlotIds
  BY ProgramAssumption
<1>3. \A e, f \in E : e.key = f.key \/ (e.bucket = f.bucket /\ e.slot = f.slot) => e = f
  BY ProgramAssumption
<1>4. LocksInv
  BY InitInv
<1>5. NumLocks(h) \in Nat \ {0}
  BY <1>2, NumLocksFacts
<1>6. LockIds = 0..NumLocks(h) - 1
  BY <1>1 DEF InitLocks, LockIds
<1>7. ASSUME NEW e \in E PROVE home(e) \in LockIds /\ e.bucket \in Buckets(h)
  <2> DEFINE L == LocksOf(Homes(e.key, h))
  <2>1. \A b \in Homes(e.key, h) : b \in Buckets(h)
    BY <1>2, HomesAreBuckets
  <2>2. \A b \in Homes(e.key, h) : LockInd(b) \in 0..NumLocks(h) - 1
    BY <1>2, <2>1, LockIndRange
  <2>3. L \in SUBSET LockIds /\ L \in SUBSET Nat
    BY <1>5, <1>6, <2>2 DEF LocksOf
  <2>4. L # {}
    BY DEF LocksOf, Homes
  <2>5. Min(L) \in L
    BY <2>3, <2>4, MinIsLeast
  <2> QED BY <1>2, <2>1, <2>3, <2>5
<1>8. \A l \in LockIds : locks[l].count = Cardinality({e \in E : l = home(e)})
  BY <1>1, <1>6 DEF InitLocks
<1>9. /\ IsFiniteSet(LockIds) /\ Size = Sum(Counts, LockIds)
      /\ \A l \in LockIds : Counts[l] = locks[l].count
      /\ IsFiniteSet(Entries(table))
  BY <1>4, CountFacts
<1> HIDE DEF home
<1>10. \A l \in LockIds : Counts[l] = Cardinality({e \in E : c[e] = l})
  <2> SUFFICES ASSUME NEW l \in LockIds
               PROVE  Counts[l] = Cardinality({e \in E : c[e] = l})
    OBVIOUS
  <2>1. {e \in E : l = home(e)} = {e \in E : c[e] = l}
    OBVIOUS
  <2> QED BY <1>8, <1>9, <2>1
<1>11. \A e \in E : c[e] \in LockIds
  BY <1>7
<1> HIDE DEF c, E, Size
<1>12. Sum(Counts, LockIds) = Cardinality(E)
  BY <1>2, <1>9, <1>10, <1>11, SumOfClasses
<1> DEFINE T == Entries(table)
           F == [e \in E |-> <<e.bucket, e.slot>>]
<1>13. /\ DOMAIN table = Buckets(h)
       /\ \A b \in Buckets(h), i \in SlotIds :
             table[b][i] = IF \E e \in E : e.bucket = b /\ e.slot = i
                           THEN LET e == CHOOSE e \in E : e.bucket = b /\ e.slot = i
                                IN  Entry(e.key, e.val)
                           ELSE Empty
  BY <1>1 DEF InitTable, Buckets, E
<1>14. \A b \in Buckets(h), i \in SlotIds : <<b, i>> \in T <=> table[b][i] # Empty
  BY <1>13 DEF Entries
<1>15. \A q \in T : \E b \in Buckets(h), i \in SlotIds : q = <<b, i>> /\ table[b][i] # Empty
  BY <1>13 DEF Entries
<1>16. \A e \in E : F[e] \in T
  <2> SUFFICES ASSUME NEW e \in E PROVE <<e.bucket, e.slot>> \in T
    OBVIOUS
  <2>1. e.bucket \in Buckets(h) /\ e.slot \in SlotIds
    BY <1>2, <1>7
  <2> DEFINE f == CHOOSE f \in E : f.bucket = e.bucket /\ f.slot = e.slot
  <2>2. f \in E
    OBVIOUS
  <2>3. table[e.bucket][e.slot] = Entry(f.key, f.val)
    BY <1>13, <2>1
  <2> HIDE DEF f
  <2>4. Entry(f.key, f.val) \in EntryRecords
    BY <1>2, <2>2 DEF Entry, EntryRecords
  <2>5. Entry(f.key, f.val) # Empty
    BY <2>4, MapAssumption DEF EntryRecords
  <2> QED BY <1>14, <2>1, <2>3, <2>5
<1>17. \A e, f \in E : F[e] = F[f] => e = f
  BY <1>3
<1>18. \A q \in T : \E e \in E : F[e] = q
  <2> SUFFICES ASSUME NEW q \in T PROVE \E e \in E : F[e] = q
    OBVIOUS
  <2>1. PICK b \in Buckets(h), i \in SlotIds : q = <<b, i>> /\ table[b][i] # Empty
    BY <1>15
  <2>2. PICK e \in E : e.bucket = b /\ e.slot = i
    BY <1>13, <2>1
  <2> QED BY <2>1, <2>2
<1>19. F \in [E -> T]
  BY <1>16
<1> HIDE DEF F, T
<1>20. IsFiniteSet(T)
  BY <1>9 DEF T
<1>21. Cardinality(E) = Cardinality(T)
  BY <1>17, <1>18, <1>19, <1>20, SameCount
<1>22. \A t \in Threads : CountsHere(t)
  BY DEF Init, CountsHere, OwnsHomes, HoldsSome
<1> QED BY <1>9, <1>12, <1>21, <1>22 DEF CountInv, T


\* Every step of a thread keeps what the counters add up to.
LEMMA StepsCount ==
  ASSUME LocksInv, LocksInv', PlacesInv, CountInv, NEW t \in Threads, Begin(t) \/ Step(t)
  PROVE  CountInv'
<1>1. Others(t)
  BY StepOthers
<1>2. ASSUME UNCHANGED shared, ~OwnsHomes(t)' PROVE CountInv'
  BY <1>1, <1>2, LandsCount
<1>3. CASE Begin(t) \/ Return(t)
  BY <1>2, <1>3, Lands
<1>4. CASE Snapshot(t) \/ TakeLock(t) \/ Release(t)
  BY <1>1, <1>4, PlainCount, TakeLockCount, ReleaseCount
<1>5. CASE Operate(t)
  <2>1. Body(t) \/ NotFound(t) \/ NoFreeSlot(t)
    BY <1>5 DEF Operate, Body
  <2> QED BY <1>1, <1>2, <2>1, BodyCount, Lands
<1>6. CASE Cuckoo(t)
  BY <1>1, <1>2, <1>6, Lands, TouchCount, PlainCount, ShiftCount DEF Cuckoo
<1>7. CASE AllLocked(t)
  BY <1>1, <1>2, <1>7, Lands, TakeNextCount, GrowLocksCount, ResizeCount, SpreadCount,
     ClearCount DEF AllLocked
<1>8. CASE Lookup(t)
  BY <1>1, <1>2, <1>8, Lands, TouchCount DEF Lookup
<1> QED BY <1>3, <1>4, <1>5, <1>6, <1>7, <1>8 DEF Step

\* What the counters add up to is inductive, given the locks and the places.
LEMMA NextCount == LocksInv /\ LocksInv' /\ PlacesInv /\ CountInv /\ [Next]_vars => CountInv'
<1> SUFFICES ASSUME LocksInv, LocksInv', PlacesInv, CountInv, [Next]_vars PROVE CountInv'
  OBVIOUS
<1>1. ASSUME NEW t \in Threads, Begin(t) \/ Step(t) PROVE CountInv'
  BY <1>1, StepsCount
<1>2. CASE UNCHANGED vars
  <2>1. UNCHANGED <<hp_, table, locks, pc, todo, locking>>
    BY <1>2 DEF vars, shared
  <2>2. Size' = Size /\ Cardinality(Entries(table))' = Cardinality(Entries(table))
    BY <2>1 DEF Size, LockIds, Entries
  <2>3. \A t \in Threads : CountsHere(t)' = CountsHere(t)
    BY <2>1 DEF CountsHere, OwnsHomes, Go, HomeLocks, Homes, I1, I2, LocksOf, LockInd, Key,
                Call, Hp
  <2> QED BY <2>2, <2>3 DEF CountInv
<1> QED BY <1>1, <1>2 DEF Next, Finished

\* The counters of the locks add up to the number of elements, whatever
\* insertions, erasures, moves, migrations and doublings overlap, although the
\* counter that counts a key in need not be the one that counts it out.
THEOREM CountersStayRight == Spec => []CountersAddUp
<1>1. LocksInv /\ PlacesInv /\ CountInv /\ [Next]_vars => LocksInv' /\ PlacesInv' /\ CountInv'
  BY NextInv, NextPlaces, NextCount
<1>2. CountInv => CountersAddUp
  BY DEF CountInv, CountersAddUp
<1> QED BY <1>1, <1>2, InitInv, InitPlaces, InitCount, PTL DEF Spec

=============================================================================
