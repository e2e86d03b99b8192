--------------------------- MODULE RobinHoodProofs ---------------------------
(***************************************************************************)
(* The locks and the counters of the robin hood map, for every set of      *)
(* threads and keys, every hash function, window and size of a bucket, and *)
(* all programs.  A walk owns the buckets from that of its home to the one *)
(* it has locked last, so what it knows of their slots stays so; a thread  *)
(* that doubles owns all.  What displacing and shifting do to the entries  *)
(* is followed as far as the counters need it: which slots are free.       *)
(***************************************************************************)
EXTENDS RobinHoodMap, FiniteSetTheorems, WellFoundedInduction, TLAPS

\* The provers know no powers.
PowerLaw == 2^0 = 1 /\ \A n \in Nat : 2^(n + 1) = 2 * 2^n

Outside == {"idle", "start", "lock_first", "return",
            "epoch", "check_hp", "scan", "value", "check_epochs"}
Under == {"probe", "equal", "not_occupied", "less_dist", "out_of_window", "move_path", "shift"}
Labels == Outside \cup Under \cup {"lock_next", "release", "lock_all", "double", "spread"}

WalkRecords == [seen : Nat, own : SUBSET Nat, bucket : Nat, pos : Nat, free : Nat,
                go : Labels, answer : BOOLEAN \cup {Empty}]
LockRecords == [flag : BOOLEAN, epoch : Nat, count : Int]
Tables(n) == [0..n - 1 -> EntryRecords \cup {Empty}]

\* The sizes are sizes, and the slots are those of the buckets.
SizesOK ==
    /\ hp_ \in Nat /\ hp_ >= SlotPow
    /\ Slots \in Nat \ {0} /\ 2^hp_ \in Nat \ {0} /\ 2^(hp_ - SlotPow) \in Nat \ {0}
    /\ 2^hp_ = Slots * 2^(hp_ - SlotPow)
    /\ \A t \in Threads : 2^walk[t].seen \in Nat \ {0}

Typed ==
    /\ table \in Tables(2^hp_)
    /\ locks \in [0..2^(hp_ - SlotPow) - 1 -> LockRecords]
    /\ pc \in [Threads -> Labels]
    /\ walk \in [Threads -> WalkRecords]
    /\ todo \in [Threads -> Seq(CallRecords)]
    /\ \A t \in Threads : \A i \in DOMAIN todo[t] :
          todo[t][i].op \notin {"find", "erase"} => todo[t][i].val \in Vals
    /\ \A t \in Threads : pc[t] # "idle" => todo[t] # <<>>

\* A flag is set while the epoch is odd, and while a thread owns the bucket.
LocksOK ==
    /\ \A b \in BucketIds : /\ locks[b].flag <=> Locked(b)
                            /\ locks[b].flag <=> \E t \in Threads : b \in walk[t].own
    /\ \A t \in Threads : walk[t].own \subseteq BucketIds

Exclusive == \A t, u \in Threads : walk[t].own \cap walk[u].own # {} => t = u

\* A doubling that waits for a bucket it owns: its nested insertion found no
\* room and asks for another doubling.
Stuck(t) == pc[t] = "lock_all" /\ walk[t].bucket \in walk[t].own

\* What a thread owns.
HomeBucket(t) == BucketOf(HomeOf(t))

OwnOK(t) ==
    /\ pc[t] \in Outside => walk[t].own = {}
    /\ pc[t] = "lock_first" => walk[t].bucket = HomeBucket(t)
    /\ pc[t] \in Under =>
          walk[t].own = HomeBucket(t)..walk[t].bucket /\ HomeBucket(t) <= walk[t].bucket
    /\ pc[t] = "lock_next" =>
          /\ walk[t].own = HomeBucket(t)..walk[t].bucket - 1 /\ HomeBucket(t) <= walk[t].bucket - 1
          /\ walk[t].go \in {"probe", "less_dist", "shift"}
    /\ pc[t] = "release" => walk[t].go \in {"start", "return", "lock_all"}
    /\ pc[t] = "lock_all" => Stuck(t) \/ walk[t].own = 0..walk[t].bucket - 1
    /\ pc[t] \in {"double", "spread"} => walk[t].own = BucketIds
    /\ pc[t] = "spread" => 2^hp_ = 2 * 2^walk[t].seen
    /\ pc[t] \in Under \cup {"lock_first", "lock_next"} => Call(t).op # "find"

\* What a walk knows of the slots it owns: where it has stopped, that there is
\* room for what it displaces, and that the slot before a shift is free.
Heading(t, l) == pc[t] = l \/ (pc[t] = "lock_next" /\ walk[t].go = l)

SlotsOK(t) ==
    /\ pc[t] \in {"equal", "not_occupied"} => walk[t].pos \in SlotsOf(walk[t].bucket)
    /\ pc[t] = "equal" => table[walk[t].pos] # Empty
    /\ pc[t] = "not_occupied" => table[walk[t].pos] = Empty
    /\ pc[t] \in {"equal", "not_occupied", "less_dist", "move_path"} => HomeOf(t) <= walk[t].pos
    /\ Heading(t, "less_dist") => /\ HomeOf(t) <= walk[t].pos
                             /\ BucketOf(walk[t].pos) <= walk[t].bucket
    /\ pc[t] = "move_path" =>
          /\ Call(t).op \in Inserts /\ BucketOf(walk[t].pos) <= walk[t].bucket
          /\ \E j \in SlotsOf(walk[t].bucket) : j > walk[t].pos /\ table[j] = Empty
    /\ Heading(t, "shift") => /\ HomeOf(t) < walk[t].pos /\ table[walk[t].pos - 1] = Empty
                         /\ First(walk[t].bucket) <= walk[t].pos
    /\ pc[t] = "shift" => walk[t].pos <= First(walk[t].bucket + 1)
    /\ pc[t] = "lock_next" /\ walk[t].go = "shift" => walk[t].pos = First(walk[t].bucket)

Match == \A b \in BucketIds : locks[b].count = Cardinality(Occupied(table, b))

RHInv ==
    /\ SizesOK /\ Typed /\ LocksOK /\ Exclusive /\ Match
    /\ \A t \in Threads : OwnOK(t) /\ SlotsOK(t)

-----------------------------------------------------------------------------
\* A set of numbers that is not empty has a least element, and Min is that.
LEMMA MinIsLeast ==
    ASSUME NEW S \in SUBSET Nat, S # {}
    PROVE  Min(S) \in S /\ \A y \in S : Min(S) <= y
  <1>1. PICK x \in S : \A y \in S : ~(<<y, x>> \in OpToRel(<, Nat))
    BY NatLessThanWellFounded, WFMin
  <1>2. \A y \in S : x <= y
    <2> SUFFICES ASSUME NEW y \in S, y < x PROVE FALSE
      OBVIOUS
    <2>1. <<y, x>> \in Nat \X Nat /\ <<y, x>>[1] < <<y, x>>[2]
      OBVIOUS
    <2>2. <<y, x>> \in OpToRel(<, Nat)
      BY <2>1 DEF OpToRel
    <2> QED BY <1>1, <2>2
  <1> QED BY <1>2 DEF Min

\* Induction: a set of numbers that holds 0, and the next of each, holds all.
LEMMA AllNumbers ==
    ASSUME NEW S, 0 \in S, \A n \in Nat : n \in S => n + 1 \in S
    PROVE  Nat \subseteq S
  <1> SUFFICES ASSUME Nat \ S # {} PROVE FALSE
    OBVIOUS
  <1> DEFINE m == Min(Nat \ S)
  <1>1. m \in Nat \ S /\ \A n \in Nat \ S : m <= n
    BY MinIsLeast
  <1> HIDE DEF m
  <1>2. m - 1 \in Nat /\ m - 1 \notin Nat \ S
    BY <1>1
  <1>3. m - 1 + 1 \in S
    BY <1>2
  <1> QED BY <1>1, <1>3

LEMMA Powers ==
    ASSUME PowerLaw
    PROVE  \A n \in Nat : 2^n \in Nat \ {0}
  <1> DEFINE S == {n \in Nat : 2^n \in Nat \ {0}}
  <1>1. 0 \in S
    BY DEF PowerLaw
  <1>2. ASSUME NEW n \in Nat, n \in S PROVE n + 1 \in S
    <2>1. 2^(n + 1) = 2 * 2^n /\ 2^n \in Nat \ {0}
      BY <1>2 DEF PowerLaw
    <2> DEFINE x == 2^n
    <2>2. 2 * x \in Nat \ {0}
      <3> HIDE DEF x
      <3>1. x \in Nat \ {0}
        BY <2>1 DEF x
      <3> QED BY <3>1
    <2> QED BY <2>1, <2>2
  <1> HIDE DEF S
  <1>3. Nat \subseteq S
    BY <1>1, <1>2, AllNumbers
  <1> QED BY <1>3 DEF S

LEMMA PowersMultiply ==
    ASSUME PowerLaw, NEW m \in Nat
    PROVE  \A n \in Nat : 2^(m + n) = 2^m * 2^n
  <1> DEFINE S == {n \in Nat : 2^(m + n) = 2^m * 2^n}
  <1>0. 2^m \in Nat
    BY Powers
  <1>1. 0 \in S
    <2> DEFINE x == 2^m
    <2>1. m + 0 = m /\ 2^0 = 1
      BY DEF PowerLaw
    <2>2. x * 1 = x
      <3> HIDE DEF x
      <3>1. x \in Nat
        BY <1>0 DEF x
      <3> QED BY <3>1
    <2> QED BY <2>1, <2>2
  <1>2. ASSUME NEW n \in Nat, n \in S PROVE n + 1 \in S
    <2> DEFINE x == 2^m
               y == 2^n
               z == 2^(m + n)
    <2>1. z = x * y
      BY <1>2
    <2>2. 2^(n + 1) = 2 * y /\ 2^(m + n + 1) = 2 * z /\ m + n + 1 = m + (n + 1)
      BY DEF PowerLaw
    <2>3. x \in Nat /\ y \in Nat
      BY Powers
    <2>4. 2 * z = x * (2 * y)
      <3> HIDE DEF x, y, z
      <3> QED BY <2>1, <2>3
    <2> QED BY <2>2, <2>4
  <1> HIDE DEF S
  <1>3. Nat \subseteq S
    BY <1>1, <1>2, AllNumbers
  <1> QED BY <1>3 DEF S

-----------------------------------------------------------------------------
\* Buckets and slots.
LEMMA Between ==
    ASSUME NEW s \in Nat \ {0}, NEW b \in Int, NEW i \in Int, b * s <= i, i < b * s + s
    PROVE  i \div s = b
  <1> DEFINE q == i \div s
  <1>1. q \in Int /\ s * q <= i /\ i < s * q + s
    OBVIOUS
  <1> HIDE DEF q
  <1>2. \A d \in Int : d >= 1 => s * d >= s
    OBVIOUS
  <1>3. ~(q - b >= 1)
    <2>1. q - b >= 1 => s * (q - b) >= s
      BY <1>1, <1>2
    <2>2. s * (q - b) = s * q - b * s
      BY <1>1
    <2> QED BY <1>1, <2>1, <2>2
  <1>4. ~(b - q >= 1)
    <2>1. b - q >= 1 => s * (b - q) >= s
      BY <1>1, <1>2
    <2>2. s * (b - q) = b * s - s * q
      BY <1>1
    <2> QED BY <1>1, <2>1, <2>2
  <1>5. q = b
    BY <1>1, <1>3, <1>4
  <1> QED BY <1>5 DEF q

LEMMA SlotFacts ==
    ASSUME Slots \in Nat \ {0}
    PROVE  /\ \A b \in Int : /\ First(b) \in Int /\ First(b + 1) = First(b) + Slots
                             /\ b \in Nat => First(b) \in Nat
                             /\ \A i \in SlotsOf(b) : i \in Int /\ BucketOf(i) = b
                             /\ First(b) \in SlotsOf(b)
                             /\ \A i \in Int : i \in SlotsOf(b) <=> First(b) <= i /\ i < First(b + 1)
           /\ \A i \in Int : BucketOf(i) \in Int /\ i \in SlotsOf(BucketOf(i))
           /\ \A i \in Nat : BucketOf(i) \in Nat
  <1>1. ASSUME NEW b \in Int
        PROVE  /\ First(b) \in Int /\ First(b + 1) = First(b) + Slots
               /\ b \in Nat => First(b) \in Nat
               /\ \A i \in SlotsOf(b) : i \in Int /\ BucketOf(i) = b
               /\ First(b) \in SlotsOf(b)
               /\ \A i \in Int : i \in SlotsOf(b) <=> First(b) <= i /\ i < First(b + 1)
    <2>1. First(b) = b * Slots /\ b * Slots \in Int /\ (b + 1) * Slots = b * Slots + Slots
      BY DEF First
    <2>2. b \in Nat => b * Slots \in Nat
      OBVIOUS
    <2>3. \A i \in SlotsOf(b) : i \in Int /\ b * Slots <= i /\ i < b * Slots + Slots
      BY <2>1 DEF SlotsOf
    <2>4. \A i \in SlotsOf(b) : BucketOf(i) = b
      BY <2>3, Between DEF BucketOf
    <2>5. First(b) \in SlotsOf(b)
      BY <2>1 DEF SlotsOf
    <2>6. \A i \in Int : i \in SlotsOf(b) <=> First(b) <= i /\ i < First(b) + Slots
      BY <2>1 DEF SlotsOf
    <2> QED BY <2>1, <2>2, <2>3, <2>4, <2>5, <2>6 DEF First
  <1>2. ASSUME NEW i \in Int
        PROVE  BucketOf(i) \in Int /\ i \in SlotsOf(BucketOf(i))
    <2> DEFINE q == i \div Slots
               s == Slots
    <2>0. s \in Nat \ {0}
      OBVIOUS
    <2> HIDE DEF s
    <2>1. q \in Int /\ s * q <= i /\ i < s * q + s
      BY <2>0 DEF s
    <2>2. s * q = q * s
      BY <2>0, <2>1
    <2> QED BY <2>1, <2>2 DEF SlotsOf, First, BucketOf, s
  <1>3. ASSUME NEW i \in Nat PROVE BucketOf(i) \in Nat
    BY DEF BucketOf
  <1> QED BY <1>1, <1>2, <1>3

\* The last slot before a bucket, and its last one.
LEMMA LastSlots ==
    ASSUME Slots \in Nat \ {0}, NEW b \in Nat
    PROVE  /\ First(b) \in Nat /\ First(b + 1) = First(b) + Slots
           /\ BucketOf(First(b) - 1) = b - 1 /\ BucketOf(First(b + 1) - 1) = b
  <1> DEFINE s == Slots
             f == b * s
  <1>1. f \in Nat /\ (b + 1) * s = f + s /\ (b - 1) * s = f - s /\ s \in Nat \ {0}
    OBVIOUS
  <1> HIDE DEF f
  <1>2. (f - 1) \div s = b - 1
    <2>1. b - 1 \in Int /\ f - 1 \in Int /\ (b - 1) * s <= f - 1 /\ f - 1 < (b - 1) * s + s
      BY <1>1
    <2> HIDE DEF s
    <2> QED BY <1>1, <2>1, Between
  <1>3. (f + s - 1) \div s = b
    <2>1. f + s - 1 \in Int /\ b * s <= f + s - 1 /\ f + s - 1 < b * s + s
      BY <1>1 DEF f
    <2> HIDE DEF s
    <2> QED BY <1>1, <2>1, Between
  <1> QED BY <1>1, <1>2, <1>3 DEF First, BucketOf, f

LEMMA BucketsRise ==
    ASSUME Slots \in Nat \ {0}, NEW i \in Int, NEW j \in Int, i <= j
    PROVE  BucketOf(i) <= BucketOf(j)
  <1> DEFINE a == BucketOf(i)
             b == BucketOf(j)
  <1>1. a \in Int /\ b \in Int /\ i \in SlotsOf(a) /\ j \in SlotsOf(b)
    BY SlotFacts
  <1> HIDE DEF a, b
  <1>0. a * Slots <= i /\ j < b * Slots + Slots
    <2>1. First(a) <= i /\ j < First(b + 1) /\ First(b + 1) = First(b) + Slots
      BY <1>1, SlotFacts
    <2> QED BY <2>1 DEF First
  <1>2. ~(a >= b + 1)
    <2> SUFFICES ASSUME a - b - 1 >= 0 PROVE FALSE
      BY <1>1
    <2>1. (a - b - 1) * Slots >= 0
      BY <1>1
    <2>2. (a - b - 1) * Slots = a * Slots - b * Slots - Slots
      BY <1>1
    <2> QED BY <1>0, <1>1, <2>1, <2>2
  <1> QED BY <1>1, <1>2 DEF a, b

\* The slots of the table are those of its buckets.
LEMMA InTable ==
    ASSUME Slots \in Nat \ {0}, NEW n \in Nat \ {0}
    PROVE  /\ \A b \in 0..n - 1 : SlotsOf(b) \subseteq 0..Slots * n - 1
           /\ \A i \in 0..Slots * n - 1 : BucketOf(i) \in 0..n - 1
           /\ \A b \in Nat : b \notin 0..n - 1 => \A i \in SlotsOf(b) : i >= Slots * n
  <1>1. ASSUME NEW b \in 0..n - 1 PROVE SlotsOf(b) \subseteq 0..Slots * n - 1
    <2>1. (n - b - 1) * Slots >= 0 /\ b * Slots >= 0
      OBVIOUS
    <2>2. (n - b - 1) * Slots = Slots * n - b * Slots - Slots
      OBVIOUS
    <2>3. b * Slots \in Nat /\ b * Slots + Slots <= Slots * n /\ Slots * n \in Int
      BY <2>1, <2>2
    <2> QED BY <2>3 DEF SlotsOf, First
  <1>2. ASSUME NEW b \in Nat, b >= n, NEW i \in SlotsOf(b) PROVE i >= Slots * n
    <2>1. (b - n) * Slots >= 0
      BY <1>2
    <2>2. (b - n) * Slots = b * Slots - Slots * n
      OBVIOUS
    <2>3. i \in Int /\ i >= b * Slots /\ b * Slots \in Int /\ Slots * n \in Int
      BY DEF SlotsOf, First
    <2> QED BY <2>1, <2>2, <2>3
  <1>3. ASSUME NEW i \in 0..Slots * n - 1 PROVE BucketOf(i) \in 0..n - 1
    <2>1. i \in Nat /\ i < Slots * n /\ Slots * n \in Int
      OBVIOUS
    <2>2. BucketOf(i) \in Nat /\ i \in SlotsOf(BucketOf(i))
      BY <2>1, SlotFacts
    <2>3. ~(BucketOf(i) >= n)
      BY <1>2, <2>1, <2>2
    <2> QED BY <2>2, <2>3
  <1> QED BY <1>1, <1>2, <1>3

LEMMA HomeIsNat ==
    ASSUME NEW k \in Keys, NEW hp \in Nat, 2^hp \in Nat \ {0}
    PROVE  Home(k, hp) \in Nat
  <1> DEFINE n == 2^hp
             index == Hash[k] % n
             border == n - 1 - MaxWindow
  <1>0. Hash[k] \in Nat /\ n \in Nat \ {0} /\ MaxWindow \in Nat
    BY RobinHoodAssumption
  <1> HIDE DEF n
  <1>1. index \in Nat /\ border \in Int
    BY <1>0
  <1>2. Home(k, hp) = IF index <= border THEN index ELSE index - border
    BY DEF Home, n
  <1> QED BY <1>1, <1>2

-----------------------------------------------------------------------------
\* What displacing and shifting do to a table.
LEMMA FreeFromFacts ==
    ASSUME NEW n \in Nat, NEW tab \in Tables(n), NEW i \in Nat
    PROVE  /\ FreeFrom(tab, i) \in 0..n
           /\ FreeFrom(tab, i) # n => i <= FreeFrom(tab, i) /\ tab[FreeFrom(tab, i)] = Empty
           /\ \A j \in 0..n - 1 : j >= i /\ tab[j] = Empty => FreeFrom(tab, i) <= j
  <1> DEFINE S == {j \in DOMAIN tab : j >= i /\ tab[j] = Empty}
  <1>1. DOMAIN tab = 0..n - 1
    BY DEF Tables
  <1>2. Cardinality(DOMAIN tab) = n
    <2>1. Cardinality(0..n - 1) = IF 0 > n - 1 THEN 0 ELSE (n - 1) - 0 + 1
      BY FS_Interval
    <2> QED BY <1>1, <2>1
  <1>3. FreeFrom(tab, i) = Min(S \cup {n})
    BY <1>2 DEF FreeFrom
  <1>4. S \cup {n} \in SUBSET Nat /\ S \cup {n} # {}
    BY <1>1
  <1>5. Min(S \cup {n}) \in S \cup {n} /\ \A y \in S \cup {n} : Min(S \cup {n}) <= y
    BY <1>4, MinIsLeast
  <1>6. \A j \in S : j \in 0..n - 1 /\ i <= j /\ tab[j] = Empty
    BY <1>1
  <1>7. \A j \in 0..n - 1 : j >= i /\ tab[j] = Empty => j \in S
    BY <1>1
  <1> HIDE DEF S
  <1> DEFINE F == FreeFrom(tab, i)
  <1>8. F \in S \cup {n} /\ \A y \in S \cup {n} : F <= y
    BY <1>3, <1>5
  <1> HIDE DEF F
  <1>9. F \in 0..n /\ (F # n => i <= F /\ tab[F] = Empty)
    BY <1>6, <1>8
  <1>10. \A j \in 0..n - 1 : j >= i /\ tab[j] = Empty => F <= j
    BY <1>7, <1>8
  <1> QED BY <1>9, <1>10 DEF F

LEMMA AgedTyped == \A e \in EntryRecords : Aged(e) \in EntryRecords
  BY DEF Aged, EntryRecords

\* What is carried is what the recursion says: there is a function that solves
\* it, by induction over the slots.
LEMMA CarriedSteps ==
    ASSUME NEW n \in Nat, NEW tab \in Tables(n), NEW i \in Nat, NEW e \in EntryRecords
    PROVE  \A j \in i..FreeFrom(tab, i) :
               Carried(tab, i, e)[j] =
                   IF j = i THEN e
                   ELSE Aged(IF Nearer(tab, j - 1, Carried(tab, i, e)[j - 1]) THEN tab[j - 1]
                             ELSE Carried(tab, i, e)[j - 1])
  <1> DEFINE F == FreeFrom(tab, i)
             Next1(j, x) == Aged(IF Nearer(tab, j, x) THEN tab[j] ELSE x)
             Solved(f, k) == f = [j \in i..i + k |-> IF j = i THEN e ELSE Next1(j - 1, f[j - 1])]
             S == {k \in Nat : \E f : Solved(f, k)}
             C == Carried(tab, i, e)
  <1>0. F \in 0..n
    BY FreeFromFacts
  <1>1. 0 \in S
    <2>1. Solved([j \in i..i + 0 |-> e], 0)
      OBVIOUS
    <2> QED BY <2>1
  <1>2. ASSUME NEW k \in Nat, k \in S PROVE k + 1 \in S
    <2>1. PICK f : Solved(f, k)
      BY <1>2
    <2> DEFINE g == [j \in i..i + (k + 1) |-> IF j = i + (k + 1) THEN Next1(i + k, f[i + k]) ELSE f[j]]
    <2> HIDE DEF Next1
    <2>2. \A j \in i..i + k : g[j] = f[j] /\ f[j] = IF j = i THEN e ELSE Next1(j - 1, f[j - 1])
      <3>1. \A j \in i..i + k : f[j] = IF j = i THEN e ELSE Next1(j - 1, f[j - 1])
        BY <2>1
      <3>2. \A j \in i..i + k : g[j] = f[j]
        OBVIOUS
      <3> QED BY <3>1, <3>2
    <2>3. g[i + (k + 1)] = Next1(i + k, g[i + k])
      BY <2>2
    <2>4. \A j \in i..i + (k + 1) : g[j] = IF j = i THEN e ELSE Next1(j - 1, g[j - 1])
      <3> SUFFICES ASSUME NEW j \in i..i + (k + 1)
                   PROVE  g[j] = IF j = i THEN e ELSE Next1(j - 1, g[j - 1])
        OBVIOUS
      <3>1. CASE j = i + (k + 1)
        <4>1. j - 1 = i + k /\ j # i
          BY <3>1
        <4> QED BY <2>3, <3>1, <4>1
      <3>2. CASE j # i + (k + 1)
        <4>1. j \in i..i + k /\ (j # i => j - 1 \in i..i + k)
          BY <3>2
        <4> HIDE DEF g
        <4> QED BY <2>2, <4>1
      <3> QED BY <3>1, <3>2
    <2>5. g = [j \in i..i + (k + 1) |-> g[j]]
      OBVIOUS
    <2> HIDE DEF g
    <2>6. Solved(g, k + 1)
      BY <2>4, <2>5
    <2> QED BY <2>6
  <1>3. Nat \subseteq S
    <2> HIDE DEF S
    <2> QED BY <1>1, <1>2, AllNumbers
  <1> SUFFICES ASSUME i <= F PROVE \A j \in i..F : C[j] = IF j = i THEN e ELSE Next1(j - 1, C[j - 1])
    BY <1>0
  <1>4. \E f : f = [j \in i..F |-> IF j = i THEN e ELSE Next1(j - 1, f[j - 1])]
    <2>1. F - i \in S /\ i + (F - i) = F
      <3> HIDE DEF F, S
      <3> QED BY <1>0, <1>3
    <2>2. PICK f : Solved(f, F - i)
      BY <2>1
    <2> HIDE DEF F, Next1
    <2> QED BY <2>1, <2>2
  <1>5. C = CHOOSE f : f = [j \in i..F |-> IF j = i THEN e ELSE Next1(j - 1, f[j - 1])]
    BY DEF Carried
  <1> HIDE DEF F, C, Next1
  <1>6. C = [j \in i..F |-> IF j = i THEN e ELSE Next1(j - 1, C[j - 1])]
    BY <1>4, <1>5
  <1> QED BY <1>6

\* The entries carried are entries: by induction over the slots.
LEMMA CarriedTyped ==
    ASSUME NEW n \in Nat, NEW tab \in Tables(n), NEW i \in Nat, NEW e \in EntryRecords
    PROVE  \A j \in i..FreeFrom(tab, i) : Carried(tab, i, e)[j] \in EntryRecords
  <1> DEFINE F == FreeFrom(tab, i)
             C == Carried(tab, i, e)
             Next1(j, x) == Aged(IF Nearer(tab, j, x) THEN tab[j] ELSE x)
  <1>0. F \in 0..n
    BY FreeFromFacts
  <1>7. \A j \in i..F : C[j] = IF j = i THEN e ELSE Next1(j - 1, C[j - 1])
    BY CarriedSteps
  <1> SUFFICES ASSUME i <= F PROVE \A j \in i..F : C[j] \in EntryRecords
    BY <1>0
  <1> HIDE DEF F, C, Next1
  <1> DEFINE T == {k \in Nat : i + k <= F => C[i + k] \in EntryRecords}
  <1>8. 0 \in T
    <2>1. i + 0 = i /\ i \in i..F
      BY <1>0
    <2> QED BY <1>7, <2>1
  <1>9. ASSUME NEW k \in Nat, k \in T PROVE k + 1 \in T
    <2> SUFFICES ASSUME i + (k + 1) <= F PROVE C[i + (k + 1)] \in EntryRecords
      OBVIOUS
    <2> DEFINE j == i + k
    <2>1. /\ i + (k + 1) \in i..F /\ i + (k + 1) # i /\ i + (k + 1) - 1 = j
          /\ i + k <= F /\ j \in 0..n - 1
      BY <1>0
    <2>2. C[i + (k + 1)] = Next1(j, C[j]) /\ C[j] \in EntryRecords
      BY <1>7, <1>9, <2>1
    <2>3. tab[j] \in EntryRecords \cup {Empty}
      BY <2>1 DEF Tables
    <2>4. (IF Nearer(tab, j, C[j]) THEN tab[j] ELSE C[j]) \in EntryRecords
      BY <2>2, <2>3 DEF Nearer
    <2>5. Next1(j, C[j]) \in EntryRecords
      BY <2>4, AgedTyped DEF Next1
    <2> QED BY <2>2, <2>5
  <1>10. Nat \subseteq T
    <2> HIDE DEF T
    <2> QED BY <1>8, <1>9, AllNumbers
  <1> SUFFICES ASSUME NEW j \in i..F PROVE C[j] \in EntryRecords
    OBVIOUS
  <1>11. j - i \in T /\ i + (j - i) = j /\ j <= F
    BY <1>0, <1>10
  <1> QED BY <1>11

\* A free slot is filled, the first one; all others stay as full or free as they are.
LEMMA PutFacts ==
    ASSUME NEW n \in Nat, NEW tab \in Tables(n), NEW i \in Nat, NEW e \in EntryRecords
    PROVE  /\ Put(tab, i, e) \in Tables(n)
           /\ \A j \in 0..n - 1 : /\ j \notin i..FreeFrom(tab, i) => Put(tab, i, e)[j] = tab[j]
                                  /\ Put(tab, i, e)[j] = Empty <=>
                                        tab[j] = Empty /\ ~(j = FreeFrom(tab, i) /\ i <= j)
  <1> DEFINE F == FreeFrom(tab, i)
             C == Carried(tab, i, e)
             P == Put(tab, i, e)
             here(j) == j \in i..F /\ (j = F \/ Nearer(tab, j, C[j]))
  <1>1. F \in Nat
    BY FreeFromFacts
  <1>2. \A j \in i..F : C[j] \in EntryRecords
    BY CarriedTyped
  <1>3. DOMAIN tab = 0..n - 1 /\ \A j \in 0..n - 1 : tab[j] \in EntryRecords \cup {Empty}
    BY DEF Tables
  <1>4. P = [j \in 0..n - 1 |-> IF here(j) THEN C[j] ELSE tab[j]]
    BY <1>3 DEF Put
  <1> HIDE DEF F, C, P
  <1>5. \A j \in 0..n - 1 : P[j] = IF here(j) THEN C[j] ELSE tab[j]
    BY <1>4
  <1>6. \A j \in 0..n - 1 : P[j] \in EntryRecords \cup {Empty}
    BY <1>2, <1>3, <1>5
  <1>7. P \in Tables(n)
    BY <1>4, <1>6 DEF Tables
  <1>8. \A j \in 0..n - 1 : j \notin i..F => P[j] = tab[j]
    BY <1>5
  <1>9. \A j \in 0..n - 1 : P[j] = Empty <=> tab[j] = Empty /\ ~(j = F /\ i <= j)
    <2> SUFFICES ASSUME NEW j \in 0..n - 1
                 PROVE  P[j] = Empty <=> tab[j] = Empty /\ ~(j = F /\ i <= j)
      OBVIOUS
    <2>1. CASE here(j)
      <3>1. P[j] # Empty
        BY <1>2, <1>5, <2>1, RobinHoodAssumption
      <3>2. tab[j] # Empty \/ (j = F /\ i <= j)
        BY <2>1 DEF Nearer
      <3> QED BY <3>1, <3>2
    <2>2. CASE ~here(j)
      <3>1. P[j] = tab[j]
        BY <1>5, <2>2
      <3>2. ~(j = F /\ i <= j)
        BY <1>1, <2>2
      <3> QED BY <3>1, <3>2
    <2> QED BY <2>1, <2>2
  <1> QED BY <1>7, <1>8, <1>9 DEF F, P

\* The map of a program: by induction over its entries.
LEMMA InitTableTyped ==
    ASSUME PowerLaw, NEW p \in Programs
    PROVE  InitTable(p) \in Tables(2^p.hp)
  <1> DEFINE n == 2^p.hp
             bare == [i \in 0..2^p.hp - 1 |-> Empty]
             L == Len(p.entries)
             New(k, x) == Put(x, Home(p.entries[k].key, p.hp), Entry(p.entries[k].key, p.entries[k].val, 0))
             Solved(f, m) == f = [k \in 0..m |-> IF k = 0 THEN bare ELSE New(k, f[k - 1])]
             S == {m \in Nat : \E f : Solved(f, m)}
  <1>0. /\ p.hp \in Nat /\ p.entries \in Seq([key : Keys, val : Vals]) /\ n \in Nat \ {0} /\ L \in Nat
    <2>1. p.hp \in Nat /\ p.entries \in Seq([key : Keys, val : Vals])
      BY RobinHoodAssumption
    <2>2. n \in Nat \ {0}
      BY <2>1, Powers
    <2>3. L \in Nat
      BY <2>1
    <2> QED BY <2>1, <2>2, <2>3
  <1>1. 0 \in S
    <2>1. Solved([k \in 0..0 |-> bare], 0)
      OBVIOUS
    <2> QED BY <2>1
  <1>2. ASSUME NEW m \in Nat, m \in S PROVE m + 1 \in S
    <2>1. PICK f : Solved(f, m)
      BY <1>2
    <2> DEFINE g == [k \in 0..m + 1 |-> IF k = m + 1 THEN New(m + 1, f[m]) ELSE f[k]]
    <2> HIDE DEF New, bare
    <2>2. \A k \in 0..m : g[k] = f[k] /\ f[k] = IF k = 0 THEN bare ELSE New(k, f[k - 1])
      <3>1. \A k \in 0..m : f[k] = IF k = 0 THEN bare ELSE New(k, f[k - 1])
        BY <2>1
      <3>2. \A k \in 0..m : g[k] = f[k]
        OBVIOUS
      <3> QED BY <3>1, <3>2
    <2>3. g[m + 1] = New(m + 1, g[m])
      BY <2>2
    <2>4. \A k \in 0..m + 1 : g[k] = IF k = 0 THEN bare ELSE New(k, g[k - 1])
      <3> SUFFICES ASSUME NEW k \in 0..m + 1
                   PROVE  g[k] = IF k = 0 THEN bare ELSE New(k, g[k - 1])
        OBVIOUS
      <3>1. CASE k = m + 1
        <4>1. k - 1 = m /\ k # 0
          BY <3>1
        <4> QED BY <2>3, <3>1, <4>1
      <3>2. CASE k # m + 1
        <4>1. k \in 0..m /\ (k # 0 => k - 1 \in 0..m)
          BY <3>2
        <4> HIDE DEF g
        <4> QED BY <2>2, <4>1
      <3> QED BY <3>1, <3>2
    <2>5. g = [k \in 0..m + 1 |-> g[k]]
      OBVIOUS
    <2> HIDE DEF g
    <2>6. Solved(g, m + 1)
      BY <2>4, <2>5
    <2> QED BY <2>6
  <1>3. Nat \subseteq S
    <2> HIDE DEF S
    <2> QED BY <1>1, <1>2, AllNumbers
  <1> DEFINE tab == CHOOSE f : Solved(f, L)
  <1>4. InitTable(p) = tab[L]
    BY DEF InitTable
  <1>5. \E f : Solved(f, L)
    <2>1. L \in S
      <3> HIDE DEF S, L
      <3> QED BY <1>0, <1>3
    <2> QED BY <2>1
  <1>6. Solved(tab, L)
    <2> HIDE DEF Solved
    <2> QED BY <1>5
  <1> HIDE DEF tab, New, bare, L
  <1>7. \A k \in 0..L : tab[k] = IF k = 0 THEN bare ELSE New(k, tab[k - 1])
    BY <1>6
  <1>8. bare \in Tables(n)
    BY DEF bare, Tables
  <1>9. ASSUME NEW k \in 1..L, NEW x \in Tables(n) PROVE New(k, x) \in Tables(n)
    <2>1. p.entries[k] \in [key : Keys, val : Vals]
      <3> DEFINE es == p.entries
                 R == [key : Keys, val : Vals]
      <3>1. es \in Seq(R) /\ k \in 1..Len(es)
        BY <1>0 DEF L
      <3> HIDE DEF es, R
      <3>2. es[k] \in R
        BY <3>1
      <3> QED BY <3>2 DEF es, R
    <2>2. Home(p.entries[k].key, p.hp) \in Nat
      BY <1>0, <2>1, HomeIsNat
    <2>3. Entry(p.entries[k].key, p.entries[k].val, 0) \in EntryRecords
      BY <2>1 DEF Entry, EntryRecords
    <2> HIDE DEF n
    <2> QED BY <1>0, <2>2, <2>3, PutFacts DEF New
  <1> HIDE DEF n
  <1> DEFINE T == {k \in Nat : k <= L => tab[k] \in Tables(n)}
  <1>10. 0 \in T
    BY <1>0, <1>7, <1>8
  <1>11. ASSUME NEW k \in Nat, k \in T PROVE k + 1 \in T
    <2> SUFFICES ASSUME k + 1 <= L PROVE tab[k + 1] \in Tables(n)
      OBVIOUS
    <2>1. k + 1 \in 0..L /\ k + 1 \in 1..L /\ k + 1 # 0 /\ k + 1 - 1 = k /\ k <= L
      BY <1>0
    <2>2. tab[k + 1] = New(k + 1, tab[k])
      BY <1>7, <2>1
    <2>3. tab[k] \in Tables(n)
      BY <1>11, <2>1
    <2> QED BY <1>9, <2>1, <2>2, <2>3
  <1>12. Nat \subseteq T
    <2> HIDE DEF T
    <2> QED BY <1>10, <1>11, AllNumbers
  <1>13. tab[L] \in Tables(n)
    BY <1>0, <1>12
  <1> QED BY <1>4, <1>13 DEF n, L

-----------------------------------------------------------------------------
\* What the counters count.
LEMMA OccupiedIsFinite ==
    ASSUME Slots \in Nat \ {0}, NEW tab, NEW b \in Int
    PROVE  IsFiniteSet(Occupied(tab, b)) /\ Cardinality(Occupied(tab, b)) \in 0..Slots
  <1>1. First(b) \in Int
    BY SlotFacts
  <1>2. IsFiniteSet(SlotsOf(b)) /\ Cardinality(SlotsOf(b)) = Slots
    <2> DEFINE f == First(b)
               s == Slots
    <2>1. /\ IsFiniteSet(f..f + s - 1)
          /\ Cardinality(f..f + s - 1) = IF f > f + s - 1 THEN 0 ELSE (f + s - 1) - f + 1
      BY <1>1, FS_Interval
    <2>2. (IF f > f + s - 1 THEN 0 ELSE (f + s - 1) - f + 1) = s
      <3> HIDE DEF f, s
      <3>1. f \in Int /\ s \in Nat \ {0}
        BY <1>1 DEF f, s
      <3> QED BY <3>1
    <2> QED BY <2>1, <2>2 DEF SlotsOf
  <1>3. Occupied(tab, b) \subseteq SlotsOf(b)
    BY DEF Occupied
  <1>4. /\ IsFiniteSet(Occupied(tab, b)) /\ Cardinality(Occupied(tab, b)) <= Slots
        /\ Cardinality(Occupied(tab, b)) \in Nat
    BY <1>2, <1>3, FS_Subset, FS_CardinalityType
  <1> QED BY <1>4

LEMMA CountSame ==
    ASSUME NEW tab, NEW new, NEW b, \A i \in SlotsOf(b) : new[i] = Empty <=> tab[i] = Empty
    PROVE  Occupied(new, b) = Occupied(tab, b)
  BY DEF Occupied

LEMMA CountOneMore ==
    ASSUME Slots \in Nat \ {0}, NEW tab, NEW new, NEW b \in Int, NEW x \in SlotsOf(b),
           tab[x] = Empty, new[x] # Empty,
           \A i \in SlotsOf(b) \ {x} : new[i] = Empty <=> tab[i] = Empty
    PROVE  Cardinality(Occupied(new, b)) = Cardinality(Occupied(tab, b)) + 1
  <1>1. Occupied(new, b) = Occupied(tab, b) \cup {x} /\ x \notin Occupied(tab, b)
    BY DEF Occupied
  <1>2. IsFiniteSet(Occupied(tab, b))
    BY OccupiedIsFinite
  <1> QED BY <1>1, <1>2, FS_AddElement

LEMMA CountOneLess ==
    ASSUME Slots \in Nat \ {0}, NEW tab, NEW new, NEW b \in Int, NEW x \in SlotsOf(b),
           tab[x] # Empty, new[x] = Empty,
           \A i \in SlotsOf(b) \ {x} : new[i] = Empty <=> tab[i] = Empty
    PROVE  Cardinality(Occupied(new, b)) = Cardinality(Occupied(tab, b)) - 1
  <1>1. Cardinality(Occupied(tab, b)) = Cardinality(Occupied(new, b)) + 1
    BY CountOneMore
  <1>2. Cardinality(Occupied(new, b)) \in Nat
    BY OccupiedIsFinite
  <1> QED BY <1>1, <1>2

\* One slot becomes free and another one is filled.
LEMMA CountMoved ==
    ASSUME Slots \in Nat \ {0}, NEW tab, NEW new, NEW b \in Int,
           NEW x \in SlotsOf(b), NEW y \in SlotsOf(b), tab[x] = Empty, new[x] # Empty,
           tab[y] # Empty, new[y] = Empty,
           \A i \in SlotsOf(b) \ {x, y} : new[i] = Empty <=> tab[i] = Empty
    PROVE  Cardinality(Occupied(new, b)) = Cardinality(Occupied(tab, b))
  <1> DEFINE half == [i \in SlotsOf(b) |-> IF i = x THEN new[x] ELSE tab[i]]
  <1>0. x # y /\ \A i \in SlotsOf(b) : half[i] = IF i = x THEN new[x] ELSE tab[i]
    OBVIOUS
  <1> HIDE DEF half
  <1>1. Cardinality(Occupied(half, b)) = Cardinality(Occupied(tab, b)) + 1
    BY <1>0, CountOneMore
  <1>2. Cardinality(Occupied(new, b)) = Cardinality(Occupied(half, b)) - 1
    BY <1>0, CountOneLess
  <1>3. Cardinality(Occupied(tab, b)) \in Nat /\ Cardinality(Occupied(half, b)) \in Nat
    BY OccupiedIsFinite
  <1> QED BY <1>1, <1>2, <1>3

-----------------------------------------------------------------------------
\* What the invariant says of one thread and of the buckets.
LEMMA Basics ==
    ASSUME RHInv
    PROVE  /\ BucketIds = 0..2^(hp_ - SlotPow) - 1 /\ DOMAIN table = 0..2^hp_ - 1
           /\ \A b \in BucketIds : b \in Nat /\ SlotsOf(b) \subseteq DOMAIN table
           /\ \A i \in DOMAIN table : /\ i \in Nat /\ BucketOf(i) \in BucketIds
                                      /\ table[i] \in EntryRecords \cup {Empty}
           /\ \A b \in BucketIds : locks[b] \in LockRecords
  <1>1. BucketIds = 0..2^(hp_ - SlotPow) - 1 /\ DOMAIN table = 0..2^hp_ - 1
    BY DEF RHInv, Typed, Tables, BucketIds
  <1>2. /\ \A i \in DOMAIN table : i \in Nat /\ table[i] \in EntryRecords \cup {Empty}
        /\ \A b \in BucketIds : locks[b] \in LockRecords /\ b \in Nat
    BY <1>1 DEF RHInv, Typed, Tables, BucketIds
  <1> DEFINE n == 2^(hp_ - SlotPow)
             s == 2^hp_
  <1>3. Slots \in Nat \ {0} /\ n \in Nat \ {0} /\ s = Slots * n
    BY DEF RHInv, SizesOK
  <1> HIDE DEF n, s
  <1>4. /\ \A b \in 0..n - 1 : SlotsOf(b) \subseteq 0..s - 1
        /\ \A i \in 0..s - 1 : BucketOf(i) \in 0..n - 1
    BY <1>3, InTable
  <1>5. BucketIds = 0..n - 1 /\ DOMAIN table = 0..s - 1
    BY <1>1 DEF n, s
  <1> QED BY <1>1, <1>2, <1>4, <1>5

LEMMA WalkFacts ==
    ASSUME RHInv, NEW t \in Threads
    PROVE  /\ walk[t] \in WalkRecords /\ pc[t] \in Labels
           /\ walk[t].seen \in Nat /\ walk[t].own \subseteq BucketIds /\ walk[t].bucket \in Nat
           /\ walk[t].pos \in Nat /\ walk[t].free \in Nat /\ walk[t].go \in Labels
           /\ 2^walk[t].seen \in Nat \ {0}
  BY DEF RHInv, Typed, SizesOK, LocksOK, WalkRecords

LEMMA CallFacts ==
    ASSUME RHInv, NEW t \in Threads, pc[t] # "idle"
    PROVE  /\ todo[t] # <<>> /\ Call(t) \in CallRecords /\ Key(t) \in Keys
           /\ Call(t).op \notin {"find", "erase"} => Call(t).val \in Vals
           /\ HomeOf(t) \in Nat /\ HomeBucket(t) \in Nat /\ WindowOf(t) \in Nat
  <1>1. todo[t] \in Seq(CallRecords) /\ todo[t] # <<>>
    BY DEF RHInv, Typed
  <1>2. 1 \in DOMAIN todo[t] /\ Call(t) = todo[t][1]
    BY <1>1 DEF Call
  <1>3. Call(t) \in CallRecords
    BY <1>1, <1>2
  <1>4. Key(t) \in Keys
    BY <1>3 DEF Key, CallRecords
  <1>5. Call(t).op \notin {"find", "erase"} => Call(t).val \in Vals
    BY <1>2 DEF RHInv, Typed
  <1>6. HomeOf(t) \in Nat
    BY <1>4, WalkFacts, HomeIsNat DEF HomeOf
  <1>7. HomeBucket(t) \in Nat
    BY <1>6, SlotFacts DEF RHInv, SizesOK, HomeBucket
  <1> QED BY <1>1, <1>3, <1>4, <1>5, <1>6, <1>7, WalkFacts DEF WindowOf, Window

\* A thread knows only slots of buckets it owns.
LEMMA KnownIsOwned ==
    ASSUME RHInv, NEW t \in Threads
    PROVE  /\ pc[t] \in {"equal", "not_occupied"} =>
                 walk[t].pos \in DOMAIN table /\ BucketOf(walk[t].pos) \in walk[t].own
           /\ pc[t] = "move_path" => \A j \in SlotsOf(walk[t].bucket) :
                 j \in DOMAIN table /\ BucketOf(j) \in walk[t].own
           /\ Heading(t, "shift") =>
                 walk[t].pos - 1 \in DOMAIN table /\ BucketOf(walk[t].pos - 1) \in walk[t].own
  <1> DEFINE b == walk[t].bucket
             h == HomeBucket(t)
  <1>0. /\ b \in Nat /\ walk[t].pos \in Nat /\ walk[t].own \subseteq BucketIds
        /\ Slots \in Nat \ {0} /\ OwnOK(t) /\ SlotsOK(t)
    BY WalkFacts DEF RHInv, SizesOK
  <1>1. \A i \in Int : BucketOf(i) \in walk[t].own => i \in DOMAIN table
    BY <1>0, Basics, SlotFacts
  <1>2. ASSUME pc[t] \in Under
        PROVE  /\ b \in walk[t].own /\ h \in Nat /\ walk[t].own = h..b
               /\ \A j \in SlotsOf(b) : j \in Int /\ BucketOf(j) = b
    <2>1. pc[t] # "idle" /\ h \in Nat
      BY <1>2, CallFacts DEF Under
    <2>2. walk[t].own = h..b /\ h <= b
      BY <1>0, <1>2 DEF OwnOK
    <2>3. \A j \in SlotsOf(b) : j \in Int /\ BucketOf(j) = b
      BY <1>0, SlotFacts, SMTT(60)
    <2> HIDE DEF b, h
    <2> QED BY <1>0, <2>1, <2>2, <2>3 DEF b
  <1>3. ASSUME pc[t] \in {"equal", "not_occupied"}
        PROVE  walk[t].pos \in DOMAIN table /\ BucketOf(walk[t].pos) \in walk[t].own
    <2>1. walk[t].pos \in SlotsOf(b) /\ pc[t] \in Under
      BY <1>0, <1>3 DEF SlotsOK, Under
    <2> QED BY <1>1, <1>2, <2>1
  <1>4. ASSUME pc[t] = "move_path"
        PROVE  \A j \in SlotsOf(b) : j \in DOMAIN table /\ BucketOf(j) \in walk[t].own
    <2>1. pc[t] \in Under
      BY <1>4 DEF Under
    <2> QED BY <1>1, <1>2, <2>1
  <1>5. ASSUME Heading(t, "shift")
        PROVE  walk[t].pos - 1 \in DOMAIN table /\ BucketOf(walk[t].pos - 1) \in walk[t].own
    <2>1. HomeOf(t) \in Nat /\ h \in Nat /\ h = BucketOf(HomeOf(t))
      BY <1>5, CallFacts DEF Heading, HomeBucket
    <2>2. HomeOf(t) <= walk[t].pos - 1 /\ walk[t].pos - 1 \in Nat
      BY <1>0, <1>5, <2>1 DEF SlotsOK
    <2>3. h <= BucketOf(walk[t].pos - 1) /\ BucketOf(walk[t].pos - 1) \in Nat
      <3>1. h <= BucketOf(walk[t].pos - 1)
        BY <1>0, <2>1, <2>2, BucketsRise
      <3>2. BucketOf(walk[t].pos - 1) \in Nat
        BY <1>0, <2>2, SlotFacts
      <3> QED BY <3>1, <3>2
    <2>4. /\ First(b) \in Nat /\ First(b + 1) = First(b) + Slots
          /\ BucketOf(First(b) - 1) = b - 1 /\ BucketOf(First(b + 1) - 1) = b
      BY <1>0, LastSlots
    <2>5. CASE pc[t] = "shift"
      <3>1. walk[t].pos - 1 <= First(b + 1) - 1 /\ walk[t].own = h..b
        BY <1>0, <2>4, <2>5 DEF SlotsOK, OwnOK, Under
      <3>2. BucketOf(walk[t].pos - 1) <= b
        BY <1>0, <2>2, <2>4, <3>1, BucketsRise, SMTT(60)
      <3> QED BY <1>0, <1>1, <2>2, <2>3, <3>1, <3>2
    <2>6. CASE pc[t] = "lock_next" /\ walk[t].go = "shift"
      <3>1. walk[t].pos - 1 = First(b) - 1 /\ walk[t].own = h..b - 1
        BY <1>0, <2>4, <2>6 DEF SlotsOK, OwnOK
      <3> QED BY <1>0, <1>1, <2>2, <2>3, <2>4, <3>1
    <2> QED BY <1>5, <2>5, <2>6 DEF Heading
  <1> QED BY <1>3, <1>4, <1>5

\* What the others know stays so when a thread changes slots it owns.
LEMMA OthersKept ==
    ASSUME RHInv, NEW t \in Threads, NEW u \in Threads \ {t},
           hp_' = hp_, BucketIds' = BucketIds, pc'[u] = pc[u], walk'[u] = walk[u], todo'[u] = todo[u],
           \A i \in DOMAIN table : BucketOf(i) \notin walk[t].own => table'[i] = table[i]
    PROVE  OwnOK(u)' /\ SlotsOK(u)'
  <1>0. OwnOK(u) /\ SlotsOK(u)
    BY DEF RHInv
  <1>1. \A i \in DOMAIN table : BucketOf(i) \in walk[u].own => table'[i] = table[i]
    BY DEF RHInv, Exclusive
  <1>2. HomeOf(u)' = HomeOf(u) /\ HomeBucket(u)' = HomeBucket(u)
    BY DEF HomeOf, HomeBucket, Key, Call
  <1>3. OwnOK(u)'
    BY <1>0, <1>2 DEF OwnOK, Stuck, Call
  <1>4. /\ pc[u] \in {"equal", "not_occupied"} => table'[walk[u].pos] = table[walk[u].pos]
        /\ pc[u] = "move_path" => \A j \in SlotsOf(walk[u].bucket) : table'[j] = table[j]
        /\ Heading(u, "shift") => table'[walk[u].pos - 1] = table[walk[u].pos - 1]
    BY <1>1, KnownIsOwned
  <1>5. Heading(u, "shift")' = Heading(u, "shift") /\ Heading(u, "less_dist")' = Heading(u, "less_dist")
    BY DEF Heading
  <1>6. SlotsOK(u)'
    BY <1>0, <1>2, <1>4, <1>5 DEF SlotsOK, Call
  <1> QED BY <1>3, <1>6

-----------------------------------------------------------------------------
\* What a step of a thread inside a call leaves to be shown.
Local(t, w, l) ==
    /\ walk' = [walk EXCEPT ![t] = w] /\ pc' = [pc EXCEPT ![t] = l]
    /\ todo' = todo /\ hp_' = hp_

\* The flags and epochs stay, and the thread owns what it owned.
LocksKept ==
    /\ locks' \in [BucketIds -> LockRecords]
    /\ \A b \in BucketIds : locks'[b].flag = locks[b].flag /\ locks'[b].epoch = locks[b].epoch

OnlyOwned(t) ==
    /\ table' \in Tables(2^hp_)
    /\ \A i \in DOMAIN table : BucketOf(i) \notin walk[t].own => table'[i] = table[i]

LEMMA Assemble ==
    ASSUME RHInv, NEW t \in Threads, NEW w \in WalkRecords, NEW l \in Labels \ {"idle"},
           2^w.seen \in Nat \ {0}, pc[t] # "idle",
           Local(t, w, l), OnlyOwned(t), locks' \in [BucketIds -> LockRecords],
           LocksOK', Exclusive', Match', OwnOK(t)', SlotsOK(t)'
    PROVE  RHInv'
  <1>1. /\ walk' \in [Threads -> WalkRecords] /\ pc' \in [Threads -> Labels]
        /\ walk'[t] = w /\ pc'[t] = l
        /\ \A u \in Threads \ {t} : walk'[u] = walk[u] /\ pc'[u] = pc[u] /\ todo'[u] = todo[u]
    BY DEF RHInv, Typed, Local
  <1>2. BucketIds' = BucketIds /\ BucketIds = 0..2^(hp_ - SlotPow) - 1
    BY Basics DEF BucketIds
  <1>3. SizesOK'
    BY <1>1 DEF RHInv, SizesOK, Local
  <1>4. Typed'
    <2>1. \A u \in Threads : pc'[u] # "idle" => todo'[u] # <<>>
      BY <1>1 DEF RHInv, Typed, Local
    <2> QED BY <1>1, <1>2, <2>1 DEF RHInv, Typed, Local, OnlyOwned
  <1>5. \A u \in Threads \ {t} : OwnOK(u)' /\ SlotsOK(u)'
    BY <1>1, <1>2, OthersKept DEF Local, OnlyOwned
  <1> QED BY <1>3, <1>4, <1>5 DEF RHInv

LEMMA KeptLocks ==
    ASSUME RHInv, NEW t \in Threads, NEW w \in WalkRecords, NEW l, w.own = walk[t].own,
           Local(t, w, l), LocksKept
    PROVE  LocksOK' /\ Exclusive'
  <1>1. \A u \in Threads : walk'[u].own = walk[u].own
    BY DEF RHInv, Typed, Local
  <1>2. BucketIds' = BucketIds
    BY DEF LocksKept, BucketIds
  <1>3. LocksOK'
    BY <1>1, <1>2 DEF RHInv, LocksOK, LocksKept, Locked
  <1>4. Exclusive'
    BY <1>1 DEF RHInv, Exclusive
  <1> QED BY <1>3, <1>4

\* A step that changes no slot, no counter and no lock.
LEMMA QuietStep ==
    ASSUME RHInv, NEW t \in Threads, NEW w \in WalkRecords, NEW l \in Labels \ {"idle"},
           2^w.seen \in Nat \ {0}, pc[t] # "idle", w.own = walk[t].own,
           Local(t, w, l), UNCHANGED <<table, locks>>, OwnOK(t)', SlotsOK(t)'
    PROVE  RHInv'
  <1>1. OnlyOwned(t) /\ LocksKept
    <2>1. table \in Tables(2^hp_) /\ locks \in [BucketIds -> LockRecords]
      BY DEF RHInv, Typed, BucketIds
    <2> QED BY <2>1 DEF OnlyOwned, LocksKept
  <1>2. LocksOK' /\ Exclusive'
    BY <1>1, KeptLocks
  <1>3. Match'
    BY DEF RHInv, Match, BucketIds, Occupied
  <1> QED BY <1>1, <1>2, <1>3, Assemble DEF LocksKept

\* A bucket is locked.
LEMMA LockTaken ==
    ASSUME RHInv, NEW t \in Threads, NEW w \in WalkRecords, NEW l \in Labels \ {"idle"},
           2^w.seen \in Nat \ {0}, pc[t] # "idle", NEW b, LockBucket(t, b),
           w.own = walk[t].own \cup {b},
           Local(t, w, l), table' = table, OwnOK(t)', SlotsOK(t)'
    PROVE  RHInv'
  <1>0. b \in BucketIds /\ ~locks[b].flag
    BY DEF LockBucket
  <1>1. /\ locks' \in [BucketIds -> LockRecords] /\ BucketIds' = BucketIds
        /\ locks'[b].flag = TRUE /\ locks'[b].epoch = locks[b].epoch + 1
        /\ \A c \in BucketIds : locks'[c].count = locks[c].count
        /\ \A c \in BucketIds \ {b} : locks'[c] = locks[c]
    <2>1. locks \in [BucketIds -> LockRecords]
      BY DEF RHInv, Typed, BucketIds
    <2>2. locks' = [locks EXCEPT ![b].flag = TRUE, ![b].epoch = @ + 1]
      BY DEF LockBucket
    <2>3. /\ locks' \in [BucketIds -> LockRecords]
          /\ locks'[b].flag = TRUE /\ locks'[b].epoch = locks[b].epoch + 1
          /\ \A c \in BucketIds : locks'[c].count = locks[c].count
          /\ \A c \in BucketIds \ {b} : locks'[c] = locks[c]
      BY <1>0, <2>1, <2>2 DEF LockRecords
    <2>4. DOMAIN locks' = BucketIds
      BY <2>3
    <2> QED BY <2>3, <2>4 DEF BucketIds
  <1>2. \A u \in Threads : walk'[u].own = IF u = t THEN walk[t].own \cup {b} ELSE walk[u].own
    BY DEF RHInv, Typed, Local
  <1>3. \A u \in Threads : b \notin walk[u].own
    BY <1>0 DEF RHInv, LocksOK
  <1>4. LocksOK'
    <2>1. locks[b].epoch \in Nat /\ locks[b].epoch % 2 # 1
      BY <1>0, Basics DEF RHInv, LocksOK, Locked, LockRecords
    <2>2. (locks[b].epoch + 1) % 2 = 1
      BY <2>1
    <2>3. \A c \in BucketIds : /\ locks'[c].flag <=> locks'[c].epoch % 2 = 1
                               /\ locks'[c].flag <=> \E u \in Threads : c \in walk'[u].own
      BY <1>1, <1>2, <2>2 DEF RHInv, LocksOK, Locked
    <2>4. \A u \in Threads : walk'[u].own \subseteq BucketIds
      BY <1>0, <1>2 DEF RHInv, LocksOK
    <2> QED BY <1>1, <2>3, <2>4 DEF LocksOK, Locked
  <1>5. Exclusive'
    BY <1>2, <1>3 DEF RHInv, Exclusive
  <1>6. Match'
    BY <1>1 DEF RHInv, Match, Occupied
  <1>7. OnlyOwned(t)
    BY DEF OnlyOwned, RHInv, Typed
  <1> QED BY <1>1, <1>4, <1>5, <1>6, <1>7, Assemble

\* A bucket is unlocked.
LEMMA LockReleased ==
    ASSUME RHInv, NEW t \in Threads, NEW w \in WalkRecords, NEW l \in Labels \ {"idle"},
           2^w.seen \in Nat \ {0}, pc[t] # "idle", NEW b \in walk[t].own,
           locks' = [locks EXCEPT ![b].flag = FALSE, ![b].epoch = @ + 1],
           w.own = walk[t].own \ {b},
           Local(t, w, l), table' = table, OwnOK(t)', SlotsOK(t)'
    PROVE  RHInv'
  <1>0. b \in BucketIds /\ locks[b].flag
    BY DEF RHInv, LocksOK
  <1>1. /\ locks' \in [BucketIds -> LockRecords] /\ BucketIds' = BucketIds
        /\ locks'[b].flag = FALSE /\ locks'[b].epoch = locks[b].epoch + 1
        /\ \A c \in BucketIds : locks'[c].count = locks[c].count
        /\ \A c \in BucketIds \ {b} : locks'[c] = locks[c]
    <2>1. locks \in [BucketIds -> LockRecords]
      BY DEF RHInv, Typed, BucketIds
    <2>3. /\ locks' \in [BucketIds -> LockRecords]
          /\ locks'[b].flag = FALSE /\ locks'[b].epoch = locks[b].epoch + 1
          /\ \A c \in BucketIds : locks'[c].count = locks[c].count
          /\ \A c \in BucketIds \ {b} : locks'[c] = locks[c]
      BY <1>0, <2>1 DEF LockRecords
    <2>4. DOMAIN locks' = BucketIds
      BY <2>3
    <2> QED BY <2>3, <2>4 DEF BucketIds
  <1>2. \A u \in Threads : walk'[u].own = IF u = t THEN walk[t].own \ {b} ELSE walk[u].own
    BY DEF RHInv, Typed, Local
  <1>3. \A u \in Threads \ {t} : b \notin walk[u].own
    BY DEF RHInv, Exclusive
  <1>4. LocksOK'
    <2>1. locks[b].epoch \in Nat /\ locks[b].epoch % 2 = 1
      BY <1>0, Basics DEF RHInv, LocksOK, Locked, LockRecords
    <2>2. (locks[b].epoch + 1) % 2 # 1
      BY <2>1
    <2>3. \A c \in BucketIds : /\ locks'[c].flag <=> locks'[c].epoch % 2 = 1
                               /\ locks'[c].flag <=> \E u \in Threads : c \in walk'[u].own
      BY <1>1, <1>2, <1>3, <2>2 DEF RHInv, LocksOK, Locked
    <2>4. \A u \in Threads : walk'[u].own \subseteq BucketIds
      BY <1>0, <1>2 DEF RHInv, LocksOK
    <2> QED BY <1>1, <2>3, <2>4 DEF LocksOK, Locked
  <1>5. Exclusive'
    BY <1>2, <1>3 DEF RHInv, Exclusive
  <1>6. Match'
    BY <1>1 DEF RHInv, Match, Occupied
  <1>7. OnlyOwned(t)
    BY DEF OnlyOwned, RHInv, Typed
  <1> QED BY <1>1, <1>4, <1>5, <1>6, <1>7, Assemble

\* The owner changes slots and counts.
LEMMA SlotsChanged ==
    ASSUME RHInv, NEW t \in Threads, NEW w \in WalkRecords, NEW l \in Labels \ {"idle"},
           2^w.seen \in Nat \ {0}, pc[t] # "idle", w.own = walk[t].own,
           Local(t, w, l), OnlyOwned(t), LocksKept, Match', OwnOK(t)', SlotsOK(t)'
    PROVE  RHInv'
  <1>1. LocksOK' /\ Exclusive'
    BY KeptLocks
  <1> QED BY <1>1, Assemble DEF LocksKept

-----------------------------------------------------------------------------
LEMMA InitHolds == PowerLaw /\ Init => RHInv
  <1> SUFFICES ASSUME PowerLaw, Init PROVE RHInv
    OBVIOUS
  <1>1. PICK p \in Programs :
           /\ hp_ = p.hp /\ table = InitTable(p) /\ todo = p.calls
           /\ locks = [b \in 0..2^(p.hp - SlotPow) - 1 |->
                        [flag |-> FALSE, epoch |-> 0, count |-> Cardinality(Occupied(table, b))]]
    BY DEF Init
  <1>2. /\ hp_ \in Nat /\ hp_ >= SlotPow /\ SlotPow \in Nat
        /\ todo \in [Threads -> Seq(CallRecords)]
        /\ \A t \in Threads : \A i \in DOMAIN todo[t] :
              todo[t][i].op \notin {"find", "erase"} => todo[t][i].val \in Vals
    <2>1. /\ p.hp \in Nat /\ p.hp >= SlotPow /\ SlotPow \in Nat
          /\ p.calls \in [Threads -> Seq(CallRecords)]
          /\ \A t \in Threads : \A i \in DOMAIN p.calls[t] :
                p.calls[t][i].op \notin {"find", "erase"} => p.calls[t][i].val \in Vals
      BY RobinHoodAssumption
    <2> QED BY <1>1, <2>1
  <1>3. walk = [t \in Threads |-> NoWalk] /\ pc = [t \in Threads |-> "idle"]
    BY DEF Init
  <1>4. SizesOK
    <2>1. hp_ - SlotPow \in Nat /\ SlotPow + (hp_ - SlotPow) = hp_
      BY <1>2
    <2>2. /\ 2^SlotPow \in Nat \ {0} /\ 2^hp_ \in Nat \ {0} /\ 2^(hp_ - SlotPow) \in Nat \ {0}
          /\ 2^0 \in Nat \ {0}
      BY <1>2, <2>1, Powers
    <2>3. 2^hp_ = Slots * 2^(hp_ - SlotPow)
      BY <1>2, <2>1, PowersMultiply DEF Slots
    <2>4. \A t \in Threads : walk[t].seen = 0
      BY <1>3 DEF NoWalk
    <2> QED BY <1>2, <2>2, <2>3, <2>4 DEF SizesOK, Slots
  <1>5. Typed
    <2>1. table \in Tables(2^hp_)
      BY <1>1, InitTableTyped
    <2>2. NoWalk \in WalkRecords
      BY DEF NoWalk, WalkRecords, Labels, Outside
    <2>3. \A b \in 0..2^(hp_ - SlotPow) - 1 : Cardinality(Occupied(table, b)) \in Int
      BY <1>4, OccupiedIsFinite DEF SizesOK
    <2>4. locks \in [0..2^(hp_ - SlotPow) - 1 -> LockRecords]
      BY <1>1, <2>3 DEF LockRecords
    <2>5. "idle" \in Labels
      BY DEF Labels, Outside
    <2> QED BY <1>2, <1>3, <2>1, <2>2, <2>4, <2>5 DEF Typed
  <1>6. \A t \in Threads : walk[t].own = {} /\ pc[t] = "idle"
    BY <1>3 DEF NoWalk
  <1>7. LocksOK
    BY <1>1, <1>6 DEF LocksOK, BucketIds, Locked
  <1>8. Exclusive
    BY <1>6 DEF Exclusive
  <1>9. Match
    BY <1>1 DEF Match, BucketIds
  <1>10. \A t \in Threads : OwnOK(t) /\ SlotsOK(t)
    BY <1>6 DEF OwnOK, SlotsOK, Under, Heading
  <1> QED BY <1>4, <1>5, <1>7, <1>8, <1>9, <1>10 DEF RHInv

-----------------------------------------------------------------------------
LEMMA LabelFacts ==
    /\ Outside \subseteq Labels /\ Under \subseteq Labels
    /\ "lock_next" \in Labels /\ "release" \in Labels /\ "lock_all" \in Labels
    /\ "double" \in Labels /\ "spread" \in Labels
    /\ Outside \cap Under = {}
    /\ \A l \in {"lock_next", "release", "lock_all", "double", "spread"} :
          l \notin Outside /\ l \notin Under
    /\ "idle" \in Outside
  BY DEF Labels, Outside, Under

\* Where nothing is owned, nothing is known.
LEMMA OutsideKnowsNothing ==
    ASSUME NEW t \in Threads, pc'[t] \in Outside \cup {"release", "lock_all", "double", "spread"}
    PROVE  SlotsOK(t)'
  BY DEF SlotsOK, Heading, Outside

LEMMA BeginInv ==
    ASSUME RHInv, NEW t \in Threads, Begin(t)
    PROVE  RHInv'
  <1>1. /\ pc[t] = "idle" /\ todo[t] # <<>> /\ pc' = [pc EXCEPT ![t] = "start"]
        /\ UNCHANGED <<hp_, table, locks, todo, walk>>
    BY DEF Begin, Goto, shared
  <1>2. pc'[t] = "start" /\ \A u \in Threads \ {t} : pc'[u] = pc[u]
    BY <1>1 DEF RHInv, Typed
  <1>3. SizesOK' /\ LocksOK' /\ Exclusive' /\ Match'
    BY <1>1 DEF RHInv, SizesOK, LocksOK, Exclusive, Match, BucketIds, Locked, Occupied
  <1>4. Typed'
    <2>1. pc' \in [Threads -> Labels]
      BY <1>1 DEF RHInv, Typed, Labels, Outside
    <2>2. \A u \in Threads : pc'[u] # "idle" => todo'[u] # <<>>
      BY <1>1, <1>2 DEF RHInv, Typed
    <2> QED BY <1>1, <2>1, <2>2 DEF RHInv, Typed
  <1>5. \A u \in Threads \ {t} : OwnOK(u)' /\ SlotsOK(u)'
    BY <1>1, <1>2, OthersKept DEF BucketIds
  <1>6. OwnOK(t)' /\ SlotsOK(t)'
    <2>1. walk'[t].own = {}
      BY <1>1 DEF RHInv, OwnOK, Outside
    <2> QED BY <1>2, <2>1, OutsideKnowsNothing DEF OwnOK, Outside, Under
  <1> QED BY <1>3, <1>4, <1>5, <1>6 DEF RHInv

LEMMA ReturnInv ==
    ASSUME RHInv, NEW t \in Threads, Return(t)
    PROVE  RHInv'
  <1>1. /\ pc[t] = "return" /\ pc' = [pc EXCEPT ![t] = "idle"]
        /\ todo' = [todo EXCEPT ![t] = Tail(@)] /\ walk' = [walk EXCEPT ![t] = NoWalk]
        /\ UNCHANGED <<hp_, table, locks>>
    BY DEF Return, Goto, shared
  <1>2. /\ pc'[t] = "idle" /\ walk'[t] = NoWalk /\ todo'[t] = Tail(todo[t])
        /\ \A u \in Threads \ {t} : pc'[u] = pc[u] /\ walk'[u] = walk[u] /\ todo'[u] = todo[u]
    BY <1>1 DEF RHInv, Typed
  <1>3. /\ NoWalk.own = {} /\ NoWalk.seen = 0 /\ walk[t].own = {} /\ NoWalk \in WalkRecords
        /\ 2^0 \in Nat \ {0}
    <2>1. walk[t].own = {}
      BY <1>1 DEF RHInv, OwnOK, Outside
    <2>2. NoWalk.own = {} /\ NoWalk.seen = 0 /\ NoWalk \in WalkRecords
      BY DEF NoWalk, WalkRecords, Labels, Outside
    <2> QED BY <2>1, <2>2, RobinHoodAssumption
  <1>4. SizesOK'
    BY <1>1, <1>2, <1>3 DEF RHInv, SizesOK
  <1>5. Typed'
    <2>1. pc' \in [Threads -> Labels] /\ walk' \in [Threads -> WalkRecords]
      BY <1>1, <1>3, LabelFacts DEF RHInv, Typed
    <2>2. /\ todo[t] \in Seq(CallRecords) /\ todo[t] # <<>>
          /\ Tail(todo[t]) \in Seq(CallRecords)
          /\ \A i \in DOMAIN Tail(todo[t]) : i + 1 \in DOMAIN todo[t] /\ Tail(todo[t])[i] = todo[t][i + 1]
      <3> DEFINE s == todo[t]
      <3>1. s \in Seq(CallRecords) /\ s # <<>>
        BY <1>1 DEF RHInv, Typed
      <3> HIDE DEF s
      <3>2. /\ Tail(s) \in Seq(CallRecords)
            /\ \A i \in DOMAIN Tail(s) : i + 1 \in DOMAIN s /\ Tail(s)[i] = s[i + 1]
        BY <3>1
      <3> QED BY <3>1, <3>2 DEF s
    <2>3. todo' \in [Threads -> Seq(CallRecords)]
      BY <1>1, <2>2 DEF RHInv, Typed
    <2>4. \A i \in DOMAIN todo'[t] :
              todo'[t][i].op \notin {"find", "erase"} => todo'[t][i].val \in Vals
      BY <1>2, <2>2 DEF RHInv, Typed
    <2>5. \A u \in Threads : \A i \in DOMAIN todo'[u] :
              todo'[u][i].op \notin {"find", "erase"} => todo'[u][i].val \in Vals
      BY <1>2, <2>4 DEF RHInv, Typed
    <2>6. \A u \in Threads : pc'[u] # "idle" => todo'[u] # <<>>
      BY <1>2 DEF RHInv, Typed
    <2> QED BY <1>1, <2>1, <2>3, <2>5, <2>6 DEF RHInv, Typed
  <1>6. \A u \in Threads : walk'[u].own = walk[u].own
    BY <1>2, <1>3
  <1>7. LocksOK' /\ Exclusive' /\ Match'
    <2>1. LocksOK'
      BY <1>1, <1>6 DEF RHInv, LocksOK, BucketIds, Locked
    <2>2. Exclusive'
      BY <1>6 DEF RHInv, Exclusive
    <2>3. Match'
      BY <1>1 DEF RHInv, Match, BucketIds, Occupied
    <2> QED BY <2>1, <2>2, <2>3
  <1>8. \A u \in Threads \ {t} : OwnOK(u)' /\ SlotsOK(u)'
    BY <1>1, <1>2, OthersKept DEF BucketIds
  <1>9. OwnOK(t)' /\ SlotsOK(t)'
    BY <1>2, <1>3, OutsideKnowsNothing DEF OwnOK, Outside, Under
  <1> QED BY <1>4, <1>5, <1>7, <1>8, <1>9 DEF RHInv

-----------------------------------------------------------------------------
\* The steps of a call outside the locks.
LEMMA OutsideInv ==
    ASSUME RHInv, NEW t \in Threads, NEW w \in WalkRecords, NEW l \in Outside \ {"idle"},
           2^w.seen \in Nat \ {0}, pc[t] \in Outside \ {"idle"}, w.own = {},
           Local(t, w, l), UNCHANGED <<table, locks>>,
           l = "lock_first" => w.bucket = HomeBucket(t)' /\ Call(t).op # "find"
    PROVE  RHInv'
  <1>1. pc'[t] = l /\ walk'[t] = w
    BY DEF Local, RHInv, Typed
  <1>2. walk[t].own = {}
    BY DEF RHInv, OwnOK
  <1>3. OwnOK(t)'
    <2>1. Call(t)' = Call(t)
      BY DEF Local, Call
    <2> QED BY <1>1, <2>1, LabelFacts DEF OwnOK
  <1>4. SlotsOK(t)'
    BY <1>1, OutsideKnowsNothing
  <1>5. l \in Labels \ {"idle"}
    BY LabelFacts
  <1> QED BY <1>2, <1>3, <1>4, <1>5, QuietStep

LEMMA StartInv ==
    ASSUME RHInv, NEW t \in Threads, Start(t)
    PROVE  RHInv'
  <1> DEFINE w == [NoWalk EXCEPT !.seen = hp_, !.bucket = BucketOf(Home(Key(t), hp_))]
             l == IF Call(t).op = "find" THEN "epoch" ELSE "lock_first"
  <1>1. /\ pc[t] = "start" /\ walk' = [walk EXCEPT ![t] = w] /\ pc' = [pc EXCEPT ![t] = l]
        /\ UNCHANGED <<hp_, table, locks, todo>>
    BY DEF Start, Goto, shared
  <1>2. /\ hp_ \in Nat /\ 2^hp_ \in Nat \ {0} /\ Slots \in Nat \ {0}
    BY DEF RHInv, SizesOK
  <1>3. BucketOf(Home(Key(t), hp_)) \in Nat
    <2>1. Key(t) \in Keys
      BY <1>1, CallFacts
    <2>2. Home(Key(t), hp_) \in Nat
      BY <1>2, <2>1, HomeIsNat
    <2> QED BY <1>2, <2>2, SlotFacts
  <1>4. /\ w \in WalkRecords /\ w.seen = hp_ /\ w.own = {}
        /\ w.bucket = BucketOf(Home(Key(t), hp_))
    BY <1>2, <1>3 DEF NoWalk, WalkRecords, Labels, Outside
  <1> HIDE DEF w
  <1>5. walk'[t] = w
    BY <1>1 DEF RHInv, Typed
  <1>6. HomeBucket(t)' = w.bucket
    BY <1>1, <1>4, <1>5 DEF HomeBucket, HomeOf, Key, Call
  <1>7. /\ l \in Outside \ {"idle"} /\ pc[t] \in Outside \ {"idle"}
        /\ l = "lock_first" => Call(t).op # "find"
    BY <1>1 DEF Outside
  <1> HIDE DEF l
  <1>8. Local(t, w, l)
    BY <1>1 DEF Local
  <1> QED BY <1>1, <1>2, <1>4, <1>6, <1>7, <1>8, OutsideInv

LEMMA FindInv ==
    ASSUME RHInv, NEW t \in Threads, Find(t)
    PROVE  RHInv'
  <1>1. /\ pc[t] \in Outside \ {"idle"} /\ UNCHANGED <<hp_, table, locks, todo, walk>>
        /\ \E l \in Outside \ {"idle", "lock_first"} : pc' = [pc EXCEPT ![t] = l]
    <2>0. pc = [u \in Threads |-> pc[u]]
      BY DEF RHInv, Typed
    <2>1. CASE Epoch(t)
      BY <2>1 DEF Epoch, Goto, shared, Outside
    <2>2. CASE CheckHp(t)
      BY <2>2 DEF CheckHp, Goto, shared, Outside
    <2>3. CASE Scan(t)
      BY <2>3 DEF Scan, Goto, shared, Outside
    <2>4. CASE Value(t)
      BY <2>4 DEF Value, Goto, shared, Outside
    <2>5. CASE CheckEpochs(t)
      <3>1. pc[t] = "check_epochs" /\ UNCHANGED <<hp_, table, locks, todo, walk>>
        BY <2>5 DEF CheckEpochs, shared
      <3>2. \/ pc' = pc \/ pc' = [pc EXCEPT ![t] = "start"] \/ pc' = [pc EXCEPT ![t] = "return"]
        BY <2>5 DEF CheckEpochs, Goto
      <3>3. pc' = pc => pc' = [pc EXCEPT ![t] = "check_epochs"]
        BY <2>0, <3>1
      <3> QED BY <3>1, <3>2, <3>3 DEF Outside
    <2> QED BY <2>1, <2>2, <2>3, <2>4, <2>5 DEF Find
  <1>2. PICK l \in Outside \ {"idle", "lock_first"} : pc' = [pc EXCEPT ![t] = l]
    BY <1>1
  <1>3. /\ walk[t] \in WalkRecords /\ 2^walk[t].seen \in Nat \ {0}
        /\ walk[t].own = {} /\ walk' = [walk EXCEPT ![t] = walk[t]]
    BY <1>1, WalkFacts DEF RHInv, Typed, OwnOK
  <1>4. Local(t, walk[t], l)
    BY <1>1, <1>2, <1>3 DEF Local
  <1> QED BY <1>1, <1>2, <1>3, <1>4, OutsideInv

-----------------------------------------------------------------------------
\* The walk over locked buckets.
LEMMA LockFirstInv ==
    ASSUME RHInv, NEW t \in Threads, LockFirst(t)
    PROVE  RHInv'
  <1>1. /\ pc[t] = "lock_first" /\ UNCHANGED <<hp_, table, todo>> /\ walk[t].own = {}
        /\ walk[t].bucket = HomeBucket(t)
    BY DEF LockFirst, RHInv, OwnOK, Outside
  <1>2. /\ walk[t] \in WalkRecords /\ walk[t].bucket \in Nat /\ walk[t].seen \in Nat
        /\ 2^walk[t].seen \in Nat \ {0}
    BY WalkFacts
  <1> DEFINE b == walk[t].bucket
  <1>3. CASE hp_ = walk[t].seen
    <2> DEFINE w == [walk[t] EXCEPT !.own = {b}]
    <2>1. LockBucket(t, b) /\ walk' = [walk EXCEPT ![t] = w] /\ pc' = [pc EXCEPT ![t] = "probe"]
      BY <1>3 DEF LockFirst, Goto
    <2>2. /\ w \in WalkRecords /\ w.own = walk[t].own \cup {b} /\ w.own = {b}
          /\ w.bucket = b /\ w.seen = walk[t].seen
      BY <1>1, <1>2 DEF WalkRecords
    <2> HIDE DEF w
    <2>3. walk'[t] = w /\ pc'[t] = "probe"
      BY <2>1 DEF RHInv, Typed
    <2>4. HomeBucket(t)' = b
      BY <1>1, <2>2, <2>3 DEF HomeBucket, HomeOf, Key, Call
    <2>5. OwnOK(t)'
      <3>1. {b} = b..b /\ b <= b
        BY <1>2
      <3>2. /\ walk'[t].own = HomeBucket(t)'..walk'[t].bucket
            /\ HomeBucket(t)' <= walk'[t].bucket /\ pc'[t] = "probe"
        <4> HIDE DEF b
        <4> QED BY <2>2, <2>3, <2>4, <3>1
      <3>3. Call(t)' = Call(t) /\ Call(t).op # "find"
        BY <1>1 DEF RHInv, OwnOK, Call
      <3> QED BY <3>2, <3>3 DEF OwnOK, Under, Outside
    <2>6. SlotsOK(t)'
      BY <2>3 DEF SlotsOK, Heading
    <2>7. "probe" \in Labels \ {"idle"}
      BY DEF Labels, Under
    <2>8. Local(t, w, "probe")
      BY <1>1, <2>1 DEF Local
    <2> QED BY <1>1, <1>2, <2>1, <2>2, <2>5, <2>6, <2>7, <2>8, LockTaken
  <1>4. CASE hp_ # walk[t].seen
    <2>1. /\ locks' = [locks EXCEPT ![b].epoch = @ + 2]
          /\ pc' = [pc EXCEPT ![t] = "start"] /\ walk' = walk
      BY <1>4 DEF LockFirst, Goto
    <2>2. /\ locks' \in [BucketIds -> LockRecords] /\ BucketIds' = BucketIds
          /\ \A c \in BucketIds : /\ locks'[c].flag = locks[c].flag /\ locks'[c].count = locks[c].count
                                  /\ locks'[c].epoch \in {locks[c].epoch, locks[c].epoch + 2}
      <3>1. locks \in [BucketIds -> LockRecords]
        BY DEF RHInv, Typed, BucketIds
      <3>2. /\ locks' \in [BucketIds -> LockRecords]
            /\ \A c \in BucketIds : /\ locks'[c].flag = locks[c].flag /\ locks'[c].count = locks[c].count
                                    /\ locks'[c].epoch \in {locks[c].epoch, locks[c].epoch + 2}
        <4>1. CASE b \in BucketIds
          <5> DEFINE r == [locks[b] EXCEPT !.epoch = @ + 2]
          <5>1. locks[b] \in LockRecords
            BY <3>1, <4>1
          <5>2. r \in LockRecords /\ r.flag = locks[b].flag /\ r.count = locks[b].count /\ r.epoch = locks[b].epoch + 2
            BY <5>1 DEF LockRecords
          <5>3. locks' = [locks EXCEPT ![b] = r]
            BY <2>1
          <5> HIDE DEF r, b
          <5> QED BY <3>1, <4>1, <5>2, <5>3
        <4>2. CASE b \notin BucketIds
          <5>1. locks' = locks
            BY <2>1, <3>1, <4>2
          <5> QED BY <3>1, <5>1
        <4> QED BY <4>1, <4>2
      <3>3. DOMAIN locks' = BucketIds
        BY <3>2
      <3> QED BY <3>2, <3>3 DEF BucketIds
    <2>3. LocksOK'
      <3>1. ASSUME NEW c \in BucketIds PROVE locks'[c].epoch % 2 = locks[c].epoch % 2
        <4>1. locks[c].epoch \in Nat
          BY Basics DEF LockRecords
        <4> QED BY <2>2, <4>1
      <3>2. \A c \in BucketIds : /\ locks'[c].flag <=> locks'[c].epoch % 2 = 1
                                 /\ locks'[c].flag <=> \E u \in Threads : c \in walk'[u].own
        BY <2>1, <2>2, <3>1 DEF RHInv, LocksOK, Locked
      <3> QED BY <2>1, <2>2, <3>2 DEF RHInv, LocksOK, Locked
    <2>4. Exclusive'
      BY <2>1 DEF RHInv, Exclusive
    <2>5. Match'
      BY <1>1, <2>2 DEF RHInv, Match, Occupied
    <2>6. walk' = [walk EXCEPT ![t] = walk[t]] /\ walk'[t] = walk[t] /\ pc'[t] = "start"
      BY <2>1 DEF RHInv, Typed
    <2>7. Local(t, walk[t], "start")
      BY <1>1, <2>1, <2>6 DEF Local
    <2>8. OwnOK(t)' /\ SlotsOK(t)'
      BY <1>1, <2>6, OutsideKnowsNothing DEF OwnOK, Outside, Under
    <2>9. OnlyOwned(t)
      BY <1>1 DEF OnlyOwned, RHInv, Typed
    <2>10. "start" \in Labels \ {"idle"}
      BY DEF Labels, Outside
    <2> QED BY <1>1, <1>2, <2>2, <2>3, <2>4, <2>5, <2>7, <2>8, <2>9, <2>10, Assemble
  <1> QED BY <1>3, <1>4

LEMMA LockNextInv ==
    ASSUME RHInv, NEW t \in Threads, LockNext(t)
    PROVE  RHInv'
  <1> DEFINE b == walk[t].bucket
             l == walk[t].go
             w == [walk[t] EXCEPT !.own = @ \cup {b}]
             h == HomeBucket(t)
  <1>1. /\ pc[t] = "lock_next" /\ LockBucket(t, b) /\ walk' = [walk EXCEPT ![t] = w]
        /\ pc' = [pc EXCEPT ![t] = l] /\ UNCHANGED <<hp_, table, todo>>
    BY DEF LockNext, Goto
  <1>2. /\ walk[t] \in WalkRecords /\ b \in Nat /\ walk[t].seen \in Nat /\ h \in Nat
        /\ 2^walk[t].seen \in Nat \ {0} /\ walk[t].pos \in Nat
    BY <1>1, WalkFacts, CallFacts
  <1>3. /\ walk[t].own = h..b - 1 /\ h <= b - 1 /\ l \in {"probe", "less_dist", "shift"}
    BY <1>1 DEF RHInv, OwnOK
  <1>4. /\ w \in WalkRecords /\ w.own = walk[t].own \cup {b}
        /\ w.bucket = b /\ w.seen = walk[t].seen /\ w.pos = walk[t].pos
    BY <1>2 DEF WalkRecords
  <1> HIDE DEF w
  <1>5. walk'[t] = w /\ pc'[t] = l
    BY <1>1 DEF RHInv, Typed
  <1>6. HomeOf(t)' = HomeOf(t) /\ HomeBucket(t)' = h
    BY <1>1, <1>4, <1>5 DEF HomeBucket, HomeOf, Key, Call
  <1>7. OwnOK(t)'
    <2>1. w.own = h..b /\ h <= b
      <3> HIDE DEF b, h
      <3> QED BY <1>2, <1>3, <1>4 DEF b
    <2>2. Call(t)' = Call(t) /\ Call(t).op # "find"
      BY <1>1 DEF RHInv, OwnOK, Call
    <2> QED BY <1>3, <1>4, <1>5, <1>6, <2>1, <2>2, LabelFacts DEF OwnOK, Under, Outside
  <1>8. SlotsOK(t)'
    <2>1. CASE l = "probe"
      BY <1>5, <2>1 DEF SlotsOK, Heading
    <2>2. CASE l = "less_dist"
      <3>1. HomeOf(t) <= walk[t].pos /\ BucketOf(walk[t].pos) <= b
        BY <1>1, <2>2 DEF RHInv, SlotsOK, Heading
      <3> QED BY <1>4, <1>5, <1>6, <2>2, <3>1 DEF SlotsOK, Heading
    <2>3. CASE l = "shift"
      <3>1. /\ HomeOf(t) < walk[t].pos /\ table[walk[t].pos - 1] = Empty
            /\ walk[t].pos = First(b)
        BY <1>1, <2>3 DEF RHInv, SlotsOK, Heading
      <3>2. First(b) <= First(b + 1) /\ First(b) \in Nat
        BY <1>2, LastSlots DEF RHInv, SizesOK
      <3> QED BY <1>1, <1>4, <1>5, <1>6, <2>3, <3>1, <3>2 DEF SlotsOK, Heading
    <2> QED BY <1>3, <2>1, <2>2, <2>3
  <1>9. l \in Labels \ {"idle"}
    BY <1>3 DEF Labels, Under
  <1>10. Local(t, w, l)
    BY <1>1 DEF Local
  <1> QED BY <1>1, <1>2, <1>4, <1>7, <1>8, <1>9, <1>10, LockTaken

LEMMA ReleaseInv ==
    ASSUME RHInv, NEW t \in Threads, Release(t)
    PROVE  RHInv'
  <1>1. PICK b \in walk[t].own :
          /\ locks' = [locks EXCEPT ![b].flag = FALSE, ![b].epoch = @ + 1]
          /\ walk' = [walk EXCEPT ![t].own = @ \ {b}, ![t].bucket = 0]
          /\ pc' = [pc EXCEPT ![t] = IF walk[t].own = {b} THEN walk[t].go ELSE "release"]
    BY DEF Release, Goto
  <1>2. pc[t] = "release" /\ UNCHANGED <<hp_, table, todo>> /\ walk[t].go \in {"start", "return", "lock_all"}
    BY DEF Release, RHInv, OwnOK
  <1>3. walk[t] \in WalkRecords /\ 2^walk[t].seen \in Nat \ {0}
    BY WalkFacts
  <1> DEFINE l == IF walk[t].own = {b} THEN walk[t].go ELSE "release"
             w == [walk[t] EXCEPT !.own = @ \ {b}, !.bucket = 0]
  <1>4. /\ w \in WalkRecords /\ w.own = walk[t].own \ {b} /\ w.bucket = 0 /\ w.go = walk[t].go
        /\ w.seen = walk[t].seen
    BY <1>3 DEF WalkRecords
  <1>5. walk' = [walk EXCEPT ![t] = w]
    BY <1>1 DEF RHInv, Typed
  <1> HIDE DEF w
  <1>6. walk'[t] = w /\ pc'[t] = l
    BY <1>1, <1>5 DEF RHInv, Typed
  <1>7. /\ l \in Labels \ {"idle"} /\ l \in {"start", "return", "lock_all", "release"}
        /\ l # "release" => w.own = {}
    BY <1>2, <1>4 DEF Labels, Outside
  <1> HIDE DEF l
  <1>8. OwnOK(t)'
    <2>1. CASE l = "lock_all"
      <3>1. walk'[t].own = 0..walk'[t].bucket - 1
        <4>1. w.own = {} /\ w.bucket = 0
          BY <1>4, <1>7, <2>1
        <4>2. 0..0 - 1 = {}
          OBVIOUS
        <4> QED BY <1>6, <4>1, <4>2
      <3> QED BY <1>6, <2>1, <3>1 DEF OwnOK, Outside, Under
    <2>2. CASE l # "lock_all"
      BY <1>2, <1>4, <1>6, <1>7, <2>2 DEF OwnOK, Outside, Under
    <2> QED BY <2>1, <2>2
  <1>9. SlotsOK(t)'
    BY <1>6, <1>7, OutsideKnowsNothing DEF Outside
  <1>10. Local(t, w, l)
    BY <1>1, <1>2, <1>5 DEF Local, l
  <1> QED BY <1>1, <1>2, <1>3, <1>4, <1>7, <1>8, <1>9, <1>10, LockReleased

\* The locks are kept for a release or for a doubling.
LEMMA GiveUpInv ==
    ASSUME RHInv, NEW t \in Threads, NEW w \in WalkRecords, 2^w.seen \in Nat \ {0},
           pc[t] # "idle", w.own = walk[t].own, w.go \in {"start", "return", "lock_all"},
           Local(t, w, "release"), UNCHANGED <<table, locks>>
    PROVE  RHInv'
  <1>1. walk'[t] = w /\ pc'[t] = "release"
    BY DEF Local, RHInv, Typed
  <1>2. OwnOK(t)' /\ SlotsOK(t)'
    BY <1>1, OutsideKnowsNothing DEF OwnOK, Outside, Under
  <1>3. "release" \in Labels \ {"idle"}
    BY DEF Labels
  <1> QED BY <1>2, <1>3, QuietStep

-----------------------------------------------------------------------------
LEMMA StatusCases ==
    ASSUME NEW tab, NEW k, NEW i, NEW d \in Int, NEW hp \in Nat
    PROVE  /\ Status(tab, k, i, d, hp) \in
                 {"out_of_window", "not_occupied", "less_dist", "equal", "next"}
           /\ Status(tab, k, i, d, hp) = "equal" => tab[i] # Empty
           /\ Status(tab, k, i, d, hp) = "not_occupied" => tab[i] = Empty
  <1>1. d > Window(hp) \/ d <= Window(hp)
    BY DEF Window
  <1>2. CASE d > Window(hp)
    <2>1. Status(tab, k, i, d, hp) = "out_of_window"
      BY <1>2 DEF Status, Window
    <2> QED BY <2>1
  <1>3. CASE d <= Window(hp) /\ tab[i] = Empty
    <2>1. ~(d > Window(hp))
      BY <1>3 DEF Window
    <2>2. Status(tab, k, i, d, hp) = "not_occupied"
      BY <1>3, <2>1 DEF Status
    <2> QED BY <1>3, <2>2
  <1>4. CASE d <= Window(hp) /\ tab[i] # Empty
    <2>1. ~(d > Window(hp))
      BY <1>4 DEF Window
    <2>2. Status(tab, k, i, d, hp) = IF tab[i].dist < d THEN "less_dist"
                                     ELSE IF tab[i].key = k THEN "equal" ELSE "next"
      BY <1>4, <2>1 DEF Status
    <2> QED BY <1>4, <2>2
  <1> QED BY <1>1, <1>2, <1>3, <1>4

LEMMA UnderFacts ==
    ASSUME RHInv, NEW t \in Threads, pc[t] \in Under
    PROVE  /\ walk[t].own = HomeBucket(t)..walk[t].bucket /\ HomeBucket(t) <= walk[t].bucket
           /\ HomeBucket(t) \in Nat /\ walk[t].bucket \in walk[t].own /\ pc[t] # "idle"
           /\ walk[t].bucket \in BucketIds
           /\ \A i \in SlotsOf(walk[t].bucket) : /\ i \in DOMAIN table /\ i \in Nat
                                                  /\ BucketOf(i) = walk[t].bucket
  <1> DEFINE b == walk[t].bucket
             h == HomeBucket(t)
  <1>1. pc[t] # "idle"
    BY DEF Under
  <1>2. walk[t].own = h..b /\ h <= b
    BY DEF RHInv, OwnOK
  <1>3. h \in Nat /\ b \in Nat /\ walk[t].own \subseteq BucketIds
    BY <1>1, CallFacts, WalkFacts
  <1>4. b \in walk[t].own /\ b \in BucketIds
    <2> HIDE DEF b, h
    <2> QED BY <1>2, <1>3
  <1>5. \A i \in SlotsOf(b) : i \in DOMAIN table /\ i \in Nat /\ BucketOf(i) = b
    <2>1. \A i \in SlotsOf(b) : i \in DOMAIN table /\ i \in Nat
      BY <1>4, Basics
    <2>2. \A i \in SlotsOf(b) : BucketOf(i) = b
      <3>1. Slots \in Nat \ {0} /\ b \in Int
        BY <1>3 DEF RHInv, SizesOK
      <3> HIDE DEF b
      <3> QED BY <3>1, SlotFacts
    <2> QED BY <2>1, <2>2
  <1> QED BY <1>1, <1>2, <1>3, <1>4, <1>5

\* A walk stays where it is, or goes on to the next bucket.
LEMMA StayUnder ==
    ASSUME RHInv, NEW t \in Threads, pc[t] \in Under, NEW w \in WalkRecords, NEW l \in Under,
           w.own = walk[t].own, w.bucket = walk[t].bucket, w.seen = walk[t].seen, Local(t, w, l)
    PROVE  /\ OwnOK(t)' /\ HomeOf(t)' = HomeOf(t) /\ walk'[t] = w /\ pc'[t] = l
           /\ l \in Labels \ {"idle"} /\ 2^w.seen \in Nat \ {0} /\ Call(t)' = Call(t)
  <1>1. walk'[t] = w /\ pc'[t] = l /\ todo' = todo
    BY DEF Local, RHInv, Typed
  <1>2. HomeOf(t)' = HomeOf(t) /\ HomeBucket(t)' = HomeBucket(t) /\ Call(t)' = Call(t)
    BY <1>1 DEF HomeBucket, HomeOf, Key, Call
  <1>3. OwnOK(t)'
    <2>1. Call(t).op # "find"
      BY DEF RHInv, OwnOK
    <2> QED BY <1>1, <1>2, <2>1, UnderFacts, LabelFacts DEF OwnOK, Under
  <1>4. l \in Labels \ {"idle"} /\ 2^w.seen \in Nat \ {0}
    BY WalkFacts, LabelFacts
  <1> QED BY <1>1, <1>2, <1>3, <1>4

LEMMA GoOn ==
    ASSUME RHInv, NEW t \in Threads, pc[t] \in Under, NEW w \in WalkRecords,
           w.own = walk[t].own, w.bucket = walk[t].bucket + 1, w.seen = walk[t].seen,
           w.go \in {"probe", "less_dist", "shift"}, Local(t, w, "lock_next")
    PROVE  /\ OwnOK(t)' /\ HomeOf(t)' = HomeOf(t) /\ walk'[t] = w /\ pc'[t] = "lock_next"
           /\ "lock_next" \in Labels \ {"idle"} /\ 2^w.seen \in Nat \ {0}
  <1>1. walk'[t] = w /\ pc'[t] = "lock_next" /\ todo' = todo
    BY DEF Local, RHInv, Typed
  <1>2. HomeOf(t)' = HomeOf(t) /\ HomeBucket(t)' = HomeBucket(t)
    BY <1>1 DEF HomeBucket, HomeOf, Key, Call
  <1>3. w.bucket - 1 = walk[t].bucket
    BY WalkFacts
  <1>4. OwnOK(t)'
    <2>1. Call(t)' = Call(t) /\ Call(t).op # "find"
      BY <1>1 DEF RHInv, OwnOK, Call
    <2> QED BY <1>1, <1>2, <1>3, <2>1, UnderFacts, LabelFacts DEF OwnOK, Under, Outside
  <1>5. "lock_next" \in Labels \ {"idle"} /\ 2^w.seen \in Nat \ {0}
    BY WalkFacts, LabelFacts
  <1> QED BY <1>1, <1>2, <1>4, <1>5

LEMMA ProbeInv ==
    ASSUME RHInv, NEW t \in Threads, Probe(t)
    PROVE  RHInv'
  <1> DEFINE b == walk[t].bucket
             status(i) == Status(table, Key(t), i, i - HomeOf(t), walk[t].seen)
             stops == {i \in SlotsOf(b) : i >= HomeOf(t) /\ status(i) # "next"}
  <1>1. /\ pc[t] = "probe" /\ pc[t] \in Under /\ pc[t] # "idle"
        /\ UNCHANGED <<hp_, table, locks, todo>>
    BY DEF Probe, shared, Under
  <1>2. /\ walk[t] \in WalkRecords /\ b \in Nat /\ walk[t].seen \in Nat
        /\ HomeOf(t) \in Nat
    BY <1>1, WalkFacts, CallFacts
  <1>3. CASE stops # {}
    <2> DEFINE m == Min(stops)
               w == [walk[t] EXCEPT !.pos = m]
               l == status(m)
    <2>1. stops \in SUBSET Nat
      BY <1>1, UnderFacts
    <2>2. m \in stops
      <3> HIDE DEF stops
      <3> QED BY <1>3, <2>1, MinIsLeast
    <2>3. m \in SlotsOf(b) /\ m >= HomeOf(t) /\ l # "next" /\ m \in Nat
      BY <2>1, <2>2
    <2>4. walk' = [walk EXCEPT ![t] = w] /\ pc' = [pc EXCEPT ![t] = l]
      BY <1>3 DEF Probe, Goto
    <2> HIDE DEF m, stops
    <2>5. /\ l \in {"out_of_window", "not_occupied", "less_dist", "equal"}
          /\ l = "equal" => table[m] # Empty
          /\ l = "not_occupied" => table[m] = Empty
      <3>1. m - HomeOf(t) \in Int
        BY <1>2, <2>3
      <3> QED BY <1>2, <2>3, <3>1, StatusCases
    <2> HIDE DEF l
    <2>6. /\ w \in WalkRecords /\ w.own = walk[t].own /\ w.bucket = b /\ w.seen = walk[t].seen
          /\ w.pos = m
      BY <1>2, <2>3 DEF WalkRecords
    <2> HIDE DEF w
    <2>7. l \in Under
      BY <2>5 DEF Under
    <2>8. Local(t, w, l)
      BY <1>1, <2>4 DEF Local
    <2>9. /\ OwnOK(t)' /\ HomeOf(t)' = HomeOf(t) /\ walk'[t] = w /\ pc'[t] = l
          /\ l \in Labels \ {"idle"} /\ 2^w.seen \in Nat \ {0}
      BY <1>1, <2>6, <2>7, <2>8, StayUnder
    <2>10. SlotsOK(t)'
      <3>1. BucketOf(m) = b
        BY <1>1, <2>3, UnderFacts
      <3>2. /\ table' = table /\ walk'[t].pos = m /\ walk'[t].bucket = b
            /\ pc'[t] = l /\ HomeOf(t)' = HomeOf(t) /\ HomeOf(t) <= m /\ b <= b
        BY <1>1, <1>2, <2>3, <2>6, <2>9
      <3> QED BY <2>3, <2>5, <3>1, <3>2 DEF SlotsOK, Heading
    <2> QED BY <1>1, <2>6, <2>8, <2>9, <2>10, QuietStep
  <1>4. CASE stops = {} /\ First(b + 1) - HomeOf(t) > WindowOf(t)
    <2>1. pc' = [pc EXCEPT ![t] = "out_of_window"] /\ walk' = walk
      BY <1>4 DEF Probe, Goto
    <2>2. walk' = [walk EXCEPT ![t] = walk[t]]
      BY <2>1 DEF RHInv, Typed
    <2>3. "out_of_window" \in Under
      BY DEF Under
    <2>4. Local(t, walk[t], "out_of_window")
      BY <1>1, <2>1, <2>2 DEF Local
    <2>5. /\ OwnOK(t)' /\ pc'[t] = "out_of_window"
          /\ "out_of_window" \in Labels \ {"idle"} /\ 2^walk[t].seen \in Nat \ {0}
      BY <1>1, <1>2, <2>3, <2>4, StayUnder
    <2>6. SlotsOK(t)'
      BY <2>5 DEF SlotsOK, Heading
    <2> QED BY <1>1, <1>2, <2>4, <2>5, <2>6, QuietStep
  <1>5. CASE stops = {} /\ ~(First(b + 1) - HomeOf(t) > WindowOf(t))
    <2> DEFINE w == [walk[t] EXCEPT !.bucket = @ + 1, !.go = "probe"]
    <2>1. pc' = [pc EXCEPT ![t] = "lock_next"] /\ walk' = [walk EXCEPT ![t] = w]
      BY <1>5 DEF Probe, ToNextBucket, Goto
    <2>2. /\ w \in WalkRecords /\ w.own = walk[t].own /\ w.bucket = b + 1 /\ w.seen = walk[t].seen
          /\ w.go = "probe"
      <3>1. b + 1 \in Nat /\ "probe" \in Labels
        BY <1>2 DEF Labels, Under
      <3> QED BY <1>2, <3>1 DEF WalkRecords
    <2> HIDE DEF w
    <2>3. Local(t, w, "lock_next")
      BY <1>1, <2>1 DEF Local
    <2>4. /\ OwnOK(t)' /\ walk'[t] = w /\ pc'[t] = "lock_next"
          /\ "lock_next" \in Labels \ {"idle"} /\ 2^w.seen \in Nat \ {0}
      BY <1>1, <2>2, <2>3, GoOn
    <2>5. SlotsOK(t)'
      BY <2>2, <2>4 DEF SlotsOK, Heading
    <2> QED BY <1>1, <2>2, <2>3, <2>4, <2>5, QuietStep
  <1> QED BY <1>3, <1>4, <1>5

LEMMA FindPathInv ==
    ASSUME RHInv, NEW t \in Threads, FindPath(t)
    PROVE  RHInv'
  <1> DEFINE b == walk[t].bucket
             p == walk[t].pos
             room == \E j \in SlotsOf(b) : j > p /\ j - HomeOf(t) <= WindowOf(t) /\ table[j] = Empty
  <1>1. /\ pc[t] = "less_dist" /\ pc[t] \in Under /\ pc[t] # "idle" /\ Call(t).op \in Inserts
        /\ UNCHANGED <<hp_, table, locks, todo>>
    BY DEF FindPath, shared, Under
  <1>2. walk[t] \in WalkRecords /\ b \in Nat /\ p \in Nat /\ HomeOf(t) \in Nat
    BY <1>1, WalkFacts, CallFacts
  <1>3. HomeOf(t) <= p /\ BucketOf(p) <= b /\ BucketOf(p) \in Nat
    BY <1>1, <1>2, SlotFacts DEF RHInv, SizesOK, SlotsOK, Heading
  <1>4. CASE room
    <2>1. pc' = [pc EXCEPT ![t] = "move_path"] /\ walk' = walk
      BY <1>4 DEF FindPath, Goto
    <2>2. walk' = [walk EXCEPT ![t] = walk[t]]
      BY <2>1 DEF RHInv, Typed
    <2>3. "move_path" \in Under
      BY DEF Under
    <2>4. Local(t, walk[t], "move_path")
      BY <1>1, <2>1, <2>2 DEF Local
    <2>5. /\ OwnOK(t)' /\ pc'[t] = "move_path" /\ HomeOf(t)' = HomeOf(t) /\ walk'[t] = walk[t]
          /\ "move_path" \in Labels \ {"idle"} /\ 2^walk[t].seen \in Nat \ {0} /\ Call(t)' = Call(t)
      BY <1>1, <1>2, <2>3, <2>4, StayUnder
    <2>6. \E j \in SlotsOf(b) : j > p /\ table[j] = Empty
      BY <1>4
    <2>7. SlotsOK(t)'
      BY <1>1, <1>3, <2>5, <2>6 DEF SlotsOK, Heading
    <2> QED BY <1>1, <1>2, <2>4, <2>5, <2>7, QuietStep
  <1>5. CASE ~room /\ First(b + 1) - HomeOf(t) > WindowOf(t)
    <2>1. pc' = [pc EXCEPT ![t] = "out_of_window"] /\ walk' = walk
      BY <1>5 DEF FindPath, Goto
    <2>2. walk' = [walk EXCEPT ![t] = walk[t]]
      BY <2>1 DEF RHInv, Typed
    <2>3. "out_of_window" \in Under
      BY DEF Under
    <2>4. Local(t, walk[t], "out_of_window")
      BY <1>1, <2>1, <2>2 DEF Local
    <2>5. /\ OwnOK(t)' /\ pc'[t] = "out_of_window"
          /\ "out_of_window" \in Labels \ {"idle"} /\ 2^walk[t].seen \in Nat \ {0}
      BY <1>1, <1>2, <2>3, <2>4, StayUnder
    <2>6. SlotsOK(t)'
      BY <2>5 DEF SlotsOK, Heading
    <2> QED BY <1>1, <1>2, <2>4, <2>5, <2>6, QuietStep
  <1>6. CASE ~room /\ ~(First(b + 1) - HomeOf(t) > WindowOf(t))
    <2> DEFINE w == [walk[t] EXCEPT !.bucket = @ + 1, !.go = "less_dist"]
    <2>1. pc' = [pc EXCEPT ![t] = "lock_next"] /\ walk' = [walk EXCEPT ![t] = w]
      BY <1>6 DEF FindPath, ToNextBucket, Goto
    <2>2. /\ w \in WalkRecords /\ w.own = walk[t].own /\ w.bucket = b + 1 /\ w.seen = walk[t].seen
          /\ w.go = "less_dist" /\ w.pos = p
      <3>1. b + 1 \in Nat /\ "less_dist" \in Labels
        BY <1>2 DEF Labels, Under
      <3> QED BY <1>2, <3>1 DEF WalkRecords
    <2> HIDE DEF w
    <2>3. Local(t, w, "lock_next")
      BY <1>1, <2>1 DEF Local
    <2>4. /\ OwnOK(t)' /\ walk'[t] = w /\ pc'[t] = "lock_next" /\ HomeOf(t)' = HomeOf(t)
          /\ "lock_next" \in Labels \ {"idle"} /\ 2^w.seen \in Nat \ {0}
      BY <1>1, <2>2, <2>3, GoOn
    <2>5. BucketOf(p) <= b + 1
      BY <1>2, <1>3
    <2>6. SlotsOK(t)'
      BY <1>3, <2>2, <2>4, <2>5 DEF SlotsOK, Heading
    <2> QED BY <1>1, <2>2, <2>3, <2>4, <2>6, QuietStep
  <1> QED BY <1>4, <1>5, <1>6

-----------------------------------------------------------------------------
\* The operations that answer, and those that start over.
LEMMA ReleaseStarted ==
    ASSUME RHInv, NEW t \in Threads, pc[t] # "idle", NEW g \in {"start", "return", "lock_all"},
           StartRelease(t, g), UNCHANGED <<shared, todo>>
    PROVE  RHInv'
  <1> DEFINE w == [walk[t] EXCEPT !.go = g]
  <1>1. walk[t] \in WalkRecords /\ 2^walk[t].seen \in Nat \ {0}
    BY WalkFacts
  <1>2. walk' = [walk EXCEPT ![t] = w] /\ pc' = [pc EXCEPT ![t] = "release"]
    BY DEF StartRelease, Goto
  <1>3. w \in WalkRecords /\ w.own = walk[t].own /\ w.seen = walk[t].seen /\ w.go = g
    <2>1. g \in Labels
      BY DEF Labels, Outside
    <2> QED BY <1>1, <2>1 DEF WalkRecords
  <1> HIDE DEF w
  <1>4. Local(t, w, "release") /\ UNCHANGED <<table, locks>>
    BY <1>2 DEF Local, shared
  <1> QED BY <1>1, <1>3, <1>4, GiveUpInv

LEMMA Answered ==
    ASSUME RHInv, NEW t \in Threads, pc[t] # "idle", NEW a \in BOOLEAN, Answer(t, a),
           hp_' = hp_, todo' = todo, OnlyOwned(t), LocksKept, Match'
    PROVE  RHInv'
  <1> DEFINE w == [walk[t] EXCEPT !.go = "return", !.answer = a]
  <1>1. walk[t] \in WalkRecords /\ 2^walk[t].seen \in Nat \ {0}
    BY WalkFacts
  <1>2. walk' = [walk EXCEPT ![t] = w] /\ pc' = [pc EXCEPT ![t] = "release"]
    BY DEF Answer, Goto
  <1>3. w \in WalkRecords /\ w.own = walk[t].own /\ w.seen = walk[t].seen /\ w.go = "return"
    <2>1. "return" \in Labels
      BY DEF Labels, Outside
    <2> QED BY <1>1, <2>1 DEF WalkRecords
  <1> HIDE DEF w
  <1>4. Local(t, w, "release") /\ "release" \in Labels \ {"idle"}
    BY <1>2 DEF Local, Labels
  <1>5. walk'[t] = w /\ pc'[t] = "release"
    BY <1>2 DEF RHInv, Typed
  <1>6. OwnOK(t)' /\ SlotsOK(t)'
    BY <1>3, <1>5, OutsideKnowsNothing DEF OwnOK, Outside, Under
  <1> QED BY <1>1, <1>3, <1>4, <1>6, SlotsChanged

\* The counter of a bucket is set.
LEMMA CountSet ==
    ASSUME RHInv, NEW b \in BucketIds, NEW n \in Int, locks' = [locks EXCEPT ![b].count = n]
    PROVE  LocksKept /\ locks'[b].count = n /\ \A c \in BucketIds \ {b} : locks'[c] = locks[c]
  <1>1. locks \in [BucketIds -> LockRecords]
    BY DEF RHInv, Typed, BucketIds
  <1>2. /\ locks' \in [BucketIds -> LockRecords] /\ locks'[b].count = n
        /\ locks'[b].flag = locks[b].flag /\ locks'[b].epoch = locks[b].epoch
        /\ \A c \in BucketIds \ {b} : locks'[c] = locks[c]
    BY <1>1 DEF LockRecords
  <1> QED BY <1>2 DEF LocksKept

LEMMA MatchAfter ==
    ASSUME RHInv, NEW b \in BucketIds, LocksKept, table' \in Tables(2^hp_),
           \A c \in BucketIds \ {b} : locks'[c].count = locks[c].count,
           \A i \in DOMAIN table : BucketOf(i) # b => (table'[i] = Empty <=> table[i] = Empty),
           locks'[b].count = Cardinality(Occupied(table', b))
    PROVE  Match'
  <1>1. BucketIds' = BucketIds
    BY DEF LocksKept, BucketIds
  <1>2. ASSUME NEW c \in BucketIds \ {b}
        PROVE  Occupied(table', c) = Occupied(table, c)
    <2>1. \A i \in SlotsOf(c) : i \in DOMAIN table /\ BucketOf(i) = c
      <3>1. \A i \in SlotsOf(c) : i \in DOMAIN table
        BY Basics
      <3>2. Slots \in Nat \ {0} /\ c \in Int
        BY Basics DEF RHInv, SizesOK
      <3> QED BY <3>1, <3>2, SlotFacts
    <2> QED BY <2>1, CountSame
  <1>3. \A c \in BucketIds : locks'[c].count = Cardinality(Occupied(table', c))
    BY <1>2 DEF RHInv, Match
  <1> QED BY <1>1, <1>3 DEF Match, Occupied

\* An entry goes to a free slot, or from its slot, in one bucket that is owned.
LEMMA CountedIn ==
    ASSUME RHInv, NEW t \in Threads, NEW b \in walk[t].own, NEW x \in SlotsOf(b),
           table' \in Tables(2^hp_), table[x] = Empty, table'[x] # Empty,
           \A i \in DOMAIN table \ {x} : table'[i] = Empty <=> table[i] = Empty,
           locks' = [locks EXCEPT ![b].count = @ + 1]
    PROVE  LocksKept /\ Match'
  <1>1. b \in BucketIds /\ b \in Int /\ Slots \in Nat \ {0} /\ locks[b].count \in Int
    BY Basics, SMTT(60) DEF RHInv, LocksOK, SizesOK, LockRecords
  <1>2. LocksKept /\ locks'[b].count = locks[b].count + 1 /\ \A c \in BucketIds \ {b} : locks'[c] = locks[c]
    <2>1. locks[b].count + 1 \in Int
      BY <1>1
    <2> QED BY <1>1, <2>1, CountSet
  <1>3. BucketOf(x) = b /\ \A i \in SlotsOf(b) : i \in DOMAIN table
    BY <1>1, Basics, SlotFacts
  <1>4. Cardinality(Occupied(table', b)) = Cardinality(Occupied(table, b)) + 1
    BY <1>1, <1>3, CountOneMore
  <1>5. locks[b].count = Cardinality(Occupied(table, b))
    BY <1>1 DEF RHInv, Match
  <1> QED BY <1>1, <1>2, <1>3, <1>4, <1>5, MatchAfter

LEMMA CountedOut ==
    ASSUME RHInv, NEW t \in Threads, NEW b \in walk[t].own, NEW x \in SlotsOf(b),
           table' \in Tables(2^hp_), table[x] # Empty, table'[x] = Empty,
           \A i \in DOMAIN table \ {x} : table'[i] = Empty <=> table[i] = Empty,
           locks' = [locks EXCEPT ![b].count = @ - 1]
    PROVE  LocksKept /\ Match'
  <1>1. b \in BucketIds /\ b \in Int /\ Slots \in Nat \ {0} /\ locks[b].count \in Int
    BY Basics DEF RHInv, LocksOK, SizesOK, LockRecords
  <1>2. LocksKept /\ locks'[b].count = locks[b].count - 1 /\ \A c \in BucketIds \ {b} : locks'[c] = locks[c]
    <2>1. locks[b].count - 1 \in Int
      BY <1>1
    <2> QED BY <1>1, <2>1, CountSet
  <1>3. BucketOf(x) = b /\ \A i \in SlotsOf(b) : i \in DOMAIN table
    BY <1>1, Basics, SlotFacts
  <1>4. Cardinality(Occupied(table', b)) = Cardinality(Occupied(table, b)) - 1
    BY <1>1, <1>3, CountOneLess
  <1>5. locks[b].count = Cardinality(Occupied(table, b))
    BY <1>1 DEF RHInv, Match
  <1> QED BY <1>1, <1>2, <1>3, <1>4, <1>5, MatchAfter

LEMMA NotFoundInv ==
    ASSUME RHInv, NEW t \in Threads, NotFound(t)
    PROVE  RHInv'
  <1>1. /\ pc[t] # "idle" /\ Answer(t, FALSE) /\ UNCHANGED <<hp_, table, locks, todo>>
    BY DEF NotFound, shared
  <1>2. OnlyOwned(t) /\ LocksKept /\ Match'
    BY <1>1 DEF RHInv, Typed, Match, BucketIds, Occupied, OnlyOwned, LocksKept
  <1> QED BY <1>1, <1>2, Answered

LEMMA RehashRequiredInv ==
    ASSUME RHInv, NEW t \in Threads, RehashRequired(t)
    PROVE  RHInv'
  BY ReleaseStarted DEF RehashRequired

LEMMA DoubleRacedInv ==
    ASSUME RHInv, NEW t \in Threads, DoubleRaced(t)
    PROVE  RHInv'
  BY ReleaseStarted DEF DoubleRaced

LEMMA DoubledInv ==
    ASSUME RHInv, NEW t \in Threads, Doubled(t)
    PROVE  RHInv'
  BY ReleaseStarted DEF Doubled

\* The slot of an entry that is found.
LEMMA EqualFacts ==
    ASSUME RHInv, NEW t \in Threads, pc[t] \in {"equal", "not_occupied"}
    PROVE  /\ walk[t].pos \in DOMAIN table /\ walk[t].pos \in SlotsOf(walk[t].bucket)
           /\ BucketOf(walk[t].pos) = walk[t].bucket /\ walk[t].bucket \in walk[t].own
           /\ HomeOf(t) <= walk[t].pos /\ HomeOf(t) \in Nat /\ pc[t] # "idle" /\ pc[t] \in Under
           /\ pc[t] = "equal" => table[walk[t].pos] \in EntryRecords
           /\ pc[t] = "not_occupied" => table[walk[t].pos] = Empty
  <1>1. pc[t] \in Under
    BY DEF Under
  <1>2. /\ walk[t].pos \in SlotsOf(walk[t].bucket) /\ HomeOf(t) <= walk[t].pos
        /\ pc[t] = "equal" => table[walk[t].pos] # Empty
        /\ pc[t] = "not_occupied" => table[walk[t].pos] = Empty
    BY DEF RHInv, SlotsOK
  <1>3. /\ walk[t].pos \in DOMAIN table /\ BucketOf(walk[t].pos) = walk[t].bucket
        /\ walk[t].bucket \in walk[t].own /\ pc[t] # "idle"
    BY <1>1, <1>2, UnderFacts
  <1>4. table[walk[t].pos] \in EntryRecords \cup {Empty} /\ HomeOf(t) \in Nat
    BY <1>3, Basics, CallFacts
  <1> QED BY <1>1, <1>2, <1>3, <1>4

LEMMA FoundInv ==
    ASSUME RHInv, NEW t \in Threads, Found(t)
    PROVE  RHInv'
  <1> DEFINE p == walk[t].pos
             b == walk[t].bucket
             v == Call(t).val
  <1>1. /\ pc[t] = "equal" /\ pc[t] # "idle" /\ Call(t).op # "erase"
        /\ Answer(t, Call(t).op = "update") /\ UNCHANGED <<hp_, locks, todo>>
    BY DEF Found
  <1>2. /\ p \in DOMAIN table /\ BucketOf(p) = b /\ b \in walk[t].own /\ table[p] \in EntryRecords
    BY <1>1, EqualFacts
  <1>3. table \in Tables(2^hp_) /\ LocksKept
    BY <1>1 DEF RHInv, Typed, LocksKept, BucketIds
  <1>4. OnlyOwned(t) /\ \A i \in DOMAIN table : table'[i] = Empty <=> table[i] = Empty
    <2>1. CASE Call(t).op = "insert"
      <3>1. table' = table
        BY <2>1 DEF Found
      <3> QED BY <1>3, <3>1 DEF OnlyOwned
    <2>2. CASE Call(t).op # "insert"
      <3> DEFINE e == [table[p] EXCEPT !.val = v]
      <3>1. table' = [table EXCEPT ![p] = e]
        BY <2>2 DEF Found
      <3>2. v \in Vals
        <4>1. Call(t).op # "find"
          BY <1>1 DEF RHInv, OwnOK, Under
        <4> QED BY <1>1, <4>1, CallFacts
      <3>3. e \in EntryRecords
        BY <1>2, <3>2 DEF EntryRecords
      <3>4. e # Empty /\ table[p] # Empty
        BY <1>2, <3>3, RobinHoodAssumption
      <3> HIDE DEF e
      <3>5. table' \in Tables(2^hp_)
        BY <1>3, <3>1, <3>3 DEF Tables
      <3>6. \A i \in DOMAIN table : table'[i] = IF i = p THEN e ELSE table[i]
        BY <1>2, <1>3, <3>1 DEF Tables
      <3> QED BY <1>2, <3>4, <3>5, <3>6 DEF OnlyOwned
    <2> QED BY <2>1, <2>2
  <1>5. Match'
    <2>1. b \in BucketIds /\ locks' = locks
      BY <1>1, <1>2 DEF RHInv, LocksOK
    <2>2. \A i \in SlotsOf(b) : table'[i] = Empty <=> table[i] = Empty
      BY <1>4, <2>1, Basics
    <2>3. locks'[b].count = Cardinality(Occupied(table', b))
      BY <2>1, <2>2, CountSame DEF RHInv, Match
    <2> QED BY <1>3, <1>4, <2>1, <2>3, MatchAfter DEF OnlyOwned
  <1>6. (Call(t).op = "update") \in BOOLEAN
    OBVIOUS
  <1> QED BY <1>1, <1>3, <1>4, <1>5, <1>6, Answered

LEMMA NewEntry ==
    ASSUME RHInv, NEW t \in Threads, pc[t] # "idle", Call(t).op \in Inserts,
           NEW i \in Nat, HomeOf(t) <= i
    PROVE  /\ Entry(Key(t), Call(t).val, i - HomeOf(t)) \in EntryRecords
           /\ Entry(Key(t), Call(t).val, i - HomeOf(t)) # Empty
  <1>1. Key(t) \in Keys /\ Call(t).val \in Vals /\ i - HomeOf(t) \in Nat
    <2>1. Call(t).op \notin {"find", "erase"}
      BY DEF Inserts
    <2> QED BY <2>1, CallFacts
  <1> QED BY <1>1, RobinHoodAssumption DEF Entry, EntryRecords

LEMMA AddInv ==
    ASSUME RHInv, NEW t \in Threads, Add(t)
    PROVE  RHInv'
  <1> DEFINE p == walk[t].pos
             b == walk[t].bucket
             e == Entry(Key(t), Call(t).val, p - HomeOf(t))
  <1>1. /\ pc[t] = "not_occupied" /\ pc[t] # "idle" /\ Call(t).op \in Inserts
        /\ Answer(t, TRUE) /\ UNCHANGED <<hp_, todo>>
        /\ table' = [table EXCEPT ![p] = e]
        /\ locks' = [locks EXCEPT ![b].count = @ + 1]
    BY DEF Add
  <1>2. /\ p \in DOMAIN table /\ p \in SlotsOf(b) /\ BucketOf(p) = b /\ b \in walk[t].own
        /\ table[p] = Empty /\ HomeOf(t) <= p /\ p \in Nat
    BY <1>1, EqualFacts, WalkFacts
  <1>3. e \in EntryRecords /\ e # Empty
    BY <1>1, <1>2, NewEntry
  <1> HIDE DEF e
  <1>4. table \in Tables(2^hp_)
    BY DEF RHInv, Typed
  <1>5. table' \in Tables(2^hp_) /\ \A i \in DOMAIN table : table'[i] = IF i = p THEN e ELSE table[i]
    BY <1>1, <1>2, <1>3, <1>4 DEF Tables
  <1>6. OnlyOwned(t)
    BY <1>2, <1>5 DEF OnlyOwned
  <1>7. LocksKept /\ Match'
    BY <1>1, <1>2, <1>3, <1>5, CountedIn
  <1> QED BY <1>1, <1>6, <1>7, Answered

LEMMA EraseInv ==
    ASSUME RHInv, NEW t \in Threads, Erase(t)
    PROVE  RHInv'
  <1> DEFINE p == walk[t].pos
             b == walk[t].bucket
             w == [walk[t] EXCEPT !.pos = @ + 1, !.answer = TRUE]
  <1>1. /\ pc[t] = "equal" /\ pc[t] \in Under /\ pc[t] # "idle" /\ UNCHANGED <<hp_, todo>>
        /\ table' = [table EXCEPT ![p] = Empty]
        /\ locks' = [locks EXCEPT ![b].count = @ - 1]
        /\ walk' = [walk EXCEPT ![t] = w] /\ pc' = [pc EXCEPT ![t] = "shift"]
    BY DEF Erase, Goto, Under
  <1>2. /\ p \in DOMAIN table /\ p \in SlotsOf(b) /\ BucketOf(p) = b /\ b \in walk[t].own
        /\ table[p] \in EntryRecords /\ HomeOf(t) <= p /\ HomeOf(t) \in Nat /\ p \in Nat
    BY <1>1, EqualFacts, WalkFacts
  <1>3. table[p] # Empty
    BY <1>2, RobinHoodAssumption
  <1>4. table \in Tables(2^hp_)
    BY DEF RHInv, Typed
  <1>5. table' \in Tables(2^hp_) /\ \A i \in DOMAIN table : table'[i] = IF i = p THEN Empty ELSE table[i]
    BY <1>1, <1>2, <1>4 DEF Tables
  <1>6. OnlyOwned(t)
    BY <1>2, <1>5 DEF OnlyOwned
  <1>7. LocksKept /\ Match'
    BY <1>1, <1>2, <1>3, <1>5, CountedOut, ZenonT(60)
  <1>8. /\ w \in WalkRecords /\ w.own = walk[t].own /\ w.bucket = b /\ w.seen = walk[t].seen
        /\ w.pos = p + 1
    <2>1. p + 1 \in Nat /\ walk[t] \in WalkRecords
      BY <1>2, WalkFacts
    <2> QED BY <2>1 DEF WalkRecords
  <1> HIDE DEF w
  <1>9. Local(t, w, "shift") /\ "shift" \in Under
    BY <1>1 DEF Local, Under
  <1>10. /\ OwnOK(t)' /\ HomeOf(t)' = HomeOf(t) /\ walk'[t] = w /\ pc'[t] = "shift"
         /\ "shift" \in Labels \ {"idle"} /\ 2^w.seen \in Nat \ {0}
    BY <1>1, <1>8, <1>9, StayUnder
  <1>11. SlotsOK(t)'
    <2>1. First(b) <= p /\ p < First(b + 1) /\ First(b) \in Int /\ First(b + 1) \in Int
      <3>1. b \in Int /\ b + 1 \in Int /\ p \in Int /\ Slots \in Nat \ {0}
        BY <1>2, WalkFacts DEF RHInv, SizesOK
      <3> HIDE DEF b
      <3> QED BY <1>2, <3>1, SlotFacts
    <2>2. table'[w.pos - 1] = Empty
      <3>1. w.pos - 1 = p
        BY <1>2, <1>8
      <3> QED BY <1>2, <1>5, <3>1
    <2>3. HomeOf(t) < w.pos /\ First(b) <= w.pos /\ w.pos <= First(b + 1)
      BY <1>2, <1>8, <2>1
    <2> QED BY <1>8, <1>10, <2>2, <2>3 DEF SlotsOK, Heading
  <1> QED BY <1>1, <1>6, <1>7, <1>8, <1>9, <1>10, <1>11, SlotsChanged

LEMMA MovePathInv ==
    ASSUME RHInv, NEW t \in Threads, MovePath(t)
    PROVE  RHInv'
  <1> DEFINE p == walk[t].pos
             b == walk[t].bucket
             e == Entry(Key(t), Call(t).val, p - HomeOf(t))
             f == FreeFrom(table, p)
             c == BucketOf(f)
             n == 2^hp_
  <1>1. /\ pc[t] = "move_path" /\ pc[t] \in Under /\ pc[t] # "idle"
        /\ Answer(t, TRUE) /\ UNCHANGED <<hp_, todo>>
        /\ table' = Put(table, p, e)
        /\ locks' = [locks EXCEPT ![c].count = @ + 1]
    BY DEF MovePath, Under
  <1>2. /\ Call(t).op \in Inserts /\ HomeOf(t) <= p /\ p \in Nat /\ HomeOf(t) \in Nat
        /\ \E j \in SlotsOf(b) : j > p /\ table[j] = Empty
    BY <1>1, WalkFacts, CallFacts DEF RHInv, SlotsOK
  <1>3. e \in EntryRecords
    BY <1>1, <1>2, NewEntry
  <1>4. table \in Tables(n) /\ n \in Nat /\ DOMAIN table = 0..n - 1 /\ Slots \in Nat \ {0}
    BY Basics DEF RHInv, Typed, SizesOK
  <1> HIDE DEF e, n, f
  <1>5. PICK j \in SlotsOf(b) : j > p /\ table[j] = Empty
    BY <1>2
  <1>6. j \in DOMAIN table /\ j \in Nat /\ BucketOf(j) = b
    BY <1>1, UnderFacts
  <1>7. f <= j /\ f \in 0..n
    BY <1>2, <1>4, <1>5, <1>6, FreeFromFacts DEF f
  <1>8. f \in DOMAIN table /\ f \in Nat /\ p <= f /\ table[f] = Empty
    <2>1. f # n
      BY <1>4, <1>6, <1>7
    <2>2. p <= f /\ table[f] = Empty
      BY <1>2, <1>4, <2>1, FreeFromFacts DEF f
    <2> QED BY <1>4, <1>7, <2>1, <2>2
  <1>9. c \in walk[t].own /\ f \in SlotsOf(c)
    <2>1. HomeBucket(t) <= c /\ c <= b /\ c \in Nat
      <3>1. BucketOf(HomeOf(t)) <= BucketOf(f)
        <4>1. HomeOf(t) <= f
          BY <1>2, <1>8
        <4> QED BY <1>2, <1>4, <1>8, <4>1, BucketsRise
      <3>2. BucketOf(f) <= BucketOf(j)
        BY <1>4, <1>6, <1>7, <1>8, BucketsRise
      <3>3. BucketOf(f) \in Nat
        BY <1>4, <1>8, SlotFacts
      <3> QED BY <1>6, <3>1, <3>2, <3>3 DEF HomeBucket
    <2>2. walk[t].own = HomeBucket(t)..b /\ HomeBucket(t) \in Nat /\ b \in Nat
      BY <1>1, UnderFacts, WalkFacts
    <2>3. f \in SlotsOf(c)
      BY <1>4, <1>8, SlotFacts
    <2> HIDE DEF b, c
    <2> QED BY <2>1, <2>2, <2>3
  <1>10. /\ table' \in Tables(n)
         /\ \A i \in DOMAIN table : i \notin p..f => table'[i] = table[i]
         /\ \A i \in DOMAIN table : table'[i] = Empty <=> table[i] = Empty /\ ~(i = f /\ p <= i)
    BY <1>1, <1>2, <1>3, <1>4, PutFacts DEF f
  <1>11. OnlyOwned(t)
    <2>1. ASSUME NEW i \in DOMAIN table, BucketOf(i) \notin walk[t].own
          PROVE  table'[i] = table[i]
      <3>1. CASE i \in p..f
        <4>1. HomeOf(t) <= i /\ i <= j /\ i \in Nat
          BY <1>2, <1>4, <1>6, <1>7, <1>8, <3>1
        <4>2. HomeBucket(t) <= BucketOf(i) /\ BucketOf(i) <= b /\ BucketOf(i) \in Nat
          <5>1. BucketOf(HomeOf(t)) <= BucketOf(i)
            BY <1>2, <1>4, <4>1, BucketsRise
          <5>2. BucketOf(i) <= BucketOf(j)
            BY <1>4, <1>6, <4>1, BucketsRise
          <5>3. BucketOf(i) \in Nat
            BY <1>4, <4>1, SlotFacts
          <5> QED BY <1>6, <5>1, <5>2, <5>3 DEF HomeBucket
        <4>3. walk[t].own = HomeBucket(t)..b /\ HomeBucket(t) \in Nat /\ b \in Nat
          BY <1>1, UnderFacts, WalkFacts
        <4> HIDE DEF b
        <4> QED BY <2>1, <4>2, <4>3
      <3>2. CASE i \notin p..f
        BY <1>10, <3>2
      <3> QED BY <3>1, <3>2
    <2> QED BY <1>10, <2>1 DEF OnlyOwned, n
  <1>12. LocksKept /\ Match'
    <2>1. table'[f] # Empty
      BY <1>8, <1>10
    <2>2. \A i \in DOMAIN table \ {f} : table'[i] = Empty <=> table[i] = Empty
      BY <1>10
    <2>3. table' \in Tables(2^hp_)
      BY <1>10 DEF n
    <2> HIDE DEF c
    <2> QED BY <1>1, <1>8, <1>9, <2>1, <2>2, <2>3, CountedIn
  <1> QED BY <1>1, <1>11, <1>12, Answered

-----------------------------------------------------------------------------
\* The entries that shift back: each is away from home, so that all slots up
\* to the end are occupied.
LEMMA ShiftFacts ==
    ASSUME RHInv, NEW t \in Threads, pc[t] = "shift"
    PROVE  /\ walk[t].pos \in Nat /\ walk[t].bucket \in Nat /\ ShiftEnd(t) \in Nat
           /\ First(walk[t].bucket) <= walk[t].pos
           /\ walk[t].pos <= ShiftEnd(t) /\ ShiftEnd(t) <= First(walk[t].bucket + 1)
           /\ \A i \in walk[t].pos..ShiftEnd(t) - 1 :
                 /\ i \in SlotsOf(walk[t].bucket)
                 /\ table[i] \in EntryRecords /\ table[i].dist # 0
  <1> DEFINE b == walk[t].bucket
             p == walk[t].pos
             stops == {i \in SlotsOf(b) : i >= p /\ (table[i] = Empty \/ table[i].dist = 0)}
             e == ShiftEnd(t)
  <1>1. /\ p \in Nat /\ b \in Nat /\ Slots \in Nat \ {0}
        /\ First(b) <= p /\ p <= First(b + 1)
    BY WalkFacts DEF RHInv, SizesOK, SlotsOK, Heading
  <1>2. First(b) \in Nat /\ First(b + 1) \in Nat /\ \A i \in Int : i \in SlotsOf(b) <=> First(b) <= i /\ i < First(b + 1)
    <2>1. First(b) \in Nat /\ First(b + 1) = First(b) + Slots
      BY <1>1, LastSlots
    <2>2. \A i \in Int : i \in SlotsOf(b) <=> First(b) <= i /\ i < First(b + 1)
      <3>1. b \in Int
        BY <1>1
      <3> HIDE DEF b
      <3> QED BY <1>1, <3>1, SlotFacts
    <2> QED BY <1>1, <2>1, <2>2
  <1>3. stops \in SUBSET Nat
    <2>1. pc[t] \in Under
      BY DEF Under
    <2> QED BY <2>1, UnderFacts
  <1>4. e \in Nat /\ p <= e /\ e <= First(b + 1) /\ \A i \in stops : e <= i
    <2>1. CASE stops = {}
      BY <1>1, <1>2, <2>1 DEF ShiftEnd
    <2>2. CASE stops # {}
      <3>1. e = Min(stops)
        BY <2>2 DEF ShiftEnd
      <3>2. Min(stops) \in stops /\ \A i \in stops : Min(stops) <= i
        <4> HIDE DEF stops
        <4> QED BY <1>3, <2>2, MinIsLeast
      <3>3. e \in SlotsOf(b) /\ e >= p /\ e \in Nat
        BY <1>3, <3>1, <3>2
      <3>4. e < First(b + 1)
        BY <1>2, <3>3
      <3> QED BY <1>2, <3>1, <3>2, <3>3, <3>4
    <2> QED BY <2>1, <2>2
  <1>5. ASSUME NEW i \in p..e - 1
        PROVE  i \in SlotsOf(b) /\ table[i] \in EntryRecords /\ table[i].dist # 0
    <2>1. i \in Nat /\ p <= i /\ i < e
      BY <1>1, <1>4
    <2>2. i \in SlotsOf(b)
      BY <1>1, <1>2, <1>4, <2>1
    <2>3. i \notin stops
      BY <1>4, <2>1
    <2>4. table[i] # Empty /\ table[i].dist # 0
      BY <2>1, <2>2, <2>3
    <2>5. i \in DOMAIN table
      <3>1. pc[t] \in Under
        BY DEF Under
      <3> QED BY <2>2, <3>1, UnderFacts
    <2> QED BY <2>2, <2>4, <2>5, Basics
  <1> QED BY <1>1, <1>4, <1>5

\* The free slot before the entries that shift becomes the one behind them.
LEMMA ShiftDownFacts ==
    ASSUME RHInv, NEW t \in Threads, Shift(t)
    PROVE  /\ table' \in Tables(2^hp_) /\ OnlyOwned(t)
           /\ table[walk[t].pos - 1] = Empty /\ table'[ShiftEnd(t) - 1] = Empty
           /\ walk[t].pos - 1 \in DOMAIN table /\ ShiftEnd(t) - 1 \in DOMAIN table
           /\ ShiftEnd(t) = walk[t].pos => table' = table
           /\ ShiftEnd(t) # walk[t].pos =>
                 /\ table'[walk[t].pos - 1] # Empty /\ table[ShiftEnd(t) - 1] # Empty
                 /\ \A i \in DOMAIN table \ {walk[t].pos - 1, ShiftEnd(t) - 1} :
                       table'[i] = Empty <=> table[i] = Empty
  <1> DEFINE b == walk[t].bucket
             p == walk[t].pos
             e == ShiftEnd(t)
             n == 2^hp_
  <1>1. pc[t] = "shift" /\ pc[t] \in Under /\ table' = ShiftDown(table, p, e - 1)
    BY DEF Shift, Under
  <1>2. /\ p \in Nat /\ e \in Nat /\ p <= e
        /\ \A i \in p..e - 1 : /\ i \in SlotsOf(b)
                               /\ table[i] \in EntryRecords /\ table[i].dist # 0
    BY <1>1, ShiftFacts
  <1>3. /\ table[p - 1] = Empty /\ p - 1 \in DOMAIN table /\ BucketOf(p - 1) \in walk[t].own
    <2>1. Heading(t, "shift")
      BY <1>1 DEF Heading
    <2> QED BY <2>1, KnownIsOwned DEF RHInv, SlotsOK
  <1>4. \A i \in p..e - 1 : /\ i \in DOMAIN table /\ BucketOf(i) \in walk[t].own
                            /\ table[i] # Empty
    BY <1>1, <1>2, UnderFacts, RobinHoodAssumption
  <1>5. table \in Tables(n) /\ n \in Nat /\ DOMAIN table = 0..n - 1
    BY Basics DEF RHInv, Typed, SizesOK
  <1> HIDE DEF e, p, b, n
  <1>6. \A i \in DOMAIN table : table'[i] =
            IF i \in p - 1..e - 2 THEN [table[i + 1] EXCEPT !.dist = @ - 1]
            ELSE IF i = e - 1 /\ p <= e - 1 THEN Empty ELSE table[i]
    <2>1. e - 1 - 1 = e - 2
      BY <1>2
    <2> QED BY <1>1, <2>1 DEF ShiftDown
  <1>7. DOMAIN table' = DOMAIN table /\ table' = [i \in DOMAIN table |-> table'[i]]
    BY <1>1 DEF ShiftDown
  <1>8. ASSUME NEW i \in p - 1..e - 2
        PROVE  [table[i + 1] EXCEPT !.dist = @ - 1] \in EntryRecords
    <2>1. i + 1 \in p..e - 1
      BY <1>2
    <2>2. table[i + 1] \in EntryRecords /\ table[i + 1].dist # 0
      BY <1>2, <2>1
    <2>3. table[i + 1].dist - 1 \in Nat
      BY <2>2 DEF EntryRecords
    <2> QED BY <2>2, <2>3 DEF EntryRecords
  <1>9. table' \in Tables(n)
    <2>1. \A i \in DOMAIN table : table'[i] \in EntryRecords \cup {Empty}
      BY <1>5, <1>6, <1>8 DEF Tables
    <2> QED BY <1>5, <1>7, <2>1 DEF Tables
  <1>10. \A i \in DOMAIN table : i \in Nat
    BY <1>5
  <1>11. OnlyOwned(t)
    <2>1. ASSUME NEW i \in DOMAIN table, BucketOf(i) \notin walk[t].own
          PROVE  table'[i] = table[i]
      <3>1. i # p - 1 /\ i \notin p..e - 1
        BY <1>3, <1>4, <2>1
      <3>2. i \notin p - 1..e - 2 /\ ~(i = e - 1 /\ p <= e - 1)
        BY <1>2, <1>10, <3>1
      <3> QED BY <1>6, <3>2
    <2> QED BY <1>9, <2>1 DEF OnlyOwned, n
  <1>12. CASE e = p
    <2>1. ASSUME NEW i \in DOMAIN table
          PROVE  table'[i] = table[i]
      <3>1. i \notin p - 1..e - 2 /\ ~(p <= e - 1)
        BY <1>2, <1>10, <1>12
      <3> QED BY <1>6, <3>1
    <2>2. table' = table
      BY <1>5, <1>7, <2>1 DEF Tables
    <2> QED BY <1>2, <1>3, <1>9, <1>11, <1>12, <2>2 DEF p, e, n
  <1>13. CASE e # p
    <2>1. p - 1 \in p - 1..e - 2 /\ e - 1 \in p..e - 1
      BY <1>2, <1>13
    <2>2. table'[p - 1] # Empty
      BY <1>3, <1>6, <1>8, <2>1, RobinHoodAssumption, ZenonT(60)
    <2>3. e - 1 \in DOMAIN table /\ table[e - 1] # Empty
      BY <1>4, <2>1
    <2>4. table'[e - 1] = Empty
      <3>1. e - 1 \notin p - 1..e - 2 /\ p <= e - 1
        BY <1>2, <1>13
      <3> QED BY <1>6, <2>3, <3>1
    <2>5. ASSUME NEW i \in DOMAIN table \ {p - 1, e - 1}
          PROVE  table'[i] = Empty <=> table[i] = Empty
      <3>1. CASE i \in p - 1..e - 2
        <4>1. i \in p..e - 1
          BY <1>2, <1>10, <2>5, <3>1
        <4>2. table[i] # Empty
          BY <1>4, <4>1
        <4>3. table'[i] # Empty
          BY <1>6, <1>8, <3>1, RobinHoodAssumption
        <4> QED BY <4>2, <4>3
      <3>2. CASE i \notin p - 1..e - 2
        BY <1>6, <2>5, <3>2
      <3> QED BY <3>1, <3>2
    <2> QED BY <1>2, <1>3, <1>9, <1>11, <1>13, <2>2, <2>3, <2>4, <2>5 DEF p, e, n
  <1> QED BY <1>12, <1>13

LEMMA ShiftCounts ==
    ASSUME RHInv, NEW t \in Threads, Shift(t)
    PROVE  LocksKept /\ Match'
  <1> DEFINE b == walk[t].bucket
             p == walk[t].pos
             e == ShiftEnd(t)
             f == First(b)
             g == First(b + 1)
  <1>1. /\ pc[t] = "shift" /\ pc[t] \in Under /\ locks' = CountsShifted(t)
        /\ b \in BucketIds /\ Slots \in Nat \ {0} /\ locks \in [BucketIds -> LockRecords]
    <2>1. pc[t] = "shift" /\ pc[t] \in Under /\ locks' = CountsShifted(t)
      BY DEF Shift, Under
    <2> QED BY <2>1, UnderFacts DEF RHInv, SizesOK, Typed, BucketIds
  <1>2. /\ p \in Nat /\ b \in Nat /\ e \in Nat /\ f <= p /\ p <= e /\ e <= g
    BY <1>1, ShiftFacts
  <1>3. /\ f \in Nat /\ g \in Nat /\ BucketOf(f - 1) = b - 1
        /\ \A i \in Int : i \in SlotsOf(b) <=> f <= i /\ i < g
    <2>1. f \in Nat /\ g = f + Slots /\ BucketOf(f - 1) = b - 1
      BY <1>1, <1>2, LastSlots
    <2>2. b \in Int
      BY <1>2
    <2>3. \A i \in Int : i \in SlotsOf(b) <=> f <= i /\ i < g
      BY <1>1, <2>2, SlotFacts
    <2>4. g \in Nat
      BY <1>1, <2>1
    <2> QED BY <2>1, <2>3, <2>4
  <1>4. /\ table' \in Tables(2^hp_) /\ table[p - 1] = Empty /\ table'[e - 1] = Empty
        /\ p - 1 \in DOMAIN table /\ e - 1 \in DOMAIN table
        /\ e = p => table' = table
        /\ e # p => /\ table'[p - 1] # Empty /\ table[e - 1] # Empty
                    /\ \A i \in DOMAIN table \ {p - 1, e - 1} : table'[i] = Empty <=> table[i] = Empty
    BY ShiftDownFacts
  <1>5. \A c \in BucketIds : /\ c \in Int /\ \A i \in SlotsOf(c) : i \in DOMAIN table /\ BucketOf(i) = c
                             /\ locks[c].count \in Int
    <2>1. ASSUME NEW c \in BucketIds PROVE c \in Int /\ SlotsOf(c) \subseteq DOMAIN table /\ locks[c].count \in Int
      BY Basics DEF LockRecords
    <2>2. ASSUME NEW c \in BucketIds PROVE \A i \in SlotsOf(c) : BucketOf(i) = c
      BY <1>1, <2>1, SlotFacts
    <2> QED BY <2>1, <2>2
  <1>6. locks' = IF p = f /\ e > f
                 THEN [locks EXCEPT ![b - 1].count = @ + 1, ![b].count = @ - 1] ELSE locks
    BY <1>1 DEF CountsShifted
  <1>7. CASE e = p
    <2>1. locks' = locks
      BY <1>2, <1>3, <1>6, <1>7
    <2> QED BY <1>1, <1>4, <1>7, <2>1 DEF RHInv, Match, LocksKept, BucketIds, Occupied
  <1>8. CASE e # p /\ p # f
    <2>1. locks' = locks
      BY <1>6, <1>8
    <2>2. p - 1 \in SlotsOf(b) /\ e - 1 \in SlotsOf(b)
      BY <1>2, <1>3, <1>8
    <2> HIDE DEF b, e, p, f, g
    <2>3. Cardinality(Occupied(table', b)) = Cardinality(Occupied(table, b))
      <3>1. b \in Int /\ \A i \in SlotsOf(b) \ {p - 1, e - 1} : table'[i] = Empty <=> table[i] = Empty
        BY <1>1, <1>4, <1>5, <1>8
      <3> QED BY <1>1, <1>4, <1>8, <2>2, <3>1, CountMoved
    <2>4. LocksKept /\ \A c \in BucketIds : locks'[c].count = locks[c].count
      BY <1>1, <2>1 DEF LocksKept
    <2>5. \A i \in DOMAIN table : BucketOf(i) # b => (table'[i] = Empty <=> table[i] = Empty)
      BY <1>1, <1>4, <1>5, <1>8, <2>2
    <2>6. locks'[b].count = Cardinality(Occupied(table', b))
      BY <1>1, <2>3, <2>4 DEF RHInv, Match
    <2> QED BY <1>1, <1>4, <2>4, <2>5, <2>6, MatchAfter
  <1>9. CASE e # p /\ p = f
    <2>1. locks' = [locks EXCEPT ![b - 1].count = @ + 1, ![b].count = @ - 1]
      BY <1>2, <1>3, <1>6, <1>9
    <2>2. e - 1 \in SlotsOf(b) /\ p - 1 \notin SlotsOf(b)
      BY <1>2, <1>3, <1>9
    <2>3. b - 1 \in BucketIds /\ p - 1 \in SlotsOf(b - 1) /\ p - 1 # e - 1 /\ b - 1 # b
      <3>1. BucketOf(p - 1) = b - 1
        BY <1>3, <1>9
      <3>2. BucketOf(p - 1) \in BucketIds /\ p - 1 \in SlotsOf(BucketOf(p - 1))
        <4>1. p - 1 \in Int
          BY <1>2
        <4> QED BY <1>1, <1>4, <4>1, Basics, SlotFacts
      <3> QED BY <1>2, <1>9, <3>1, <3>2
    <2> DEFINE a == b - 1
    <2> HIDE DEF a, b, e, p, f, g
    <2>4. /\ locks' \in [BucketIds -> LockRecords]
          /\ locks'[a].count = locks[a].count + 1 /\ locks'[b].count = locks[b].count - 1
          /\ \A c \in BucketIds \ {a, b} : locks'[c] = locks[c]
          /\ \A c \in BucketIds : locks'[c].flag = locks[c].flag /\ locks'[c].epoch = locks[c].epoch
      <3>1. a \in BucketIds /\ a # b /\ locks' = [locks EXCEPT ![a].count = @ + 1, ![b].count = @ - 1]
        BY <2>1, <2>3 DEF a
      <3>2. locks[a].count + 1 \in Int /\ locks[b].count - 1 \in Int
        BY <1>1, <1>5, <3>1
      <3> QED BY <1>1, <3>1, <3>2 DEF LockRecords
    <2>5. Cardinality(Occupied(table', a)) = Cardinality(Occupied(table, a)) + 1
      <3>1. /\ a \in Int /\ a \in BucketIds /\ p - 1 \in SlotsOf(a) /\ e - 1 \notin SlotsOf(a)
        BY <1>1, <1>5, <2>2, <2>3 DEF a
      <3>2. \A i \in SlotsOf(a) \ {p - 1} : table'[i] = Empty <=> table[i] = Empty
        BY <1>4, <1>5, <1>9, <3>1
      <3> QED BY <1>1, <1>4, <1>9, <3>1, <3>2, CountOneMore
    <2>6. Cardinality(Occupied(table', b)) = Cardinality(Occupied(table, b)) - 1
      <3>1. b \in Int /\ \A i \in SlotsOf(b) \ {e - 1} : table'[i] = Empty <=> table[i] = Empty
        BY <1>1, <1>4, <1>5, <1>9, <2>2
      <3> QED BY <1>1, <1>4, <1>9, <2>2, <3>1, CountOneLess
    <2>7. ASSUME NEW c \in BucketIds \ {a, b}
          PROVE  Occupied(table', c) = Occupied(table, c)
      <3>1. p - 1 \notin SlotsOf(c) /\ e - 1 \notin SlotsOf(c)
        BY <1>1, <1>5, <2>2, <2>3 DEF a
      <3> QED BY <1>4, <1>5, <1>9, <3>1, CountSame
    <2>8. \A c \in BucketIds : locks'[c].count = Cardinality(Occupied(table', c))
      <3>1. \A c \in BucketIds : locks[c].count = Cardinality(Occupied(table, c))
        BY DEF RHInv, Match
      <3>2. a \in BucketIds
        BY <2>3 DEF a
      <3> QED BY <1>1, <2>4, <2>5, <2>6, <2>7, <3>1, <3>2
    <2>9. BucketIds' = BucketIds
      BY <2>4 DEF BucketIds
    <2> QED BY <2>4, <2>8, <2>9 DEF LocksKept, Match, Occupied
  <1> QED BY <1>7, <1>8, <1>9

LEMMA ShiftInv ==
    ASSUME RHInv, NEW t \in Threads, Shift(t)
    PROVE  RHInv'
  <1> DEFINE b == walk[t].bucket
             p == walk[t].pos
             e == ShiftEnd(t)
  <1>1. pc[t] = "shift" /\ pc[t] \in Under /\ pc[t] # "idle" /\ UNCHANGED <<hp_, todo>>
    BY DEF Shift, Under
  <1>2. OnlyOwned(t) /\ LocksKept /\ Match'
    BY ShiftDownFacts, ShiftCounts
  <1>3. /\ walk[t] \in WalkRecords /\ 2^walk[t].seen \in Nat \ {0}
        /\ p \in Nat /\ b \in Nat /\ e \in Nat /\ p <= e /\ e <= First(b + 1)
    BY <1>1, WalkFacts, ShiftFacts
  <1>4. CASE e < First(b + 1)
    <2> DEFINE w == [walk[t] EXCEPT !.go = "return"]
    <2>1. walk' = [walk EXCEPT ![t] = w] /\ pc' = [pc EXCEPT ![t] = "release"]
      BY <1>4 DEF Shift, StartRelease, Goto
    <2>2. w \in WalkRecords /\ w.own = walk[t].own /\ w.seen = walk[t].seen /\ w.go = "return"
      <3>1. "return" \in Labels
        BY DEF Labels, Outside
      <3> QED BY <1>3, <3>1 DEF WalkRecords
    <2> HIDE DEF w
    <2>3. Local(t, w, "release") /\ "release" \in Labels \ {"idle"}
      BY <1>1, <2>1 DEF Local, Labels
    <2>4. walk'[t] = w /\ pc'[t] = "release"
      BY <2>1 DEF RHInv, Typed
    <2>5. OwnOK(t)' /\ SlotsOK(t)'
      BY <2>2, <2>4, OutsideKnowsNothing DEF OwnOK, Outside, Under
    <2> QED BY <1>1, <1>2, <1>3, <2>2, <2>3, <2>5, SlotsChanged
  <1>5. CASE ~(e < First(b + 1))
    <2> DEFINE w == [walk[t] EXCEPT !.bucket = @ + 1, !.pos = e, !.go = "shift"]
    <2>1. walk' = [walk EXCEPT ![t] = w] /\ pc' = [pc EXCEPT ![t] = "lock_next"]
      BY <1>5 DEF Shift, Goto
    <2> HIDE DEF e
    <2>2. /\ w \in WalkRecords /\ w.own = walk[t].own /\ w.bucket = b + 1 /\ w.seen = walk[t].seen
          /\ w.go = "shift" /\ w.pos = e
      <3>1. b + 1 \in Nat /\ "shift" \in Labels
        BY <1>3 DEF Labels, Under
      <3> QED BY <1>3, <3>1 DEF WalkRecords
    <2> HIDE DEF w
    <2>3. Local(t, w, "lock_next")
      BY <1>1, <2>1 DEF Local
    <2>4. /\ OwnOK(t)' /\ walk'[t] = w /\ pc'[t] = "lock_next" /\ HomeOf(t)' = HomeOf(t)
          /\ "lock_next" \in Labels \ {"idle"} /\ 2^w.seen \in Nat \ {0}
      BY <1>1, <2>2, <2>3, GoOn
    <2>5. e = First(b + 1)
      <3>1. First(b + 1) \in Int
        <4>1. Slots \in Nat \ {0}
          BY DEF RHInv, SizesOK
        <4> QED BY <1>3, <4>1 DEF First
      <3> QED BY <1>3, <1>5, <3>1
    <2>6. HomeOf(t) < e
      <3>1. HomeOf(t) < p /\ HomeOf(t) \in Nat
        BY <1>1, CallFacts DEF RHInv, SlotsOK, Heading
      <3> QED BY <1>3, <3>1
    <2>7. table'[e - 1] = Empty
      BY ShiftDownFacts DEF e
    <2>8. SlotsOK(t)'
      <3>1. First(w.bucket) <= w.pos
        BY <1>3, <2>2, <2>5
      <3> QED BY <2>2, <2>4, <2>5, <2>6, <2>7, <3>1 DEF SlotsOK, Heading
    <2> QED BY <1>1, <1>2, <2>2, <2>3, <2>4, <2>8, SlotsChanged
  <1> QED BY <1>4, <1>5

-----------------------------------------------------------------------------
\* The doubling.
LEMMA LockAllInv ==
    ASSUME RHInv, NEW t \in Threads, LockAll(t)
    PROVE  RHInv'
  <1> DEFINE b == walk[t].bucket
             w == [walk[t] EXCEPT !.own = @ \cup {b}, !.bucket = b + 1]
             l == IF b + 1 \in BucketIds THEN "lock_all" ELSE "double"
  <1>1. /\ pc[t] = "lock_all" /\ pc[t] # "idle" /\ LockBucket(t, b)
        /\ walk' = [walk EXCEPT ![t] = w] /\ pc' = [pc EXCEPT ![t] = l]
        /\ UNCHANGED <<hp_, table, todo>>
    BY DEF LockAll, Goto
  <1>2. walk[t] \in WalkRecords /\ b \in Nat /\ 2^walk[t].seen \in Nat \ {0}
    BY WalkFacts
  <1>3. b \in BucketIds /\ b \notin walk[t].own
    BY <1>1 DEF LockBucket, RHInv, LocksOK
  <1>4. walk[t].own = 0..b - 1
    BY <1>1, <1>3 DEF RHInv, OwnOK, Stuck
  <1>5. /\ w \in WalkRecords /\ w.own = walk[t].own \cup {b} /\ w.bucket = b + 1
        /\ w.seen = walk[t].seen
    <2>1. walk[t].own \cup {b} \in SUBSET Nat /\ b + 1 \in Nat
      BY <1>2 DEF WalkRecords
    <2> QED BY <1>2, <2>1 DEF WalkRecords
  <1> HIDE DEF w
  <1>6. w.own = 0..w.bucket - 1
    <2>1. (0..b - 1) \cup {b} = 0..(b + 1) - 1
      <3> HIDE DEF b
      <3> QED BY <1>2
    <2>2. w.own = (0..b - 1) \cup {b}
      BY <1>4, <1>5
    <2>3. w.own = 0..(b + 1) - 1
      BY <2>1, <2>2
    <2> QED BY <1>5, <2>3
  <1>7. l = "double" => w.own = BucketIds
    <2> DEFINE n == 2^(hp_ - SlotPow)
    <2>1. BucketIds = 0..n - 1 /\ n \in Nat
      BY Basics DEF RHInv, SizesOK
    <2> HIDE DEF n, b
    <2>2. b + 1 \notin BucketIds => b + 1 = n
      BY <1>2, <1>3, <2>1
    <2> QED BY <1>5, <1>6, <2>1, <2>2
  <1>8. l \in {"lock_all", "double"} /\ l \in Labels \ {"idle"}
    BY DEF Labels
  <1> HIDE DEF l
  <1>9. walk'[t] = w /\ pc'[t] = l
    BY <1>1 DEF RHInv, Typed
  <1>10. BucketIds' = BucketIds
    <2>1. DOMAIN locks' = DOMAIN locks
      BY <1>1 DEF LockBucket
    <2> QED BY <2>1 DEF BucketIds
  <1>11. OwnOK(t)'
    BY <1>6, <1>7, <1>8, <1>9, <1>10 DEF OwnOK, Outside, Under
  <1>12. SlotsOK(t)'
    BY <1>8, <1>9, OutsideKnowsNothing
  <1>13. Local(t, w, l)
    BY <1>1 DEF Local
  <1> QED BY <1>1, <1>2, <1>5, <1>8, <1>11, <1>12, <1>13, LockTaken

\* While a thread owns all buckets, the others are outside the locks.
LEMMA Alone ==
    ASSUME RHInv, NEW t \in Threads, walk[t].own = BucketIds, NEW u \in Threads \ {t}
    PROVE  /\ walk[u].own = {} /\ pc[u] \in Outside \cup {"release", "lock_all"}
           /\ pc[u] = "lock_all" => {} = 0..walk[u].bucket - 1
  <1>1. walk[u].own = {}
    BY DEF RHInv, LocksOK, Exclusive
  <1>2. pc[u] \notin Under
    <2>1. ASSUME pc[u] \in Under PROVE FALSE
      BY <1>1, <2>1, UnderFacts
    <2> QED BY <2>1
  <1>3. pc[u] # "lock_next"
    <2>1. ASSUME pc[u] = "lock_next" PROVE FALSE
      <3> DEFINE h == HomeBucket(u)
                 b == walk[u].bucket
      <3>1. h \in Nat /\ b \in Nat /\ h <= b - 1 /\ {} = h..b - 1
        BY <1>1, <2>1, CallFacts, WalkFacts DEF RHInv, OwnOK
      <3> HIDE DEF h, b
      <3>2. h \in h..b - 1
        BY <3>1
      <3> QED BY <3>1, <3>2
    <2> QED BY <2>1
  <1>4. pc[u] \notin {"double", "spread"}
    <2>1. ASSUME pc[u] \in {"double", "spread"} PROVE FALSE
      <3> DEFINE n == 2^(hp_ - SlotPow)
      <3>1. {} = 0..n - 1 /\ n \in Nat \ {0}
        BY <1>1, <2>1, Basics DEF RHInv, OwnOK, SizesOK
      <3> HIDE DEF n
      <3>2. 0 \in 0..n - 1
        BY <3>1
      <3> QED BY <3>1, <3>2
    <2> QED BY <2>1
  <1>5. pc[u] \in Labels
    BY WalkFacts
  <1>6. pc[u] = "lock_all" => {} = 0..walk[u].bucket - 1
    BY <1>1 DEF RHInv, OwnOK, Stuck
  <1> QED BY <1>1, <1>2, <1>3, <1>4, <1>5, <1>6 DEF Labels

LEMMA GrowSizes ==
    ASSUME PowerLaw, RHInv
    PROVE  /\ 2^(hp_ + 1) = 2 * 2^hp_
           /\ 2^(hp_ + 1 - SlotPow) = 2 * 2^(hp_ - SlotPow)
           /\ 2^(hp_ + 1) = Slots * 2^(hp_ + 1 - SlotPow)
           /\ hp_ + 1 \in Nat /\ hp_ + 1 >= SlotPow
           /\ 2^(hp_ + 1) \in Nat \ {0} /\ 2^(hp_ + 1 - SlotPow) \in Nat \ {0}
  <1> DEFINE n == 2^(hp_ - SlotPow)
             s == 2^hp_
  <1>1. /\ hp_ \in Nat /\ SlotPow \in Nat /\ hp_ - SlotPow \in Nat /\ Slots \in Nat \ {0}
        /\ n \in Nat \ {0} /\ s \in Nat \ {0} /\ s = Slots * n
    BY RobinHoodAssumption DEF RHInv, SizesOK
  <1>2. 2^(hp_ + 1) = 2 * s
    BY <1>1 DEF PowerLaw
  <1>3. 2^(hp_ + 1 - SlotPow) = 2 * n
    <2>1. 2^((hp_ - SlotPow) + 1) = 2 * 2^(hp_ - SlotPow)
      BY <1>1 DEF PowerLaw
    <2>2. (hp_ - SlotPow) + 1 = hp_ + 1 - SlotPow
      BY <1>1
    <2> QED BY <2>1, <2>2
  <1>4. 2 * s = Slots * (2 * n)
    <2> HIDE DEF n, s
    <2> QED BY <1>1
  <1>5. 2 * n \in Nat \ {0} /\ 2 * s \in Nat \ {0}
    <2> HIDE DEF n, s
    <2> QED BY <1>1
  <1> QED BY <1>1, <1>2, <1>3, <1>4, <1>5

LEMMA GrowInv ==
    ASSUME PowerLaw, RHInv, NEW t \in Threads, Grow(t)
    PROVE  RHInv'
  <1> DEFINE n == 2^(hp_ - SlotPow)
             s == 2^hp_
             m == 2^(hp_ + 1 - SlotPow)
             r == 2^(hp_ + 1)
             w == [walk[t] EXCEPT !.own = DOMAIN locks', !.pos = 0, !.free = 0]
             born == [flag |-> TRUE, epoch |-> 1, count |-> 0]
  <1>1. /\ pc[t] = "double" /\ hp_ = walk[t].seen /\ hp_' = hp_ + 1 /\ todo' = todo
        /\ walk' = [walk EXCEPT ![t] = w] /\ pc' = [pc EXCEPT ![t] = "spread"]
        /\ table' = [i \in 0..r - 1 |-> IF i \in DOMAIN table THEN table[i] ELSE Empty]
        /\ locks' = [b \in 0..m - 1 |-> IF b \in BucketIds THEN locks[b] ELSE born]
    BY DEF Grow, Goto
  <1>2. /\ r = 2 * s /\ m = 2 * n /\ r = Slots * m /\ hp_ + 1 \in Nat /\ hp_ + 1 >= SlotPow
        /\ r \in Nat \ {0} /\ m \in Nat \ {0}
    BY GrowSizes
  <1>3. /\ Slots \in Nat \ {0} /\ n \in Nat \ {0} /\ s \in Nat \ {0} /\ s = Slots * n
        /\ BucketIds = 0..n - 1 /\ DOMAIN table = 0..s - 1
    BY Basics DEF RHInv, SizesOK
  <1>4. walk[t].own = BucketIds
    BY <1>1 DEF RHInv, OwnOK
  <1>5. /\ w \in WalkRecords /\ w.own = 0..m - 1 /\ w.seen = walk[t].seen
    <2>1. walk[t] \in WalkRecords
      BY WalkFacts
    <2>2. DOMAIN locks' = 0..m - 1
      BY <1>1
    <2>3. 0..m - 1 \in SUBSET Nat
      OBVIOUS
    <2> HIDE DEF m
    <2> QED BY <2>1, <2>2, <2>3 DEF WalkRecords
  <1> HIDE DEF w
  <1>6. /\ walk' \in [Threads -> WalkRecords] /\ pc' \in [Threads -> Labels]
        /\ walk'[t] = w /\ pc'[t] = "spread"
        /\ \A u \in Threads \ {t} : walk'[u] = walk[u] /\ pc'[u] = pc[u]
    BY <1>1, <1>5 DEF RHInv, Typed, Labels
  <1>7. SizesOK'
    <2>1. \A u \in Threads : 2^(walk'[u].seen) \in Nat \ {0}
      BY <1>5, <1>6 DEF RHInv, SizesOK
    <2>2. /\ Slots' = Slots /\ 2^(hp_') = r /\ 2^(hp_' - SlotPow) = m /\ hp_' = hp_ + 1
      <3>1. Slots' = Slots
        BY DEF Slots
      <3>2. 2^(hp_') = r /\ 2^(hp_' - SlotPow) = m
        <4>1. hp_' = hp_ + 1
          BY <1>1
        <4>2. hp_' - SlotPow = hp_ + 1 - SlotPow
          <5>1. hp_ \in Int /\ SlotPow \in Int
            BY RobinHoodAssumption DEF RHInv, SizesOK
          <5> QED BY <4>1, <5>1
        <4>3. 2^(hp_') = 2^(hp_ + 1)
          BY <4>1
        <4>4. 2^(hp_' - SlotPow) = 2^(hp_ + 1 - SlotPow)
          BY <4>2
        <4> QED BY <4>3, <4>4
      <3> QED BY <1>1, <3>1, <3>2
    <2> HIDE DEF r, m
    <2> QED BY <1>2, <1>3, <2>1, <2>2 DEF SizesOK
  <1>8. Typed'
    <2>1. table' \in Tables(2^(hp_'))
      <3>1. table \in Tables(s)
        BY DEF RHInv, Typed
      <3>2. \A i \in 0..r - 1 : (IF i \in DOMAIN table THEN table[i] ELSE Empty) \in EntryRecords \cup {Empty}
        <4> HIDE DEF r, s
        <4> QED BY <1>3, <3>1 DEF Tables
      <3>3. table' \in Tables(r)
        <4> HIDE DEF r
        <4> QED BY <1>1, <3>2 DEF Tables
      <3> QED BY <1>1, <3>3
    <2>2. locks' \in [0..2^(hp_' - SlotPow) - 1 -> LockRecords]
      <3>1. locks \in [BucketIds -> LockRecords] /\ born \in LockRecords
        BY DEF RHInv, Typed, BucketIds, LockRecords
      <3> HIDE DEF born
      <3>2. locks' \in [0..m - 1 -> LockRecords]
        <4> HIDE DEF m
        <4> QED BY <1>1, <3>1
      <3>3. 2^(hp_' - SlotPow) = m
        <4>1. hp_' = hp_ + 1
          BY <1>1
        <4>2. hp_' - SlotPow = hp_ + 1 - SlotPow
          <5>1. hp_ \in Int /\ SlotPow \in Int
            BY RobinHoodAssumption DEF RHInv, SizesOK
          <5> QED BY <4>1, <5>1
        <4>3. 2^(hp_') = 2^(hp_ + 1)
          BY <4>1
        <4>4. 2^(hp_' - SlotPow) = 2^(hp_ + 1 - SlotPow)
          BY <4>2
        <4> QED BY <4>3, <4>4
      <3> HIDE DEF m
      <3> QED BY <3>2, <3>3
    <2>3. \A u \in Threads : pc'[u] # "idle" => todo'[u] # <<>>
      <3>1. todo[t] # <<>>
        BY <1>1 DEF RHInv, Typed
      <3> QED BY <1>1, <1>6, <3>1 DEF RHInv, Typed
    <2> QED BY <1>1, <1>6, <2>1, <2>2, <2>3 DEF RHInv, Typed
  <1> HIDE DEF n, s, m, r
  <1>9. BucketIds' = 0..m - 1
    BY <1>1 DEF BucketIds
  <1>10. \A u \in Threads \ {t} : walk'[u].own = {}
    BY <1>4, <1>6, Alone
  <1>11. Exclusive'
    BY <1>10 DEF Exclusive
  <1>12. \A b \in 0..m - 1 : locks'[b] = IF b \in BucketIds THEN locks[b] ELSE born
    BY <1>1
  <1>13. LocksOK'
    <2>1. ASSUME NEW b \in 0..m - 1
          PROVE  locks'[b].flag /\ locks'[b].epoch % 2 = 1
      <3>1. CASE b \in BucketIds
        BY <1>4, <1>12, <3>1 DEF RHInv, LocksOK, Locked
      <3>2. CASE b \notin BucketIds
        <4>1. locks'[b].flag /\ locks'[b].epoch = 1
          BY <1>12, <3>2
        <4> QED BY <4>1
      <3> QED BY <3>1, <3>2
    <2>2. \A b \in 0..m - 1 : b \in walk'[t].own
      BY <1>5, <1>6
    <2>3. ASSUME NEW b \in BucketIds'
          PROVE  /\ locks'[b].flag <=> Locked(b)'
                 /\ locks'[b].flag <=> \E u \in Threads : b \in walk'[u].own
      BY <1>9, <2>1, <2>2, <2>3 DEF Locked
    <2>4. \A u \in Threads : walk'[u].own \subseteq BucketIds'
      BY <1>5, <1>6, <1>9, <1>10
    <2> QED BY <2>3, <2>4 DEF LocksOK
  <1>14. Match'
    <2>1. ASSUME NEW b \in BucketIds
          PROVE  locks'[b].count = Cardinality(Occupied(table', b))
      <3>1. \A i \in SlotsOf(b) : i \in DOMAIN table
        BY Basics
      <3>2. \A i \in SlotsOf(b) : table'[i] = table[i]
        BY <1>1, <1>2, <1>3, <3>1
      <3>3. Occupied(table', b) = Occupied(table, b)
        BY <3>2, CountSame
      <3>4. b \in 0..m - 1
        BY <1>2, <1>3
      <3> QED BY <1>12, <3>3, <3>4 DEF RHInv, Match
    <2>2. ASSUME NEW b \in (0..m - 1) \ BucketIds
          PROVE  locks'[b].count = Cardinality(Occupied(table', b))
      <3>1. \A i \in SlotsOf(b) : i \in 0..r - 1
        BY <1>2, <1>3, InTable
      <3>2. \A i \in SlotsOf(b) : i \notin DOMAIN table
        <4>1. b \in Nat /\ b \notin 0..n - 1
          BY <1>3
        <4>2. \A i \in SlotsOf(b) : i >= s
          BY <1>3, <4>1, InTable
        <4> QED BY <1>3, <4>2
      <3>3. \A i \in SlotsOf(b) : table'[i] = Empty
        BY <1>1, <3>1, <3>2
      <3>4. Occupied(table', b) = {}
        BY <3>3 DEF Occupied
      <3>5. locks'[b].count = 0
        BY <1>12
      <3> QED BY <3>4, <3>5, FS_EmptySet
    <2>3. \A b \in 0..m - 1 : locks'[b].count = Cardinality(Occupied(table', b))
      BY <2>1, <2>2
    <2> QED BY <1>9, <2>3 DEF Match, Occupied, SlotsOf, First
  <1>15. OwnOK(t)' /\ SlotsOK(t)'
    <2>1. walk'[t].own = BucketIds' /\ 2^(hp_') = 2 * 2^walk'[t].seen
      BY <1>1, <1>2, <1>5, <1>6, <1>9 DEF r, s
    <2> QED BY <1>6, <2>1, OutsideKnowsNothing DEF OwnOK, Outside, Under
  <1>16. ASSUME NEW u \in Threads \ {t}
         PROVE  OwnOK(u)' /\ SlotsOK(u)'
    <2>1. /\ walk'[u] = walk[u] /\ pc'[u] = pc[u] /\ Call(u)' = Call(u)
          /\ HomeBucket(u)' = HomeBucket(u)
      BY <1>1, <1>6 DEF Call, HomeBucket, HomeOf, Key
    <2>2. /\ walk[u].own = {} /\ pc[u] \in Outside \cup {"release", "lock_all"}
          /\ pc[u] = "lock_all" => {} = 0..walk[u].bucket - 1
      BY <1>4, Alone
    <2>3. OwnOK(u)
      BY DEF RHInv
    <2>4. OwnOK(u)'
      BY <2>1, <2>2, <2>3 DEF OwnOK, Outside, Under
    <2>5. SlotsOK(u)'
      BY <2>1, <2>2, OutsideKnowsNothing
    <2> QED BY <2>4, <2>5
  <1> QED BY <1>7, <1>8, <1>11, <1>13, <1>14, <1>15, <1>16 DEF RHInv

-----------------------------------------------------------------------------
\* The loop of the doubling: its thread owns all buckets and counts anew.
LEMMA Rearranged ==
    ASSUME RHInv, NEW t \in Threads, pc[t] = "spread", NEW tab \in Tables(2^hp_), NEW f \in Nat,
           Rearrange(t, tab, f)
    PROVE  RHInv'
  <1> DEFINE w == [walk[t] EXCEPT !.pos = @ + 1, !.free = f]
             size(tb, b) == Cardinality(Occupied(tb, b))
  <1>1. /\ table' = tab /\ UNCHANGED <<hp_, pc, todo>> /\ walk' = [walk EXCEPT ![t] = w]
        /\ locks' = [b \in BucketIds |-> [locks[b] EXCEPT !.count = @ + size(tab, b) - size(table, b)]]
    BY DEF Rearrange
  <1>2. walk[t] \in WalkRecords /\ 2^walk[t].seen \in Nat \ {0} /\ walk[t].pos + 1 \in Nat
    BY WalkFacts
  <1>3. w \in WalkRecords /\ w.own = walk[t].own /\ w.seen = walk[t].seen
    BY <1>2 DEF WalkRecords
  <1> HIDE DEF w
  <1>4. pc[t] # "idle" /\ "spread" \in Labels \ {"idle"}
    BY DEF Labels
  <1>5. walk'[t] = w /\ pc'[t] = "spread" /\ pc' = [pc EXCEPT ![t] = "spread"]
    BY <1>1 DEF RHInv, Typed
  <1>6. Local(t, w, "spread")
    BY <1>1, <1>5 DEF Local
  <1>7. OnlyOwned(t)
    BY <1>1, Basics DEF RHInv, OwnOK, OnlyOwned
  <1>8. ASSUME NEW b \in BucketIds
        PROVE  /\ locks[b] \in LockRecords /\ size(tab, b) \in Int
               /\ locks[b].count + size(tab, b) - size(table, b) = size(tab, b)
    <2>1. b \in Int /\ Slots \in Nat \ {0} /\ locks[b] \in LockRecords /\ locks[b].count = size(table, b)
      BY Basics DEF RHInv, SizesOK, Match
    <2>2. size(tab, b) \in Int /\ size(table, b) \in Int
      <3>1. size(tab, b) \in 0..Slots
        BY <2>1, OccupiedIsFinite
      <3>2. size(table, b) \in 0..Slots
        BY <2>1, OccupiedIsFinite
      <3> HIDE DEF size
      <3> QED BY <2>1, <3>1, <3>2
    <2> HIDE DEF size
    <2> QED BY <2>1, <2>2
  <1>9. LocksKept /\ \A b \in BucketIds : locks'[b].count = size(tab, b)
    <2> HIDE DEF size
    <2>1. ASSUME NEW b \in BucketIds
          PROVE  /\ locks'[b] \in LockRecords /\ locks'[b].count = size(tab, b)
                 /\ locks'[b].flag = locks[b].flag /\ locks'[b].epoch = locks[b].epoch
      <3>1. locks'[b] = [locks[b] EXCEPT !.count = size(tab, b)]
        BY <1>1, <1>8
      <3> QED BY <1>8, <3>1 DEF LockRecords
    <2> QED BY <1>1, <2>1 DEF LocksKept
  <1>10. Match'
    <2>1. BucketIds' = BucketIds
      BY <1>1 DEF BucketIds
    <2>2. \A b \in BucketIds : locks'[b].count = Cardinality(Occupied(table', b))
      BY <1>1, <1>9
    <2> QED BY <2>1, <2>2 DEF Match, Occupied
  <1>11. OwnOK(t)' /\ SlotsOK(t)'
    <2>1. walk'[t].own = BucketIds' /\ 2^(hp_') = 2 * 2^walk'[t].seen
      <3>1. walk[t].own = BucketIds /\ 2^hp_ = 2 * 2^walk[t].seen
        BY DEF RHInv, OwnOK
      <3>2. BucketIds' = BucketIds
        BY <1>1 DEF BucketIds
      <3> QED BY <1>1, <1>3, <1>5, <3>1, <3>2
    <2> QED BY <1>5, <2>1, OutsideKnowsNothing DEF OwnOK, Outside, Under
  <1> QED BY <1>2, <1>3, <1>4, <1>6, <1>7, <1>9, <1>10, <1>11, SlotsChanged

LEMMA SpreadFacts ==
    ASSUME RHInv, NEW t \in Threads, Spreading(t)
    PROVE  /\ pc[t] = "spread" /\ At(t) \in DOMAIN table /\ At(t) \in Nat /\ walk[t].free \in Nat
           /\ table \in Tables(2^hp_) /\ 2^hp_ \in Nat /\ (walk[t].free + 1) % FreeMod \in Nat
           /\ Here(t) # Empty => Here(t) \in EntryRecords /\ NewHome(t) \in Nat
  <1>1. pc[t] = "spread" /\ At(t) < 2^walk[t].seen /\ At(t) \in Nat
    BY WalkFacts DEF Spreading, At
  <1>2. At(t) \in DOMAIN table
    <2> DEFINE s == 2^walk[t].seen
    <2>1. DOMAIN table = 0..2 * s - 1 /\ s \in Nat
      BY <1>1, Basics, WalkFacts DEF RHInv, OwnOK
    <2> HIDE DEF s
    <2>2. At(t) < s
      BY <1>1 DEF s
    <2> QED BY <1>1, <2>1, <2>2
  <1>3. /\ table \in Tables(2^hp_) /\ 2^hp_ \in Nat \ {0} /\ hp_ \in Nat /\ walk[t].free \in Nat
    BY WalkFacts DEF RHInv, Typed, SizesOK
  <1>4. (walk[t].free + 1) % FreeMod \in Nat
    BY <1>3, RobinHoodAssumption
  <1>5. ASSUME Here(t) # Empty
        PROVE  Here(t) \in EntryRecords /\ NewHome(t) \in Nat
    <2>1. Here(t) \in EntryRecords
      BY <1>2, <1>5, Basics DEF Here
    <2>2. Here(t).key \in Keys
      BY <2>1 DEF EntryRecords
    <2> QED BY <1>3, <2>1, <2>2, HomeIsNat DEF NewHome
  <1> QED BY <1>1, <1>2, <1>3, <1>4, <1>5

LEMMA SkipFreeInv ==
    ASSUME RHInv, NEW t \in Threads, SkipFree(t)
    PROVE  RHInv'
  BY SpreadFacts, Rearranged DEF SkipFree

LEMMA StayInv ==
    ASSUME RHInv, NEW t \in Threads, Stay(t)
    PROVE  RHInv'
  BY SpreadFacts, Rearranged DEF Stay

LEMMA MoveNearInv ==
    ASSUME RHInv, NEW t \in Threads, MoveNear(t)
    PROVE  RHInv'
  <1> DEFINE best == IF NewHome(t) > At(t) - walk[t].free THEN NewHome(t)
                     ELSE At(t) - walk[t].free
             e == [Here(t) EXCEPT !.dist = best - NewHome(t)]
             tab == [table EXCEPT ![best] = e, ![At(t)] = Empty]
  <1>1. Spreading(t) /\ Here(t) # Empty /\ NewHome(t) <= At(t) /\ Rearrange(t, tab, At(t) - best)
    BY DEF MoveNear
  <1>2. /\ pc[t] = "spread" /\ At(t) \in Nat /\ walk[t].free \in Nat /\ NewHome(t) \in Nat
        /\ table \in Tables(2^hp_) /\ Here(t) \in EntryRecords
    BY <1>1, SpreadFacts
  <1>3. best \in Nat /\ NewHome(t) <= best /\ best <= At(t)
    BY <1>1, <1>2
  <1> HIDE DEF best
  <1>4. e \in EntryRecords /\ At(t) - best \in Nat
    <2>1. best - NewHome(t) \in Nat /\ At(t) - best \in Nat
      BY <1>2, <1>3
    <2> QED BY <1>2, <2>1 DEF EntryRecords
  <1> HIDE DEF e
  <1>5. tab \in Tables(2^hp_)
    BY <1>2, <1>4 DEF Tables
  <1> HIDE DEF tab
  <1> QED BY <1>1, <1>2, <1>4, <1>5, Rearranged

LEMMA MoveFarInv ==
    ASSUME RHInv, NEW t \in Threads, MoveFar(t)
    PROVE  RHInv'
  <1>1. /\ Spreading(t) /\ Here(t) # Empty /\ pc[t] # "idle"
        /\ pc[t] = "spread" /\ NewHome(t) \in Nat /\ table \in Tables(2^hp_) /\ 2^hp_ \in Nat
        /\ Here(t) \in EntryRecords /\ (walk[t].free + 1) % FreeMod \in Nat
    BY SpreadFacts DEF MoveFar
  <1>2. CASE WindowIsFull(t)
    <2> DEFINE w == [walk[t] EXCEPT !.bucket = 0]
    <2>1. /\ walk' = [walk EXCEPT ![t] = w] /\ pc' = [pc EXCEPT ![t] = "lock_all"]
          /\ UNCHANGED <<hp_, table, locks, todo>>
      BY <1>2 DEF MoveFar, Goto, shared
    <2>2. walk[t] \in WalkRecords /\ 2^walk[t].seen \in Nat \ {0} /\ walk[t].own = BucketIds
      BY <1>1, WalkFacts DEF RHInv, OwnOK
    <2>3. w \in WalkRecords /\ w.own = walk[t].own /\ w.seen = walk[t].seen /\ w.bucket = 0
      BY <2>2 DEF WalkRecords
    <2> HIDE DEF w
    <2>4. walk'[t] = w /\ pc'[t] = "lock_all"
      BY <2>1 DEF RHInv, Typed
    <2>5. 0 \in BucketIds
      <3> DEFINE n == 2^(hp_ - SlotPow)
      <3>1. BucketIds = 0..n - 1 /\ n \in Nat \ {0}
        BY Basics DEF RHInv, SizesOK
      <3> HIDE DEF n
      <3> QED BY <3>1
    <2>6. OwnOK(t)' /\ SlotsOK(t)'
      <3>1. Stuck(t)'
        BY <2>2, <2>3, <2>4, <2>5 DEF Stuck
      <3> QED BY <2>4, <3>1, OutsideKnowsNothing DEF OwnOK, Outside, Under
    <2>7. Local(t, w, "lock_all") /\ "lock_all" \in Labels \ {"idle"}
      BY <2>1 DEF Local, Labels
    <2> QED BY <1>1, <2>1, <2>2, <2>3, <2>6, <2>7, QuietStep
  <1>3. CASE ~WindowIsFull(t)
    <2> DEFINE e == Entry(Here(t).key, Here(t).val, 0)
               tab == [PutFar(t) EXCEPT ![At(t)] = Empty]
    <2>1. Rearrange(t, tab, (walk[t].free + 1) % FreeMod)
      BY <1>3 DEF MoveFar
    <2>2. e \in EntryRecords
      BY <1>1 DEF Entry, EntryRecords
    <2>3. PutFar(t) \in Tables(2^hp_)
      <3> HIDE DEF e
      <3> QED BY <1>1, <2>2, PutFacts DEF PutFar, e
    <2>4. tab \in Tables(2^hp_)
      BY <2>3 DEF Tables
    <2> HIDE DEF tab
    <2> QED BY <1>1, <2>1, <2>4, Rearranged
  <1> QED BY <1>2, <1>3

-----------------------------------------------------------------------------
LEMMA NextInv == PowerLaw /\ RHInv /\ [Next]_vars => RHInv'
  <1> SUFFICES ASSUME PowerLaw, RHInv, [Next]_vars PROVE RHInv'
    OBVIOUS
  <1>1. CASE UNCHANGED vars
    <2>1. UNCHANGED <<hp_, table, locks, pc, todo, walk>>
      BY <1>1 DEF vars, shared
    <2>2. SizesOK' /\ Typed'
      BY <2>1 DEF RHInv, SizesOK, Typed
    <2>3. LocksOK' /\ Exclusive' /\ Match'
      BY <2>1 DEF RHInv, LocksOK, Exclusive, Match, BucketIds, Locked, Occupied
    <2>4. ASSUME NEW t \in Threads PROVE OwnOK(t)' /\ SlotsOK(t)'
      <3>1. OwnOK(t) /\ SlotsOK(t)
        BY DEF RHInv
      <3>2. OwnOK(t)'
        BY <2>1, <3>1 DEF OwnOK, Stuck, HomeBucket, HomeOf, Key, Call, BucketIds
      <3>3. SlotsOK(t)'
        BY <2>1, <3>1 DEF SlotsOK, Heading, HomeOf, Key, Call
      <3> QED BY <3>2, <3>3
    <2> QED BY <2>2, <2>3, <2>4 DEF RHInv
  <1>2. ASSUME NEW t \in Threads, Begin(t) \/ Step(t) PROVE RHInv'
    <2>1. CASE Begin(t) \/ Start(t) \/ Return(t)
      BY <2>1, BeginInv, StartInv, ReturnInv
    <2>2. CASE Write(t)
      BY <2>2, LockFirstInv, LockNextInv, ProbeInv, ReleaseInv, FoundInv, NotFoundInv, AddInv,
         FindPathInv, MovePathInv, EraseInv, ShiftInv DEF Write
    <2>3. CASE Double(t)
      BY <2>3, RehashRequiredInv, LockAllInv, DoubleRacedInv, GrowInv, SkipFreeInv, MoveFarInv,
         MoveNearInv, StayInv, DoubledInv DEF Double
    <2>4. CASE Find(t)
      BY <2>4, FindInv
    <2> QED BY <1>2, <2>1, <2>2, <2>3, <2>4 DEF Step
  <1> QED BY <1>1, <1>2 DEF Next, Finished

\* The invariant the following theorems rest on.  A walk owns the buckets from
\* that of its home to the one it has locked last, a thread that doubles owns
\* all (391-392, 593-601); nobody else owns them, and every counter is the
\* number of the entries in its bucket, also while the bucket is locked.
THEOREM LocksInvariant == PowerLaw => (Spec => []RHInv)
  <1> SUFFICES ASSUME PowerLaw PROVE Spec => []RHInv
    OBVIOUS
  <1>1. Init => RHInv
    BY InitHolds
  <1>2. RHInv /\ [Next]_vars => RHInv'
    BY NextInv
  <1> QED BY <1>1, <1>2, PTL DEF Spec

\* The slots and the locks keep their types and number, whoever doubles the
\* table meanwhile; no counter leaves the range of a bucket, and what a thread
\* owns exists and is locked.
THEOREM MapTypes == PowerLaw => (Spec => []TypeOK)
  <1>1. RHInv => TypeOK
    <2> SUFFICES ASSUME RHInv PROVE TypeOK
      OBVIOUS
    <2>1. /\ hp_ \in Nat /\ DOMAIN table = 0..2^hp_ - 1 /\ DOMAIN locks = 0..2^(hp_ - SlotPow) - 1
          /\ \A i \in DOMAIN table : table[i] \in EntryRecords \cup {Empty}
      BY Basics DEF RHInv, SizesOK, BucketIds
    <2>2. ASSUME NEW b \in BucketIds
          PROVE  /\ locks[b].flag \in BOOLEAN /\ locks[b].flag <=> Locked(b)
                 /\ locks[b].epoch \in Nat /\ locks[b].count \in 0..Slots
      <3>1. locks[b] \in LockRecords /\ b \in Int /\ Slots \in Nat \ {0}
        BY Basics DEF RHInv, SizesOK
      <3>2. locks[b].count \in 0..Slots
        <4>1. Cardinality(Occupied(table, b)) \in 0..Slots
          BY <3>1, OccupiedIsFinite
        <4> QED BY <4>1 DEF RHInv, Match
      <3>3. locks[b].flag <=> Locked(b)
        BY DEF RHInv, LocksOK
      <3> QED BY <3>1, <3>2, <3>3 DEF LockRecords
    <2>3. \A t \in Threads : walk[t].own \subseteq {b \in BucketIds : locks[b].flag}
      BY DEF RHInv, LocksOK
    <2> QED BY <2>1, <2>2, <2>3 DEF TypeOK
  <1> QED BY <1>1, LocksInvariant, PTL

\* The counter of every bucket that is not locked is the number of its
\* entries, although displacing and shifting back take entries from bucket to
\* bucket (463-464, 584-586) and a doubling moves them all (609-643).
THEOREM CountersAreRight == PowerLaw => (Spec => []CountersMatch)
  <1>1. RHInv => CountersMatch
    BY DEF RHInv, Match, CountersMatch
  <1> QED BY <1>1, LocksInvariant, PTL

\* One owner: no bucket belongs to two threads, and a thread that doubles is
\* alone (391-392, 593-601).
OneOwner ==
    /\ \A t, u \in Threads : t # u => walk[t].own \cap walk[u].own = {}
    /\ \A t, u \in Threads :
          pc[t] \in {"double", "spread"} /\ t # u =>
              pc[u] \in Outside \cup {"release", "lock_all"} /\ walk[u].own = {}

\* A bucket has one owner at a time, and while the table is doubled no other
\* thread walks or writes.
THEOREM BucketsHaveOneOwner == PowerLaw => (Spec => []OneOwner)
  <1>1. RHInv => OneOwner
    <2> SUFFICES ASSUME RHInv PROVE OneOwner
      OBVIOUS
    <2>1. \A t, u \in Threads : t # u => walk[t].own \cap walk[u].own = {}
      BY DEF RHInv, Exclusive
    <2>2. ASSUME NEW t \in Threads, NEW u \in Threads, pc[t] \in {"double", "spread"}, t # u
          PROVE  pc[u] \in Outside \cup {"release", "lock_all"} /\ walk[u].own = {}
      <3>1. walk[t].own = BucketIds
        BY <2>2 DEF RHInv, OwnOK
      <3> QED BY <2>2, <3>1, Alone
    <2> QED BY <2>1, <2>2 DEF OneOwner
  <1> QED BY <1>1, LocksInvariant, PTL

-----------------------------------------------------------------------------
\* A set of numbers below a bound has a greatest element.
LEMMA Greatest ==
    ASSUME NEW n \in Nat, NEW S \in SUBSET (0..n - 1), S # {}
    PROVE  \E x \in S : \A y \in S : y <= x
  <1> DEFINE D == {n - x : x \in S}
  <1>1. \A x \in S : n - x \in Nat /\ n - x \in D
    OBVIOUS
  <1>2. D \in SUBSET Nat /\ D # {}
    BY <1>1
  <1>3. Min(D) \in D /\ \A e \in D : Min(D) <= e
    <2> HIDE DEF D
    <2> QED BY <1>2, MinIsLeast
  <1>4. PICK x \in S : Min(D) = n - x
    BY <1>3
  <1>5. \A y \in S : n - x <= n - y
    BY <1>1, <1>3, <1>4
  <1> QED BY <1>5

\* What a thread owns lies before what it waits for, unless it waits for itself.
LEMMA WaitsAbove ==
    ASSUME RHInv, NEW t \in Threads, ~Stuck(t), NEW c \in Wanted(t), NEW b \in walk[t].own
    PROVE  c \in Nat /\ b < c
  <1>1. pc[t] \in {"lock_first", "lock_next", "lock_all"} /\ c = walk[t].bucket /\ c \in Nat
    BY WalkFacts DEF Wanted
  <1>2. CASE pc[t] = "lock_first"
    BY <1>2 DEF RHInv, OwnOK, Outside
  <1>3. CASE pc[t] = "lock_next"
    <2> DEFINE h == HomeBucket(t)
    <2>1. h \in Nat /\ walk[t].own = h..c - 1
      BY <1>1, <1>3, CallFacts DEF RHInv, OwnOK
    <2> HIDE DEF h
    <2> QED BY <1>1, <2>1
  <1>4. CASE pc[t] = "lock_all"
    <2>1. walk[t].own = 0..c - 1
      BY <1>1, <1>4 DEF RHInv, OwnOK
    <2> QED BY <1>1, <2>1
  <1> QED BY <1>1, <1>2, <1>3, <1>4

LEMMA NobodyWaitsInACircle ==
    RHInv => NoCircularWait \/ \E t \in Threads : Stuck(t)
  <1> SUFFICES ASSUME RHInv, \A t \in Threads : ~Stuck(t),
                      NEW T \in (SUBSET Threads) \ {{}},
                      \A t \in T : \E u \in T : WaitsFor(t, u)
               PROVE  FALSE
    BY DEF NoCircularWait
  <1> DEFINE n == 2^(hp_ - SlotPow)
             O == {b \in BucketIds : \E u \in T : b \in walk[u].own}
  <1>1. BucketIds = 0..n - 1 /\ n \in Nat
    BY Basics DEF RHInv, SizesOK
  <1>2. \A t \in T : \E b \in Wanted(t) : b \in O
    BY DEF WaitsFor, RHInv, LocksOK
  <1>3. O # {} /\ O \in SUBSET (0..n - 1)
    BY <1>1, <1>2
  <1>4. PICK b \in O : \A c \in O : c <= b
    <2> HIDE DEF n, O
    <2> QED BY <1>1, <1>3, Greatest
  <1>5. PICK u \in T : b \in walk[u].own
    OBVIOUS
  <1>6. PICK c \in Wanted(u) : c \in O
    BY <1>2
  <1>7. u \in Threads
    OBVIOUS
  <1>8. c \in Nat /\ b < c
    BY <1>5, <1>6, <1>7, WaitsAbove
  <1>9. c <= b /\ b \in Nat
    BY <1>1, <1>3, <1>4, <1>6
  <1> QED BY <1>8, <1>9

LEMMA OthersStay ==
    ASSUME NEW t \in Threads, Begin(t) \/ Step(t), NEW u \in Threads \ {t}, RHInv
    PROVE  pc'[u] = pc[u] /\ walk'[u] = walk[u]
  <1> USE DEF Goto
  <1>0. pc \in [Threads -> Labels] /\ walk \in [Threads -> WalkRecords]
    BY DEF RHInv, Typed
  <1>1. CASE Begin(t) \/ Start(t) \/ Return(t)
    BY <1>0, <1>1 DEF Begin, Start, Return
  <1>2. CASE LockFirst(t) \/ LockNext(t) \/ Release(t)
    BY <1>0, <1>2 DEF LockFirst, LockNext, Release
  <1>3. CASE Probe(t) \/ FindPath(t) \/ Erase(t)
    BY <1>0, <1>3 DEF Probe, FindPath, Erase, ToNextBucket
  <1>4. CASE Found(t) \/ NotFound(t) \/ Add(t) \/ MovePath(t)
    BY <1>0, <1>4 DEF Found, NotFound, Add, MovePath, Answer
  <1>5. CASE Shift(t)
    BY <1>0, <1>5 DEF Shift, StartRelease
  <1>6. CASE RehashRequired(t) \/ DoubleRaced(t) \/ Doubled(t)
    BY <1>0, <1>6 DEF RehashRequired, DoubleRaced, Doubled, StartRelease
  <1>7. CASE LockAll(t) \/ Grow(t)
    BY <1>0, <1>7 DEF LockAll, Grow
  <1>8. CASE SkipFree(t) \/ MoveFar(t) \/ MoveNear(t) \/ Stay(t)
    BY <1>0, <1>8 DEF SkipFree, MoveFar, MoveNear, Stay, Rearrange
  <1>9. CASE Find(t)
    BY <1>0, <1>9 DEF Find, Epoch, CheckHp, Scan, Value, CheckEpochs
  <1> QED BY <1>1, <1>2, <1>3, <1>4, <1>5, <1>6, <1>7, <1>8, <1>9 DEF Step, Write, Double

\* Where a thread begins to lock all buckets.
LEMMA LockAllStarts ==
    ASSUME RHInv, NEW t \in Threads, Begin(t) \/ Step(t), pc'[t] = "lock_all"
    PROVE  LockAll(t) \/ Release(t) \/ MoveFar(t)
  <1> USE DEF Goto
  <1>0. pc \in [Threads -> Labels]
    BY DEF RHInv, Typed
  <1>1. ~Begin(t) /\ ~Start(t) /\ ~Return(t)
    BY <1>0 DEF Begin, Start, Return
  <1>2. ~LockFirst(t) /\ ~NotFound(t) /\ ~Found(t) /\ ~Add(t) /\ ~MovePath(t) /\ ~Erase(t) /\ ~Shift(t)
    <2>1. ~LockFirst(t) /\ ~Erase(t)
      BY <1>0 DEF LockFirst, Erase
    <2>2. ~NotFound(t) /\ ~Found(t) /\ ~Add(t) /\ ~MovePath(t)
      BY <1>0 DEF NotFound, Found, Add, MovePath, Answer
    <2>3. ~Shift(t)
      BY <1>0 DEF Shift, StartRelease
    <2> QED BY <2>1, <2>2, <2>3
  <1>3. ~LockNext(t)
    <2>1. pc[t] = "lock_next" => walk[t].go # "lock_all"
      BY DEF RHInv, OwnOK
    <2> QED BY <1>0, <2>1 DEF LockNext
  <1>4. ~FindPath(t)
    BY <1>0 DEF FindPath, ToNextBucket
  <1>5. ~Probe(t)
    <2> SUFFICES ASSUME Probe(t) PROVE FALSE
      OBVIOUS
    <2> DEFINE b == walk[t].bucket
               status(i) == Status(table, Key(t), i, i - HomeOf(t), walk[t].seen)
               stops == {i \in SlotsOf(b) : i >= HomeOf(t) /\ status(i) # "next"}
    <2>1. pc[t] \in Under /\ pc[t] # "idle"
      BY DEF Probe, Under
    <2>2. stops \in SUBSET Nat /\ HomeOf(t) \in Nat /\ walk[t].seen \in Nat
      BY <2>1, UnderFacts, CallFacts, WalkFacts
    <2>3. CASE stops # {}
      <3>1. pc'[t] = status(Min(stops))
        BY <1>0, <2>3 DEF Probe
      <3>2. Min(stops) \in Nat
        <4> HIDE DEF stops
        <4> QED BY <2>2, <2>3, MinIsLeast
      <3>3. \A i \in Nat : i - HomeOf(t) \in Int
        BY <2>2
      <3>4. \A i \in Nat : status(i) # "lock_all"
        BY <2>2, <3>3, StatusCases
      <3> QED BY <3>1, <3>2, <3>4
    <2>4. CASE stops = {}
      BY <1>0, <2>4 DEF Probe, ToNextBucket
    <2> QED BY <2>3, <2>4
  <1>6. ~RehashRequired(t) /\ ~DoubleRaced(t) /\ ~Doubled(t)
    BY <1>0 DEF RehashRequired, DoubleRaced, Doubled, StartRelease
  <1>7. ~Grow(t)
    BY <1>0 DEF Grow
  <1>8. ~SkipFree(t) /\ ~MoveNear(t) /\ ~Stay(t)
    BY <1>0 DEF SkipFree, MoveNear, Stay, Rearrange, Spreading
  <1>9. ~Find(t)
    <2>1. ~Epoch(t) /\ ~CheckHp(t) /\ ~Scan(t) /\ ~Value(t)
      BY <1>0 DEF Epoch, CheckHp, Scan, Value
    <2>2. ~CheckEpochs(t)
      BY <1>0 DEF CheckEpochs
    <2> QED BY <2>1, <2>2 DEF Find
  <1> QED BY <1>1, <1>2, <1>3, <1>4, <1>5, <1>6, <1>7, <1>8, <1>9 DEF Step, Write, Double

\* The entries that a doubling puts further on find a place in their windows.
NestedInsertsFit ==
    \A t \in Threads :
        Spreading(t) /\ Here(t) # Empty /\ NewHome(t) > At(t) => ~WindowIsFull(t)

LEMMA NobodyGetsStuck ==
    ASSUME RHInv, NestedInsertsFit, [Next]_vars, \A t \in Threads : ~Stuck(t)
    PROVE  \A t \in Threads : ~Stuck(t)'
  <1> SUFFICES ASSUME NEW u \in Threads, Stuck(u)' PROVE FALSE
    OBVIOUS
  <1>1. ~Stuck(u) /\ pc'[u] = "lock_all" /\ walk'[u].bucket \in walk'[u].own
    BY DEF Stuck
  <1>2. ~UNCHANGED vars
    BY <1>1 DEF vars, Stuck
  <1>3. PICK t \in Threads : Begin(t) \/ Step(t)
    BY <1>2 DEF Next, Finished
  <1>4. pc \in [Threads -> Labels] /\ walk \in [Threads -> WalkRecords]
    BY DEF RHInv, Typed
  <1>5. CASE t # u
    <2>1. pc'[u] = pc[u] /\ walk'[u] = walk[u]
      BY <1>3, <1>5, OthersStay
    <2> QED BY <1>1, <2>1 DEF Stuck
  <1>6. CASE t = u
    <2>1. CASE LockAll(t)
      <3> DEFINE b == walk[t].bucket
                 w == [walk[t] EXCEPT !.own = @ \cup {b}, !.bucket = b + 1]
      <3>1. walk' = [walk EXCEPT ![t] = w] /\ pc[t] = "lock_all"
        BY <2>1 DEF LockAll
      <3>2. walk[t].own = 0..b - 1 /\ b \in Nat
        BY <3>1, WalkFacts DEF RHInv, OwnOK
      <3>3. w.own = walk[t].own \cup {b} /\ w.bucket = b + 1
        BY <1>4 DEF WalkRecords
      <3> HIDE DEF w
      <3>4. walk'[t] = w
        BY <1>4, <3>1
      <3> HIDE DEF b
      <3> QED BY <1>1, <1>6, <3>2, <3>3, <3>4
    <2>2. CASE Release(t)
      <3>1. PICK b \in walk[t].own :
              /\ walk' = [walk EXCEPT ![t].own = @ \ {b}, ![t].bucket = 0]
              /\ pc' = [pc EXCEPT ![t] = IF walk[t].own = {b} THEN walk[t].go ELSE "release"]
        BY <2>2 DEF Release, Goto
      <3>2. walk[t].own = {b}
        BY <1>1, <1>4, <1>6, <3>1
      <3>3. walk'[t].own = walk[t].own \ {b}
        <4>1. walk[t] \in WalkRecords
          BY <1>4
        <4> QED BY <1>4, <3>1, <4>1 DEF WalkRecords
      <3> QED BY <1>1, <1>6, <3>2, <3>3
    <2>3. CASE MoveFar(t)
      <3>1. ~WindowIsFull(t)
        BY <2>3 DEF MoveFar, NestedInsertsFit
      <3>2. pc' = pc /\ pc[t] = "spread"
        BY <2>3, <3>1 DEF MoveFar, Rearrange, Spreading
      <3> QED BY <1>1, <1>6, <3>2
    <2> QED BY <1>1, <1>3, <1>6, <2>1, <2>2, <2>3, LockAllStarts
  <1> QED BY <1>5, <1>6

\* Nobody waits in a circle, whatever walks, releases and doublings overlap:
\* all lock upwards (391-392, 485, 565-566, 593-601).  It takes that every
\* entry a doubling puts further on finds a place in its window: otherwise the
\* thread asks for another doubling and waits for itself (512, 619-628).
THEOREM LocksAreAcyclic ==
    PowerLaw => (Spec /\ []NestedInsertsFit => []NoCircularWait)
  <1> DEFINE NoneStuck == \A t \in Threads : ~Stuck(t)
  <1>1. Init => NoneStuck
    BY DEF Init, Stuck
  <1>2. RHInv /\ NestedInsertsFit /\ NoneStuck /\ [Next]_vars => NoneStuck'
    BY NobodyGetsStuck
  <1>3. RHInv /\ NoneStuck => NoCircularWait
    BY NobodyWaitsInACircle
  <1> QED BY <1>1, <1>2, <1>3, LocksInvariant, PTL DEF Spec
=============================================================================
