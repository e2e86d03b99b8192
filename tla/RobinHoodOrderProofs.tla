------------------------ MODULE RobinHoodOrderProofs ------------------------
(***************************************************************************)
(* The order of the robin hood table: entries lie in the order of their    *)
(* homes, within their windows, and no slot between an entry and its home  *)
(* is free but the one an erasure is about to fill.  A walk knows of the   *)
(* slots it has passed that they hold earlier homes and other keys, and as *)
(* it owns them this stays so.  A doubling leaves its gaps only among the  *)
(* slots it knows to be free.                                              *)
(*                                                                         *)
(* Then what callers see: while the epoch of a bucket stands nothing in it *)
(* has changed, so a lookup whose epochs all stand has answered right, and *)
(* the map implements ConcurrentMap.                                       *)
(***************************************************************************)
EXTENDS RobinHoodProofs

\* Where the walk that ends at an entry has begun.
From(tab, i) == i - tab[i].dist

Rising(tab) == \A i, j \in Entries(tab) : i < j => From(tab, i) <= From(tab, j)

Housed(tab, hp) ==
    \A i \in Entries(tab) : From(tab, i) = Home(tab[i].key, hp) /\ tab[i].dist <= Window(hp)

\* A free slot that a walk to some entry would meet.
Gap(tab, k) ==
    tab[k] = Empty /\ \E j \in Entries(tab) : From(tab, j) <= k /\ k < j

Hole(k) == \E t \in Threads : Heading(t, "shift") /\ k = walk[t].pos - 1

Doubling(t) == pc[t] = "spread" \/ Stuck(t)

Ordered ==
    (\A t \in Threads : ~Doubling(t)) =>
        Housed(table, hp_) /\ \A k \in DOMAIN table : Gap(table, k) => Hole(k)

\* A doubling from 2^old slots has brought the slots before q in order, for the
\* new homes; no slot is a gap but the f free ones before q.
Halfway(tab, old, q, f) ==
    /\ q <= 2^old /\ f <= q
    /\ \A k \in q - f..q - 1 : tab[k] = Empty
    /\ \A k \in DOMAIN tab : Gap(tab, k) => q - f <= k /\ k < q
    /\ \A i \in Entries(tab) :
          \/ From(tab, i) = Home(tab[i].key, old + 1)
          \/ i >= q /\ From(tab, i) = Home(tab[i].key, old)

SpreadOK(t) ==
    /\ hp_ = walk[t].seen + 1 /\ 2^walk[t].seen >= 2 * MaxWindow
    /\ Halfway(table, walk[t].seen, At(t), walk[t].free)

\* The slots from home up to slot x belong to the walk; they hold other keys,
\* none of which is nearer to its home.
Passed(t, x) ==
    \A j \in HomeOf(t)..x - 1 :
        /\ BucketOf(j) \in walk[t].own /\ table[j] # Empty
        /\ From(table, j) <= HomeOf(t) /\ table[j].key # Key(t)

Stops == {"equal", "not_occupied", "move_path"}

PathOK(t) ==
    /\ pc[t] \in Under \cup {"lock_next"} => walk[t].seen = hp_
    /\ Heading(t, "probe") => Passed(t, First(walk[t].bucket))
    /\ pc[t] \in Stops \/ Heading(t, "less_dist") =>
          Passed(t, walk[t].pos) /\ walk[t].pos - HomeOf(t) <= WindowOf(t)
    /\ pc[t] = "equal" => table[walk[t].pos].key = Key(t)
    /\ Heading(t, "less_dist") \/ pc[t] = "move_path" =>
          /\ BucketOf(walk[t].pos) \in walk[t].own
          /\ table[walk[t].pos] # Empty /\ From(table, walk[t].pos) > HomeOf(t)
    /\ pc[t] = "move_path" =>
          \E j \in SlotsOf(walk[t].bucket) :
              /\ j > walk[t].pos /\ j - HomeOf(t) <= WindowOf(t) /\ table[j] = Empty
    /\ pc[t] = "out_of_window" /\ Call(t).op \notin Inserts =>
          \E x \in Nat : x - HomeOf(t) > WindowOf(t) /\ Passed(t, x)
    /\ pc[t] = "lock_next" => First(walk[t].bucket) \in DOMAIN table
    /\ Heading(t, "shift") => walk[t].pos \in DOMAIN table

OrderInv ==
    /\ 2^hp_ >= 2 * MaxWindow
    /\ KeysOnce(table) /\ Rising(table) /\ Ordered
    /\ \A t \in Threads : /\ Stuck(t) => walk[t].own = BucketIds
                          /\ pc[t] = "spread" => SpreadOK(t)
                          /\ PathOK(t)

\* What the code takes for granted and does not check; each part holds in every
\* state of run rh.  No window is as wide as the slots kept free for it: it has
\* hashpower + 1 slots and MAX_WINDOW_SIZE is 64.
SmallWindows == Window(hp_) < MaxWindow

\* No entry that a doubling displaces leaves its window (cfg RobinHoodDisplacing
\* shows one that does).
DoublingsKeepWindows ==
    \A t \in Threads : pc[t] = "spread" => \A i \in Entries(table) : table[i].dist <= Window(hp_)

\* No entry that a doubling displaces is left in the new half away from its
\* home, where the loop does not go to bring it back (616-617).
DoublingsStayInside ==
    \A t \in Threads : pc[t] = "spread" /\ At(t) = 2^walk[t].seen =>
        table[At(t)] = Empty \/ table[At(t)].dist = 0

\* No more free slots in a row than free_behind counts (615).
FreeSlotsAreCounted == \A t \in Threads : Spreading(t) => walk[t].free + 1 < FreeMod

AsExpected == SmallWindows /\ DoublingsKeepWindows /\ DoublingsStayInside /\ FreeSlotsAreCounted

OthersStill(t) ==
    \A u \in Threads \ {t} : walk'[u] = walk[u] /\ pc'[u] = pc[u] /\ todo'[u] = todo[u]


-----------------------------------------------------------------------------
\* Powers and remainders.
LEMMA SmallPowers ==
    ASSUME PowerLaw
    PROVE  2^1 = 2 /\ 2^2 = 4 /\ 2^3 = 8 /\ 2^4 = 16
  <1>1. \A n \in Nat : 2^(n + 1) = 2 * 2^n
    BY DEF PowerLaw
  <1>2. 2^(0 + 1) = 2 * 2^0 /\ 2^0 = 1 /\ 0 + 1 = 1
    BY <1>1 DEF PowerLaw
  <1>3. 2^1 = 2
    BY <1>2
  <1>4. 2^(1 + 1) = 2 * 2^1 /\ 1 + 1 = 2
    BY <1>1
  <1>5. 2^2 = 4
    BY <1>3, <1>4
  <1>6. 2^(2 + 1) = 2 * 2^2 /\ 2 + 1 = 3
    BY <1>1
  <1>7. 2^3 = 8
    BY <1>5, <1>6
  <1>8. 2^(3 + 1) = 2 * 2^3 /\ 3 + 1 = 4
    BY <1>1
  <1> QED BY <1>3, <1>5, <1>7, <1>8

LEMMA PowersGrow ==
    ASSUME PowerLaw
    PROVE  \A n \in Nat : n >= 4 => 2^n >= 2 * n + 8
  <1> DEFINE S == {n \in Nat : n >= 4 => 2^n >= 2 * n + 8}
  <1>1. 0 \in S
    OBVIOUS
  <1>2. ASSUME NEW n \in Nat, n \in S PROVE n + 1 \in S
    <2> SUFFICES ASSUME n + 1 >= 4 PROVE 2^(n + 1) >= 2 * (n + 1) + 8
      OBVIOUS
    <2>1. CASE n = 3
      <3>1. n + 1 = 4 /\ 2 * (n + 1) + 8 = 16
        BY <2>1
      <3>2. 2^(n + 1) = 2^4
        BY <3>1
      <3> QED BY <3>1, <3>2, SmallPowers
    <2>2. CASE n # 3
      <3> DEFINE x == 2^n
      <3>1. n >= 4 /\ x >= 2 * n + 8 /\ x \in Nat /\ 2^(n + 1) = 2 * x
        BY <1>2, <2>2, Powers DEF PowerLaw
      <3> HIDE DEF x
      <3>2. 2 * x >= 2 * (n + 1) + 8
        BY <3>1
      <3> QED BY <3>1, <3>2
    <2> QED BY <2>1, <2>2
  <1> HIDE DEF S
  <1>3. Nat \subseteq S
    BY <1>1, <1>2, AllNumbers
  <1> QED BY <1>3 DEF S

LEMMA Remainder ==
    ASSUME NEW s \in Nat \ {0}, NEW q \in Int, NEW r \in 0..s - 1, NEW a \in Int, a = s * q + r
    PROVE  a % s = r
  <1>1. q * s <= a /\ a < q * s + s
    BY s * q = q * s
  <1>2. a \div s = q
    BY <1>1, Between
  <1>3. a = s * (a \div s) + (a % s)
    OBVIOUS
  <1> QED BY <1>2, <1>3

\* Under one bit more the remainder stays or grows by the old modulus.
LEMMA OneMoreBit ==
    ASSUME NEW s \in Nat \ {0}, NEW a \in Nat
    PROVE  /\ a % s \in 0..s - 1 /\ a % (2 * s) \in 0..2 * s - 1
           /\ a % (2 * s) = a % s \/ a % (2 * s) = (a % s) + s
  <1> DEFINE q == a \div (2 * s)
             r == a % (2 * s)
  <1>1. 2 * s \in Nat \ {0}
    OBVIOUS
  <1>2. q \in Int /\ r \in 0..2 * s - 1 /\ a = (2 * s) * q + r
    <2> DEFINE m == 2 * s
    <2> HIDE DEF m
    <2>1. m \in Nat \ {0}
      BY <1>1 DEF m
    <2>2. a \div m \in Int /\ a % m \in 0..m - 1
      BY <2>1
    <2>3. a = m * (a \div m) + (a % m)
      BY <2>1
    <2> QED BY <2>2, <2>3 DEF m
  <1> HIDE DEF q, r
  <1> DEFINE q2 == 2 * q
             q3 == 2 * q + 1
  <1>3. (2 * s) * q = s * q2 /\ s * q3 = s * q2 + s /\ q2 \in Int /\ q3 \in Int
    BY <1>2
  <1> HIDE DEF q2, q3
  <1>4. CASE r < s
    <2>1. r \in 0..s - 1 /\ a = s * q2 + r
      BY <1>2, <1>3, <1>4
    <2>2. a % s = r
      BY <1>3, <2>1, Remainder
    <2> QED BY <1>2, <2>1, <2>2 DEF r
  <1>5. CASE r >= s
    <2> DEFINE r2 == r - s
    <2>1. r2 \in 0..s - 1 /\ a = s * q3 + r2 /\ r = r2 + s
      BY <1>2, <1>3, <1>5
    <2> HIDE DEF r2
    <2>2. a % s = r2
      BY <1>3, <2>1, Remainder
    <2> QED BY <1>2, <2>1, <2>2 DEF r
  <1> QED BY <1>2, <1>4, <1>5

-----------------------------------------------------------------------------
\* The homes.
LEMMA WideTables ==
    ASSUME PowerLaw, NEW hp \in Nat, 2^hp >= 2 * MaxWindow, Window(hp) < MaxWindow
    PROVE  /\ 2^hp \in Nat \ {0} /\ MaxWindow \in Nat
           /\ MaxWindow + Window(hp) + 1 < 2^hp
           /\ Window(hp + 1) < MaxWindow => MaxWindow + Window(hp + 1) + 1 < 2^hp
  <1> DEFINE x == 2^hp
  <1>1. /\ x \in Nat \ {0} /\ MaxWindow \in Nat /\ x >= 2 * MaxWindow /\ MaxWindow >= hp + 2
        /\ Window(hp) = hp + 1 /\ Window(hp + 1) = hp + 2
    BY Powers, RobinHoodAssumption DEF Window
  <1>2. hp >= 4 => x >= 2 * hp + 8
    BY PowersGrow
  <1>3. hp = 0 => x = 1
    BY DEF PowerLaw
  <1>4. hp = 1 => x = 2
    BY SmallPowers
  <1>5. hp = 2 => x = 4
    BY SmallPowers
  <1>6. hp = 3 => x = 8
    BY SmallPowers
  <1> HIDE DEF x
  <1>7. hp >= 4
    BY <1>1, <1>3, <1>4, <1>5, <1>6
  <1>8. MaxWindow + (hp + 1) + 1 < x /\ (hp + 2 < MaxWindow => MaxWindow + (hp + 2) + 1 < x)
    BY <1>1, <1>2, <1>7
  <1> QED BY <1>1, <1>8 DEF x

LEMMA HomesLeaveRoom ==
    ASSUME PowerLaw, NEW k \in Keys, NEW hp \in Nat, 2^hp >= 2 * MaxWindow, Window(hp) < MaxWindow
    PROVE  Home(k, hp) \in Nat /\ Home(k, hp) + Window(hp) < 2^hp - 1
  <1> DEFINE n == 2^hp
             index == Hash[k] % n
             border == n - 1 - MaxWindow
  <1>1. /\ n \in Nat \ {0} /\ MaxWindow \in Nat /\ MaxWindow + Window(hp) + 1 < n /\ Window(hp) \in Nat
        /\ Window(hp) < MaxWindow
    BY WideTables DEF Window
  <1>2. Hash[k] \in Nat
    BY RobinHoodAssumption
  <1>3. Home(k, hp) = IF index <= border THEN index ELSE index - border
    BY DEF Home
  <1>4. Home(k, hp) \in Nat
    BY <1>1, HomeIsNat
  <1>5. index \in 0..n - 1
    <2> HIDE DEF n
    <2> QED BY <1>1, <1>2
  <1> HIDE DEF n, index
  <1>6. (IF index <= border THEN index ELSE index - border) + Window(hp) < n - 1
    BY <1>1, <1>5
  <1> QED BY <1>3, <1>4, <1>6 DEF n

\* A doubling leaves a home where it is or moves it beyond every window of the
\* old one, and no old home is near the end of the old table.
LEMMA HomesDouble ==
    ASSUME PowerLaw, NEW k \in Keys, NEW hp \in Nat, 2^hp >= 2 * MaxWindow, Window(hp + 1) < MaxWindow
    PROVE  /\ Home(k, hp) \in Nat /\ Home(k, hp + 1) \in Nat
           /\ Home(k, hp + 1) = Home(k, hp) \/ Home(k, hp + 1) > Home(k, hp) + Window(hp + 1)
           /\ Home(k, hp) + Window(hp + 1) < 2^hp
  <1> DEFINE n == 2^hp
             index == Hash[k] % n
             index2 == Hash[k] % (2 * n)
             border == n - 1 - MaxWindow
             border2 == 2 * n - 1 - MaxWindow
  <1>0. Window(hp) < MaxWindow /\ Window(hp) = hp + 1 /\ Window(hp + 1) = hp + 2
    BY RobinHoodAssumption DEF Window
  <1>1. /\ n \in Nat \ {0} /\ MaxWindow \in Nat /\ MaxWindow + Window(hp + 1) + 1 < n
        /\ Window(hp + 1) \in Nat /\ Window(hp + 1) < MaxWindow /\ n >= 2 * MaxWindow
    BY <1>0, WideTables
  <1>2. Hash[k] \in Nat /\ 2^(hp + 1) = 2 * n
    BY RobinHoodAssumption DEF PowerLaw
  <1>3. Home(k, hp) = IF index <= border THEN index ELSE index - border
    BY DEF Home
  <1>4. Home(k, hp + 1) = IF index2 <= border2 THEN index2 ELSE index2 - border2
    BY <1>2 DEF Home
  <1>5. /\ index \in 0..n - 1 /\ index2 \in 0..2 * n - 1
        /\ index2 = index \/ index2 = index + n
    <2> HIDE DEF n
    <2> QED BY <1>1, <1>2, OneMoreBit
  <1> DEFINE h == IF index <= border THEN index ELSE index - border
             h2 == IF index2 <= border2 THEN index2 ELSE index2 - border2
  <1>6. h \in Nat /\ h2 \in Nat /\ (h2 = h \/ h2 > h + Window(hp + 1)) /\ h + Window(hp + 1) < n
    <2> HIDE DEF n, index, index2
    <2> QED BY <1>1, <1>5
  <1> HIDE DEF n, h, h2, index, index2
  <1> QED BY <1>3, <1>4, <1>6 DEF n, h, h2, index, index2

-----------------------------------------------------------------------------
\* What displacing does to the order.  Below j is a slot that is passed, c an
\* entry that is carried to it.
What(tab, x) == <<tab[x].key, tab[x].val, From(tab, x)>>

CarriedFrom(c, j) == j - c.dist

LEMMA EntryFacts ==
    ASSUME NEW n \in Nat, NEW tab \in Tables(n)
    PROVE  /\ DOMAIN tab = 0..n - 1 /\ Entries(tab) \subseteq 0..n - 1
           /\ \A x \in Entries(tab) :
                 /\ x \in Nat /\ tab[x] \in EntryRecords /\ tab[x].dist \in Nat
                 /\ tab[x].key \in Keys /\ From(tab, x) \in Int /\ From(tab, x) <= x
           /\ \A x \in 0..n - 1 : tab[x] # Empty <=> x \in Entries(tab)
  <1>1. DOMAIN tab = 0..n - 1 /\ \A x \in 0..n - 1 : tab[x] \in EntryRecords \cup {Empty}
    BY DEF Tables
  <1>2. \A x \in Entries(tab) : x \in 0..n - 1 /\ tab[x] # Empty
    BY <1>1 DEF Entries
  <1>3. ASSUME NEW x \in Entries(tab)
        PROVE  /\ x \in Nat /\ tab[x] \in EntryRecords /\ tab[x].dist \in Nat
               /\ tab[x].key \in Keys /\ From(tab, x) \in Int /\ From(tab, x) <= x
    <2>1. x \in Nat /\ tab[x] \in EntryRecords
      BY <1>1, <1>2
    <2> QED BY <2>1 DEF EntryRecords, From
  <1> QED BY <1>1, <1>2, <1>3 DEF Entries

LEMMA CarryFacts ==
    ASSUME NEW n \in Nat, NEW tab \in Tables(n), NEW i \in Nat, NEW e \in EntryRecords,
           NEW F, F = FreeFrom(tab, i), F # n, NEW C, C = Carried(tab, i, e),
           NEW P, P = Put(tab, i, e)
    PROVE  /\ F \in 0..n - 1 /\ i <= F /\ tab[F] = Empty
           /\ \A j \in i..F : C[j] \in EntryRecords /\ C[j].dist \in Nat
           /\ C[i] = e /\ P[F] = C[F]
           /\ \A x \in 0..n - 1 : x \notin i..F => P[x] = tab[x]
           /\ \A j \in i..F - 1 :
                 /\ j \in Entries(tab) /\ j \in 0..n - 1 /\ j + 1 \in i..F /\ j \in i..F
                 /\ \/ /\ CarriedFrom(C[j], j) < From(tab, j)
                       /\ P[j] = C[j] /\ C[j + 1] = Aged(tab[j])
                    \/ /\ From(tab, j) <= CarriedFrom(C[j], j)
                       /\ P[j] = tab[j] /\ C[j + 1] = Aged(C[j])
  <1>1. F \in 0..n - 1 /\ i <= F /\ tab[F] = Empty /\ \A j \in 0..n - 1 : j >= i /\ tab[j] = Empty => F <= j
    <2> DEFINE G == FreeFrom(tab, i)
    <2>1. /\ G \in 0..n /\ (G # n => i <= G /\ tab[G] = Empty)
          /\ \A j \in 0..n - 1 : j >= i /\ tab[j] = Empty => G <= j
      BY FreeFromFacts
    <2> HIDE DEF G
    <2>2. F = G
      BY DEF G
    <2> QED BY <2>1, <2>2
  <1>2. \A j \in i..F : C[j] \in EntryRecords /\ C[j].dist \in Nat
    <2>1. \A j \in i..F : C[j] \in EntryRecords
      BY CarriedTyped
    <2> QED BY <2>1 DEF EntryRecords
  <1>3. \A j \in i..F : C[j] = IF j = i THEN e
                                ELSE Aged(IF Nearer(tab, j - 1, C[j - 1]) THEN tab[j - 1] ELSE C[j - 1])
    BY CarriedSteps
  <1>4. C[i] = e
    BY <1>1, <1>3
  <1>5. DOMAIN tab = 0..n - 1
    BY EntryFacts
  <1>6. P = [j \in 0..n - 1 |-> IF j \in i..F /\ (j = F \/ Nearer(tab, j, C[j])) THEN C[j] ELSE tab[j]]
    BY <1>5 DEF Put
  <1>7. \A j \in 0..n - 1 : P[j] = IF j \in i..F /\ (j = F \/ Nearer(tab, j, C[j])) THEN C[j] ELSE tab[j]
    BY <1>6
  <1>8. P[F] = C[F]
    BY <1>1, <1>7
  <1>9. \A x \in 0..n - 1 : x \notin i..F => P[x] = tab[x]
    BY <1>7
  <1>10. ASSUME NEW j \in i..F - 1
         PROVE  /\ j \in Entries(tab) /\ j \in 0..n - 1 /\ j + 1 \in i..F /\ j \in i..F
                /\ \/ /\ CarriedFrom(C[j], j) < From(tab, j)
                      /\ P[j] = C[j] /\ C[j + 1] = Aged(tab[j])
                   \/ /\ From(tab, j) <= CarriedFrom(C[j], j)
                      /\ P[j] = tab[j] /\ C[j + 1] = Aged(C[j])
    <2>1. j \in 0..n - 1 /\ j + 1 \in i..F /\ j \in i..F /\ j < F /\ j + 1 # i /\ j + 1 - 1 = j /\ j # F
      BY <1>1
    <2>2. tab[j] # Empty /\ j \in Entries(tab)
      BY <1>1, <2>1, EntryFacts
    <2>3. C[j + 1] = Aged(IF Nearer(tab, j, C[j]) THEN tab[j] ELSE C[j])
      BY <1>3, <2>1
    <2>4. P[j] = IF Nearer(tab, j, C[j]) THEN C[j] ELSE tab[j]
      BY <1>7, <2>1
    <2>5. C[j].dist \in Nat /\ tab[j].dist \in Nat /\ j \in Nat
      BY <1>2, <2>1, <2>2, EntryFacts
    <2>6. Nearer(tab, j, C[j]) <=> CarriedFrom(C[j], j) < From(tab, j)
      BY <2>2, <2>5 DEF Nearer, CarriedFrom, From
    <2>7. ~Nearer(tab, j, C[j]) <=> From(tab, j) <= CarriedFrom(C[j], j)
      BY <2>2, <2>5 DEF Nearer, CarriedFrom, From
    <2> QED BY <2>1, <2>2, <2>3, <2>4, <2>6, <2>7
  <1> QED BY <1>1, <1>2, <1>4, <1>8, <1>9, <1>10

\* The slots up to the first free one hold the new entry and what they held
\* before; each entry keeps the home its distance tells.
LEMMA PutKeeps ==
    ASSUME NEW n \in Nat, NEW tab \in Tables(n), NEW i \in Nat, NEW e \in EntryRecords,
           NEW F, F = FreeFrom(tab, i), F # n, NEW P, P = Put(tab, i, e)
    PROVE  {What(P, x) : x \in i..F} =
               {<<e.key, e.val, i - e.dist>>} \cup {What(tab, x) : x \in i..F - 1}
  <1> DEFINE C == Carried(tab, i, e)
             new == <<e.key, e.val, i - e.dist>>
             WC(j) == <<C[j].key, C[j].val, CarriedFrom(C[j], j)>>
             WP(j) == {What(P, x) : x \in i..j - 1}
             WT(j) == {What(tab, x) : x \in i..j - 1}
             T == {m \in Nat : i + m <= F => WP(i + m) \cup {WC(i + m)} = {new} \cup WT(i + m)}
  <1>1. /\ F \in 0..n - 1 /\ i <= F /\ tab[F] = Empty
        /\ \A j \in i..F : C[j] \in EntryRecords /\ C[j].dist \in Nat
        /\ C[i] = e /\ P[F] = C[F]
        /\ \A j \in i..F - 1 :
              /\ j \in Entries(tab) /\ j \in 0..n - 1 /\ j + 1 \in i..F /\ j \in i..F
              /\ \/ P[j] = C[j] /\ C[j + 1] = Aged(tab[j])
                 \/ P[j] = tab[j] /\ C[j + 1] = Aged(C[j])
    BY CarryFacts
  <1> HIDE DEF C
  <1>2. ASSUME NEW j \in i..F - 1
        PROVE  {What(P, j), WC(j + 1)} = {WC(j), What(tab, j)}
    <2>1. j \in Nat /\ C[j] \in EntryRecords /\ tab[j] \in EntryRecords
      BY <1>1, EntryFacts
    <2>2. CASE P[j] = C[j] /\ C[j + 1] = Aged(tab[j])
      <3>1. What(P, j) = WC(j)
        BY <2>2 DEF What, From, CarriedFrom
      <3>2. /\ C[j + 1].key = tab[j].key /\ C[j + 1].val = tab[j].val
            /\ C[j + 1].dist = tab[j].dist + 1 /\ tab[j].dist \in Nat
        BY <2>1, <2>2 DEF Aged, EntryRecords
      <3>3. CarriedFrom(C[j + 1], j + 1) = From(tab, j)
        BY <2>1, <3>2 DEF CarriedFrom, From
      <3>4. WC(j + 1) = What(tab, j)
        BY <3>2, <3>3 DEF What
      <3> QED BY <3>1, <3>4
    <2>3. CASE P[j] = tab[j] /\ C[j + 1] = Aged(C[j])
      <3>1. What(P, j) = What(tab, j)
        BY <2>3 DEF What, From
      <3>2. /\ C[j + 1].key = C[j].key /\ C[j + 1].val = C[j].val
            /\ C[j + 1].dist = C[j].dist + 1 /\ C[j].dist \in Nat
        BY <2>1, <2>3 DEF Aged, EntryRecords
      <3>3. CarriedFrom(C[j + 1], j + 1) = CarriedFrom(C[j], j)
        BY <2>1, <3>2 DEF CarriedFrom
      <3>4. WC(j + 1) = WC(j)
        BY <3>2, <3>3
      <3> QED BY <3>1, <3>4
    <2> QED BY <1>1, <2>2, <2>3
  <1>3. ASSUME NEW j \in i..F
        PROVE  /\ {What(P, x) : x \in i..j + 1 - 1} = WP(j) \cup {What(P, j)}
               /\ {What(tab, x) : x \in i..j + 1 - 1} = WT(j) \cup {What(tab, j)}
    <2>1. i..j + 1 - 1 = (i..j - 1) \cup {j}
      BY <1>1
    <2> QED BY <2>1
  <1>4. 0 \in T
    <2>1. i + 0 = i /\ i..i - 1 = {}
      OBVIOUS
    <2>2. WP(i) = {} /\ WT(i) = {}
      BY <2>1
    <2>3. WC(i) = new
      BY <1>1 DEF CarriedFrom
    <2>4. WP(i) \cup {WC(i)} = {new} \cup WT(i)
      BY <2>2, <2>3
    <2> QED BY <2>1, <2>4
  <1>5. ASSUME NEW m \in Nat, m \in T PROVE m + 1 \in T
    <2> DEFINE j == i + m
    <2> SUFFICES ASSUME i + (m + 1) <= F
                 PROVE  WP(i + (m + 1)) \cup {WC(i + (m + 1))} = {new} \cup WT(i + (m + 1))
      OBVIOUS
    <2>1. i + (m + 1) = j + 1 /\ j \in i..F - 1 /\ j \in i..F /\ j <= F
      BY <1>1
    <2>2. WP(j) \cup {WC(j)} = {new} \cup WT(j)
      BY <1>5, <2>1
    <2>3. WP(j + 1) = WP(j) \cup {What(P, j)} /\ WT(j + 1) = WT(j) \cup {What(tab, j)}
      BY <1>3, <2>1
    <2>4. {What(P, j), WC(j + 1)} = {WC(j), What(tab, j)}
      BY <1>2, <2>1
    <2> HIDE DEF j, WP, WC, WT, new
    <2>5. WP(j + 1) \cup {WC(j + 1)} = {new} \cup WT(j + 1)
      BY <2>2, <2>3, <2>4
    <2> QED BY <2>1, <2>5
  <1>6. Nat \subseteq T
    <2> HIDE DEF T
    <2> QED BY <1>4, <1>5, AllNumbers
  <1>7. WP(F) \cup {WC(F)} = {new} \cup WT(F)
    <2>1. F - i \in T /\ i + (F - i) = F
      <3> HIDE DEF T
      <3> QED BY <1>1, <1>6
    <2> HIDE DEF WP, WC, WT, new
    <2> QED BY <1>1, <2>1
  <1>8. What(P, F) = WC(F)
    BY <1>1 DEF What, From, CarriedFrom
  <1>9. {What(P, x) : x \in i..F} = WP(F) \cup {What(P, F)}
    <2>1. F + 1 - 1 = F /\ F \in i..F
      BY <1>1
    <2> HIDE DEF WP
    <2> QED BY <1>3, <2>1
  <1> QED BY <1>7, <1>8, <1>9

\* No key comes twice when the new one is none of those.
LEMMA PutKeysOnce ==
    ASSUME NEW n \in Nat, NEW tab \in Tables(n), NEW i \in Nat, NEW e \in EntryRecords,
           NEW F, F = FreeFrom(tab, i), F # n, NEW P, P = Put(tab, i, e),
           \A x, y \in i..F - 1 : tab[x].key = tab[y].key => x = y,
           \A x \in i..F - 1 : tab[x].key # e.key
    PROVE  \A x, y \in i..F : P[x].key = P[y].key => x = y
  <1> DEFINE C == Carried(tab, i, e)
             Known(k, j) == k = e.key \/ \E y \in i..j - 1 : tab[y].key = k
             Q(j) == /\ Known(C[j].key, j)
                     /\ \A x \in i..j - 1 : Known(P[x].key, j) /\ P[x].key # C[j].key
                     /\ \A x, y \in i..j - 1 : P[x].key = P[y].key => x = y
             T == {m \in Nat : i + m <= F => Q(i + m)}
  <1>1. /\ F \in 0..n - 1 /\ i <= F /\ tab[F] = Empty
        /\ \A j \in i..F : C[j] \in EntryRecords
        /\ C[i] = e /\ P[F] = C[F]
        /\ \A j \in i..F - 1 :
              /\ j \in Entries(tab) /\ j + 1 \in i..F /\ j \in i..F
              /\ \/ P[j] = C[j] /\ C[j + 1] = Aged(tab[j])
                 \/ P[j] = tab[j] /\ C[j + 1] = Aged(C[j])
    BY CarryFacts
  <1> HIDE DEF C
  <1>2. 0 \in T
    <2>1. i + 0 = i /\ i..i - 1 = {}
      OBVIOUS
    <2>2. Q(i)
      BY <1>1, <2>1
    <2> QED BY <2>1, <2>2
  <1>3. ASSUME NEW m \in Nat, m \in T PROVE m + 1 \in T
    <2> DEFINE j == i + m
    <2> SUFFICES ASSUME i + (m + 1) <= F PROVE Q(i + (m + 1))
      OBVIOUS
    <2>1. i + (m + 1) = j + 1 /\ j \in i..F - 1 /\ j \in i..F /\ j <= F /\ j + 1 \in Int
      BY <1>1
    <2>2. Q(j)
      BY <1>3, <2>1
    <2>3. i..j + 1 - 1 = (i..j - 1) \cup {j} /\ \A x \in i..j - 1 : x \in i..F - 1 /\ x # j
      BY <2>1, <1>1
    <2>4. \A y \in i..j - 1 : tab[y].key # tab[j].key
      BY <2>1, <2>3
    <2>5. tab[j].key # e.key
      BY <2>1
    <2>6. ~Known(tab[j].key, j)
      BY <2>4, <2>5
    <2>7. \/ P[j].key = C[j].key /\ C[j + 1].key = tab[j].key
          \/ P[j].key = tab[j].key /\ C[j + 1].key = C[j].key
      <3>1. C[j] \in EntryRecords /\ tab[j] \in EntryRecords
        BY <1>1, <2>1, EntryFacts
      <3> QED BY <1>1, <2>1, <3>1, ZenonT(60) DEF Aged, EntryRecords
    <2>8. \A k : Known(k, j) \/ k = tab[j].key => Known(k, j + 1)
      BY <2>3
    <2> HIDE DEF j, Known
    <2>9. Q(j + 1)
      <3>1. Known(C[j + 1].key, j + 1)
        BY <2>2, <2>7, <2>8
      <3>2. ASSUME NEW x \in (i..j - 1) \cup {j}
            PROVE  Known(P[x].key, j + 1) /\ P[x].key # C[j + 1].key
        BY <2>2, <2>6, <2>7, <2>8
      <3>3. ASSUME NEW x \in (i..j - 1) \cup {j}, NEW y \in (i..j - 1) \cup {j}, P[x].key = P[y].key
            PROVE  x = y
        BY <2>2, <2>6, <2>7, <3>3
      <3> QED BY <2>3, <3>1, <3>2, <3>3
    <2> QED BY <2>1, <2>9
  <1>4. Nat \subseteq T
    <2> HIDE DEF T
    <2> QED BY <1>2, <1>3, AllNumbers
  <1>5. Q(F)
    <2>1. F - i \in T /\ i + (F - i) = F
      <3> HIDE DEF T
      <3> QED BY <1>1, <1>4
    <2> HIDE DEF Q
    <2> QED BY <1>1, <2>1
  <1>6. i..F = (i..F - 1) \cup {F}
    BY <1>1
  <1> QED BY <1>1, <1>5, <1>6

\* The entries stay in order when the new one comes behind all that are before it.
LEMMA PutRises ==
    ASSUME NEW n \in Nat, NEW tab \in Tables(n), NEW i \in Nat, NEW e \in EntryRecords,
           NEW F, F = FreeFrom(tab, i), F # n, NEW P, P = Put(tab, i, e),
           Rising(tab), ~Gap(tab, F),
           \A x \in Entries(tab) : x < i => From(tab, x) <= i - e.dist
    PROVE  Rising(P)
  <1> DEFINE C == Carried(tab, i, e)
             c(j) == CarriedFrom(C[j], j)
             Q(j) == /\ \A x \in Entries(P) : x < j =>
                           /\ From(P, x) <= c(j)
                           /\ \A y \in Entries(tab) : y >= j => From(P, x) <= From(tab, y)
                     /\ \A x, y \in Entries(P) : x < y /\ y < j => From(P, x) <= From(P, y)
             T == {m \in Nat : i + m <= F => Q(i + m)}
  <1>1. /\ F \in 0..n - 1 /\ i <= F /\ tab[F] = Empty
        /\ \A j \in i..F : C[j] \in EntryRecords /\ C[j].dist \in Nat
        /\ C[i] = e /\ P[F] = C[F]
        /\ \A x \in 0..n - 1 : x \notin i..F => P[x] = tab[x]
        /\ \A j \in i..F - 1 :
              /\ j \in Entries(tab) /\ j \in 0..n - 1 /\ j + 1 \in i..F /\ j \in i..F
              /\ \/ /\ CarriedFrom(C[j], j) < From(tab, j)
                    /\ P[j] = C[j] /\ C[j + 1] = Aged(tab[j])
                 \/ /\ From(tab, j) <= CarriedFrom(C[j], j)
                    /\ P[j] = tab[j] /\ C[j + 1] = Aged(C[j])
    BY CarryFacts
  <1>2. P \in Tables(n)
    BY PutFacts
  <1>3. /\ Entries(P) \subseteq 0..n - 1 /\ Entries(tab) \subseteq 0..n - 1
        /\ \A x \in Entries(P) : From(P, x) \in Int
        /\ \A x \in Entries(tab) : From(tab, x) \in Int /\ From(tab, x) <= x
        /\ \A x \in 0..n - 1 : (P[x] # Empty <=> x \in Entries(P)) /\ (tab[x] # Empty <=> x \in Entries(tab))
    BY <1>2, EntryFacts
  <1> HIDE DEF C
  <1>4. \A j \in i..F : c(j) \in Int /\ c(j) <= j
    BY <1>1 DEF CarriedFrom
  <1>5. \A x \in 0..n - 1 : x \notin i..F => From(P, x) = From(tab, x) /\ (x \in Entries(P) <=> x \in Entries(tab))
    BY <1>1, <1>3 DEF From
  <1>6. 0 \in T
    <2>1. i + 0 = i /\ c(i) = i - e.dist
      BY <1>1 DEF CarriedFrom
    <2>2. ASSUME NEW x \in Entries(P), x < i
          PROVE  x \in Entries(tab) /\ From(P, x) = From(tab, x)
      BY <1>3, <1>5, <2>2
    <2>3. Q(i)
      <3>1. ASSUME NEW x \in Entries(P), x < i, NEW y \in Entries(tab), y >= i
            PROVE  From(P, x) <= From(tab, y)
        BY <1>3, <2>2, <3>1 DEF Rising
      <3>2. ASSUME NEW x \in Entries(P), NEW y \in Entries(P), x < y, y < i
            PROVE  From(P, x) <= From(P, y)
        <4>1. x < i
          BY <1>3, <3>2
        <4> QED BY <2>2, <3>2, <4>1 DEF Rising
      <3>3. ASSUME NEW x \in Entries(P), x < i PROVE From(P, x) <= c(i)
        BY <2>1, <2>2, <3>3
      <3> QED BY <3>1, <3>2, <3>3
    <2> QED BY <2>1, <2>3
  <1>7. ASSUME NEW m \in Nat, m \in T PROVE m + 1 \in T
    <2> DEFINE j == i + m
    <2> SUFFICES ASSUME i + (m + 1) <= F PROVE Q(i + (m + 1))
      OBVIOUS
    <2>1. i + (m + 1) = j + 1 /\ j \in i..F - 1 /\ j \in i..F /\ j <= F /\ j + 1 \in i..F /\ j \in Nat
      BY <1>1
    <2>2. Q(j)
      BY <1>7, <2>1
    <2> HIDE DEF j
    <2>3. /\ c(j) \in Int /\ c(j + 1) \in Int /\ From(tab, j) \in Int /\ j \in Entries(tab) /\ j \in 0..n - 1
      BY <1>1, <1>3, <1>4, <2>1
    <2>4. \/ c(j) < From(tab, j) /\ From(P, j) = c(j) /\ c(j + 1) = From(tab, j)
          \/ From(tab, j) <= c(j) /\ From(P, j) = From(tab, j) /\ c(j + 1) = c(j)
      <3>1. C[j] \in EntryRecords /\ tab[j] \in EntryRecords /\ C[j].dist \in Nat /\ tab[j].dist \in Nat
        BY <1>1, <2>1, EntryFacts
      <3>2. Aged(tab[j]).dist = tab[j].dist + 1 /\ Aged(C[j]).dist = C[j].dist + 1
        BY <3>1 DEF Aged, EntryRecords
      <3>3. CASE c(j) < From(tab, j) /\ P[j] = C[j] /\ C[j + 1] = Aged(tab[j])
        BY <2>1, <3>1, <3>2, <3>3 DEF CarriedFrom, From
      <3>4. CASE From(tab, j) <= c(j) /\ P[j] = tab[j] /\ C[j + 1] = Aged(C[j])
        BY <2>1, <3>1, <3>2, <3>4 DEF CarriedFrom, From
      <3> QED BY <1>1, <2>1, <3>3, <3>4
    <2> HIDE DEF c
    <2>5. \A x \in Entries(P) : x < j + 1 => x < j \/ x = j
      BY <1>3, <2>1
    <2>6. ASSUME NEW y \in Entries(tab), y >= j + 1
          PROVE  From(tab, j) <= From(tab, y)
      BY <1>3, <2>1, <2>3, <2>6 DEF Rising
    <2>7. From(P, j) <= c(j + 1) /\ From(P, j) <= From(tab, j)
      BY <2>3, <2>4
    <2>8. ASSUME NEW x \in Entries(P), x < j
          PROVE  From(P, x) <= From(P, j) /\ From(P, x) <= c(j + 1)
      BY <1>3, <2>1, <2>2, <2>3, <2>4, <2>8
    <2>9. Q(j + 1)
      <3>1. ASSUME NEW x \in Entries(P), x < j + 1
            PROVE  From(P, x) <= c(j + 1)
        BY <2>5, <2>7, <2>8, <3>1
      <3>2. ASSUME NEW x \in Entries(P), x < j + 1, NEW y \in Entries(tab), y >= j + 1
            PROVE  From(P, x) <= From(tab, y)
        <4>1. CASE x = j
          <5>1. From(P, j) \in Int
            BY <2>3, <2>4
          <5> QED BY <1>3, <2>3, <2>6, <2>7, <3>2, <4>1, <5>1
        <4>2. CASE x < j
          <5>1. y >= j
            BY <1>3, <2>1, <3>2
          <5> QED BY <2>2, <4>2, <5>1
        <4> QED BY <2>5, <3>2, <4>1, <4>2
      <3>3. ASSUME NEW x \in Entries(P), NEW y \in Entries(P), x < y, y < j + 1
            PROVE  From(P, x) <= From(P, y)
        <4>1. CASE y = j
          BY <2>8, <3>3, <4>1
        <4>2. CASE y < j
          BY <2>2, <3>3, <4>2
        <4> QED BY <2>5, <3>3, <4>1, <4>2
      <3> QED BY <3>1, <3>2, <3>3
    <2> QED BY <2>1, <2>9
  <1>8. Nat \subseteq T
    <2> HIDE DEF T
    <2> QED BY <1>6, <1>7, AllNumbers
  <1>9. Q(F)
    <2>1. F - i \in T /\ i + (F - i) = F
      <3> HIDE DEF T
      <3> QED BY <1>1, <1>8
    <2> HIDE DEF Q
    <2> QED BY <1>1, <2>1
  <1>10. From(P, F) = c(F) /\ c(F) \in Int /\ c(F) <= F
    BY <1>1, <1>4 DEF From, CarriedFrom
  <1> HIDE DEF c
  <1>11. ASSUME NEW y \in Entries(P), y > F
         PROVE  y \in Entries(tab) /\ From(P, y) = From(tab, y) /\ From(tab, y) > F
    <2>1. y \in 0..n - 1 /\ y \notin i..F
      BY <1>1, <1>3, <1>11
    <2>2. y \in Entries(tab) /\ From(P, y) = From(tab, y)
      BY <1>5, <2>1
    <2>3. ~(From(tab, y) <= F /\ F < y)
      BY <1>1, <2>2 DEF Gap
    <2> QED BY <1>1, <1>3, <1>11, <2>1, <2>2, <2>3
  <1>12. ASSUME NEW x \in Entries(P), NEW y \in Entries(P), x < y
         PROVE  From(P, x) <= From(P, y)
    <2>0. x \in 0..n - 1 /\ y \in 0..n - 1 /\ From(P, x) \in Int /\ From(P, y) \in Int
      BY <1>3
    <2>1. CASE y < F
      BY <1>9, <1>12, <2>1
    <2>2. CASE y = F
      BY <1>9, <1>10, <1>12, <2>2
    <2>3. CASE y > F /\ x < F
      <3>1. y >= F
        BY <1>1, <2>0, <2>3
      <3> QED BY <1>9, <1>11, <2>3, <3>1
    <2>4. CASE y > F /\ x = F
      BY <1>1, <1>10, <1>11, <2>0, <2>4
    <2>5. CASE y > F /\ x > F
      BY <1>11, <1>12, <2>5 DEF Rising
    <2> QED BY <1>1, <2>0, <2>1, <2>2, <2>3, <2>4, <2>5
  <1> QED BY <1>12 DEF Rising

\* Where the entries are after a new one has displaced others.
LEMMA PutWhere ==
    ASSUME NEW n \in Nat, NEW tab \in Tables(n), NEW i \in Nat, NEW e \in EntryRecords,
           NEW F, F = FreeFrom(tab, i), F # n, NEW P, P = Put(tab, i, e)
    PROVE  /\ P \in Tables(n) /\ F \in 0..n - 1 /\ i <= F /\ tab[F] = Empty
           /\ \A y \in i..F - 1 : y \in Entries(tab)
           /\ \A k \in 0..n - 1 : P[k] = Empty => tab[k] = Empty /\ k \notin i..F
           /\ \A x \in 0..n - 1 : x \notin i..F => P[x] = tab[x]
           /\ \A x \in i..F : \/ P[x].key = e.key /\ P[x].val = e.val /\ From(P, x) = i - e.dist
                              \/ \E y \in i..F - 1 : /\ P[x].key = tab[y].key /\ P[x].val = tab[y].val
                                                     /\ From(P, x) = From(tab, y)
  <1>1. /\ F \in 0..n - 1 /\ i <= F /\ tab[F] = Empty
        /\ \A x \in 0..n - 1 : x \notin i..F => P[x] = tab[x]
        /\ \A j \in i..F - 1 : j \in Entries(tab)
    <2> DEFINE C == Carried(tab, i, e)
    <2> HIDE DEF C
    <2> QED BY CarryFacts DEF C
  <1>2. /\ P \in Tables(n)
        /\ \A k \in 0..n - 1 : P[k] = Empty => tab[k] = Empty /\ ~(k = F /\ i <= k)
    BY PutFacts
  <1>3. \A k \in 0..n - 1 : P[k] = Empty => tab[k] = Empty /\ k \notin i..F
    <2>1. ASSUME NEW k \in 0..n - 1, P[k] = Empty, k \in i..F PROVE FALSE
      <3>1. k # F /\ tab[k] = Empty
        BY <1>1, <1>2, <2>1
      <3>2. k \in i..F - 1
        BY <1>1, <2>1, <3>1
      <3> QED BY <1>1, <3>1, <3>2 DEF Entries
    <2> QED BY <1>2, <2>1
  <1>4. ASSUME NEW x \in i..F
        PROVE  \/ P[x].key = e.key /\ P[x].val = e.val /\ From(P, x) = i - e.dist
               \/ \E y \in i..F - 1 : /\ P[x].key = tab[y].key /\ P[x].val = tab[y].val
                                      /\ From(P, x) = From(tab, y)
    <2>1. What(P, x) \in {<<e.key, e.val, i - e.dist>>} \cup {What(tab, y) : y \in i..F - 1}
      BY PutKeeps
    <2> QED BY <2>1 DEF What
  <1> QED BY <1>1, <1>2, <1>3, <1>4

LEMMA PutGaps ==
    ASSUME NEW n \in Nat, NEW tab \in Tables(n), NEW i \in Nat, NEW e \in EntryRecords,
           NEW F, F = FreeFrom(tab, i), F # n, NEW P, P = Put(tab, i, e),
           NEW h \in Nat, h = i - e.dist, \A k \in h..i - 1 : tab[k] # Empty
    PROVE  \A k \in 0..n - 1 : Gap(P, k) => Gap(tab, k)
  <1>1. /\ P \in Tables(n) /\ F \in 0..n - 1 /\ i <= F
        /\ \A y \in i..F - 1 : y \in Entries(tab)
        /\ \A k \in 0..n - 1 : P[k] = Empty => tab[k] = Empty /\ k \notin i..F
        /\ \A x \in 0..n - 1 : x \notin i..F => P[x] = tab[x]
        /\ \A x \in i..F : \/ From(P, x) = h
                           \/ \E y \in i..F - 1 : From(P, x) = From(tab, y)
    BY PutWhere
  <1>2. SUFFICES ASSUME NEW k \in 0..n - 1, P[k] = Empty, NEW x \in Entries(P), From(P, x) <= k, k < x
                 PROVE  Gap(tab, k)
    BY DEF Gap
  <1>3. tab[k] = Empty /\ k \notin i..F /\ x \in 0..n - 1
    BY <1>1, <1>2, EntryFacts
  <1>4. CASE x \notin i..F
    <2>1. P[x] = tab[x] /\ x \in Entries(tab)
      BY <1>1, <1>3, <1>4, EntryFacts
    <2>2. From(tab, x) = From(P, x)
      BY <2>1 DEF From
    <2> QED BY <1>2, <1>3, <2>1, <2>2 DEF Gap
  <1>5. CASE x \in i..F
    <2>1. k < i
      BY <1>1, <1>2, <1>3, <1>5
    <2>2. CASE From(P, x) = h
      <3>1. k \in h..i - 1
        BY <1>2, <2>1, <2>2
      <3> QED BY <1>3, <3>1
    <2>3. CASE \E y \in i..F - 1 : From(P, x) = From(tab, y)
      <3>1. PICK y \in i..F - 1 : From(P, x) = From(tab, y)
        BY <2>3
      <3>2. y \in Entries(tab) /\ k < y
        BY <1>1, <2>1, <3>1
      <3> QED BY <1>2, <1>3, <3>1, <3>2 DEF Gap
    <2> QED BY <1>1, <1>5, <2>2, <2>3
  <1> QED BY <1>4, <1>5

LEMMA PutKeys ==
    ASSUME NEW n \in Nat, NEW tab \in Tables(n), NEW i \in Nat, NEW e \in EntryRecords,
           NEW F, F = FreeFrom(tab, i), F # n, NEW P, P = Put(tab, i, e),
           NEW D, D \cap (i..F) = {},
           \A x, y \in Entries(tab) \ D : tab[x].key = tab[y].key => x = y,
           \A x \in Entries(tab) \ D : tab[x].key # e.key
    PROVE  \A x, y \in Entries(P) \ D : P[x].key = P[y].key => x = y
  <1>1. /\ P \in Tables(n) /\ F \in 0..n - 1 /\ i <= F
        /\ \A y \in i..F - 1 : y \in Entries(tab)
        /\ \A x \in 0..n - 1 : x \notin i..F => P[x] = tab[x]
        /\ \A x \in i..F : \/ P[x].key = e.key
                           \/ \E y \in i..F - 1 : P[x].key = tab[y].key
    BY PutWhere
  <1>2. \A y \in i..F - 1 : y \in i..F /\ y \in Entries(tab) \ D
    BY <1>1
  <1>3. \A x, y \in i..F : P[x].key = P[y].key => x = y
    BY <1>2, PutKeysOnce
  <1>4. ASSUME NEW x \in Entries(P) \ D, x \notin i..F
        PROVE  x \in Entries(tab) \ D /\ P[x] = tab[x]
    <2>1. x \in 0..n - 1 /\ P[x] # Empty
      BY <1>1, EntryFacts
    <2>2. P[x] = tab[x]
      BY <1>1, <1>4, <2>1
    <2> QED BY <2>1, <2>2, EntryFacts
  <1>5. ASSUME NEW x \in i..F, NEW y \in Entries(P) \ D, y \notin i..F
        PROVE  P[x].key # P[y].key
    <2>1. y \in Entries(tab) \ D /\ P[y] = tab[y]
      BY <1>4, <1>5
    <2>2. CASE P[x].key = e.key
      BY <2>1, <2>2
    <2>3. CASE \E z \in i..F - 1 : P[x].key = tab[z].key
      <3>1. PICK z \in i..F - 1 : P[x].key = tab[z].key
        BY <2>3
      <3>2. z # y /\ z \in Entries(tab) \ D
        BY <1>2, <1>5, <3>1
      <3> QED BY <2>1, <3>1, <3>2
    <2> QED BY <1>1, <2>2, <2>3
  <1>6. ASSUME NEW x \in Entries(P) \ D, NEW y \in Entries(P) \ D, P[x].key = P[y].key
        PROVE  x = y
    <2>1. CASE x \in i..F /\ y \in i..F
      BY <1>3, <1>6, <2>1
    <2>2. CASE x \in i..F /\ y \notin i..F
      BY <1>5, <1>6, <2>2
    <2>3. CASE x \notin i..F /\ y \in i..F
      BY <1>5, <1>6, <2>3
    <2>4. CASE x \notin i..F /\ y \notin i..F
      BY <1>4, <1>6, <2>4
    <2> QED BY <2>1, <2>2, <2>3, <2>4
  <1> QED BY <1>6

\* An insertion puts its entry in order: behind the slots it has passed, before
\* an entry that is nearer to its home, with a free slot in its window.
LEMMA PutInOrder ==
    ASSUME NEW n \in Nat, NEW tab \in Tables(n), NEW i \in 0..n - 1, NEW e \in EntryRecords,
           NEW F, F = FreeFrom(tab, i), F # n, NEW P, P = Put(tab, i, e), NEW hp \in Nat,
           NEW h \in Nat, h = i - e.dist, h = Home(e.key, hp), F - h <= Window(hp),
           Rising(tab), KeysOnce(tab), Housed(tab, hp), ~Gap(tab, F),
           \A k \in h..i - 1 : tab[k] # Empty /\ From(tab, k) <= h /\ tab[k].key # e.key,
           tab[i] # Empty => From(tab, i) > h
    PROVE  /\ Rising(P) /\ KeysOnce(P) /\ Housed(P, hp)
           /\ \A k \in 0..n - 1 : Gap(P, k) => Gap(tab, k)
           /\ \A x \in Entries(tab) : tab[x].key # e.key
  <1>1. /\ P \in Tables(n) /\ F \in 0..n - 1 /\ i <= F /\ tab[F] = Empty
        /\ \A y \in i..F - 1 : y \in Entries(tab)
        /\ \A x \in 0..n - 1 : x \notin i..F => P[x] = tab[x]
        /\ \A x \in i..F : \/ P[x].key = e.key /\ From(P, x) = h
                           \/ \E y \in i..F - 1 : P[x].key = tab[y].key /\ From(P, x) = From(tab, y)
    BY PutWhere
  <1>2. /\ Entries(tab) \subseteq 0..n - 1 /\ Entries(P) \subseteq 0..n - 1
        /\ \A x \in Entries(tab) : From(tab, x) \in Int /\ From(tab, x) <= x
        /\ \A x \in Entries(P) : From(P, x) \in Int /\ P[x].dist \in Nat /\ From(P, x) <= x
        /\ \A x \in 0..n - 1 : tab[x] # Empty <=> x \in Entries(tab)
        /\ \A x \in 0..n - 1 : P[x] # Empty <=> x \in Entries(P)
    BY <1>1, EntryFacts
  <1>3. tab[i] = Empty => F = i
    <2>1. i < F => i \in i..F - 1
      BY <1>1
    <2> QED BY <1>1, <1>2, <2>1
  <1>4. ASSUME NEW x \in Entries(tab), x >= i PROVE From(tab, x) > h
    <2>1. CASE tab[i] = Empty
      <3>1. x # i /\ x > i
        BY <1>2, <1>4, <2>1
      <3>2. ~(From(tab, x) <= i /\ i < x)
        BY <1>3, <2>1 DEF Gap
      <3>3. i >= h
        BY DEF EntryRecords
      <3> QED BY <1>2, <3>1, <3>2, <3>3
    <2>2. CASE tab[i] # Empty
      <3>1. i \in Entries(tab) /\ From(tab, i) > h
        BY <1>2, <2>2
      <3>2. x > i => From(tab, i) <= From(tab, x)
        BY <3>1 DEF Rising
      <3> QED BY <1>2, <1>4, <3>1, <3>2
    <2> QED BY <2>1, <2>2
  <1>5. ASSUME NEW x \in Entries(tab), x < i PROVE From(tab, x) <= h
    <2>1. CASE x < h
      BY <1>2, <2>1
    <2>2. CASE x >= h
      <3>1. x \in h..i - 1
        BY <1>2, <1>5, <2>2
      <3> QED BY <3>1
    <2> QED BY <1>2, <2>1, <2>2
  <1>6. ASSUME NEW x \in Entries(tab) PROVE tab[x].key # e.key
    <2> SUFFICES ASSUME tab[x].key = e.key PROVE FALSE
      OBVIOUS
    <2>1. From(tab, x) = h /\ x >= h
      BY <1>2 DEF Housed
    <2>2. x < i
      BY <1>2, <1>4, <2>1
    <2>3. x \in h..i - 1
      BY <1>2, <2>1, <2>2
    <2> QED BY <2>3
  <1>7. Rising(P)
    BY <1>5, PutRises
  <1>8. KeysOnce(P)
    <2>1. \A x, y \in Entries(tab) \ {} : tab[x].key = tab[y].key => x = y
      BY DEF KeysOnce
    <2> DEFINE D == {}
    <2>2. /\ D \cap (i..F) = {} /\ i \in Nat
          /\ \A x, y \in Entries(tab) \ D : tab[x].key = tab[y].key => x = y
          /\ \A x \in Entries(tab) \ D : tab[x].key # e.key
      BY <1>6, <2>1
    <2> HIDE DEF D
    <2>3. \A x, y \in Entries(P) \ D : P[x].key = P[y].key => x = y
      BY <2>2, PutKeys
    <2> QED BY <2>3 DEF KeysOnce, D
  <1>9. Housed(P, hp)
    <2> SUFFICES ASSUME NEW x \in Entries(P)
                 PROVE  From(P, x) = Home(P[x].key, hp) /\ P[x].dist <= Window(hp)
      BY DEF Housed
    <2>1. CASE x \notin i..F
      <3>1. P[x] = tab[x] /\ x \in Entries(tab)
        BY <1>1, <1>2, <2>1
      <3>2. From(P, x) = From(tab, x)
        BY <3>1 DEF From
      <3> QED BY <3>1, <3>2 DEF Housed
    <2>2. CASE x \in i..F
      <3>1. From(P, x) = Home(P[x].key, hp) /\ From(P, x) >= h
        <4>1. CASE P[x].key = e.key /\ From(P, x) = h
          BY <4>1
        <4>2. CASE \E y \in i..F - 1 : P[x].key = tab[y].key /\ From(P, x) = From(tab, y)
          <5>1. PICK y \in i..F - 1 : P[x].key = tab[y].key /\ From(P, x) = From(tab, y)
            BY <4>2
          <5>2. y \in Entries(tab) /\ y >= i
            BY <1>1, <5>1
          <5>3. From(tab, y) = Home(tab[y].key, hp) /\ From(tab, y) > h /\ From(tab, y) \in Int
            BY <1>2, <1>4, <5>2 DEF Housed
          <5> QED BY <5>1, <5>3
        <4> QED BY <1>1, <2>2, <4>1, <4>2
      <3>2. From(P, x) = x - P[x].dist /\ x <= F /\ x \in Nat /\ F \in Nat
        BY <1>1, <1>2, <2>2 DEF From
      <3>3. Window(hp) \in Nat
        BY DEF Window
      <3> QED BY <1>2, <3>1, <3>2, <3>3
    <2> QED BY <2>1, <2>2
  <1>10. \A k \in 0..n - 1 : Gap(P, k) => Gap(tab, k)
    BY PutGaps
  <1> QED BY <1>6, <1>7, <1>8, <1>9, <1>10

\* Into a free slot an entry is put as it is.
LEMMA PutInFree ==
    ASSUME NEW n \in Nat, NEW tab \in Tables(n), NEW i \in 0..n - 1, NEW e \in EntryRecords,
           tab[i] = Empty
    PROVE  FreeFrom(tab, i) = i /\ Put(tab, i, e) = [tab EXCEPT ![i] = e]
  <1> DEFINE F == FreeFrom(tab, i)
             P == Put(tab, i, e)
             C == Carried(tab, i, e)
             Q == [tab EXCEPT ![i] = e]
  <1>1. F = i
    <2>1. F \in 0..n /\ (F # n => i <= F) /\ F <= i
      BY FreeFromFacts
    <2> HIDE DEF F
    <2> QED BY <2>1
  <1> HIDE DEF F
  <1>2. F = FreeFrom(tab, i) /\ F # n /\ i \in Nat
    BY <1>1 DEF F
  <1>3. C[i] = e /\ P[F] = C[F] /\ \A x \in 0..n - 1 : x \notin i..F => P[x] = tab[x]
    <2> HIDE DEF P, C
    <2>1. C = Carried(tab, i, e) /\ P = Put(tab, i, e)
      BY DEF P, C
    <2> QED BY <1>2, <2>1, CarryFacts
  <1>4. P \in Tables(n)
    BY <1>2, PutFacts
  <1> HIDE DEF P, C
  <1>5. \A x \in 0..n - 1 : P[x] = IF x = i THEN e ELSE tab[x]
    BY <1>1, <1>3
  <1>6. P = Q
    <2>1. Q = [x \in 0..n - 1 |-> IF x = i THEN e ELSE tab[x]]
      BY DEF Tables
    <2>2. P = [x \in 0..n - 1 |-> P[x]]
      BY <1>4 DEF Tables
    <2> HIDE DEF Q
    <2> QED BY <1>5, <2>1, <2>2
  <1> QED BY <1>1, <1>6 DEF F, P

\* A slot is freed.
LEMMA Removed ==
    ASSUME NEW n \in Nat, NEW tab \in Tables(n), NEW p \in 0..n - 1,
           NEW new \in Tables(n), new[p] = Empty, \A x \in 0..n - 1 : x # p => new[x] = tab[x]
    PROVE  /\ Entries(new) = Entries(tab) \ {p}
           /\ \A x \in 0..n - 1 : x # p => From(new, x) = From(tab, x)
           /\ Rising(tab) => Rising(new)
           /\ KeysOnce(tab) => KeysOnce(new)
           /\ \A hp : Housed(tab, hp) => Housed(new, hp)
           /\ \A k \in 0..n - 1 : Gap(new, k) => k = p \/ Gap(tab, k)
  <1>1. DOMAIN new = 0..n - 1 /\ DOMAIN tab = 0..n - 1
    BY DEF Tables
  <1>2. \A x \in 0..n - 1 : x # p => new[x] = tab[x] /\ From(new, x) = From(tab, x)
    BY <1>1 DEF From
  <1>3. Entries(new) = Entries(tab) \ {p} /\ Entries(tab) \subseteq 0..n - 1
    BY <1>1, EntryFacts DEF Entries
  <1>4. \A x \in Entries(new) : /\ x \in Entries(tab) /\ new[x] = tab[x] /\ From(new, x) = From(tab, x)
    BY <1>2, <1>3
  <1>5. Rising(tab) => Rising(new)
    BY <1>4 DEF Rising
  <1>6. KeysOnce(tab) => KeysOnce(new)
    BY <1>4 DEF KeysOnce
  <1>7. \A hp : Housed(tab, hp) => Housed(new, hp)
    BY <1>4 DEF Housed
  <1>8. \A k \in 0..n - 1 : Gap(new, k) => k = p \/ Gap(tab, k)
    BY <1>2, <1>4 DEF Gap
  <1> QED BY <1>1, <1>2, <1>3, <1>5, <1>6, <1>7, <1>8

\* Only values change, or free slots are added behind the last one.
LEMMA SameOrder ==
    ASSUME NEW tab, NEW new, Entries(new) = Entries(tab),
           \A x \in Entries(tab) : new[x].key = tab[x].key /\ new[x].dist = tab[x].dist
    PROVE  /\ \A x \in Entries(tab) : From(new, x) = From(tab, x)
           /\ Rising(tab) => Rising(new)
           /\ KeysOnce(tab) => KeysOnce(new)
           /\ \A hp : Housed(tab, hp) => Housed(new, hp)
           /\ \A k : tab[k] = Empty => (Gap(new, k) => Gap(tab, k))
  <1>1. \A x \in Entries(tab) : From(new, x) = From(tab, x)
    BY DEF From
  <1>2. Rising(tab) => Rising(new)
    BY <1>1 DEF Rising
  <1>3. KeysOnce(tab) => KeysOnce(new)
    BY DEF KeysOnce
  <1>4. \A hp : Housed(tab, hp) => Housed(new, hp)
    BY <1>1 DEF Housed
  <1>5. \A k : tab[k] = Empty => (Gap(new, k) => Gap(tab, k))
    BY <1>1 DEF Gap
  <1> QED BY <1>1, <1>2, <1>3, <1>4, <1>5

\* The entries from p up to e - 1 have shifted into the free slot before them.
Shifted(n, tab, new, p, e) ==
    /\ p - 1 \in 0..n - 1 /\ tab[p - 1] = Empty /\ new[e - 1] = Empty
    /\ \A i \in p..e - 1 : i \in 0..n - 1 /\ tab[i] \in EntryRecords /\ tab[i].dist # 0
    /\ \A i \in p - 1..e - 2 : /\ new[i] # Empty
                             /\ new[i].key = tab[i + 1].key /\ new[i].val = tab[i + 1].val
                             /\ new[i].dist = tab[i + 1].dist - 1
    /\ \A i \in 0..n - 1 : i \notin p - 1..e - 1 => new[i] = tab[i]

\* They keep their order and their homes, and the gap moves behind them.
LEMMA ShiftedDown ==
    ASSUME NEW n \in Nat, NEW tab \in Tables(n), NEW new \in Tables(n), NEW p \in Nat, NEW e \in Nat,
           p <= e, Shifted(n, tab, new, p, e)
    PROVE  /\ Rising(tab) => Rising(new)
           /\ KeysOnce(tab) => KeysOnce(new)
           /\ \A hp \in Nat : Housed(tab, hp) => Housed(new, hp)
           /\ \A k \in 0..n - 1 : Gap(new, k) => k = e - 1 \/ (Gap(tab, k) /\ k # p - 1)
           /\ new[e - 1] = Empty /\ e - 1 \in 0..n - 1
           /\ \A x \in 0..n - 1 : x >= e => new[x] = tab[x]
  <1> USE DEF Shifted
  <1>0. /\ Entries(tab) \subseteq 0..n - 1 /\ Entries(new) \subseteq 0..n - 1
        /\ \A x \in 0..n - 1 : (tab[x] # Empty <=> x \in Entries(tab)) /\ (new[x] # Empty <=> x \in Entries(new))
        /\ \A x \in Entries(tab) : From(tab, x) \in Int /\ tab[x].dist \in Nat
        /\ \A x \in Entries(new) : From(new, x) \in Int /\ new[x].dist \in Nat
    BY EntryFacts
  <1>1. \A i \in p..e - 1 : i \in Entries(tab)
    BY <1>0, RobinHoodAssumption
  <1>2. ASSUME NEW x \in Entries(new), x \in p - 1..e - 2
        PROVE  /\ x + 1 \in Entries(tab)
               /\ new[x].key = tab[x + 1].key /\ new[x].val = tab[x + 1].val
               /\ From(new, x) = From(tab, x + 1) /\ new[x].dist <= tab[x + 1].dist
    <2>1. x \in 0..n - 1 /\ x + 1 \in p..e - 1
      BY <1>0, <1>2
    <2>2. x + 1 \in Entries(tab) /\ tab[x + 1] \in EntryRecords
      BY <1>1, <2>1
    <2>4. new[x].key = tab[x + 1].key /\ new[x].val = tab[x + 1].val /\ new[x].dist = tab[x + 1].dist - 1
      BY <1>2
    <2>5. tab[x + 1].dist \in Nat
      BY <2>2, EntryFacts
    <2> QED BY <2>1, <2>2, <2>4, <2>5 DEF From
  <1>3. ASSUME NEW x \in Entries(new), x \notin p - 1..e - 2
        PROVE  x \in Entries(tab) /\ new[x] = tab[x] /\ From(new, x) = From(tab, x)
    <2>1. x \in 0..n - 1 /\ new[x] # Empty
      BY <1>0
    <2>2. new[x] = tab[x]
      <3>1. x # e - 1
        BY <2>1
      <3>2. x \notin p - 1..e - 1
        BY <1>3, <2>1, <3>1
      <3> QED BY <2>1, <3>2
    <2> QED BY <1>0, <2>1, <2>2 DEF From
  <1>4. ASSUME NEW x \in Entries(new)
        PROVE  \E y \in Entries(tab) :
                     /\ x <= y /\ y <= x + 1 /\ (y = x + 1 <=> x \in p - 1..e - 2)
                     /\ new[x].key = tab[y].key /\ new[x].val = tab[y].val
                     /\ From(new, x) = From(tab, y)
                     /\ new[x].dist <= tab[y].dist
    <2>1. x \in Nat
      BY <1>0
    <2>2. CASE x \in p - 1..e - 2
      BY <1>2, <2>1, <2>2
    <2>3. CASE x \notin p - 1..e - 2
      <3>1. new[x].dist <= tab[x].dist /\ x # x + 1
        BY <1>0, <1>3, <2>1, <2>3
      <3> QED BY <1>3, <2>1, <2>3, <3>1
    <2> QED BY <2>2, <2>3
  <1>5. new[e - 1] = Empty /\ e - 1 \in 0..n - 1
    <2>1. CASE e = p
      BY <2>1
    <2>2. CASE e # p
      <3>1. e - 1 \in p..e - 1
        BY <2>2
      <3> QED BY <3>1
    <2> QED BY <2>1, <2>2
  <1>6. ASSUME NEW x \in 0..n - 1, x >= e PROVE new[x] = tab[x]
    <2>1. x \notin p - 1..e - 1
      BY <1>6
    <2> QED BY <2>1
  \* Two slots that hold entries hold different ones, in the same order.
  <1>7. ASSUME NEW x1 \in Entries(new), NEW x2 \in Entries(new), x1 < x2,
               NEW y1 \in Entries(tab), NEW y2 \in Entries(tab),
               x1 <= y1, y1 <= x1 + 1, y1 = x1 + 1 <=> x1 \in p - 1..e - 2,
               x2 <= y2, y2 <= x2 + 1, y2 = x2 + 1 <=> x2 \in p - 1..e - 2
        PROVE  y1 < y2
    <2>1. x1 \in 0..n - 1 /\ x2 \in 0..n - 1 /\ y1 \in 0..n - 1 /\ y2 \in 0..n - 1 /\ x2 # e - 1
      BY <1>0, <1>5
    <2> QED BY <1>7, <2>1
  <1>8. Rising(tab) => Rising(new)
    <2> SUFFICES ASSUME Rising(tab), NEW x1 \in Entries(new), NEW x2 \in Entries(new), x1 < x2
                 PROVE  From(new, x1) <= From(new, x2)
      BY DEF Rising
    <2>1. PICK y1 \in Entries(tab) :
              /\ x1 <= y1 /\ y1 <= x1 + 1 /\ (y1 = x1 + 1 <=> x1 \in p - 1..e - 2)
              /\ From(new, x1) = From(tab, y1)
      BY <1>4
    <2>2. PICK y2 \in Entries(tab) :
              /\ x2 <= y2 /\ y2 <= x2 + 1 /\ (y2 = x2 + 1 <=> x2 \in p - 1..e - 2)
              /\ From(new, x2) = From(tab, y2)
      BY <1>4
    <2>3. y1 < y2
      BY <1>7, <2>1, <2>2
    <2> QED BY <2>1, <2>2, <2>3 DEF Rising
  <1>9. KeysOnce(tab) => KeysOnce(new)
    <2>1. ASSUME KeysOnce(tab), NEW x1 \in Entries(new), NEW x2 \in Entries(new), x1 < x2
          PROVE  new[x1].key # new[x2].key
      <3>1. PICK y1 \in Entries(tab) :
                /\ x1 <= y1 /\ y1 <= x1 + 1 /\ (y1 = x1 + 1 <=> x1 \in p - 1..e - 2)
                /\ new[x1].key = tab[y1].key
        BY <1>4
      <3>2. PICK y2 \in Entries(tab) :
                /\ x2 <= y2 /\ y2 <= x2 + 1 /\ (y2 = x2 + 1 <=> x2 \in p - 1..e - 2)
                /\ new[x2].key = tab[y2].key
        BY <1>4
      <3>3. y1 < y2 /\ y1 \in Nat /\ y2 \in Nat
        BY <1>0, <1>7, <2>1, <3>1, <3>2
      <3> QED BY <2>1, <3>1, <3>2, <3>3 DEF KeysOnce
    <2> SUFFICES ASSUME KeysOnce(tab), NEW x1 \in Entries(new), NEW x2 \in Entries(new),
                        new[x1].key = new[x2].key
                 PROVE  x1 = x2
      BY DEF KeysOnce
    <2>2. x1 \in Nat /\ x2 \in Nat
      BY <1>0
    <2>3. ~(x1 < x2) /\ ~(x2 < x1)
      BY <2>1
    <2> QED BY <2>2, <2>3
  <1>10. ASSUME NEW hp \in Nat, Housed(tab, hp) PROVE Housed(new, hp)
    <2> SUFFICES ASSUME NEW x \in Entries(new)
                 PROVE  From(new, x) = Home(new[x].key, hp) /\ new[x].dist <= Window(hp)
      BY DEF Housed
    <2>1. PICK y \in Entries(tab) : /\ new[x].key = tab[y].key /\ From(new, x) = From(tab, y)
                                    /\ new[x].dist <= tab[y].dist
      BY <1>4
    <2>2. From(tab, y) = Home(tab[y].key, hp) /\ tab[y].dist <= Window(hp)
      BY <1>10 DEF Housed
    <2>3. tab[y].dist \in Nat /\ new[x].dist \in Nat /\ Window(hp) \in Nat
      BY <1>0 DEF Window
    <2> QED BY <2>1, <2>2, <2>3
  <1>11. ASSUME NEW k \in 0..n - 1, Gap(new, k), k # e - 1
         PROVE  Gap(tab, k) /\ k # p - 1
    <2>1. new[k] = Empty
      BY <1>11 DEF Gap
    <2>2. k \notin p - 1..e - 1
      <3>1. k \notin p - 1..e - 2
        BY <2>1
      <3> QED BY <1>11, <3>1
    <2>3. tab[k] = Empty /\ k # p - 1
      <3>1. k # p - 1
        BY <1>11, <2>2
      <3> QED BY <1>11, <2>1, <2>2, <3>1
    <2>4. PICK x \in Entries(new) : From(new, x) <= k /\ k < x
      BY <1>11 DEF Gap
    <2>5. PICK y \in Entries(tab) : x <= y /\ From(new, x) = From(tab, y)
      BY <1>4
    <2>6. x \in Nat /\ y \in Nat
      BY <1>0
    <2>7. k < y
      BY <2>4, <2>5, <2>6
    <2> QED BY <2>3, <2>4, <2>5, <2>7 DEF Gap
  <1> QED BY <1>5, <1>6, <1>8, <1>9, <1>10, <1>11

-----------------------------------------------------------------------------
\* What the invariant says while nobody doubles the table.
LEMMA SizesBasics ==
    ASSUME RHInv
    PROVE  /\ hp_ \in Nat /\ 2^hp_ \in Nat \ {0} /\ Slots \in Nat \ {0}
           /\ table \in Tables(2^hp_) /\ DOMAIN table = 0..2^hp_ - 1
           /\ BucketIds # {}
  <1>1. hp_ \in Nat /\ 2^hp_ \in Nat \ {0} /\ Slots \in Nat \ {0} /\ table \in Tables(2^hp_)
    BY DEF RHInv, SizesOK, Typed
  <1>2. DOMAIN table = 0..2^hp_ - 1 /\ \A i \in DOMAIN table : BucketOf(i) \in BucketIds
    BY Basics
  <1>3. 0 \in DOMAIN table
    <2> DEFINE n == 2^hp_
    <2> HIDE DEF n
    <2>1. n \in Nat \ {0}
      BY <1>1 DEF n
    <2>2. 0 \in 0..n - 1
      BY <2>1
    <2> QED BY <1>2, <2>2 DEF n
  <1> QED BY <1>1, <1>2, <1>3

LEMMA DoublersOwnAll ==
    ASSUME RHInv, OrderInv, NEW u \in Threads, Doubling(u)
    PROVE  walk[u].own = BucketIds
  BY DEF Doubling, OrderInv, RHInv, OwnOK

LEMMA NobodyDoubles ==
    ASSUME RHInv, OrderInv, NEW t \in Threads, walk[t].own # {}, ~Doubling(t)
    PROVE  /\ \A u \in Threads : ~Doubling(u)
           /\ Housed(table, hp_) /\ \A k \in DOMAIN table : Gap(table, k) => Hole(k)
  <1>1. ASSUME NEW u \in Threads, Doubling(u) PROVE FALSE
    <2>1. walk[u].own = BucketIds /\ walk[t].own \subseteq BucketIds
      BY <1>1, DoublersOwnAll DEF RHInv, LocksOK
    <2>2. u = t
      BY <2>1 DEF RHInv, Exclusive
    <2> QED BY <1>1, <2>2
  <1> QED BY <1>1 DEF OrderInv, Ordered

LEMMA OwnedSlots ==
    ASSUME RHInv, NEW t \in Threads, NEW i \in Int, BucketOf(i) \in walk[t].own
    PROVE  i \in DOMAIN table /\ i \in Nat
  <1>1. BucketOf(i) \in BucketIds /\ i \in SlotsOf(BucketOf(i))
    BY SlotFacts, SizesBasics DEF RHInv, LocksOK
  <1> QED BY <1>1, Basics

\* A free slot that somebody owns is a gap only if it is this thread's hole.
LEMMA NoGapInOwned ==
    ASSUME RHInv, OrderInv, NEW t \in Threads, NEW k \in DOMAIN table, BucketOf(k) \in walk[t].own,
           ~Doubling(t), Gap(table, k)
    PROVE  Heading(t, "shift") /\ k = walk[t].pos - 1
  <1>1. Hole(k)
    BY NobodyDoubles
  <1>2. PICK u \in Threads : Heading(u, "shift") /\ k = walk[u].pos - 1
    BY <1>1 DEF Hole
  <1>3. BucketOf(k) \in walk[u].own
    BY <1>2, KnownIsOwned
  <1>4. u = t
    BY <1>3 DEF RHInv, Exclusive
  <1> QED BY <1>2, <1>4

\* What a walk knows stays so while another thread changes what it owns.
LEMMA OthersPath ==
    ASSUME RHInv, NEW t \in Threads, NEW u \in Threads \ {t}, PathOK(u),
           hp_' = hp_, DOMAIN table' = DOMAIN table,
           pc'[u] = pc[u], walk'[u] = walk[u], todo'[u] = todo[u],
           \A i \in DOMAIN table : BucketOf(i) \notin walk[t].own => table'[i] = table[i]
    PROVE  PathOK(u)'
  <1>1. /\ HomeOf(u)' = HomeOf(u) /\ Key(u)' = Key(u) /\ Call(u)' = Call(u) /\ WindowOf(u)' = WindowOf(u)
        /\ \A l : Heading(u, l)' = Heading(u, l)
    BY DEF HomeOf, Key, Call, WindowOf, Heading
  <1>2. \A i \in Int : BucketOf(i) \in walk[u].own => table'[i] = table[i] /\ From(table', i) = From(table, i)
    <2>1. ASSUME NEW i \in Int, BucketOf(i) \in walk[u].own PROVE table'[i] = table[i]
      <3>1. i \in DOMAIN table
        BY <2>1, OwnedSlots
      <3>2. BucketOf(i) \notin walk[t].own
        BY <2>1 DEF RHInv, Exclusive
      <3> QED BY <3>1, <3>2
    <2> QED BY <2>1 DEF From
  <1>3. \A x : Passed(u, x) => Passed(u, x)'
    <2> SUFFICES ASSUME NEW x, Passed(u, x), NEW j \in HomeOf(u)..x - 1
                 PROVE  /\ BucketOf(j) \in walk[u].own /\ table'[j] # Empty
                        /\ From(table', j) <= HomeOf(u) /\ table'[j].key # Key(u)
      BY <1>1 DEF Passed
    <2>1. /\ BucketOf(j) \in walk[u].own /\ table[j] # Empty
          /\ From(table, j) <= HomeOf(u) /\ table[j].key # Key(u) /\ j \in Int
      BY DEF Passed
    <2> QED BY <1>2, <2>1
  <1>4. walk[u].pos \in Int
    BY WalkFacts
  <1>5. pc[u] = "equal" => table'[walk[u].pos] = table[walk[u].pos]
    BY <1>2, <1>4, KnownIsOwned
  <1>6. pc[u] = "move_path" => \A j \in SlotsOf(walk[u].bucket) : table'[j] = table[j]
    <2>1. pc[u] = "move_path" => \A j \in SlotsOf(walk[u].bucket) : j \in DOMAIN table /\ BucketOf(j) \in walk[u].own
      BY KnownIsOwned
    <2>2. \A j \in DOMAIN table : j \in Int
      BY Basics
    <2> QED BY <1>2, <2>1, <2>2
  <1>7. BucketOf(walk[u].pos) \in walk[u].own =>
            /\ table'[walk[u].pos] = table[walk[u].pos]
            /\ From(table', walk[u].pos) = From(table, walk[u].pos)
    BY <1>2, <1>4
  <1> QED BY <1>1, <1>3, <1>5, <1>6, <1>7 DEF PathOK

LEMMA OthersSpread ==
    ASSUME NEW u \in Threads, pc[u] = "spread", SpreadOK(u),
           hp_' = hp_, table' = table, walk'[u] = walk[u]
    PROVE  SpreadOK(u)'
  BY DEF SpreadOK, At

LEMMA NoPath ==
    ASSUME NEW t \in Threads, pc'[t] \notin Under \cup {"lock_next"}
    PROVE  PathOK(t)'
  BY DEF PathOK, Heading, Under, Stops

LEMMA ChangedAt ==
    ASSUME RHInv, NEW t \in Threads, NEW w, NEW l,
           walk' = [walk EXCEPT ![t] = w], pc' = [pc EXCEPT ![t] = l]
    PROVE  /\ walk'[t] = w /\ pc'[t] = l
           /\ \A u \in Threads \ {t} : walk'[u] = walk[u] /\ pc'[u] = pc[u]
  <1>1. walk \in [Threads -> WalkRecords] /\ pc \in [Threads -> Labels]
    BY DEF RHInv, Typed
  <1>2. walk'[t] = w /\ \A u \in Threads \ {t} : walk'[u] = walk[u]
    BY <1>1
  <1>3. pc'[t] = l /\ \A u \in Threads \ {t} : pc'[u] = pc[u]
    BY <1>1
  <1> QED BY <1>2, <1>3

\* A step that changes no slot.
LEMMA QuietOrder ==
    ASSUME RHInv, RHInv', OrderInv, NEW t \in Threads, hp_' = hp_, table' = table, OthersStill(t),
           ~Doubling(t), ~Doubling(t)',
           Heading(t, "shift") => Heading(t, "shift")' /\ walk'[t].pos = walk[t].pos,
           PathOK(t)'
    PROVE  OrderInv'
  <1>1. BucketIds' = BucketIds
    BY Basics DEF RHInv, Typed, BucketIds
  <1>2. \A u \in Threads \ {t} :
            /\ (Stuck(u)' <=> Stuck(u)) /\ (Doubling(u)' <=> Doubling(u))
            /\ (Heading(u, "shift")' <=> Heading(u, "shift"))
    BY DEF OthersStill, Stuck, Doubling, Heading
  <1>3. \A u \in Threads : /\ Stuck(u)' => walk'[u].own = BucketIds'
                           /\ pc'[u] = "spread" => SpreadOK(u)'
                           /\ PathOK(u)'
    <2> SUFFICES ASSUME NEW u \in Threads \ {t}
                 PROVE  /\ Stuck(u)' => walk'[u].own = BucketIds'
                        /\ pc'[u] = "spread" => SpreadOK(u)'
                        /\ PathOK(u)'
      BY DEF Doubling
    <2>1. Stuck(u)' => walk'[u].own = BucketIds'
      BY <1>1, <1>2 DEF OthersStill, OrderInv
    <2>2. pc'[u] = "spread" => SpreadOK(u)'
      BY OthersSpread DEF OthersStill, OrderInv
    <2>3. PathOK(u)'
      BY OthersPath DEF OthersStill, OrderInv
    <2> QED BY <2>1, <2>2, <2>3
  <1>4. Ordered'
    <2> SUFFICES ASSUME \A u \in Threads : ~Doubling(u)'
                 PROVE  /\ Housed(table, hp_)
                        /\ \A k \in DOMAIN table : Gap(table, k) => Hole(k)'
      BY DEF Ordered
    <2>1. Housed(table, hp_) /\ \A k \in DOMAIN table : Gap(table, k) => Hole(k)
      BY <1>2 DEF OrderInv, Ordered
    <2>2. \A k : Hole(k) => Hole(k)'
      BY <1>2 DEF Hole, OthersStill
    <2> QED BY <2>1, <2>2
  <1> QED BY <1>3, <1>4 DEF OrderInv

LEMMA QuietOutside ==
    ASSUME RHInv, RHInv', OrderInv, NEW t \in Threads, hp_' = hp_, table' = table, OthersStill(t),
           pc[t] \notin {"spread", "shift", "lock_next"}, ~Stuck(t),
           pc'[t] \notin Under \cup {"lock_next", "spread"}, ~Stuck(t)'
    PROVE  OrderInv'
  <1>1. ~Doubling(t) /\ ~Doubling(t)' /\ ~Heading(t, "shift")
    BY DEF Doubling, Heading
  <1>2. PathOK(t)'
    BY NoPath
  <1> QED BY <1>1, <1>2, QuietOrder

-----------------------------------------------------------------------------
\* The steps that change no slot.
LEMMA ReturnedAt ==
    ASSUME RHInv, NEW t \in Threads, Return(t)
    PROVE  OthersStill(t) /\ pc'[t] = "idle"
  <1>1. /\ walk' = [walk EXCEPT ![t] = NoWalk] /\ pc' = [pc EXCEPT ![t] = "idle"]
        /\ todo' = [todo EXCEPT ![t] = Tail(@)]
    BY DEF Return, Goto
  <1>2. pc'[t] = "idle" /\ \A u \in Threads \ {t} : walk'[u] = walk[u] /\ pc'[u] = pc[u]
    BY <1>1, ChangedAt, ZenonT(60)
  <1>3. todo \in [Threads -> Seq(CallRecords)]
    BY DEF RHInv, Typed
  <1>4. \A u \in Threads \ {t} : todo'[u] = todo[u]
    BY <1>1, <1>3
  <1> QED BY <1>2, <1>4 DEF OthersStill

LEMMA MovedTo ==
    ASSUME RHInv, NEW t \in Threads, NEW w, NEW l,
           walk' = [walk EXCEPT ![t] = w], pc' = [pc EXCEPT ![t] = l], todo' = todo
    PROVE  /\ OthersStill(t) /\ walk'[t] = w /\ pc'[t] = l
           /\ Call(t)' = Call(t) /\ Key(t)' = Key(t)
  BY ChangedAt, ZenonT(60) DEF OthersStill, Call, Key

LEMMA KeptWalk ==
    ASSUME RHInv, NEW t \in Threads
    PROVE  walk = [walk EXCEPT ![t] = walk[t]] /\ pc = [pc EXCEPT ![t] = pc[t]]
  <1>1. walk \in [Threads -> WalkRecords] /\ pc \in [Threads -> Labels]
    BY DEF RHInv, Typed
  <1> QED BY <1>1

LEMMA OutsideOrder ==
    ASSUME RHInv, RHInv', OrderInv, NEW t \in Threads,
           Begin(t) \/ Start(t) \/ Return(t) \/ Find(t) \/ DoubleRaced(t)
    PROVE  OrderInv'
  <1>1. CASE Begin(t)
    <2>1. /\ pc[t] = "idle" /\ pc' = [pc EXCEPT ![t] = "start"] /\ walk' = walk /\ todo' = todo
          /\ hp_' = hp_ /\ table' = table
      BY <1>1 DEF Begin, Goto, shared
    <2>2. OthersStill(t) /\ pc'[t] = "start"
      BY <2>1, KeptWalk, MovedTo, ZenonT(60)
    <2> QED BY <2>1, <2>2, QuietOutside DEF Stuck, Under
  <1>2. CASE Start(t)
    <2>1. PICK w, l : /\ l \in {"epoch", "lock_first"} /\ walk' = [walk EXCEPT ![t] = w]
                      /\ pc' = [pc EXCEPT ![t] = l]
      BY <1>2 DEF Start, Goto
    <2>2. pc[t] = "start" /\ todo' = todo /\ hp_' = hp_ /\ table' = table
      BY <1>2 DEF Start, shared
    <2>3. OthersStill(t) /\ pc'[t] = l
      BY <2>1, <2>2, MovedTo
    <2> QED BY <2>1, <2>2, <2>3, QuietOutside DEF Stuck, Under
  <1>3. CASE Return(t)
    <2>1. pc[t] = "return" /\ hp_' = hp_ /\ table' = table
      BY <1>3 DEF Return, shared
    <2> QED BY <1>3, <2>1, ReturnedAt, QuietOutside DEF Stuck, Under
  <1>4. CASE Find(t)
    <2>1. PICK l \in {"start", "check_hp", "scan", "value", "check_epochs", "epoch", "return"} :
              pc' = [pc EXCEPT ![t] = l]
      <3>1. CASE CheckEpochs(t)
        BY <3>1, KeptWalk DEF CheckEpochs, Goto
      <3>2. CASE Scan(t)
        BY <3>2 DEF Scan, Goto
      <3>3. CASE Epoch(t)
        BY <3>3 DEF Epoch, Goto
      <3>4. CASE CheckHp(t) \/ Value(t)
        BY <3>4 DEF CheckHp, Value, Goto
      <3> QED BY <1>4, <3>1, <3>2, <3>3, <3>4 DEF Find
    <2>2. /\ pc[t] \in {"check_hp", "scan", "value", "check_epochs", "epoch"}
          /\ walk' = walk /\ todo' = todo /\ hp_' = hp_ /\ table' = table
      BY <1>4 DEF Find, Epoch, CheckHp, Scan, Value, CheckEpochs, shared
    <2>3. OthersStill(t) /\ pc'[t] = l
      BY <2>1, <2>2, KeptWalk, MovedTo
    <2> QED BY <2>1, <2>2, <2>3, QuietOutside DEF Stuck, Under
  <1>5. CASE DoubleRaced(t)
    <2>1. PICK w : walk' = [walk EXCEPT ![t] = w] /\ pc' = [pc EXCEPT ![t] = "release"]
      BY <1>5 DEF DoubleRaced, StartRelease, Goto
    <2>2. pc[t] = "double" /\ todo' = todo /\ hp_' = hp_ /\ table' = table
      BY <1>5 DEF DoubleRaced, shared
    <2>3. OthersStill(t) /\ pc'[t] = "release"
      BY <2>1, <2>2, MovedTo
    <2> QED BY <2>2, <2>3, QuietOutside DEF Stuck, Under
  <1> QED BY <1>1, <1>2, <1>3, <1>4, <1>5

LEMMA GivenUpOrder ==
    ASSUME RHInv, RHInv', OrderInv, NEW t \in Threads,
           NotFound(t) \/ RehashRequired(t) \/ Release(t) \/ LockAll(t)
    PROVE  OrderInv'
  <1>1. CASE NotFound(t) \/ RehashRequired(t)
    <2>1. PICK w : walk' = [walk EXCEPT ![t] = w] /\ pc' = [pc EXCEPT ![t] = "release"]
      BY <1>1 DEF NotFound, RehashRequired, StartRelease, Answer, Goto
    <2>2. /\ pc[t] \in {"out_of_window", "not_occupied", "less_dist"}
          /\ todo' = todo /\ hp_' = hp_ /\ table' = table
      BY <1>1 DEF NotFound, RehashRequired, shared
    <2>3. OthersStill(t) /\ pc'[t] = "release"
      BY <2>1, <2>2, MovedTo
    <2> QED BY <2>2, <2>3, QuietOutside DEF Stuck, Under
  <1>2. CASE Release(t)
    <2>1. PICK b \in walk[t].own :
              /\ walk' = [walk EXCEPT ![t].own = @ \ {b}, ![t].bucket = 0]
              /\ pc' = [pc EXCEPT ![t] = IF walk[t].own = {b} THEN walk[t].go ELSE "release"]
      BY <1>2 DEF Release, Goto
    <2> DEFINE w == [walk[t] EXCEPT !.own = @ \ {b}, !.bucket = 0]
               l == IF walk[t].own = {b} THEN walk[t].go ELSE "release"
    <2>2. pc[t] = "release" /\ todo' = todo /\ hp_' = hp_ /\ table' = table
      BY <1>2 DEF Release
    <2>3. w.own = walk[t].own \ {b}
      BY WalkFacts DEF WalkRecords
    <2>4. OthersStill(t) /\ pc'[t] = l /\ walk'[t] = w
      <3> HIDE DEF l
      <3>1. walk' = [walk EXCEPT ![t] = w] /\ pc' = [pc EXCEPT ![t] = l]
        BY <2>1 DEF l
      <3> HIDE DEF w
      <3> QED BY <2>2, <3>1, MovedTo
    <2>5. l \in {"start", "return", "lock_all", "release"} /\ (l = "lock_all" => walk'[t].own = {})
      <3>1. walk[t].go \in {"start", "return", "lock_all"}
        BY <2>2 DEF RHInv, OwnOK
      <3> HIDE DEF w
      <3> QED BY <2>3, <2>4, <3>1
    <2> HIDE DEF l, w
    <2> QED BY <2>2, <2>4, <2>5, QuietOutside DEF Stuck, Under
  <1>3. CASE LockAll(t)
    <2> DEFINE b == walk[t].bucket
               w == [walk[t] EXCEPT !.own = @ \cup {b}, !.bucket = b + 1]
               l == IF b + 1 \in BucketIds THEN "lock_all" ELSE "double"
    <2>1. /\ pc[t] = "lock_all" /\ todo' = todo /\ hp_' = hp_ /\ table' = table /\ LockBucket(t, b)
          /\ walk' = [walk EXCEPT ![t] = w] /\ pc' = [pc EXCEPT ![t] = l]
      BY <1>3 DEF LockAll, Goto
    <2>2. ~Stuck(t)
      BY <2>1 DEF LockBucket, Stuck, RHInv, LocksOK
    <2>3. walk[t].own = 0..b - 1 /\ b \in Nat
      BY <2>1, <2>2, WalkFacts DEF RHInv, OwnOK
    <2>4. w.own = walk[t].own \cup {b} /\ w.bucket = b + 1
      BY WalkFacts DEF WalkRecords
    <2> HIDE DEF w, l
    <2>5. OthersStill(t) /\ pc'[t] = l /\ walk'[t] = w
      BY <2>1, MovedTo
    <2> HIDE DEF b
    <2>6. b + 1 \notin walk[t].own \cup {b}
      BY <2>3
    <2>7. ~Stuck(t)'
      BY <2>4, <2>5, <2>6 DEF Stuck
    <2>8. l \in {"lock_all", "double"}
      BY DEF l
    <2> QED BY <2>1, <2>2, <2>5, <2>7, <2>8, QuietOutside DEF Under
  <1> QED BY <1>1, <1>2, <1>3

-----------------------------------------------------------------------------
\* The walk: it goes on over slots whose entries have earlier homes.
LEMMA WalkMoved ==
    ASSUME RHInv, NEW t \in Threads, NEW w \in WalkRecords, NEW l,
           walk' = [walk EXCEPT ![t] = w], pc' = [pc EXCEPT ![t] = l], todo' = todo,
           table' = table, w.seen = walk[t].seen, walk[t].own \subseteq w.own
    PROVE  /\ OthersStill(t) /\ walk'[t] = w /\ pc'[t] = l
           /\ Call(t)' = Call(t) /\ Key(t)' = Key(t) /\ HomeOf(t)' = HomeOf(t) /\ WindowOf(t)' = WindowOf(t)
           /\ \A x : Passed(t, x) => Passed(t, x)'
  <1>1. /\ OthersStill(t) /\ walk'[t] = w /\ pc'[t] = l
        /\ Call(t)' = Call(t) /\ Key(t)' = Key(t)
    BY MovedTo
  <1>2. HomeOf(t)' = HomeOf(t) /\ WindowOf(t)' = WindowOf(t)
    BY <1>1 DEF HomeOf, WindowOf
  <1>3. \A x : Passed(t, x) => Passed(t, x)'
    BY <1>1, <1>2 DEF Passed
  <1> QED BY <1>1, <1>2, <1>3

LEMMA LockFirstOrder ==
    ASSUME RHInv, RHInv', OrderInv, NEW t \in Threads, LockFirst(t)
    PROVE  OrderInv'
  <1> DEFINE b == walk[t].bucket
  <1>1. /\ pc[t] = "lock_first" /\ todo' = todo /\ hp_' = hp_ /\ table' = table
        /\ b = HomeBucket(t) /\ walk[t].own = {}
    BY DEF LockFirst, RHInv, OwnOK, Outside
  <1>2. CASE hp_ # walk[t].seen
    <2>1. pc' = [pc EXCEPT ![t] = "start"] /\ walk' = [walk EXCEPT ![t] = walk[t]]
      BY <1>2, KeptWalk DEF LockFirst, Goto
    <2>2. OthersStill(t) /\ pc'[t] = "start"
      BY <1>1, <2>1, MovedTo
    <2> QED BY <1>1, <2>2, QuietOutside DEF Stuck, Under
  <1>3. CASE hp_ = walk[t].seen
    <2> DEFINE w == [walk[t] EXCEPT !.own = {b}]
    <2>1. pc' = [pc EXCEPT ![t] = "probe"] /\ walk' = [walk EXCEPT ![t] = w]
      BY <1>3 DEF LockFirst, Goto
    <2>2. w \in WalkRecords /\ w.seen = hp_ /\ w.bucket = b
      BY <1>3, WalkFacts DEF WalkRecords
    <2> HIDE DEF w
    <2>3. /\ OthersStill(t) /\ walk'[t] = w /\ pc'[t] = "probe" /\ HomeOf(t)' = HomeOf(t)
      BY <1>1, <1>3, <2>1, <2>2, WalkMoved
    <2>4. First(b) \in Int /\ First(b) <= HomeOf(t) /\ HomeOf(t) \in Nat
      <3>1. HomeOf(t) \in Nat /\ HomeBucket(t) \in Nat /\ Slots \in Nat \ {0}
        BY <1>1, CallFacts, SizesBasics
      <3>2. HomeOf(t) \in SlotsOf(b) /\ b \in Int
        BY <1>1, <3>1, SlotFacts DEF HomeBucket
      <3> HIDE DEF b
      <3>3. First(b) \in Int /\ First(b) <= HomeOf(t)
        BY <3>1, <3>2, SlotFacts
      <3> QED BY <3>1, <3>3
    <2>5. Passed(t, First(b))'
      <3>1. HomeOf(t)..First(b) - 1 = {}
        BY <2>4
      <3>2. (HomeOf(t)..First(b) - 1)' = {}
        <4>1. HomeOf(t)'..First(b) - 1 = {}
          BY <2>3, <3>1
        <4>2. First(b)' = First(b)
          BY <2>2, <2>3 DEF First
        <4> QED BY <4>1, <4>2
      <3> QED BY <3>2 DEF Passed
    <2>6. PathOK(t)'
      <3>1. walk'[t].bucket = b /\ walk'[t].seen = hp_' /\ First(walk[t].bucket)' = First(b)'
        BY <1>1, <2>2, <2>3
      <3>2. Passed(t, First(walk[t].bucket))'
        BY <2>5, <3>1 DEF Passed
      <3> QED BY <2>3, <3>1, <3>2 DEF PathOK, Heading, Stops
    <2> QED BY <1>1, <2>3, <2>6, QuietOrder DEF Doubling, Stuck, Heading
  <1> QED BY <1>2, <1>3

LEMMA LockNextOrder ==
    ASSUME RHInv, RHInv', OrderInv, NEW t \in Threads, LockNext(t)
    PROVE  OrderInv'
  <1> DEFINE b == walk[t].bucket
             w == [walk[t] EXCEPT !.own = @ \cup {b}]
             l == walk[t].go
  <1>1. /\ pc[t] = "lock_next" /\ todo' = todo /\ hp_' = hp_ /\ table' = table
        /\ pc' = [pc EXCEPT ![t] = l] /\ walk' = [walk EXCEPT ![t] = w]
    BY DEF LockNext, Goto
  <1>2. /\ w \in WalkRecords /\ w.seen = walk[t].seen /\ w.bucket = b /\ w.pos = walk[t].pos
        /\ walk[t].own \subseteq w.own
    <2>1. walk[t] \in WalkRecords /\ b \in Nat
      BY WalkFacts
    <2> QED BY <2>1 DEF WalkRecords
  <1>3. l \in {"probe", "less_dist", "shift"}
    BY <1>1 DEF RHInv, OwnOK
  <1> HIDE DEF w
  <1>4. /\ OthersStill(t) /\ walk'[t] = w /\ pc'[t] = l
        /\ Call(t)' = Call(t) /\ Key(t)' = Key(t) /\ HomeOf(t)' = HomeOf(t) /\ WindowOf(t)' = WindowOf(t)
        /\ \A x : Passed(t, x) => Passed(t, x)'
    BY <1>1, <1>2, WalkMoved
  <1>5. \A m : Heading(t, m)' <=> l = m
    BY <1>3, <1>4 DEF Heading
  <1>6. \A m \in {"probe", "less_dist", "shift"} : Heading(t, m) <=> l = m
    BY <1>1 DEF Heading
  <1>7. PathOK(t) /\ walk'[t].pos = walk[t].pos /\ walk'[t].bucket = walk[t].bucket /\ walk'[t].seen = walk[t].seen
    BY <1>2, <1>4 DEF OrderInv
  <1>8. First(walk[t].bucket)' = First(walk[t].bucket)
    BY <1>7 DEF First
  <1>9. Heading(t, "probe")' => Passed(t, First(walk[t].bucket))'
    <2>1. Heading(t, "probe")' => Passed(t, First(walk[t].bucket))
      BY <1>5, <1>6, <1>7 DEF PathOK
    <2>2. ASSUME Passed(t, First(walk[t].bucket)) PROVE Passed(t, First(walk[t].bucket))'
      BY <1>4, <1>8, <2>2 DEF Passed
    <2> QED BY <2>1, <2>2
  <1>10. Heading(t, "less_dist")' =>
            /\ Passed(t, walk[t].pos)' /\ walk[t].pos - HomeOf(t) <= WindowOf(t)
            /\ BucketOf(walk[t].pos) \in walk'[t].own
            /\ table[walk[t].pos] # Empty /\ From(table, walk[t].pos) > HomeOf(t)
    <2>1. ASSUME Heading(t, "less_dist")'
          PROVE  /\ Passed(t, walk[t].pos) /\ walk[t].pos - HomeOf(t) <= WindowOf(t)
                 /\ BucketOf(walk[t].pos) \in walk[t].own
                 /\ table[walk[t].pos] # Empty /\ From(table, walk[t].pos) > HomeOf(t)
      BY <1>5, <1>6, <1>7, <2>1 DEF PathOK
    <2>2. ASSUME Passed(t, walk[t].pos) PROVE Passed(t, walk[t].pos)'
      BY <1>4, <1>7, <2>2 DEF Passed
    <2> QED BY <1>2, <1>4, <2>1, <2>2
  <1>11. Heading(t, "shift")' => walk[t].pos \in DOMAIN table
    BY <1>5, <1>6, <1>7 DEF PathOK
  <1>12. PathOK(t)'
    <2>1. pc'[t] \in {"probe", "less_dist", "shift"}
      BY <1>3, <1>4
    <2>2. walk[t].seen = hp_
      BY <1>1, <1>7 DEF PathOK
    <2>3. (walk[t].pos - HomeOf(t) <= WindowOf(t))' <=> walk[t].pos - HomeOf(t) <= WindowOf(t)
      BY <1>4, <1>7
    <2>4. From(table, walk[t].pos)' = From(table, walk[t].pos)
      BY <1>1, <1>7 DEF From
    <2>5. BucketOf(walk[t].pos)' = BucketOf(walk[t].pos)
      BY <1>7 DEF BucketOf
    <2> QED BY <1>1, <1>4, <1>7, <1>9, <1>10, <1>11, <2>1, <2>2, <2>3, <2>4, <2>5 DEF PathOK, Stops
  <1> QED BY <1>1, <1>3, <1>4, <1>5, <1>6, <1>7, <1>12, QuietOrder DEF Doubling, Stuck

LEMMA StatusMeans ==
    ASSUME NEW tab, NEW k, NEW i, NEW d \in Int, NEW hp \in Nat, NEW s, s = Status(tab, k, i, d, hp)
    PROVE  /\ s = "out_of_window" <=> d > Window(hp)
           /\ s = "not_occupied" <=> d <= Window(hp) /\ tab[i] = Empty
           /\ s = "less_dist" => d <= Window(hp) /\ tab[i] # Empty /\ tab[i].dist < d
           /\ s = "equal" => d <= Window(hp) /\ tab[i] # Empty /\ ~(tab[i].dist < d) /\ tab[i].key = k
           /\ s = "next" => d <= Window(hp) /\ tab[i] # Empty /\ ~(tab[i].dist < d) /\ tab[i].key # k
           /\ s \in {"out_of_window", "not_occupied", "less_dist", "equal", "next"}
  <1>1. Window(hp) \in Nat
    BY DEF Window
  <1>2. CASE d > Window(hp)
    <2>1. s = "out_of_window"
      BY <1>2 DEF Status, Window
    <2> QED BY <1>1, <1>2, <2>1
  <1>3. CASE d <= Window(hp) /\ tab[i] = Empty
    <2>1. ~(d > Window(hp))
      BY <1>1, <1>3
    <2>2. s = "not_occupied"
      BY <1>3, <2>1 DEF Status
    <2> QED BY <1>3, <2>1, <2>2
  <1>4. CASE d <= Window(hp) /\ tab[i] # Empty
    <2>1. ~(d > Window(hp))
      BY <1>1, <1>4
    <2>2. s = IF tab[i].dist < d THEN "less_dist" ELSE IF tab[i].key = k THEN "equal" ELSE "next"
      BY <1>4, <2>1 DEF Status
    <2> QED BY <1>4, <2>1, <2>2
  <1>5. d > Window(hp) \/ d <= Window(hp)
    BY <1>1
  <1> QED BY <1>2, <1>3, <1>4, <1>5

\* A walk that has met no stop before x has passed all slots before x.
LEMMA PassedMore ==
    ASSUME RHInv, NEW t \in Threads, pc[t] = "probe", Passed(t, First(walk[t].bucket)),
           NEW x \in Int, x <= First(walk[t].bucket + 1),
           \A i \in SlotsOf(walk[t].bucket) :
               i >= HomeOf(t) /\ i < x =>
                   Status(table, Key(t), i, i - HomeOf(t), walk[t].seen) = "next"
    PROVE  Passed(t, x)
  <1> DEFINE b == walk[t].bucket
             h == HomeOf(t)
  <1>1. /\ pc[t] \in Under /\ pc[t] # "idle" /\ walk[t].seen \in Nat /\ b \in Int
        /\ Slots \in Nat \ {0}
    BY WalkFacts, SizesBasics DEF Under
  <1>2. h \in Nat /\ b \in walk[t].own
    BY <1>1, CallFacts, UnderFacts
  <1>3. /\ First(b) \in Int /\ First(b + 1) \in Int
        /\ \A i \in Int : i \in SlotsOf(b) <=> First(b) <= i /\ i < First(b + 1)
        /\ \A i \in SlotsOf(b) : BucketOf(i) = b
    <2> HIDE DEF b
    <2>1. First(b + 1) = First(b) + Slots /\ First(b) \in Int
      BY <1>1, SlotFacts
    <2>2. \A i \in Int : i \in SlotsOf(b) <=> First(b) <= i /\ i < First(b + 1)
      BY <1>1, SlotFacts
    <2>3. \A i \in SlotsOf(b) : BucketOf(i) = b
      BY <1>1, SlotFacts
    <2> QED BY <1>1, <2>1, <2>2, <2>3
  <1>4. SUFFICES ASSUME NEW j \in h..x - 1
                 PROVE  /\ BucketOf(j) \in walk[t].own /\ table[j] # Empty
                        /\ From(table, j) <= h /\ table[j].key # Key(t)
    BY DEF Passed
  <1>5. j \in Int /\ h <= j /\ j < x
    BY <1>2
  <1>6. CASE j < First(b)
    <2>1. j \in h..First(b) - 1
      BY <1>3, <1>5, <1>6
    <2> QED BY <2>1 DEF Passed
  <1>7. CASE ~(j < First(b))
    <2>1. j \in SlotsOf(b)
      BY <1>3, <1>5, <1>7
    <2>2. Status(table, Key(t), j, j - h, walk[t].seen) = "next"
      BY <1>2, <1>5, <2>1
    <2>3. j - h \in Int
      BY <1>2, <1>5
    <2>4. table[j] # Empty /\ ~(table[j].dist < j - h) /\ table[j].key # Key(t)
      <3> HIDE DEF h
      <3> QED BY <1>1, <2>2, <2>3, StatusMeans
    <2>5. j \in DOMAIN table /\ BucketOf(j) \in walk[t].own
      BY <1>1, <1>2, <1>3, <2>1, UnderFacts
    <2>6. table[j].dist \in Nat
      BY <2>4, <2>5, Basics DEF EntryRecords
    <2>7. From(table, j) <= h
      BY <1>2, <1>5, <2>4, <2>6 DEF From
    <2> QED BY <2>4, <2>5, <2>7
  <1> QED BY <1>6, <1>7

\* The next bucket of a window that has not ended is there.
LEMMA NextBucketThere ==
    ASSUME PowerLaw, RHInv, OrderInv, SmallWindows, NEW t \in Threads, pc[t] \in Under,
           ~(First(walk[t].bucket + 1) - HomeOf(t) > WindowOf(t))
    PROVE  First(walk[t].bucket + 1) \in DOMAIN table
  <1>1. walk[t].seen = hp_ /\ pc[t] # "idle"
    BY DEF OrderInv, PathOK, Under
  <1>2. hp_ \in Nat /\ 2^hp_ \in Nat \ {0} /\ DOMAIN table = 0..2^hp_ - 1 /\ Slots \in Nat \ {0}
    BY SizesBasics
  <1>3. HomeOf(t) \in Nat /\ HomeOf(t) + Window(hp_) < 2^hp_ - 1 /\ WindowOf(t) = Window(hp_)
    <2>1. Key(t) \in Keys /\ HomeOf(t) = Home(Key(t), hp_) /\ WindowOf(t) = Window(hp_)
      BY <1>1, CallFacts DEF HomeOf, WindowOf
    <2> QED BY <1>2, <2>1, HomesLeaveRoom DEF OrderInv, SmallWindows
  <1>4. First(walk[t].bucket + 1) \in Nat /\ Window(hp_) \in Nat
    <2>1. walk[t].bucket + 1 \in Nat
      BY WalkFacts
    <2>2. First(walk[t].bucket + 1) \in Nat
      BY <1>2, <2>1, LastSlots
    <2>3. Window(hp_) \in Nat
      BY <1>2 DEF Window
    <2> QED BY <2>2, <2>3
  <1> DEFINE n == 2^hp_
             f == First(walk[t].bucket + 1)
  <1> HIDE DEF n, f
  <1>5. f \in 0..n - 1
    <2>1. /\ f \in Nat /\ n \in Nat /\ ~(f - HomeOf(t) > Window(hp_)) /\ HomeOf(t) + Window(hp_) < n - 1
      BY <1>2, <1>3, <1>4 DEF n, f
    <2> QED BY <1>3, <1>4, <2>1
  <1> QED BY <1>2, <1>5 DEF n, f

LEMMA ProbeOrder ==
    ASSUME PowerLaw, RHInv, RHInv', OrderInv, SmallWindows, NEW t \in Threads, Probe(t)
    PROVE  OrderInv'
  <1> DEFINE b == walk[t].bucket
             status(i) == Status(table, Key(t), i, i - HomeOf(t), walk[t].seen)
             stops == {i \in SlotsOf(b) : i >= HomeOf(t) /\ status(i) # "next"}
  <1>1. /\ pc[t] = "probe" /\ pc[t] \in Under /\ pc[t] # "idle"
        /\ todo' = todo /\ hp_' = hp_ /\ table' = table
    BY DEF Probe, shared, Under
  <1>2. /\ walk[t] \in WalkRecords /\ b \in Nat /\ walk[t].seen \in Nat /\ HomeOf(t) \in Nat
        /\ WindowOf(t) \in Nat
    BY <1>1, WalkFacts, CallFacts
  <1>3. PathOK(t) /\ walk[t].seen = hp_ /\ Passed(t, First(b))
    BY <1>1 DEF OrderInv, PathOK, Heading
  <1>4. \A i \in SlotsOf(b) : i \in DOMAIN table /\ i \in Nat /\ BucketOf(i) = b
    BY <1>1, UnderFacts
  <1>5. ASSUME NEW x \in Int, x <= First(b + 1), \A i \in stops : i >= x
        PROVE  Passed(t, x)
    <2>1. \A i \in SlotsOf(b) : i >= HomeOf(t) /\ i < x => status(i) = "next"
      <3> SUFFICES ASSUME NEW i \in SlotsOf(b), i >= HomeOf(t), i < x, status(i) # "next" PROVE FALSE
        OBVIOUS
      <3>1. i \in stops
        OBVIOUS
      <3> QED BY <1>4, <1>5, <3>1
    <2> QED BY <1>1, <1>3, <1>5, <2>1, PassedMore
  <1>6. First(b + 1) \in Int /\ \A i \in SlotsOf(b) : i <= First(b + 1)
    <2>1. Slots \in Nat \ {0} /\ b \in Int
      BY <1>2, SizesBasics
    <2> HIDE DEF b
    <2>2. First(b + 1) = First(b) + Slots /\ First(b) \in Int
      BY <2>1, SlotFacts
    <2> QED BY <2>1, <2>2 DEF SlotsOf
  <1>7. ~Heading(t, "shift") /\ ~Doubling(t)
    BY <1>1 DEF Heading, Doubling, Stuck
  <1>8. CASE stops # {}
    <2>1. PICK m \in stops : m = Min(stops) /\ \A i \in stops : m <= i
      <3>1. stops \in SUBSET Nat
        BY <1>4
      <3> HIDE DEF stops
      <3> QED BY <1>8, <3>1, MinIsLeast
    <2> DEFINE w == [walk[t] EXCEPT !.pos = m]
               l == status(m)
    <2>2. m \in SlotsOf(b) /\ m >= HomeOf(t) /\ l # "next" /\ m \in Nat /\ BucketOf(m) = b /\ m \in DOMAIN table
      BY <1>4, <2>1
    <2>3. walk' = [walk EXCEPT ![t] = w] /\ pc' = [pc EXCEPT ![t] = l]
      BY <1>8, <2>1 DEF Probe, Goto
    <2>4. Passed(t, m)
      <3>1. \A i \in stops : i >= m
        BY <1>4, <2>1, <2>2
      <3> HIDE DEF stops
      <3> QED BY <1>5, <1>6, <2>2, <3>1
    <2> HIDE DEF stops
    <2>5. /\ l \in {"out_of_window", "not_occupied", "less_dist", "equal"}
          /\ l = "out_of_window" => m - HomeOf(t) > WindowOf(t)
          /\ l # "out_of_window" => m - HomeOf(t) <= WindowOf(t)
          /\ l = "equal" => table[m].key = Key(t)
          /\ l = "less_dist" => table[m] # Empty /\ table[m].dist < m - HomeOf(t)
      <3>1. m - HomeOf(t) \in Int
        BY <1>2, <2>2
      <3>2. l = Status(table, Key(t), m, m - HomeOf(t), walk[t].seen) /\ WindowOf(t) = Window(walk[t].seen)
        BY DEF WindowOf
      <3> HIDE DEF l
      <3> QED BY <1>2, <2>2, <3>1, <3>2, StatusMeans
    <2>6. l = "less_dist" => From(table, m) > HomeOf(t)
      <3>1. table[m] # Empty => table[m].dist \in Nat
        BY <2>2, Basics DEF EntryRecords
      <3> QED BY <1>2, <2>2, <2>5, <3>1 DEF From
    <2> HIDE DEF l
    <2>7. /\ w \in WalkRecords /\ w.own = walk[t].own /\ w.bucket = b /\ w.seen = walk[t].seen
          /\ w.pos = m
      BY <1>2, <2>2 DEF WalkRecords
    <2> HIDE DEF w
    <2>8. /\ OthersStill(t) /\ walk'[t] = w /\ pc'[t] = l
          /\ Call(t)' = Call(t) /\ Key(t)' = Key(t) /\ HomeOf(t)' = HomeOf(t) /\ WindowOf(t)' = WindowOf(t)
          /\ \A x : Passed(t, x) => Passed(t, x)'
      BY <1>1, <2>3, <2>7, WalkMoved
    <2>9. Passed(t, m)'
      BY <2>4, <2>8
    <2>10. b \in walk[t].own
      BY <1>1, UnderFacts
    <2>11. PathOK(t)'
      <3>1. l = "out_of_window" => \E x \in Nat : x - HomeOf(t)' > WindowOf(t)' /\ Passed(t, x)'
        BY <2>2, <2>5, <2>8, <2>9
      <3>2. Passed(t, walk[t].pos)'
        BY <2>7, <2>8, <2>9 DEF Passed
      <3>3. From(table, walk[t].pos)' = From(table, m) /\ BucketOf(walk[t].pos)' = b
        BY <1>1, <2>2, <2>7, <2>8 DEF From, BucketOf
      <3> QED BY <1>1, <1>3, <2>5, <2>6, <2>7, <2>8, <2>10, <3>1, <3>2, <3>3 DEF PathOK, Heading, Stops
    <2>12. ~Doubling(t)'
      BY <2>5, <2>8 DEF Doubling, Stuck
    <2> QED BY <1>1, <1>7, <2>8, <2>11, <2>12, QuietOrder
  <1>9. CASE stops = {}
    <2>1. Passed(t, First(b + 1))
      BY <1>5, <1>6, <1>9
    <2>2. CASE First(b + 1) - HomeOf(t) > WindowOf(t)
      <3>1. pc' = [pc EXCEPT ![t] = "out_of_window"] /\ walk' = [walk EXCEPT ![t] = walk[t]]
        BY <1>9, <2>2, KeptWalk DEF Probe, Goto
      <3>2. /\ OthersStill(t) /\ walk'[t] = walk[t] /\ pc'[t] = "out_of_window"
            /\ HomeOf(t)' = HomeOf(t) /\ WindowOf(t)' = WindowOf(t)
            /\ \A x : Passed(t, x) => Passed(t, x)'
        BY <1>1, <1>2, <3>1, WalkMoved
      <3>3. First(b + 1) \in Nat
        BY <1>2, <1>6, <2>2
      <3>4. \E x \in Nat : x - HomeOf(t)' > WindowOf(t)' /\ Passed(t, x)'
        BY <2>1, <2>2, <3>2, <3>3
      <3>5. PathOK(t)'
        BY <1>1, <1>3, <3>2, <3>4 DEF PathOK, Heading, Stops
      <3> QED BY <1>1, <1>7, <3>2, <3>5, QuietOrder DEF Doubling, Stuck
    <2>3. CASE ~(First(b + 1) - HomeOf(t) > WindowOf(t))
      <3> DEFINE w == [walk[t] EXCEPT !.bucket = @ + 1, !.go = "probe"]
      <3>1. pc' = [pc EXCEPT ![t] = "lock_next"] /\ walk' = [walk EXCEPT ![t] = w]
        BY <1>9, <2>3 DEF Probe, ToNextBucket, Goto
      <3>2. /\ w \in WalkRecords /\ w.own = walk[t].own /\ w.bucket = b + 1 /\ w.seen = walk[t].seen
            /\ w.go = "probe"
        <4>1. b + 1 \in Nat /\ "probe" \in Labels
          BY <1>2 DEF Labels, Under
        <4> QED BY <1>2, <4>1 DEF WalkRecords
      <3> HIDE DEF w
      <3>3. /\ OthersStill(t) /\ walk'[t] = w /\ pc'[t] = "lock_next"
            /\ HomeOf(t)' = HomeOf(t) /\ WindowOf(t)' = WindowOf(t)
            /\ \A x : Passed(t, x) => Passed(t, x)'
        BY <1>1, <1>2, <3>1, <3>2, WalkMoved
      <3>4. First(b + 1) \in DOMAIN table /\ First(walk[t].bucket)' = First(b + 1)
        BY <1>1, <2>3, <3>2, <3>3, NextBucketThere DEF First
      <3>5. Passed(t, First(walk[t].bucket))'
        <4>1. Passed(t, First(b + 1)) => Passed(t, First(walk[t].bucket))'
          BY <3>3, <3>4 DEF Passed
        <4> QED BY <2>1, <4>1
      <3>6. PathOK(t)'
        BY <1>1, <1>3, <3>2, <3>3, <3>4, <3>5 DEF PathOK, Heading, Stops
      <3>7. ~Doubling(t)'
        BY <3>3 DEF Doubling, Stuck
      <3> QED BY <1>1, <1>7, <3>3, <3>6, <3>7, QuietOrder
    <2> QED BY <2>2, <2>3
  <1> QED BY <1>8, <1>9

LEMMA FindPathOrder ==
    ASSUME PowerLaw, RHInv, RHInv', OrderInv, SmallWindows, NEW t \in Threads, FindPath(t)
    PROVE  OrderInv'
  <1> DEFINE b == walk[t].bucket
             p == walk[t].pos
             room == \E j \in SlotsOf(b) : j > p /\ j - HomeOf(t) <= WindowOf(t) /\ table[j] = Empty
  <1>1. /\ pc[t] = "less_dist" /\ pc[t] \in Under /\ pc[t] # "idle" /\ Call(t).op \in Inserts
        /\ todo' = todo /\ hp_' = hp_ /\ table' = table
    BY DEF FindPath, shared, Under
  <1>2. walk[t] \in WalkRecords /\ b \in Nat /\ p \in Nat /\ HomeOf(t) \in Nat
    BY <1>1, WalkFacts, CallFacts
  <1>3. /\ PathOK(t) /\ walk[t].seen = hp_ /\ Passed(t, p) /\ p - HomeOf(t) <= WindowOf(t)
        /\ BucketOf(p) \in walk[t].own /\ table[p] # Empty /\ From(table, p) > HomeOf(t)
    BY <1>1 DEF OrderInv, PathOK, Heading
  <1>4. ~Heading(t, "shift") /\ ~Doubling(t)
    BY <1>1 DEF Heading, Doubling, Stuck
  <1>5. CASE room \/ First(b + 1) - HomeOf(t) > WindowOf(t)
    <2> DEFINE l == IF room THEN "move_path" ELSE "out_of_window"
    <2>1. pc' = [pc EXCEPT ![t] = l] /\ walk' = [walk EXCEPT ![t] = walk[t]]
      BY <1>5, KeptWalk DEF FindPath, Goto
    <2>2. l = "move_path" \/ l = "out_of_window"
      OBVIOUS
    <2>3. l = "move_path" => room
      OBVIOUS
    <2> HIDE DEF l
    <2>4. /\ OthersStill(t) /\ walk'[t] = walk[t] /\ pc'[t] = l /\ Call(t)' = Call(t)
          /\ HomeOf(t)' = HomeOf(t) /\ WindowOf(t)' = WindowOf(t)
          /\ \A x : Passed(t, x) => Passed(t, x)'
      BY <1>1, <1>2, <2>1, WalkMoved
    <2>5. Passed(t, p)'
      <3>1. Passed(t, p) => Passed(t, p)'
        BY <2>4 DEF Passed
      <3> QED BY <1>3, <3>1
    <2>6. From(table, p)' = From(table, p) /\ BucketOf(p)' = BucketOf(p) /\ SlotsOf(b)' = SlotsOf(b)
      BY <1>1, <2>4 DEF From, BucketOf, SlotsOf, First
    <2>7. PathOK(t)'
      BY <1>1, <1>3, <2>2, <2>3, <2>4, <2>5, <2>6 DEF PathOK, Heading, Stops
    <2> QED BY <1>1, <1>4, <2>2, <2>4, <2>7, QuietOrder DEF Doubling, Stuck
  <1>6. CASE ~room /\ ~(First(b + 1) - HomeOf(t) > WindowOf(t))
    <2> DEFINE w == [walk[t] EXCEPT !.bucket = @ + 1, !.go = "less_dist"]
    <2>1. pc' = [pc EXCEPT ![t] = "lock_next"] /\ walk' = [walk EXCEPT ![t] = w]
      BY <1>6 DEF FindPath, ToNextBucket, Goto
    <2>2. /\ w \in WalkRecords /\ w.own = walk[t].own /\ w.bucket = b + 1 /\ w.seen = walk[t].seen
          /\ w.go = "less_dist" /\ w.pos = p
      <3>1. b + 1 \in Nat /\ "less_dist" \in Labels
        BY <1>2 DEF Labels, Under
      <3> QED BY <1>2, <3>1 DEF WalkRecords
    <2> HIDE DEF w
    <2>3. /\ OthersStill(t) /\ walk'[t] = w /\ pc'[t] = "lock_next"
          /\ HomeOf(t)' = HomeOf(t) /\ WindowOf(t)' = WindowOf(t)
          /\ \A x : Passed(t, x) => Passed(t, x)'
      BY <1>1, <1>2, <2>1, <2>2, WalkMoved, ZenonT(60)
    <2>4. First(b + 1) \in DOMAIN table /\ First(walk[t].bucket)' = First(b + 1)
      BY <1>1, <1>6, <2>2, <2>3, NextBucketThere DEF First
    <2>5. Passed(t, p)' /\ p' = p
      <3>1. p' = p
        BY <2>2, <2>3
      <3>2. Passed(t, p) => Passed(t, p)'
        BY <2>3, <3>1 DEF Passed
      <3> QED BY <1>3, <3>1, <3>2
    <2>6. From(table, p)' = From(table, p) /\ BucketOf(p)' = BucketOf(p)
      BY <1>1, <2>5 DEF From, BucketOf
    <2>7. PathOK(t)'
      BY <1>1, <1>3, <2>2, <2>3, <2>4, <2>5, <2>6 DEF PathOK, Heading, Stops
    <2>8. ~Doubling(t)'
      BY <2>3 DEF Doubling, Stuck
    <2> QED BY <1>1, <1>4, <2>3, <2>7, <2>8, QuietOrder
  <1> QED BY <1>5, <1>6

-----------------------------------------------------------------------------
\* The steps that change slots of buckets the thread owns.
LEMMA OwnerOrder ==
    ASSUME RHInv, RHInv', OrderInv, NEW t \in Threads, hp_' = hp_, OthersStill(t), OnlyOwned(t),
           walk[t].own # {}, ~Doubling(t), ~Doubling(t)',
           KeysOnce(table'), Rising(table'), Housed(table', hp_),
           \A k \in DOMAIN table : Gap(table', k) =>
               \/ Heading(t, "shift")' /\ k = walk'[t].pos - 1
               \/ Gap(table, k) /\ ~(Heading(t, "shift") /\ k = walk[t].pos - 1),
           PathOK(t)'
    PROVE  OrderInv'
  <1>1. DOMAIN table' = DOMAIN table
    BY SizesBasics DEF OnlyOwned, Tables
  <1>2. /\ \A u \in Threads : ~Doubling(u)
        /\ \A k \in DOMAIN table : Gap(table, k) => Hole(k)
    BY NobodyDoubles
  <1>3. \A u \in Threads : ~Doubling(u)'
    BY <1>2 DEF OthersStill, Doubling, Stuck
  <1>4. \A u \in Threads : PathOK(u)'
    <2>1. ASSUME NEW u \in Threads \ {t} PROVE PathOK(u)'
      BY <1>1, OthersPath DEF OthersStill, OnlyOwned, OrderInv
    <2> QED BY <2>1
  <1>5. ASSUME NEW k \in DOMAIN table, Gap(table', k)
        PROVE  Hole(k)'
    <2>1. CASE Heading(t, "shift")' /\ k = walk'[t].pos - 1
      BY <2>1 DEF Hole
    <2>2. CASE Gap(table, k) /\ ~(Heading(t, "shift") /\ k = walk[t].pos - 1)
      <3>1. PICK u \in Threads : Heading(u, "shift") /\ k = walk[u].pos - 1
        BY <1>2, <2>2 DEF Hole
      <3>2. u \in Threads \ {t}
        BY <2>2, <3>1
      <3>3. Heading(u, "shift")' /\ k = walk'[u].pos - 1
        BY <3>1, <3>2 DEF OthersStill, Heading
      <3> QED BY <3>3 DEF Hole
    <2> QED BY <1>5, <2>1, <2>2
  <1>6. Ordered'
    <2>1. Housed(table, hp_)'
      BY DEF Housed, Entries, From
    <2>2. \A k \in DOMAIN table' : Gap(table', k) => Hole(k)'
      BY <1>1, <1>5
    <2> QED BY <2>1, <2>2 DEF Ordered
  <1> QED BY <1>3, <1>4, <1>6 DEF OrderInv, Doubling

\* A thread that answers has no path any more.
LEMMA AnsweredOrder ==
    ASSUME RHInv, RHInv', OrderInv, NEW t \in Threads, pc[t] \in Under \ {"shift"},
           NEW a, Answer(t, a), hp_' = hp_, todo' = todo, OnlyOwned(t),
           KeysOnce(table'), Rising(table'), Housed(table', hp_),
           \A k \in DOMAIN table : Gap(table', k) => Gap(table, k)
    PROVE  OrderInv'
  <1>1. PICK w : walk' = [walk EXCEPT ![t] = w] /\ pc' = [pc EXCEPT ![t] = "release"]
    BY DEF Answer, Goto
  <1>2. OthersStill(t) /\ pc'[t] = "release"
    BY <1>1, MovedTo
  <1>3. PathOK(t)'
    BY <1>2, NoPath DEF Under
  <1>4. walk[t].own # {}
    BY UnderFacts
  <1>5. ~Doubling(t) /\ ~Doubling(t)' /\ ~Heading(t, "shift")
    BY <1>2 DEF Doubling, Stuck, Heading, Under
  <1> QED BY <1>2, <1>3, <1>4, <1>5, OwnerOrder

\* What the invariant says of the table an owner sees.
LEMMA OwnerSees ==
    ASSUME RHInv, OrderInv, NEW t \in Threads, pc[t] \in Under
    PROVE  /\ walk[t].seen = hp_ /\ HomeOf(t) = Home(Key(t), hp_) /\ WindowOf(t) = Window(hp_)
           /\ Rising(table) /\ KeysOnce(table) /\ Housed(table, hp_) /\ ~Doubling(t)
           /\ \A k \in DOMAIN table : BucketOf(k) \in walk[t].own /\ Gap(table, k) =>
                 pc[t] = "shift" /\ k = walk[t].pos - 1
  <1>1. walk[t].seen = hp_ /\ HomeOf(t) = Home(Key(t), hp_) /\ WindowOf(t) = Window(hp_)
    BY DEF OrderInv, PathOK, HomeOf, WindowOf
  <1>2. ~Doubling(t) /\ walk[t].own # {}
    BY UnderFacts DEF Doubling, Stuck, Under
  <1>3. Rising(table) /\ KeysOnce(table) /\ Housed(table, hp_)
    BY <1>2, NobodyDoubles DEF OrderInv
  <1>4. ASSUME NEW k \in DOMAIN table, BucketOf(k) \in walk[t].own, Gap(table, k)
        PROVE  pc[t] = "shift" /\ k = walk[t].pos - 1
    <2>1. Heading(t, "shift") /\ k = walk[t].pos - 1
      BY <1>2, <1>4, NoGapInOwned
    <2> QED BY <2>1 DEF Heading, Under
  <1> QED BY <1>1, <1>2, <1>3, <1>4

LEMMA FoundOrder ==
    ASSUME RHInv, RHInv', OrderInv, NEW t \in Threads, Found(t)
    PROVE  OrderInv'
  <1> DEFINE p == walk[t].pos
             v == Call(t).val
  <1>1. /\ pc[t] = "equal" /\ Answer(t, Call(t).op = "update") /\ hp_' = hp_ /\ todo' = todo
    BY DEF Found
  <1>2. /\ p \in DOMAIN table /\ BucketOf(p) \in walk[t].own /\ table[p] \in EntryRecords
        /\ pc[t] \in Under \ {"shift"}
    BY <1>1, EqualFacts
  <1>3. table \in Tables(2^hp_) /\ table' \in Tables(2^hp_)
    <2>1. hp_' = hp_
      BY <1>1
    <2> QED BY <2>1 DEF RHInv, Typed
  <1>4. /\ \A i \in DOMAIN table : i # p => table'[i] = table[i]
        /\ table'[p].key = table[p].key /\ table'[p].dist = table[p].dist
        /\ table'[p] # Empty /\ table[p] # Empty
    <2>1. table[p] # Empty
      BY <1>2, RobinHoodAssumption
    <2>2. CASE Call(t).op = "insert"
      BY <2>1, <2>2 DEF Found
    <2>3. CASE Call(t).op # "insert"
      <3>1. table' = [table EXCEPT ![p].val = v]
        BY <2>3 DEF Found
      <3>2. /\ \A i \in DOMAIN table : i # p => table'[i] = table[i]
            /\ table'[p] = [table[p] EXCEPT !.val = v]
        BY <1>2, <3>1
      <3>3. v \in Vals
        <4>1. Call(t).op \notin {"find", "erase"}
          BY <1>1, <1>2 DEF Found, RHInv, OwnOK, Under
        <4> QED BY <1>1, <4>1, CallFacts
      <3>4. /\ table'[p] \in EntryRecords /\ table'[p].key = table[p].key
            /\ table'[p].dist = table[p].dist
        BY <1>2, <3>2, <3>3 DEF EntryRecords
      <3> QED BY <2>1, <3>2, <3>4, RobinHoodAssumption
    <2> QED BY <2>2, <2>3
  <1>5. OnlyOwned(t)
    BY <1>2, <1>3, <1>4 DEF OnlyOwned
  <1>6. DOMAIN table' = DOMAIN table
    BY <1>3 DEF Tables
  <1>7. Entries(table') = Entries(table)
    BY <1>4, <1>6 DEF Entries
  <1>8. \A x \in Entries(table) : table'[x].key = table[x].key /\ table'[x].dist = table[x].dist
    BY <1>4 DEF Entries
  <1>9. Rising(table) /\ KeysOnce(table) /\ Housed(table, hp_)
    BY <1>2, OwnerSees
  <1>10. \A k \in DOMAIN table : Gap(table', k) => table[k] = Empty
    BY <1>4 DEF Gap
  <1>11. /\ KeysOnce(table') /\ Rising(table') /\ Housed(table', hp_)
         /\ \A k \in DOMAIN table : Gap(table', k) => Gap(table, k)
    BY <1>7, <1>8, <1>9, <1>10, SameOrder
  <1> QED BY <1>1, <1>2, <1>5, <1>11, AnsweredOrder

\* Both ways of inserting: Put into the slot where the walk has stopped.
LEMMA Inserted ==
    ASSUME PowerLaw, RHInv, RHInv', OrderInv, NEW t \in Threads, pc[t] \in {"not_occupied", "move_path"},
           Call(t).op \in Inserts, NEW a, Answer(t, a), hp_' = hp_, todo' = todo,
           NEW p, p = walk[t].pos, p \in DOMAIN table,
           NEW e, e = Entry(Key(t), Call(t).val, p - HomeOf(t)), table' = Put(table, p, e),
           NEW F, F = FreeFrom(table, p), F \in DOMAIN table, F - HomeOf(t) <= WindowOf(t),
           \A i \in p..F : BucketOf(i) \in walk[t].own,
           table[p] # Empty => From(table, p) > HomeOf(t)
    PROVE  OrderInv' /\ \A x \in Entries(table) : table[x].key # Key(t)
  <1> DEFINE n == 2^hp_
             h == HomeOf(t)
  <1>1. pc[t] \in Under \ {"shift"} /\ pc[t] # "idle"
    BY DEF Under
  <1>2. n \in Nat /\ table \in Tables(n) /\ DOMAIN table = 0..n - 1 /\ hp_ \in Nat
    BY SizesBasics
  <1>3. /\ walk[t].seen = hp_ /\ h = Home(Key(t), hp_) /\ WindowOf(t) = Window(hp_)
        /\ Rising(table) /\ KeysOnce(table) /\ Housed(table, hp_)
        /\ \A k \in DOMAIN table : ~(BucketOf(k) \in walk[t].own /\ Gap(table, k))
    BY <1>1, OwnerSees
  <1>4. h \in Nat /\ h <= p /\ p \in 0..n - 1
    BY <1>1, <1>2, CallFacts DEF RHInv, SlotsOK
  <1>5. e \in EntryRecords
    BY <1>1, <1>4, NewEntry
  <1>6. e.key = Key(t) /\ h = p - e.dist
    BY <1>4 DEF Entry
  <1>7. F # n /\ F \in 0..n - 1 /\ p <= F
    <2>1. F \in 0..n - 1
      BY <1>2
    <2> HIDE DEF n
    <2>2. F # n
      BY <1>2, <2>1
    <2>3. p \in Nat
      BY <1>2, SizesBasics, Basics
    <2>4. FreeFrom(table, p) # n => p <= FreeFrom(table, p)
      BY <1>2, <2>3, FreeFromFacts
    <2> QED BY <2>1, <2>2, <2>4
  <1>8. ~Gap(table, F)
    <2>1. F \in p..F
      BY <1>4, <1>7
    <2> QED BY <1>3, <2>1
  <1>9. \A k \in h..p - 1 : table[k] # Empty /\ From(table, k) <= h /\ table[k].key # e.key
    <2>1. Passed(t, p)
      BY DEF OrderInv, PathOK, Stops
    <2> QED BY <1>6, <2>1 DEF Passed
  <1> HIDE DEF n, h
  <1>10. /\ Rising(table') /\ KeysOnce(table') /\ Housed(table', hp_)
         /\ \A k \in 0..n - 1 : Gap(table', k) => Gap(table, k)
         /\ \A x \in Entries(table) : table[x].key # e.key
    <2>1. table[p] # Empty => From(table, p) > h
      BY DEF h
    <2>2. F - h <= Window(hp_)
      BY <1>3 DEF h
    <2>3. h = Home(e.key, hp_)
      BY <1>3, <1>6
    <2> DEFINE P == Put(table, p, e)
    <2> HIDE DEF P
    <2>4. P = Put(table, p, e) /\ table' = P
      BY DEF P
    <2>5. /\ Rising(P) /\ KeysOnce(P) /\ Housed(P, hp_)
          /\ \A k \in 0..n - 1 : Gap(P, k) => Gap(table, k)
          /\ \A x \in Entries(table) : table[x].key # e.key
      <3>1. /\ n \in Nat /\ table \in Tables(n) /\ p \in 0..n - 1 /\ hp_ \in Nat /\ h \in Nat
            /\ h = p - e.dist /\ F # n /\ Rising(table) /\ KeysOnce(table) /\ Housed(table, hp_)
        BY <1>2, <1>3, <1>4, <1>6, <1>7
      <3> QED BY <1>5, <1>8, <1>9, <2>1, <2>2, <2>3, <2>4, <3>1, PutInOrder
    <2> QED BY <2>4, <2>5
  <1>11. OnlyOwned(t)
    <2>1. table' \in Tables(n)
      BY <1>2, <1>4, <1>5, PutFacts
    <2>2. ASSUME NEW i \in DOMAIN table, BucketOf(i) \notin walk[t].own
          PROVE  table'[i] = table[i]
      <3>1. i \notin p..F /\ i \in 0..n - 1
        BY <1>2, <2>2
      <3> QED BY <1>2, <1>4, <1>5, <3>1, PutFacts, SMTT(60)
    <2> QED BY <2>1, <2>2 DEF OnlyOwned, n
  <1>12. OrderInv'
    BY <1>1, <1>2, <1>10, <1>11, AnsweredOrder
  <1> QED BY <1>6, <1>10, <1>12

LEMMA AddOrder ==
    ASSUME PowerLaw, RHInv, RHInv', OrderInv, NEW t \in Threads, Add(t)
    PROVE  OrderInv' /\ \A x \in Entries(table) : table[x].key # Key(t)
  <1> DEFINE p == walk[t].pos
             e == Entry(Key(t), Call(t).val, p - HomeOf(t))
  <1>1. /\ pc[t] = "not_occupied" /\ Call(t).op \in Inserts /\ Answer(t, TRUE)
        /\ hp_' = hp_ /\ todo' = todo /\ table' = [table EXCEPT ![p] = e]
    BY DEF Add
  <1>2. /\ p \in DOMAIN table /\ BucketOf(p) \in walk[t].own /\ table[p] = Empty
        /\ HomeOf(t) <= p /\ pc[t] # "idle"
    BY <1>1, EqualFacts
  <1>3. p \in Nat /\ p - HomeOf(t) <= WindowOf(t)
    BY <1>1, <1>2, Basics DEF OrderInv, PathOK, Stops
  <1>4. e \in EntryRecords
    BY <1>1, <1>2, <1>3, NewEntry
  <1>5. FreeFrom(table, p) = p /\ Put(table, p, e) = [table EXCEPT ![p] = e]
    <2>1. 2^hp_ \in Nat /\ table \in Tables(2^hp_) /\ p \in 0..2^hp_ - 1
      BY <1>2, SizesBasics
    <2> HIDE DEF e, p
    <2> QED BY <1>2, <1>4, <2>1, PutInFree
  <1>6. \A i \in p..p : BucketOf(i) \in walk[t].own
    BY <1>2, <1>3
  <1> HIDE DEF e, p
  <1> QED BY <1>1, <1>2, <1>3, <1>5, <1>6, Inserted DEF e, p

\* The slots of a path, up to the free one, belong to the walk.
LEMMA PathIsOwned ==
    ASSUME RHInv, OrderInv, NEW t \in Threads, MovePath(t), NEW F, F = FreeFrom(table, walk[t].pos)
    PROVE  /\ walk[t].pos \in DOMAIN table /\ F \in DOMAIN table /\ F - HomeOf(t) <= WindowOf(t)
           /\ \A i \in walk[t].pos..F : BucketOf(i) \in walk[t].own
  <1> DEFINE p == walk[t].pos
             b == walk[t].bucket
             n == 2^hp_
  <1>0. F = FreeFrom(table, p)
    OBVIOUS
  <1>1. /\ pc[t] = "move_path" /\ pc[t] \in Under /\ pc[t] # "idle"
    BY DEF MovePath, Under
  <1>2. Call(t).op \in Inserts /\ HomeOf(t) <= p /\ p \in Nat /\ HomeOf(t) \in Nat /\ WindowOf(t) \in Nat
    BY <1>1, WalkFacts, CallFacts DEF RHInv, SlotsOK
  <1>3. n \in Nat /\ table \in Tables(n) /\ DOMAIN table = 0..n - 1 /\ Slots \in Nat \ {0}
    BY SizesBasics
  <1>4. /\ BucketOf(p) \in walk[t].own /\ table[p] # Empty /\ From(table, p) > HomeOf(t)
        /\ \E j \in SlotsOf(b) : j > p /\ j - HomeOf(t) <= WindowOf(t) /\ table[j] = Empty
    BY <1>1 DEF OrderInv, PathOK
  <1>5. PICK j \in SlotsOf(b) : j > p /\ j - HomeOf(t) <= WindowOf(t) /\ table[j] = Empty
    BY <1>4
  <1>6. j \in DOMAIN table /\ j \in Nat /\ BucketOf(j) \in walk[t].own
    BY <1>1, UnderFacts
  <1>7. p \in DOMAIN table
    BY <1>2, <1>4, OwnedSlots
  <1>8. F \in Nat /\ p <= F /\ F <= j /\ F \in DOMAIN table
    <2>1. F \in 0..n /\ (F # n => p <= F) /\ F <= j
      <3>1. j \in 0..n - 1 /\ j >= p
        BY <1>2, <1>3, <1>5, <1>6
      <3> HIDE DEF p, n
      <3>2. LET f == FreeFrom(table, p)
            IN  f \in 0..n /\ (f # n => p <= f) /\ f <= j
        BY <1>2, <1>3, <1>5, <3>1, FreeFromFacts
      <3> QED BY <1>0, <3>2
    <2> HIDE DEF n, p
    <2> QED BY <1>2, <1>3, <1>6, <2>1
  <1>9. F - HomeOf(t) <= WindowOf(t)
    <2> HIDE DEF p
    <2> QED BY <1>2, <1>5, <1>6, <1>8
  <1>10. ASSUME NEW i \in p..F PROVE BucketOf(i) \in walk[t].own
    <2>1. p <= i /\ i <= j /\ i \in Int /\ p \in Int /\ j \in Int
      <3> HIDE DEF p
      <3> QED BY <1>2, <1>6, <1>8
    <2>2. BucketOf(p) <= BucketOf(i) /\ BucketOf(i) <= BucketOf(j)
      <3> HIDE DEF p
      <3> QED BY <1>3, <2>1, BucketsRise
    <2>3. /\ walk[t].own = HomeBucket(t)..b /\ HomeBucket(t) \in Nat /\ b \in Nat
          /\ BucketOf(p) \in Int /\ BucketOf(j) \in Int /\ BucketOf(i) \in Int
      BY <1>1, <1>3, <2>1, UnderFacts, WalkFacts, SlotFacts
    <2> HIDE DEF p, b
    <2> QED BY <1>4, <1>6, <2>2, <2>3
  <1> HIDE DEF p, b, n
  <1>11. \A i \in p..F : BucketOf(i) \in walk[t].own
    BY <1>10
  <1> QED BY <1>7, <1>8, <1>9, <1>11 DEF p

LEMMA MovePathOrder ==
    ASSUME PowerLaw, RHInv, RHInv', OrderInv, NEW t \in Threads, MovePath(t)
    PROVE  OrderInv' /\ \A x \in Entries(table) : table[x].key # Key(t)
  <1> DEFINE p == walk[t].pos
             e == Entry(Key(t), Call(t).val, p - HomeOf(t))
             F == FreeFrom(table, p)
  <1>1. /\ pc[t] = "move_path" /\ Answer(t, TRUE) /\ hp_' = hp_ /\ todo' = todo
        /\ table' = Put(table, p, e)
    BY DEF MovePath
  <1>2. Call(t).op \in Inserts
    BY <1>1 DEF RHInv, SlotsOK
  <1>3. From(table, p) > HomeOf(t)
    BY <1>1 DEF OrderInv, PathOK
  <1>4. /\ p \in DOMAIN table /\ F \in DOMAIN table /\ F - HomeOf(t) <= WindowOf(t)
        /\ \A i \in p..F : BucketOf(i) \in walk[t].own
    BY PathIsOwned
  <1> HIDE DEF F, p, e
  <1> QED BY <1>1, <1>2, <1>3, <1>4, Inserted DEF p, e, F

\* No entry lies in the last slot.
LEMMA NextSlotThere ==
    ASSUME PowerLaw, RHInv, OrderInv, SmallWindows, Housed(table, hp_), NEW i \in Entries(table)
    PROVE  i + 1 \in DOMAIN table
  <1> DEFINE n == 2^hp_
             k == table[i].key
  <1>1. /\ hp_ \in Nat /\ n \in Nat /\ table \in Tables(n) /\ DOMAIN table = 0..n - 1
        /\ 2^hp_ >= 2 * MaxWindow /\ Window(hp_) < MaxWindow
    BY SizesBasics DEF OrderInv, SmallWindows
  <1>2. i \in Nat /\ table[i].dist \in Nat /\ k \in Keys
    BY <1>1, EntryFacts
  <1>3. Home(k, hp_) \in Nat /\ Home(k, hp_) + Window(hp_) < n - 1
    BY <1>1, <1>2, HomesLeaveRoom
  <1>4. i - table[i].dist = Home(k, hp_) /\ table[i].dist <= Window(hp_)
    BY DEF Housed, From
  <1>5. Window(hp_) \in Nat
    BY <1>1 DEF Window
  <1> HIDE DEF n, k
  <1>6. i + 1 \in 0..n - 1
    BY <1>1, <1>2, <1>3, <1>4, <1>5, SMTT(60)
  <1> QED BY <1>1, <1>6

LEMMA EraseOrder ==
    ASSUME PowerLaw, RHInv, RHInv', OrderInv, SmallWindows, NEW t \in Threads, Erase(t)
    PROVE  OrderInv'
  <1> DEFINE p == walk[t].pos
             w == [walk[t] EXCEPT !.pos = p + 1, !.answer = TRUE]
             n == 2^hp_
  <1>1. /\ pc[t] = "equal" /\ hp_' = hp_ /\ todo' = todo /\ table' = [table EXCEPT ![p] = Empty]
        /\ walk' = [walk EXCEPT ![t] = w] /\ pc' = [pc EXCEPT ![t] = "shift"]
    BY DEF Erase, Goto
  <1>2. /\ p \in DOMAIN table /\ BucketOf(p) \in walk[t].own /\ table[p] \in EntryRecords
        /\ pc[t] \in Under
    BY <1>1, EqualFacts
  <1>3. table \in Tables(n) /\ DOMAIN table = 0..n - 1 /\ n \in Nat /\ p \in Nat
    BY <1>2, SizesBasics, Basics
  <1>4. w.pos = p + 1 /\ w.seen = walk[t].seen
    BY WalkFacts DEF WalkRecords
  <1> HIDE DEF w
  <1>5. OthersStill(t) /\ walk'[t] = w /\ pc'[t] = "shift"
    BY <1>1, MovedTo
  <1>6. /\ walk[t].seen = hp_ /\ Rising(table) /\ KeysOnce(table) /\ Housed(table, hp_) /\ ~Doubling(t)
    BY <1>2, OwnerSees
  <1>7. /\ table' \in Tables(n)
        /\ \A x \in 0..n - 1 : x # p => table'[x] = table[x]
        /\ Rising(table') /\ KeysOnce(table') /\ Housed(table', hp_)
        /\ \A k \in 0..n - 1 : Gap(table', k) => k = p \/ Gap(table, k)
    <2> DEFINE new == table'
    <2>1. /\ p \in 0..n - 1 /\ new \in Tables(n) /\ new[p] = Empty
          /\ \A x \in 0..n - 1 : x # p => new[x] = table[x]
      BY <1>1, <1>2, <1>3 DEF Tables
    <2> HIDE DEF new, p, n
    <2>2. /\ new \in Tables(n)
          /\ \A x \in 0..n - 1 : x # p => new[x] = table[x]
          /\ Rising(new) /\ KeysOnce(new) /\ Housed(new, hp_)
          /\ \A k \in 0..n - 1 : Gap(new, k) => k = p \/ Gap(table, k)
      <3>1. /\ Rising(table) => Rising(new)
            /\ KeysOnce(table) => KeysOnce(new)
            /\ \A hp : Housed(table, hp) => Housed(new, hp)
            /\ \A k \in 0..n - 1 : Gap(new, k) => k = p \/ Gap(table, k)
        BY <1>3, <2>1, Removed
      <3> QED BY <1>6, <2>1, <3>1
    <2> QED BY <2>2 DEF new
  <1>8. OnlyOwned(t)
    BY <1>2, <1>3, <1>7 DEF OnlyOwned
  <1>9. Heading(t, "shift")' /\ walk'[t].pos - 1 = p /\ ~Heading(t, "shift")
    BY <1>1, <1>3, <1>4, <1>5 DEF Heading
  <1>10. p + 1 \in DOMAIN table'
    <2>1. p \in Entries(table)
      BY <1>2, RobinHoodAssumption DEF Entries
    <2>2. p + 1 \in DOMAIN table
      BY <1>6, <2>1, NextSlotThere
    <2> QED BY <1>3, <1>7, <2>2 DEF Tables
  <1>11. PathOK(t)'
    BY <1>1, <1>4, <1>5, <1>6, <1>10 DEF PathOK, Heading, Stops
  <1>12. ~Doubling(t)'
    BY <1>5 DEF Doubling, Stuck
  <1>13. \A k \in DOMAIN table : Gap(table', k) =>
               \/ Heading(t, "shift")' /\ k = walk'[t].pos - 1
               \/ Gap(table, k) /\ ~(Heading(t, "shift") /\ k = walk[t].pos - 1)
    BY <1>3, <1>7, <1>9
  <1>14. walk[t].own # {}
    BY <1>2
  <1> QED BY <1>1, <1>5, <1>6, <1>7, <1>8, <1>11, <1>12, <1>13, <1>14, OwnerOrder

\* A shift moves entries into the free slot before them.
LEMMA ShiftIsShifted ==
    ASSUME RHInv, NEW t \in Threads, Shift(t), NEW e, e = ShiftEnd(t)
    PROVE  /\ Shifted(2^hp_, table, table', walk[t].pos, e) /\ table' \in Tables(2^hp_)
           /\ walk[t].pos \in Nat /\ e \in Nat /\ walk[t].pos <= e
  <1> DEFINE p == walk[t].pos
             b == walk[t].bucket
             n == 2^hp_
  <1>0. table'[e - 1] = Empty
    BY ShiftDownFacts
  <1>1. pc[t] = "shift" /\ pc[t] \in Under /\ table' = ShiftDown(table, p, e - 1)
    BY DEF Shift, Under
  <1>2. /\ p \in Nat /\ e \in Nat /\ p <= e
        /\ \A i \in p..e - 1 : /\ i \in SlotsOf(b)
                               /\ table[i] \in EntryRecords /\ table[i].dist # 0
    BY <1>1, ShiftFacts
  <1>3. p - 1 \in DOMAIN table /\ table[p - 1] = Empty /\ table' \in Tables(n)
    BY ShiftDownFacts
  <1>4. table \in Tables(n) /\ DOMAIN table = 0..n - 1 /\ n \in Nat
    BY SizesBasics
  <1>5. \A i \in p..e - 1 : i \in 0..n - 1 /\ table[i] \in EntryRecords /\ table[i].dist # 0
    BY <1>1, <1>2, <1>4, UnderFacts
  <1> DEFINE new == table'
  <1> HIDE DEF p, n
  <1>7. /\ \A i \in p - 1..e - 2 :
              /\ new[i] # Empty
              /\ new[i].key = table[i + 1].key /\ new[i].val = table[i + 1].val
              /\ new[i].dist = table[i + 1].dist - 1
        /\ new[e - 1] = Empty
        /\ \A i \in 0..n - 1 : i \notin p - 1..e - 1 => new[i] = table[i]
    <2>1. \A i \in 0..n - 1 : new[i] =
              IF i \in p - 1..e - 2 THEN [table[i + 1] EXCEPT !.dist = @ - 1]
              ELSE IF i = e - 1 /\ p <= e - 1 THEN Empty ELSE table[i]
      <3>1. e - 1 - 1 = e - 2
        BY <1>2
      <3> QED BY <1>1, <1>4, <3>1 DEF ShiftDown
    <2>2. ASSUME NEW i \in p - 1..e - 2
          PROVE  /\ new[i] # Empty
                 /\ new[i].key = table[i + 1].key /\ new[i].val = table[i + 1].val
                 /\ new[i].dist = table[i + 1].dist - 1
      <3>1. i + 1 \in p..e - 1 /\ i \in 0..n - 1
        <4>1. i + 1 \in p..e - 1
          BY <1>2
        <4>2. i + 1 \in 0..n - 1 /\ p - 1 \in 0..n - 1
          BY <1>3, <1>4, <1>5, <4>1
        <4>3. p \in Nat /\ n \in Nat
          BY <1>2, <1>4
        <4> QED BY <4>1, <4>2, <4>3
      <3>2. table[i + 1] \in EntryRecords /\ table[i + 1].dist # 0
        BY <1>5, <3>1
      <3>3. new[i] = [table[i + 1] EXCEPT !.dist = @ - 1]
        BY <2>1, <3>1
      <3>4. table[i + 1].dist - 1 \in Nat
        BY <3>2 DEF EntryRecords
      <3>5. new[i] \in EntryRecords
        BY <3>2, <3>3, <3>4 DEF EntryRecords
      <3> QED BY <3>2, <3>3, <3>5, RobinHoodAssumption DEF EntryRecords
    <2>3. new[e - 1] = Empty
      BY <1>0
    <2>4. ASSUME NEW i \in 0..n - 1, i \notin p - 1..e - 1 PROVE new[i] = table[i]
      <3>1. i \notin p - 1..e - 2 /\ i # e - 1
        BY <1>2, <2>4
      <3> QED BY <2>1, <3>1
    <2> QED BY <2>2, <2>3, <2>4
  <1> HIDE DEF new
  <1>8. new \in Tables(n)
    BY <1>3 DEF new
  <1>9. Shifted(n, table, new, p, e)
    <2>1. p - 1 \in 0..n - 1 /\ table[p - 1] = Empty
      BY <1>3, <1>4
    <2> QED BY <1>5, <1>7, <2>1 DEF Shifted
  <1> QED BY <1>2, <1>8, <1>9 DEF new, p, n

\* What a shift does to the order of the table.
LEMMA ShiftKeepsOrder ==
    ASSUME RHInv, OrderInv, NEW t \in Threads, Shift(t), NEW e, e = ShiftEnd(t)
    PROVE  /\ Rising(table') /\ KeysOnce(table') /\ Housed(table', hp_)
           /\ \A k \in DOMAIN table : Gap(table', k) =>
                 k = e - 1 \/ (Gap(table, k) /\ k # walk[t].pos - 1)
           /\ \A x \in DOMAIN table : x >= e => table'[x] = table[x]
           /\ e > walk[t].pos => e - 1 \in Entries(table)
           /\ e - 1 \in DOMAIN table
  <1> DEFINE p == walk[t].pos
             n == 2^hp_
  <1>1. pc[t] = "shift" /\ pc[t] \in Under
    BY DEF Shift, Under
  <1>2. Shifted(n, table, table', p, e) /\ table' \in Tables(n) /\ p \in Nat /\ e \in Nat /\ p <= e
    BY ShiftIsShifted
  <1>4. table \in Tables(n) /\ DOMAIN table = 0..n - 1 /\ n \in Nat
    BY SizesBasics
  <1>5. \A i \in p..e - 1 : i \in 0..n - 1 /\ table[i] \in EntryRecords
    BY <1>2 DEF Shifted
  <1>6. Rising(table) /\ KeysOnce(table) /\ Housed(table, hp_) /\ hp_ \in Nat
    BY <1>1, OwnerSees, SizesBasics
  <1> DEFINE new == table'
  <1> HIDE DEF p, n, new
  <1>8. new \in Tables(n) /\ Shifted(n, table, new, p, e)
    BY <1>2 DEF new
  <1>9. /\ Rising(table) => Rising(new)
        /\ KeysOnce(table) => KeysOnce(new)
        /\ \A hp \in Nat : Housed(table, hp) => Housed(new, hp)
        /\ \A k \in 0..n - 1 : Gap(new, k) => k = e - 1 \/ (Gap(table, k) /\ k # p - 1)
        /\ new[e - 1] = Empty /\ e - 1 \in 0..n - 1
        /\ \A x \in 0..n - 1 : x >= e => new[x] = table[x]
    BY <1>2, <1>4, <1>8, ShiftedDown
  <1>10. e > p => e - 1 \in Entries(table)
    <2>1. ASSUME e > p PROVE e - 1 \in Entries(table)
      <3>1. e - 1 \in p..e - 1
        BY <1>2, <2>1
      <3> QED BY <1>4, <1>5, <3>1, RobinHoodAssumption DEF Entries
    <2> QED BY <2>1
  <1> QED BY <1>4, <1>6, <1>9, <1>10 DEF new, p

LEMMA ShiftOrder ==
    ASSUME PowerLaw, RHInv, RHInv', OrderInv, SmallWindows, NEW t \in Threads, Shift(t)
    PROVE  OrderInv'
  <1> DEFINE p == walk[t].pos
             b == walk[t].bucket
  <1>0. PICK e : e = ShiftEnd(t)
    OBVIOUS
  <1>1. pc[t] = "shift" /\ pc[t] \in Under /\ hp_' = hp_ /\ todo' = todo /\ Heading(t, "shift")
    BY DEF Shift, Under, Heading
  <1>2. /\ p \in Nat /\ b \in Nat /\ e \in Nat /\ p <= e /\ e <= First(b + 1)
        /\ walk[t] \in WalkRecords /\ First(b) <= p
    BY <1>0, <1>1, ShiftFacts, WalkFacts
  <1>3. /\ Rising(table') /\ KeysOnce(table') /\ Housed(table', hp_)
        /\ \A k \in DOMAIN table : Gap(table', k) =>
              k = e - 1 \/ (Gap(table, k) /\ k # p - 1)
        /\ \A x \in DOMAIN table : x >= e => table'[x] = table[x]
        /\ e > p => e - 1 \in Entries(table)
        /\ e - 1 \in DOMAIN table
    BY <1>0, ShiftKeepsOrder
  <1>4. OnlyOwned(t) /\ walk[t].own # {} /\ table' \in Tables(2^hp_)
    BY <1>1, ShiftDownFacts, UnderFacts
  <1>5. /\ walk[t].seen = hp_ /\ ~Doubling(t) /\ Housed(table, hp_) /\ Rising(table)
        /\ \A k \in DOMAIN table : BucketOf(k) \in walk[t].own /\ Gap(table, k) => k = p - 1
    BY <1>1, OwnerSees
  <1>6. CASE e < First(b + 1)
    <2> DEFINE w == [walk[t] EXCEPT !.go = "return"]
    <2>1. walk' = [walk EXCEPT ![t] = w] /\ pc' = [pc EXCEPT ![t] = "release"]
      BY <1>0, <1>6 DEF Shift, StartRelease, Goto
    <2>2. OthersStill(t) /\ pc'[t] = "release"
      BY <1>1, <2>1, MovedTo
    <2>3. /\ e \in DOMAIN table /\ BucketOf(e) \in walk[t].own
          /\ table[e] = Empty \/ table[e].dist = 0
      <3> DEFINE stops == {i \in SlotsOf(b) : i >= p /\ (table[i] = Empty \/ table[i].dist = 0)}
      <3>1. \A i \in SlotsOf(b) : i \in DOMAIN table /\ i \in Nat /\ BucketOf(i) = b /\ b \in walk[t].own
        BY <1>1, UnderFacts
      <3>2. stops # {} /\ e = Min(stops)
        <4>1. First(b + 1) \in Int
          BY <1>2, SizesBasics DEF First
        <4>2. e # First(b + 1)
          <5> HIDE DEF b
          <5> QED BY <1>2, <1>6, <4>1
        <4> QED BY <1>0, <4>2 DEF ShiftEnd
      <3>3. e \in stops
        <4>1. stops \in SUBSET Nat
          BY <3>1
        <4> HIDE DEF stops
        <4> QED BY <3>2, <4>1, MinIsLeast
      <3> QED BY <3>1, <3>3
    <2>4. ~Gap(table', e - 1)
      <3> SUFFICES ASSUME NEW x \in Entries(table'), From(table', x) <= e - 1, e - 1 < x PROVE FALSE
        BY DEF Gap
      <3>1. x \in DOMAIN table /\ x \in Nat /\ DOMAIN table' = DOMAIN table
        BY <1>4, SizesBasics, Basics DEF Entries, Tables
      <3>2. x >= e /\ x \in Entries(table) /\ table'[x] = table[x]
        <4>1. x >= e
          BY <1>2, <3>1
        <4>2. table'[x] = table[x]
          BY <1>3, <3>1, <4>1
        <4> QED BY <3>1, <4>1, <4>2 DEF Entries
      <3>3. From(table, x) <= e - 1 /\ From(table, x) \in Int
        <4>1. From(table, x) \in Int
          BY <3>2, SizesBasics, EntryFacts
        <4> QED BY <3>2, <4>1 DEF From
      <3>4. CASE table[e] = Empty
        <4>1. x # e
          BY <3>2, <3>4 DEF Entries
        <4>2. From(table, x) <= e /\ e < x
          BY <1>2, <3>1, <3>2, <3>3, <4>1
        <4>3. Gap(table, e)
          BY <3>2, <3>4, <4>2 DEF Gap
        <4>4. e = p - 1
          BY <1>5, <2>3, <4>3
        <4> QED BY <1>2, <4>4
      <3>5. CASE table[e] # Empty /\ table[e].dist = 0
        <4>1. From(table, e) = e /\ e \in Entries(table)
          BY <1>2, <2>3, <3>5 DEF From, Entries
        <4>2. e < x => From(table, e) <= From(table, x)
          BY <1>5, <3>2, <4>1 DEF Rising
        <4> QED BY <1>2, <3>1, <3>2, <3>3, <4>1, <4>2
      <3> QED BY <2>3, <3>4, <3>5
    <2>5. PathOK(t)'
      BY <2>2, NoPath DEF Under
    <2>6. ~Doubling(t)'
      BY <2>2 DEF Doubling, Stuck
    <2>7. \A k \in DOMAIN table : Gap(table', k) =>
               \/ Heading(t, "shift")' /\ k = walk'[t].pos - 1
               \/ Gap(table, k) /\ ~(Heading(t, "shift") /\ k = walk[t].pos - 1)
      BY <1>3, <2>4
    <2> QED BY <1>1, <1>3, <1>4, <1>5, <2>2, <2>5, <2>6, <2>7, OwnerOrder
  <1>7. CASE ~(e < First(b + 1))
    <2> DEFINE w == [walk[t] EXCEPT !.bucket = b + 1, !.pos = e, !.go = "shift"]
    <2>1. walk' = [walk EXCEPT ![t] = w] /\ pc' = [pc EXCEPT ![t] = "lock_next"]
      BY <1>0, <1>7 DEF Shift, Goto
    <2>2. w.seen = walk[t].seen /\ w.pos = e /\ w.bucket = b + 1 /\ w.go = "shift"
      BY <1>2 DEF WalkRecords
    <2> HIDE DEF w
    <2>3. OthersStill(t) /\ walk'[t] = w /\ pc'[t] = "lock_next"
      BY <1>1, <2>1, MovedTo
    <2>4. e = First(b + 1) /\ First(walk[t].bucket)' = e
      <3>1. First(b + 1) \in Int
        BY <1>2, SizesBasics DEF First
      <3>2. e = First(b + 1)
        <4> HIDE DEF b
        <4> QED BY <1>2, <1>7, <3>1
      <3>3. walk'[t].bucket = b + 1
        BY <2>2, <2>3
      <3> QED BY <3>2, <3>3 DEF First
    <2>5. e \in DOMAIN table
      <3>1. CASE e > p
        <4>1. e - 1 + 1 \in DOMAIN table
          BY <1>3, <1>5, <3>1, NextSlotThere
        <4> QED BY <1>2, <4>1
      <3>2. CASE ~(e > p)
        <4>1. p \in DOMAIN table
          BY <1>1 DEF OrderInv, PathOK
        <4>2. e = p
          <5> HIDE DEF p
          <5> QED BY <1>2, <3>2
        <4> QED BY <4>1, <4>2
      <3> QED BY <3>1, <3>2
    <2>6. PathOK(t)'
      <3>1. DOMAIN table' = DOMAIN table
        BY <1>4, SizesBasics DEF Tables
      <3>2. /\ walk'[t].pos = e /\ walk'[t].go = "shift" /\ walk'[t].seen = hp_'
            /\ First(walk[t].bucket)' \in DOMAIN table' /\ e \in DOMAIN table'
        BY <1>1, <1>5, <2>2, <2>3, <2>4, <2>5, <3>1
      <3> QED BY <2>3, <3>2 DEF PathOK, Heading, Stops, Under
    <2>7. ~Doubling(t)'
      BY <2>3 DEF Doubling, Stuck
    <2>8. Heading(t, "shift")' /\ walk'[t].pos - 1 = e - 1
      BY <2>2, <2>3 DEF Heading
    <2>9. \A k \in DOMAIN table : Gap(table', k) =>
               \/ Heading(t, "shift")' /\ k = walk'[t].pos - 1
               \/ Gap(table, k) /\ ~(Heading(t, "shift") /\ k = walk[t].pos - 1)
      BY <1>3, <2>8
    <2> QED BY <1>1, <1>3, <1>4, <1>5, <2>3, <2>6, <2>7, <2>9, OwnerOrder
  <1> QED BY <1>6, <1>7

-----------------------------------------------------------------------------
\* What the steps of a doubling do to a table that is halfway.  The old half
\* has N slots, the windows of the new size are w wide.
Wide(old) == 2^old >= 2 * MaxWindow /\ Window(old + 1) < MaxWindow

Within(tab, w) == \A i \in Entries(tab) : tab[i].dist <= w

\* An entry that has not found its new home yet is before it, in the old half.
LEMMA HalfwayFacts ==
    ASSUME PowerLaw, NEW old \in Nat, Wide(old), NEW tab \in Tables(2^(old + 1)),
           NEW q \in Nat, NEW f \in Nat, Halfway(tab, old, q, f), Within(tab, Window(old + 1))
    PROVE  /\ 2^old \in Nat \ {0} /\ 2^(old + 1) = 2 * 2^old
           /\ \A i \in Entries(tab) :
                 \/ From(tab, i) = Home(tab[i].key, old + 1)
                 \/ i >= q /\ i < Home(tab[i].key, old + 1) /\ i < 2^old
           /\ 2 * 2^old - 1 \notin Entries(tab)
  <1> DEFINE N == 2^old
             w == Window(old + 1)
  <1>1. N \in Nat \ {0} /\ 2^(old + 1) = 2 * N /\ w \in Nat /\ N >= 2 * MaxWindow /\ w < MaxWindow
        /\ MaxWindow \in Nat
    BY Powers, RobinHoodAssumption DEF PowerLaw, Window, Wide
  <1>2. 2^(old + 1) >= 2 * MaxWindow
    <2> HIDE DEF N
    <2> QED BY <1>1
  <1>3. ASSUME NEW i \in Entries(tab)
        PROVE  /\ i \in Nat
               /\ \/ From(tab, i) = Home(tab[i].key, old + 1)
                  \/ i >= q /\ i < Home(tab[i].key, old + 1) /\ i < N
               /\ i < 2 * N - 1
    <2> DEFINE k == tab[i].key
               h0 == Home(k, old)
               h1 == Home(k, old + 1)
    <2>1. /\ i \in Nat /\ k \in Keys /\ tab[i].dist \in Nat /\ From(tab, i) = i - tab[i].dist
          /\ tab[i].dist <= w
      <3>1. 2^(old + 1) \in Nat
        BY Powers
      <3> QED BY <3>1, EntryFacts DEF From, Within
    <2>2. h0 \in Nat /\ h1 \in Nat /\ (h1 = h0 \/ h1 > h0 + w) /\ h0 + w < N
      BY <1>1, <2>1, HomesDouble DEF Wide
    <2>3. h1 + w < 2 * N - 1
      BY <1>1, <1>2, <2>1, HomesLeaveRoom
    <2>4. From(tab, i) = h1 \/ (i >= q /\ From(tab, i) = h0)
      BY DEF Halfway
    <2> HIDE DEF N, w, h0, h1, k
    <2>5. /\ From(tab, i) = h1 \/ (i >= q /\ i < h1 /\ i < N)
          /\ i < 2 * N - 1
      BY <1>1, <2>1, <2>2, <2>3, <2>4
    <2> QED BY <2>1, <2>5 DEF h1, k
  <1>4. 2 * N - 1 \notin Entries(tab)
    <2>1. ASSUME 2 * N - 1 \in Entries(tab) PROVE FALSE
      <3>1. 2 * N - 1 < 2 * N - 1
        BY <1>3, <2>1
      <3> HIDE DEF N
      <3> QED BY <1>1, <3>1
    <2> QED BY <2>1
  <1> QED BY <1>1, <1>3, <1>4

LEMMA SkippedHalfway ==
    ASSUME NEW old, NEW n \in Nat, NEW tab \in Tables(n), NEW q \in Nat, NEW f \in Nat,
           Halfway(tab, old, q, f), q < 2^old, 2^old \in Nat, tab[q] = Empty
    PROVE  Halfway(tab, old, q + 1, f + 1)
  <1> DEFINE N == 2^old
  <1>1. /\ f <= q /\ \A k \in q - f..q - 1 : tab[k] = Empty
        /\ \A k \in DOMAIN tab : Gap(tab, k) => q - f <= k /\ k < q
    BY DEF Halfway
  <1>2. q + 1 <= N /\ f + 1 <= q + 1
    <2> HIDE DEF N
    <2>1. q < N /\ N \in Nat
      BY DEF N
    <2> QED BY <1>1, <2>1
  <1>3. \A k \in (q + 1) - (f + 1)..(q + 1) - 1 : tab[k] = Empty
    <2> SUFFICES ASSUME NEW k \in (q + 1) - (f + 1)..(q + 1) - 1 PROVE tab[k] = Empty
      OBVIOUS
    <2>1. k = q \/ k \in q - f..q - 1
      OBVIOUS
    <2> QED BY <1>1, <2>1
  <1>4. \A k \in DOMAIN tab : Gap(tab, k) => (q + 1) - (f + 1) <= k /\ k < q + 1
    <2>1. \A k \in DOMAIN tab : k \in Int
      BY EntryFacts
    <2> QED BY <1>1, <2>1
  <1>5. \A i \in Entries(tab) : i >= q => i >= q + 1
    <2>1. \A i \in Entries(tab) : i \in Nat /\ i # q
      BY EntryFacts DEF Entries
    <2> QED BY <2>1
  <1> QED BY <1>2, <1>3, <1>4, <1>5 DEF Halfway

LEMMA StayedHalfway ==
    ASSUME PowerLaw, NEW old \in Nat, Wide(old), NEW tab \in Tables(2^(old + 1)),
           NEW q \in Nat, NEW f \in Nat, Halfway(tab, old, q, f), Within(tab, Window(old + 1)),
           q < 2^old, q \in Entries(tab), Home(tab[q].key, old + 1) <= q,
           Rising(tab), tab[q].dist = 0 \/ f = 0
    PROVE  Halfway(tab, old, q + 1, 0)
  <1> DEFINE N == 2^old
             n == 2^(old + 1)
  <1>1. /\ f <= q /\ \A k \in q - f..q - 1 : tab[k] = Empty
        /\ \A k \in DOMAIN tab : Gap(tab, k) => q - f <= k /\ k < q
    BY DEF Halfway
  <1>2. /\ N \in Nat \ {0} /\ n \in Nat
        /\ \A i \in Entries(tab) :
              From(tab, i) = Home(tab[i].key, old + 1) \/ (i >= q /\ i < Home(tab[i].key, old + 1))
    BY HalfwayFacts, Powers
  <1>3. /\ \A i \in Entries(tab) : i \in Nat /\ From(tab, i) \in Int
        /\ \A i \in DOMAIN tab : i \in Nat
        /\ Home(tab[q].key, old + 1) \in Nat
    <2>1. tab[q].key \in Keys
      BY <1>2, EntryFacts
    <2> QED BY <1>2, <2>1, EntryFacts, HomesDouble DEF Wide
  <1>4. q + 1 <= N
    <2> HIDE DEF N
    <2>1. q < N
      BY DEF N
    <2> QED BY <1>2, <2>1
  <1>5. \A k \in DOMAIN tab : ~Gap(tab, k)
    <2> SUFFICES ASSUME NEW k \in DOMAIN tab, Gap(tab, k) PROVE FALSE
      OBVIOUS
    <2>1. q - f <= k /\ k < q /\ f # 0 /\ k \in Nat
      BY <1>1, <1>3
    <2>2. From(tab, q) = q
      <3>1. tab[q].dist = 0
        BY <2>1
      <3> QED BY <3>1 DEF From
    <2>3. PICK x \in Entries(tab) : From(tab, x) <= k /\ k < x
      BY DEF Gap
    <2>4. x \notin q - f..q - 1
      BY <1>1 DEF Entries
    <2>5. x \in Nat /\ From(tab, x) \in Int
      BY <1>3
    <2>6. x >= q
      BY <2>1, <2>3, <2>4, <2>5
    <2>7. x # q => From(tab, q) <= From(tab, x)
      BY <2>5, <2>6 DEF Rising
    <2> QED BY <2>1, <2>2, <2>3, <2>5, <2>7
  <1>6. \A i \in Entries(tab) :
            \/ From(tab, i) = Home(tab[i].key, old + 1)
            \/ i >= q + 1 /\ From(tab, i) = Home(tab[i].key, old)
    <2> SUFFICES ASSUME NEW i \in Entries(tab), From(tab, i) # Home(tab[i].key, old + 1)
                 PROVE  i >= q + 1 /\ From(tab, i) = Home(tab[i].key, old)
      OBVIOUS
    <2>1. i >= q /\ i < Home(tab[i].key, old + 1) /\ i \in Nat
      BY <1>2, <1>3
    <2>2. i # q
      BY <1>3, <2>1
    <2> QED BY <2>1, <2>2 DEF Halfway
  <1>7. (q + 1) - 0..(q + 1) - 1 = {}
    OBVIOUS
  <1> QED BY <1>4, <1>5, <1>6, <1>7 DEF Halfway

\* The entry at q has moved back to slot b, the free ones before q lie before
\* it: from its home on, or all of those that are known.
LEMMA MovedBack ==
    ASSUME PowerLaw, NEW old \in Nat, Wide(old), NEW tab \in Tables(2^(old + 1)),
           NEW q \in Nat, NEW f \in Nat, Halfway(tab, old, q, f), Within(tab, Window(old + 1)),
           q < 2^old, q \in Entries(tab), NEW h, h = Home(tab[q].key, old + 1), h <= q,
           Rising(tab), KeysOnce(tab), tab[q].dist # 0, f > 0,
           NEW b, b = IF h > q - f THEN h ELSE q - f,
           NEW new \in Tables(2^(old + 1)),
           new[b] # Empty, new[b].key = tab[q].key, new[b].dist = b - h,
           new[q] = Empty, \A x \in DOMAIN tab : x \notin {b, q} => new[x] = tab[x]
    PROVE  /\ Rising(new) /\ KeysOnce(new) /\ Halfway(new, old, q + 1, q - b)
           /\ b \in Nat /\ h <= b /\ b < q
  <1> DEFINE N == 2^old
             n == 2^(old + 1)
  <1>1. /\ f <= q /\ \A k \in q - f..q - 1 : tab[k] = Empty
        /\ \A k \in DOMAIN tab : Gap(tab, k) => q - f <= k /\ k < q
    BY DEF Halfway
  <1>2. /\ N \in Nat \ {0} /\ n \in Nat
        /\ \A i \in Entries(tab) :
              From(tab, i) = Home(tab[i].key, old + 1) \/ (i >= q /\ i < Home(tab[i].key, old + 1))
    BY HalfwayFacts, Powers
  <1>3. /\ \A i \in Entries(tab) : i \in Nat /\ From(tab, i) \in Int /\ i \in DOMAIN tab /\ tab[i] # Empty
        /\ \A i \in DOMAIN tab : i \in Nat
        /\ DOMAIN tab = 0..n - 1 /\ DOMAIN new = 0..n - 1
        /\ \A i \in DOMAIN tab : (tab[i] # Empty <=> i \in Entries(tab)) /\ (new[i] # Empty <=> i \in Entries(new))
        /\ Entries(new) \subseteq DOMAIN tab
        /\ h \in Nat /\ tab[q].dist \in Nat
    <2>1. tab[q].key \in Keys /\ tab[q].dist \in Nat
      BY <1>2, EntryFacts
    <2>2. h \in Nat
      BY <2>1, HomesDouble DEF Wide
    <2>3. /\ \A i \in Entries(tab) : i \in Nat /\ From(tab, i) \in Int
          /\ DOMAIN tab = 0..n - 1 /\ DOMAIN new = 0..n - 1
          /\ \A i \in 0..n - 1 : i \in Nat
          /\ \A i \in 0..n - 1 : (tab[i] # Empty <=> i \in Entries(tab)) /\ (new[i] # Empty <=> i \in Entries(new))
          /\ Entries(tab) \subseteq 0..n - 1 /\ Entries(new) \subseteq 0..n - 1
      <3> HIDE DEF n
      <3>1. tab \in Tables(n) /\ new \in Tables(n) /\ n \in Nat
        BY <1>2 DEF n
      <3>2. /\ \A i \in Entries(tab) : i \in Nat /\ From(tab, i) \in Int
            /\ DOMAIN tab = 0..n - 1 /\ Entries(tab) \subseteq 0..n - 1
            /\ \A i \in 0..n - 1 : tab[i] # Empty <=> i \in Entries(tab)
        BY <3>1, EntryFacts
      <3>3. /\ DOMAIN new = 0..n - 1 /\ Entries(new) \subseteq 0..n - 1
            /\ \A i \in 0..n - 1 : new[i] # Empty <=> i \in Entries(new)
        BY <3>1, EntryFacts
      <3>4. \A i \in 0..n - 1 : i \in Nat
        BY <3>1
      <3>5. \A i \in 0..n - 1 : (tab[i] # Empty <=> i \in Entries(tab)) /\ (new[i] # Empty <=> i \in Entries(new))
        BY <3>2, <3>3, Zenon
      <3> QED BY <3>2, <3>3, <3>4, <3>5, Zenon
    <2> HIDE DEF n
    <2> QED BY <2>1, <2>2, <2>3
  <1>4. From(tab, q) = h /\ h < q
    <2>1. From(tab, q) = h
      BY <1>2, <1>3, SMTT(60)
    <2> QED BY <1>3, <2>1 DEF From
  <1>5. /\ b \in Nat /\ h <= b /\ b < q /\ q - f <= b /\ (b = h \/ b = q - f)
        /\ b \in q - f..q - 1
    BY <1>1, <1>3, <1>4
  <1>6. b \in DOMAIN tab /\ tab[b] = Empty
    <2>1. q \in 0..n - 1
      BY <1>3
    <2>2. b \in 0..n - 1
      BY <1>2, <1>5, <2>1
    <2> QED BY <1>1, <1>3, <1>5, <2>2
  <1>7. From(new, b) = h /\ b \in Entries(new)
    BY <1>3, <1>5, <1>6 DEF From
  <1>8. ASSUME NEW x \in Entries(new), x # b
        PROVE  /\ x \in Entries(tab) /\ x # q /\ new[x] = tab[x] /\ From(new, x) = From(tab, x)
               /\ x < q - f \/ x > q
    <2>1. x \in DOMAIN tab /\ x # q
      BY <1>3
    <2>2. new[x] = tab[x]
      BY <1>8, <2>1
    <2>3. x \in Entries(tab)
      BY <1>3, <2>1, <2>2
    <2>4. x \notin q - f..q - 1
      BY <1>1, <1>3, <2>3
    <2>5. x < q - f \/ x > q
      BY <1>1, <1>3, <2>1, <2>3, <2>4
    <2> QED BY <2>1, <2>2, <2>3, <2>5 DEF From
  <1>9. \A x \in Entries(tab) : /\ x < q => From(tab, x) <= h
                                /\ x > q => h <= From(tab, x)
    BY <1>4 DEF Rising
  <1>10. Rising(new)
    <2> SUFFICES ASSUME NEW x \in Entries(new), NEW y \in Entries(new), x < y
                 PROVE  From(new, x) <= From(new, y)
      BY DEF Rising
    <2>1. CASE x = b
      <3>1. y # b
        BY <1>5, <2>1
      <3>2. y > q
        BY <1>3, <1>5, <1>8, <2>1, <3>1
      <3> QED BY <1>7, <1>8, <1>9, <2>1, <3>1, <3>2
    <2>2. CASE y = b
      <3>1. x # b
        BY <1>5, <2>2
      <3>2. x < q
        BY <1>3, <1>5, <1>8, <2>2, <3>1
      <3> QED BY <1>7, <1>8, <1>9, <2>2, <3>1, <3>2
    <2>3. CASE x # b /\ y # b
      BY <1>8, <2>3 DEF Rising
    <2> QED BY <2>1, <2>2, <2>3
  <1>11. KeysOnce(new)
    <2>1. \A x \in Entries(new) : x # b => new[x].key # tab[q].key
      BY <1>8 DEF KeysOnce
    <2>2. \A x, y \in Entries(new) : x # b /\ y # b /\ new[x].key = new[y].key => x = y
      BY <1>8 DEF KeysOnce
    <2> SUFFICES ASSUME NEW x \in Entries(new), NEW y \in Entries(new), new[x].key = new[y].key
                 PROVE  x = y
      BY DEF KeysOnce
    <2>3. CASE x # b /\ y # b
      BY <2>2, <2>3
    <2>4. CASE x = b \/ y = b
      BY <2>1, <2>4
    <2> QED BY <2>3, <2>4
  <1>12. q + 1 <= N /\ q - b <= q + 1
    <2> HIDE DEF N
    <2>1. q < N
      BY DEF N
    <2> QED BY <1>2, <1>5, <2>1
  <1>13. \A k \in (q + 1) - (q - b)..(q + 1) - 1 : new[k] = Empty
    <2> SUFFICES ASSUME NEW k \in (q + 1) - (q - b)..(q + 1) - 1 PROVE new[k] = Empty
      OBVIOUS
    <2>1. k = q \/ (k \in q - f..q - 1 /\ k # b)
      BY <1>5
    <2>2. CASE k \in q - f..q - 1 /\ k # b
      <3>1. tab[k] = Empty /\ k # q
        BY <1>1, <2>2
      <3>2. k \in DOMAIN tab
        <4>1. q \in 0..n - 1 /\ k < q /\ k >= 0 /\ k \in Int
          BY <1>1, <1>3, <2>2
        <4> QED BY <1>2, <1>3, <4>1
      <3> QED BY <2>2, <3>1, <3>2
    <2> QED BY <2>1, <2>2
  <1>14. ASSUME NEW k \in DOMAIN new, Gap(new, k)
         PROVE  (q + 1) - (q - b) <= k /\ k < q + 1
    <2>1. k \in DOMAIN tab /\ k \in Nat /\ new[k] = Empty /\ k # b
      BY <1>3, <1>14 DEF Gap
    <2>2. PICK x \in Entries(new) : From(new, x) <= k /\ k < x
      BY <1>14 DEF Gap
    <2>3. CASE k = q
      BY <1>5, <2>3
    <2>4. CASE k # q
      <3>1. tab[k] = Empty
        BY <2>1, <2>4
      <3>2. Gap(tab, k)
        <4>1. CASE x = b
          <5>1. From(tab, q) <= k /\ k < q
            BY <1>4, <1>5, <1>7, <2>1, <2>2, <4>1
          <5> QED BY <3>1, <5>1 DEF Gap
        <4>2. CASE x # b
          BY <1>8, <2>2, <3>1, <4>2 DEF Gap
        <4> QED BY <4>1, <4>2
      <3>3. q - f <= k /\ k < q
        BY <1>1, <2>1, <3>2
      <3>4. ~(k < b)
        <4> SUFFICES ASSUME k < b PROVE FALSE
          OBVIOUS
        <4>1. b = h
          BY <1>5, <2>1, <3>3
        <4>2. x # b
          BY <1>7, <2>1, <2>2, <4>1
        <4>3. x > q
          BY <1>1, <1>3, <1>8, <2>1, <2>2, <3>3, <4>2
        <4>4. h <= From(new, x) /\ From(new, x) \in Int
          BY <1>3, <1>8, <1>9, <4>2, <4>3
        <4> QED BY <1>3, <2>1, <2>2, <4>1, <4>4
      <3> QED BY <1>5, <2>1, <3>3, <3>4
    <2> QED BY <2>3, <2>4
  <1>15. \A x \in Entries(new) :
            \/ From(new, x) = Home(new[x].key, old + 1)
            \/ x >= q + 1 /\ From(new, x) = Home(new[x].key, old)
    <2> SUFFICES ASSUME NEW x \in Entries(new), From(new, x) # Home(new[x].key, old + 1)
                 PROVE  x >= q + 1 /\ From(new, x) = Home(new[x].key, old)
      OBVIOUS
    <2>1. x # b
      BY <1>7
    <2>2. x \in Entries(tab) /\ x # q /\ new[x] = tab[x] /\ From(new, x) = From(tab, x)
      BY <1>8, <2>1
    <2>3. x >= q /\ From(tab, x) = Home(tab[x].key, old)
      BY <2>2 DEF Halfway
    <2> QED BY <1>3, <2>2, <2>3
  <1>16. DOMAIN new = DOMAIN tab
    BY <1>3
  <1> QED BY <1>5, <1>10, <1>11, <1>12, <1>13, <1>14, <1>15 DEF Halfway

\* The entry at q has been inserted anew behind it, and q freed.
LEMMA MovedOn ==
    ASSUME PowerLaw, NEW old \in Nat, Wide(old), NEW tab \in Tables(2^(old + 1)),
           NEW q \in Nat, NEW f \in Nat, Halfway(tab, old, q, f), Within(tab, Window(old + 1)),
           q < 2^old, q \in Entries(tab), NEW h, h = Home(tab[q].key, old + 1), q < h,
           Rising(tab), KeysOnce(tab),
           NEW e \in EntryRecords, e.key = tab[q].key, e.dist = 0,
           NEW P, P = Put(tab, h, e), NEW new \in Tables(2^(old + 1)),
           new[q] = Empty, \A x \in DOMAIN tab : x # q => new[x] = P[x]
    PROVE  Rising(new) /\ KeysOnce(new) /\ Halfway(new, old, q + 1, f + 1)
  <1> DEFINE N == 2^old
             n == 2^(old + 1)
             F == FreeFrom(tab, h)
  <1>1. /\ f <= q /\ \A k \in q - f..q - 1 : tab[k] = Empty
        /\ \A k \in DOMAIN tab : Gap(tab, k) => q - f <= k /\ k < q
    BY DEF Halfway
  <1>2. /\ N \in Nat \ {0} /\ n = 2 * N /\ n \in Nat /\ 2 * N - 1 \notin Entries(tab)
    BY HalfwayFacts, Powers
  <1>3. /\ \A i \in Entries(tab) : i \in Nat /\ From(tab, i) \in Int /\ From(tab, i) <= i
        /\ DOMAIN tab = 0..n - 1 /\ tab[q].key \in Keys
    BY <1>2, EntryFacts
  <1>4. h \in Nat /\ h < n - 1
    <2>1. /\ 2^(old + 1) >= 2 * MaxWindow /\ Window(old + 1) < MaxWindow /\ Window(old + 1) \in Nat
          /\ old + 1 \in Nat
      <3>1. N >= 2 * MaxWindow /\ MaxWindow \in Nat /\ Window(old + 1) < MaxWindow /\ Window(old + 1) \in Nat
        BY RobinHoodAssumption DEF Wide, Window
      <3>2. 2 * N >= 2 * MaxWindow
        <4> HIDE DEF N
        <4> QED BY <1>2, <3>1
      <3> QED BY <1>2, <3>1, <3>2
    <2>2. h \in Nat /\ h + Window(old + 1) < n - 1
      BY <1>3, <2>1, HomesLeaveRoom
    <2> HIDE DEF n
    <2> QED BY <1>2, <2>1, <2>2
  <1>5. F # n
    <2>1. \A j \in 0..n - 1 : j >= h /\ tab[j] = Empty => F <= j
      BY <1>2, <1>4, FreeFromFacts
    <2>2. n - 1 \in 0..n - 1 /\ n - 1 >= h /\ tab[n - 1] = Empty
      <3> HIDE DEF n, N
      <3>1. n - 1 \in 0..n - 1 /\ n - 1 = 2 * N - 1
        BY <1>2
      <3> QED BY <1>2, <1>3, <1>4, <3>1 DEF Entries
    <2>3. F <= n - 1
      BY <2>1, <2>2
    <2> HIDE DEF F, n
    <2> QED BY <1>2, <2>3
  <1>6. /\ P \in Tables(n) /\ F \in 0..n - 1 /\ h <= F /\ tab[F] = Empty
        /\ \A y \in h..F - 1 : y \in Entries(tab)
        /\ \A x \in 0..n - 1 : x \notin h..F => P[x] = tab[x]
        /\ \A x \in h..F : \/ P[x].key = e.key /\ From(P, x) = h - e.dist
                           \/ \E y \in h..F - 1 : P[x].key = tab[y].key /\ From(P, x) = From(tab, y)
    <2> HIDE DEF n, F
    <2>1. F = FreeFrom(tab, h) /\ tab \in Tables(n)
      BY DEF F, n
    <2> QED BY <1>2, <1>4, <1>5, <2>1, PutWhere, SMTT(60)
  <1>7. Rising(P)
    <2>1. ~Gap(tab, F)
      <3>1. F \in DOMAIN tab /\ ~(F < q)
        BY <1>3, <1>4, <1>6
      <3> QED BY <1>1, <3>1
    <2>2. \A x \in Entries(tab) : x < h => From(tab, x) <= h - e.dist
      BY <1>3, <1>4
    <2> HIDE DEF n, F
    <2>3. F = FreeFrom(tab, h) /\ tab \in Tables(n)
      BY DEF F, n
    <2> QED BY <1>2, <1>4, <1>5, <2>1, <2>2, <2>3, PutRises
  <1>8. \A k \in 0..n - 1 : Gap(P, k) => Gap(tab, k)
    <2>1. h = h - e.dist /\ h..h - 1 = {}
      BY <1>4
    <2>2. \A k \in h..h - 1 : tab[k] # Empty
      BY <2>1
    <2> HIDE DEF n, F
    <2>3. F = FreeFrom(tab, h) /\ tab \in Tables(n)
      BY DEF F, n
    <2> QED BY <1>2, <1>4, <1>5, <2>1, <2>2, <2>3, PutGaps
  <1>9. \A x, y \in Entries(P) \ {q} : P[x].key = P[y].key => x = y
    <2> DEFINE D == {q}
    <2>1. D \cap (h..F) = {}
      BY <1>4
    <2>2. \A x, y \in Entries(tab) \ D : tab[x].key = tab[y].key => x = y
      BY DEF KeysOnce
    <2>3. \A x \in Entries(tab) \ D : tab[x].key # e.key
      BY DEF KeysOnce
    <2> HIDE DEF n, F, D
    <2>4. F = FreeFrom(tab, h) /\ tab \in Tables(n)
      BY DEF F, n
    <2>5. \A x, y \in Entries(P) \ D : P[x].key = P[y].key => x = y
      BY <1>2, <1>4, <1>5, <2>1, <2>2, <2>3, <2>4, PutKeys
    <2> QED BY <2>5 DEF D
  <1> HIDE DEF n, F
  <1>10. q \in 0..n - 1 /\ new \in Tables(n) /\ \A x \in 0..n - 1 : x # q => new[x] = P[x]
    <2>1. new \in Tables(n) /\ tab \in Tables(n)
      BY DEF n
    <2>2. q \in 0..n - 1
      BY <1>2, <2>1, EntryFacts
    <2> QED BY <1>3, <2>1, <2>2
  <1>11. /\ Entries(new) = Entries(P) \ {q}
         /\ \A x \in 0..n - 1 : x # q => From(new, x) = From(P, x)
         /\ Rising(P) => Rising(new)
         /\ \A k \in 0..n - 1 : Gap(new, k) => k = q \/ Gap(P, k)
    BY <1>2, <1>6, <1>10, Removed
  <1>12. Entries(P) \subseteq 0..n - 1 /\ DOMAIN new = 0..n - 1
    BY <1>2, <1>6, <1>10, EntryFacts
  <1>13. KeysOnce(new)
    BY <1>9, <1>10, <1>11, <1>12 DEF KeysOnce
  <1>14. q + 1 <= N /\ f + 1 <= q + 1
    <2>1. q < N
      OBVIOUS
    <2> HIDE DEF N
    <2> QED BY <1>1, <1>2, <2>1
  <1>15. \A k \in (q + 1) - (f + 1)..(q + 1) - 1 : new[k] = Empty
    <2> SUFFICES ASSUME NEW k \in (q + 1) - (f + 1)..(q + 1) - 1 PROVE new[k] = Empty
      OBVIOUS
    <2>1. k = q \/ (k \in q - f..q - 1 /\ k # q)
      OBVIOUS
    <2>2. CASE k \in q - f..q - 1 /\ k # q
      <3>1. tab[k] = Empty /\ k \notin h..F
        BY <1>1, <1>4, <2>2
      <3>2. k \in 0..n - 1
        BY <1>1, <1>2, <1>10, <2>2
      <3> QED BY <1>6, <1>10, <2>2, <3>1, <3>2
    <2> QED BY <2>1, <2>2
  <1>16. \A k \in DOMAIN new : Gap(new, k) => (q + 1) - (f + 1) <= k /\ k < q + 1
    <2> SUFFICES ASSUME NEW k \in 0..n - 1, Gap(new, k)
                 PROVE  (q + 1) - (f + 1) <= k /\ k < q + 1
      BY <1>12
    <2>1. k = q \/ (q - f <= k /\ k < q)
      BY <1>1, <1>3, <1>8, <1>11
    <2> QED BY <2>1
  <1>17. \A x \in Entries(new) :
            \/ From(new, x) = Home(new[x].key, old + 1)
            \/ x >= q + 1 /\ From(new, x) = Home(new[x].key, old)
    <2> SUFFICES ASSUME NEW x \in Entries(new), From(new, x) # Home(new[x].key, old + 1)
                 PROVE  x >= q + 1 /\ From(new, x) = Home(new[x].key, old)
      OBVIOUS
    <2>1. x \in 0..n - 1 /\ x # q /\ new[x] = P[x] /\ From(new, x) = From(P, x) /\ x \in Entries(P) /\ x \in Nat
      BY <1>10, <1>11, <1>12
    <2>2. CASE x \notin h..F
      <3>1. P[x] = tab[x] /\ x \in Entries(tab)
        BY <1>3, <1>6, <2>1, <2>2 DEF Entries
      <3>2. From(P, x) = From(tab, x)
        BY <3>1 DEF From
      <3>3. x >= q /\ From(tab, x) = Home(tab[x].key, old)
        BY <2>1, <3>1, <3>2 DEF Halfway
      <3> QED BY <2>1, <3>1, <3>2, <3>3
    <2>3. CASE x \in h..F
      <3>1. x >= q + 1
        BY <1>4, <2>1, <2>3
      <3>2. PICK y \in h..F - 1 : P[x].key = tab[y].key /\ From(P, x) = From(tab, y)
        <4>1. ~(P[x].key = e.key /\ From(P, x) = h - e.dist)
          <5>1. h - e.dist = h
            BY <1>4
          <5> QED BY <2>1, <5>1
        <4> QED BY <1>6, <2>3, <4>1
      <3>3. y \in Entries(tab) /\ From(tab, y) # Home(tab[y].key, old + 1)
        BY <1>6, <2>1, <3>2
      <3>4. From(tab, y) = Home(tab[y].key, old)
        BY <3>3 DEF Halfway
      <3> QED BY <2>1, <3>1, <3>2, <3>4
    <2> QED BY <2>2, <2>3
  <1> QED BY <1>7, <1>11, <1>13, <1>14, <1>15, <1>16, <1>17 DEF Halfway

\* At the end of the old half every entry is at its home, and no slot is a gap
\* if none has gone past that end to a place that is not its home.
LEMMA DoneHalfway ==
    ASSUME PowerLaw, NEW old \in Nat, Wide(old), NEW tab \in Tables(2^(old + 1)),
           NEW q \in Nat, NEW f \in Nat, Halfway(tab, old, q, f), Within(tab, Window(old + 1)),
           q = 2^old, Rising(tab), tab[q] = Empty \/ tab[q].dist = 0
    PROVE  Housed(tab, old + 1) /\ \A k \in DOMAIN tab : ~Gap(tab, k)
  <1> DEFINE N == 2^old
             n == 2^(old + 1)
  <1>1. /\ f <= q /\ \A k \in q - f..q - 1 : tab[k] = Empty
        /\ \A k \in DOMAIN tab : Gap(tab, k) => q - f <= k /\ k < q
    BY DEF Halfway
  <1>2. /\ N \in Nat \ {0} /\ n = 2 * N /\ n \in Nat
        /\ \A i \in Entries(tab) : From(tab, i) = Home(tab[i].key, old + 1) \/ (i >= q /\ i < N)
    BY HalfwayFacts, Powers
  <1>3. /\ \A i \in Entries(tab) : i \in Nat /\ From(tab, i) \in Int
        /\ DOMAIN tab = 0..n - 1 /\ \A i \in 0..n - 1 : tab[i] # Empty <=> i \in Entries(tab)
    BY <1>2, EntryFacts
  <1>4. q \in 0..n - 1
    <2> HIDE DEF N, n
    <2>1. q = N
      BY DEF N
    <2> QED BY <1>2, <2>1
  <1>5. Housed(tab, old + 1)
    <2>1. ASSUME NEW i \in Entries(tab) PROVE From(tab, i) = Home(tab[i].key, old + 1)
      <3> HIDE DEF N
      <3>1. q = N
        BY DEF N
      <3> QED BY <1>2, <1>3, <3>1
    <2> QED BY <2>1 DEF Housed, Within
  <1>6. ASSUME NEW k \in DOMAIN tab, Gap(tab, k) PROVE FALSE
    <2>1. q - f <= k /\ k < q /\ k \in Nat
      BY <1>1, <1>3, <1>6
    <2>2. PICK x \in Entries(tab) : From(tab, x) <= k /\ k < x
      BY <1>6 DEF Gap
    <2>3. x \in Nat /\ From(tab, x) \in Int
      BY <1>3
    <2>4. x \notin q - f..q - 1
      BY <1>1 DEF Entries
    <2>5. x >= q
      BY <2>1, <2>2, <2>3, <2>4
    <2>6. CASE tab[q] = Empty
      <3>1. x # q
        BY <2>6 DEF Entries
      <3>2. From(tab, x) <= q /\ q < x
        BY <2>1, <2>2, <2>3, <2>5, <3>1
      <3>3. Gap(tab, q)
        BY <2>6, <3>2 DEF Gap
      <3>4. q < q
        BY <1>1, <1>3, <1>4, <3>3
      <3> QED BY <3>4
    <2>7. CASE tab[q] # Empty /\ tab[q].dist = 0
      <3>1. q \in Entries(tab) /\ From(tab, q) = q
        BY <1>3, <1>4, <2>7 DEF From
      <3>2. q < x => From(tab, q) <= From(tab, x)
        BY <3>1 DEF Rising
      <3> QED BY <2>1, <2>2, <2>3, <2>5, <3>1, <3>2
    <2> QED BY <2>6, <2>7
  <1> QED BY <1>5, <1>6

-----------------------------------------------------------------------------
\* A thread that owns all buckets is alone: the others know of no slot.
LEMMA DoublerOrder ==
    ASSUME RHInv, RHInv', OrderInv, NEW t \in Threads, walk[t].own = BucketIds, OthersStill(t),
           2^hp_' >= 2 * MaxWindow, KeysOnce(table'), Rising(table'),
           Ordered', Stuck(t)' => walk'[t].own = BucketIds', pc'[t] = "spread" => SpreadOK(t)',
           pc'[t] \notin Under \cup {"lock_next"}
    PROVE  OrderInv'
  <1>1. ASSUME NEW u \in Threads \ {t}
        PROVE  ~Stuck(u)' /\ pc'[u] # "spread" /\ PathOK(u)'
    <2>1. walk[u].own = {} /\ pc[u] \in Outside \cup {"release", "lock_all"}
      BY Alone
    <2>2. walk'[u] = walk[u] /\ pc'[u] = pc[u]
      BY DEF OthersStill
    <2>3. pc'[u] \notin Under \cup {"lock_next", "spread"}
      BY <2>1, <2>2 DEF Under, Outside
    <2>4. PathOK(u)'
      BY <2>3, NoPath
    <2> QED BY <2>1, <2>2, <2>3, <2>4 DEF Stuck
  <1>2. PathOK(t)'
    BY NoPath
  <1> QED BY <1>1, <1>2 DEF OrderInv

LEMMA NoHolesWhileAlone ==
    ASSUME RHInv, OrderInv, NEW t \in Threads, pc[t] = "double"
    PROVE  Housed(table, hp_) /\ \A k \in DOMAIN table : ~Gap(table, k)
  <1>1. walk[t].own = BucketIds /\ walk[t].own # {}
    BY SizesBasics DEF RHInv, OwnOK
  <1>2. ~Doubling(t) /\ ~Heading(t, "shift")
    BY DEF Doubling, Stuck, Heading
  <1>3. Housed(table, hp_) /\ \A k \in DOMAIN table : Gap(table, k) => Hole(k)
    BY <1>1, <1>2, NobodyDoubles
  <1>4. ASSUME NEW k \in DOMAIN table, Gap(table, k) PROVE FALSE
    <2>1. BucketOf(k) \in walk[t].own
      BY <1>1, Basics
    <2> QED BY <1>2, <1>4, <2>1, NoGapInOwned
  <1> QED BY <1>3, <1>4

LEMMA GrowOrder ==
    ASSUME PowerLaw, RHInv, RHInv', OrderInv, NEW t \in Threads, Grow(t)
    PROVE  OrderInv'
  <1> DEFINE N == 2^hp_
             n == 2^(hp_ + 1)
             w == [walk[t] EXCEPT !.own = DOMAIN locks', !.pos = 0, !.free = 0]
  <1>1. /\ pc[t] = "double" /\ hp_ = walk[t].seen /\ hp_' = hp_ + 1 /\ todo' = todo
        /\ table' = [i \in 0..n - 1 |-> IF i \in DOMAIN table THEN table[i] ELSE Empty]
        /\ walk' = [walk EXCEPT ![t] = w] /\ pc' = [pc EXCEPT ![t] = "spread"]
    BY DEF Grow, Goto
  <1>2. w.seen = walk[t].seen /\ w.pos = 0 /\ w.free = 0
    BY WalkFacts DEF WalkRecords
  <1> HIDE DEF w
  <1>3. OthersStill(t) /\ walk'[t] = w /\ pc'[t] = "spread"
    BY <1>1, MovedTo
  <1>4. hp_ \in Nat /\ N \in Nat \ {0} /\ n = 2 * N /\ DOMAIN table = 0..N - 1 /\ N >= 2 * MaxWindow
    BY SizesBasics DEF PowerLaw, OrderInv
  <1>5. walk[t].own = BucketIds
    BY <1>1 DEF RHInv, OwnOK
  <1>6. /\ Housed(table, hp_) /\ \A k \in DOMAIN table : ~Gap(table, k)
        /\ Rising(table) /\ KeysOnce(table)
    BY <1>1, NoHolesWhileAlone DEF OrderInv
  <1> DEFINE new == table'
  <1>7. /\ DOMAIN new = 0..n - 1 /\ \A i \in DOMAIN table : i \in 0..n - 1 /\ new[i] = table[i]
        /\ \A i \in (0..n - 1) \ DOMAIN table : new[i] = Empty
    <2> HIDE DEF N, n
    <2>1. \A i \in DOMAIN table : i \in 0..n - 1
      BY <1>4
    <2> QED BY <1>1, <2>1
  <1> HIDE DEF new
  <1>8. Entries(new) = Entries(table)
    BY <1>7 DEF Entries
  <1>9. /\ \A x \in Entries(table) : new[x] = table[x] /\ x \in 0..N - 1
    BY <1>4, <1>7 DEF Entries
  <1>10. /\ \A x \in Entries(table) : From(new, x) = From(table, x)
         /\ Rising(new) /\ KeysOnce(new)
         /\ \A k : table[k] = Empty => (Gap(new, k) => Gap(table, k))
    BY <1>6, <1>8, <1>9, SameOrder
  <1>11. \A k \in DOMAIN new : ~Gap(new, k)
    <2> SUFFICES ASSUME NEW k \in DOMAIN new, Gap(new, k) PROVE FALSE
      OBVIOUS
    <2>1. CASE k \in DOMAIN table
      <3>1. table[k] = Empty
        BY <1>7, <2>1 DEF Gap
      <3> QED BY <1>6, <1>10, <2>1, <3>1
    <2>2. CASE k \notin DOMAIN table
      <3>1. PICK x \in Entries(new) : k < x
        BY DEF Gap
      <3>2. x \in 0..N - 1 /\ k \in 0..n - 1
        BY <1>7, <1>8, <1>9
      <3> HIDE DEF N, n
      <3> QED BY <1>4, <2>2, <3>1, <3>2
    <2> QED BY <2>1, <2>2
  <1>12. Halfway(new, hp_, 0, 0)
    <2>1. \A i \in Entries(new) : i >= 0 /\ From(new, i) = Home(new[i].key, hp_)
      BY <1>6, <1>8, <1>9, <1>10 DEF Housed
    <2>2. 0..0 - 1 = {} /\ 0 - 0 = 0 /\ 0 <= N
      <3> HIDE DEF N
      <3> QED BY <1>4
    <2> QED BY <1>11, <2>1, <2>2 DEF Halfway
  <1>13. SpreadOK(t)'
    <2>1. At(t)' = 0 /\ walk'[t].free = 0 /\ walk'[t].seen = hp_
      BY <1>1, <1>2, <1>3 DEF At
    <2> QED BY <1>1, <1>4, <1>12, <2>1 DEF SpreadOK, new
  <1>14. 2^hp_' >= 2 * MaxWindow
    <2>1. 2^hp_' = n
      BY <1>1
    <2> HIDE DEF N, n
    <2> QED BY <1>4, <2>1, RobinHoodAssumption
  <1>15. Ordered' /\ ~Stuck(t)'
    BY <1>3 DEF Ordered, Doubling, Stuck
  <1> QED BY <1>3, <1>5, <1>10, <1>13, <1>14, <1>15, DoublerOrder DEF Under, new

\* What a doubling knows at a slot of the old half.
LEMMA SpreadSees ==
    ASSUME PowerLaw, RHInv, OrderInv, AsExpected, NEW t \in Threads, pc[t] = "spread",
           NEW old, old = walk[t].seen, NEW q, q = At(t), NEW f, f = walk[t].free
    PROVE  /\ old \in Nat /\ Wide(old) /\ hp_ = old + 1 /\ table \in Tables(2^(old + 1))
           /\ 2^old \in Nat \ {0} /\ q \in Nat /\ f \in Nat
           /\ Halfway(table, old, q, f) /\ Within(table, Window(old + 1))
           /\ Rising(table) /\ KeysOnce(table) /\ walk[t].own = BucketIds
  <1>1. old \in Nat /\ q \in Nat /\ f \in Nat /\ 2^old \in Nat \ {0}
    BY WalkFacts DEF At
  <1>2. hp_ = old + 1 /\ 2^old >= 2 * MaxWindow /\ Halfway(table, old, q, f)
    BY DEF OrderInv, SpreadOK
  <1>3. Wide(old) /\ Within(table, Window(old + 1))
    BY <1>2 DEF AsExpected, SmallWindows, DoublingsKeepWindows, Wide, Within
  <1>4. table \in Tables(2^(old + 1)) /\ walk[t].own = BucketIds
    BY <1>2, SizesBasics DEF RHInv, OwnOK
  <1> QED BY <1>1, <1>2, <1>3, <1>4 DEF OrderInv

LEMMA RearrangedOrder ==
    ASSUME RHInv, RHInv', OrderInv, NEW t \in Threads, pc[t] = "spread",
           NEW tab, NEW f, Rearrange(t, tab, f), Rising(tab), KeysOnce(tab),
           Halfway(tab, walk[t].seen, At(t) + 1, f)
    PROVE  OrderInv'
  <1> DEFINE w == [walk[t] EXCEPT !.pos = @ + 1, !.free = f]
  <1>1. /\ table' = tab /\ hp_' = hp_ /\ pc' = pc /\ todo' = todo
        /\ walk' = [walk EXCEPT ![t] = w]
    BY DEF Rearrange
  <1>2. w.seen = walk[t].seen /\ w.pos = At(t) + 1 /\ w.free = f
    BY WalkFacts DEF WalkRecords, At
  <1> HIDE DEF w
  <1>3. pc' = [pc EXCEPT ![t] = "spread"]
    BY <1>1 DEF RHInv, Typed
  <1>4. OthersStill(t) /\ walk'[t] = w /\ pc'[t] = "spread"
    BY <1>1, <1>3, MovedTo
  <1>5. hp_ = walk[t].seen + 1 /\ 2^walk[t].seen >= 2 * MaxWindow /\ 2^hp_ >= 2 * MaxWindow
    BY DEF OrderInv, SpreadOK
  <1>6. SpreadOK(t)'
    <2>1. walk'[t].seen = walk[t].seen /\ At(t)' = At(t) + 1 /\ walk'[t].free = f
      BY <1>2, <1>4 DEF At
    <2> QED BY <1>1, <1>5, <2>1 DEF SpreadOK
  <1>7. Ordered' /\ ~Stuck(t)' /\ walk[t].own = BucketIds
    BY <1>4 DEF Ordered, Doubling, Stuck, RHInv, OwnOK
  <1> QED BY <1>1, <1>4, <1>5, <1>6, <1>7, DoublerOrder DEF Under

LEMMA StillCounting ==
    ASSUME RHInv, AsExpected, NEW t \in Threads, Spreading(t)
    PROVE  (walk[t].free + 1) % FreeMod = walk[t].free + 1
  <1>1. walk[t].free \in Nat /\ walk[t].free + 1 < FreeMod /\ FreeMod \in Nat \ {0}
    BY WalkFacts, RobinHoodAssumption DEF AsExpected, FreeSlotsAreCounted
  <1> QED BY <1>1

LEMMA SkipFreeOrder ==
    ASSUME PowerLaw, RHInv, RHInv', OrderInv, AsExpected, NEW t \in Threads, SkipFree(t)
    PROVE  OrderInv'
  <1>0. PICK old, q, f : old = walk[t].seen /\ q = At(t) /\ f = walk[t].free
    OBVIOUS
  <1>1. /\ Spreading(t) /\ pc[t] = "spread" /\ q < 2^old /\ table[q] = Empty
        /\ Rearrange(t, table, f + 1)
    BY <1>0, StillCounting DEF SkipFree, Spreading, Here
  <1>2. /\ old \in Nat /\ 2^old \in Nat /\ table \in Tables(2^(old + 1)) /\ q \in Nat /\ f \in Nat
        /\ Halfway(table, old, q, f) /\ Rising(table) /\ KeysOnce(table)
    BY <1>0, <1>1, SpreadSees
  <1>3. 2^(old + 1) \in Nat
    BY <1>2, Powers
  <1>4. Halfway(table, old, q + 1, f + 1)
    BY <1>1, <1>2, <1>3, SkippedHalfway
  <1> QED BY <1>0, <1>1, <1>2, <1>4, RearrangedOrder

\* The entry at the position of the loop.
LEMMA HereFacts ==
    ASSUME RHInv, NEW t \in Threads, Spreading(t), Here(t) # Empty
    PROVE  At(t) \in Entries(table) /\ Here(t) \in EntryRecords /\ Here(t).dist \in Nat
  <1>1. At(t) \in DOMAIN table /\ Here(t) \in EntryRecords
    BY SpreadFacts
  <1> QED BY <1>1 DEF Entries, Here, EntryRecords

LEMMA StayOrder ==
    ASSUME PowerLaw, RHInv, RHInv', OrderInv, AsExpected, NEW t \in Threads, Stay(t)
    PROVE  OrderInv'
  <1>0. PICK old, q, f : old = walk[t].seen /\ q = At(t) /\ f = walk[t].free
    OBVIOUS
  <1>1. /\ Spreading(t) /\ pc[t] = "spread" /\ q < 2^old /\ Here(t) # Empty /\ Here(t) = table[q]
        /\ Home(table[q].key, hp_) <= q /\ (table[q].dist = 0 \/ f = 0)
        /\ Rearrange(t, table, 0)
    BY <1>0 DEF Stay, Spreading, Here, NewHome
  <1>2. q \in Entries(table)
    BY <1>0, <1>1, HereFacts
  <1>3. /\ old \in Nat /\ Wide(old) /\ hp_ = old + 1 /\ table \in Tables(2^(old + 1))
        /\ q \in Nat /\ f \in Nat
        /\ Halfway(table, old, q, f) /\ Within(table, Window(old + 1))
        /\ Rising(table) /\ KeysOnce(table)
    BY <1>0, <1>1, SpreadSees
  <1>4. Home(table[q].key, old + 1) <= q
    BY <1>1, <1>3
  <1>5. Halfway(table, old, q + 1, 0)
    BY <1>1, <1>2, <1>3, <1>4, StayedHalfway
  <1> QED BY <1>0, <1>1, <1>3, <1>5, RearrangedOrder

LEMMA MoveNearOrder ==
    ASSUME PowerLaw, RHInv, RHInv', OrderInv, AsExpected, NEW t \in Threads, MoveNear(t)
    PROVE  OrderInv'
  <1>0. PICK old, q, f, h : old = walk[t].seen /\ q = At(t) /\ f = walk[t].free /\ h = NewHome(t)
    OBVIOUS
  <1>1. PICK b : b = IF h > q - f THEN h ELSE q - f
    OBVIOUS
  <1> DEFINE e == [Here(t) EXCEPT !.dist = b - h]
             new == [table EXCEPT ![b] = e, ![q] = Empty]
  <1>2. /\ Spreading(t) /\ pc[t] = "spread" /\ q < 2^old /\ Here(t) # Empty /\ Here(t) = table[q]
        /\ h = Home(table[q].key, hp_) /\ h <= q /\ table[q].dist # 0 /\ f > 0
        /\ Rearrange(t, new, q - b)
    BY <1>0, <1>1 DEF MoveNear, Spreading, Here, NewHome
  <1>3. q \in Entries(table) /\ table[q] \in EntryRecords
    BY <1>0, <1>2, HereFacts
  <1>4. /\ old \in Nat /\ Wide(old) /\ hp_ = old + 1 /\ table \in Tables(2^(old + 1))
        /\ q \in Nat /\ f \in Nat
        /\ Halfway(table, old, q, f) /\ Within(table, Window(old + 1))
        /\ Rising(table) /\ KeysOnce(table)
    BY <1>0, <1>2, SpreadSees
  <1> DEFINE n == 2^(old + 1)
  <1>5. n \in Nat /\ DOMAIN table = 0..n - 1 /\ h \in Nat /\ q \in DOMAIN table
    <2>1. n \in Nat
      BY <1>4, Powers
    <2>2. h \in Nat
      BY <1>0, <1>2, SpreadFacts
    <2> HIDE DEF n
    <2>3. table \in Tables(n)
      BY <1>4 DEF n
    <2> QED BY <1>3, <2>1, <2>2, <2>3, EntryFacts
  <1>6. f <= q
    BY <1>4 DEF Halfway
  <1>7. b \in DOMAIN table /\ h <= b
    <2>1. b \in Nat /\ h <= b /\ b <= q
      BY <1>1, <1>2, <1>4, <1>5, <1>6
    <2> HIDE DEF n
    <2> QED BY <1>5, <2>1
  <1>8. b # q
    <2>1. h # q
      <3>1. /\ From(table, q) = Home(table[q].key, old + 1) \/ (q >= q /\ q < Home(table[q].key, old + 1))
        BY <1>3, <1>4, HalfwayFacts
      <3>2. From(table, q) = h
        BY <1>2, <1>4, <1>5, <3>1
      <3>3. table[q].dist \in Nat
        BY <1>3 DEF EntryRecords
      <3> QED BY <1>2, <1>4, <3>2, <3>3 DEF From
    <2> QED BY <1>1, <1>2, <1>4, <1>5, <2>1
  <1>9. /\ e \in EntryRecords /\ e.key = table[q].key /\ e.dist = b - h
    <2>1. b - h \in Nat
      BY <1>5, <1>7
    <2> QED BY <1>2, <1>3, <2>1 DEF EntryRecords
  <1> HIDE DEF e
  <1>10. /\ new \in Tables(n) /\ new[b] = e /\ new[q] = Empty
         /\ \A x \in DOMAIN table : x \notin {b, q} => new[x] = table[x]
    <2>1. table \in [0..n - 1 -> EntryRecords \cup {Empty}]
      BY <1>4 DEF Tables
    <2> HIDE DEF n
    <2> QED BY <1>5, <1>7, <1>8, <1>9, <2>1 DEF Tables
  <1>11. e # Empty
    BY <1>9, RobinHoodAssumption
  <1>12. new[b] # Empty /\ new[b].key = table[q].key /\ new[b].dist = b - h /\ h = Home(table[q].key, old + 1)
    BY <1>2, <1>4, <1>9, <1>10, <1>11
  <1> HIDE DEF new
  <1>13. Rising(new) /\ KeysOnce(new) /\ Halfway(new, old, q + 1, q - b)
    BY <1>1, <1>2, <1>3, <1>4, <1>10, <1>12, MovedBack, SMTT(60)
  <1> QED BY <1>0, <1>2, <1>13, RearrangedOrder

LEMMA MoveFarOrder ==
    ASSUME PowerLaw, RHInv, RHInv', OrderInv, AsExpected, NEW t \in Threads, MoveFar(t)
    PROVE  OrderInv'
  <1>0. PICK old, q, f, h : old = walk[t].seen /\ q = At(t) /\ f = walk[t].free /\ h = NewHome(t)
    OBVIOUS
  <1>1. /\ Spreading(t) /\ pc[t] = "spread" /\ q < 2^old /\ Here(t) # Empty /\ Here(t) = table[q]
        /\ h = Home(table[q].key, hp_) /\ q < h /\ h \in Nat /\ q \in Nat
    BY <1>0, SpreadFacts DEF MoveFar, Spreading, Here, NewHome
  <1>2. q \in Entries(table) /\ table[q] \in EntryRecords
    BY <1>0, <1>1, HereFacts
  <1>3. /\ old \in Nat /\ Wide(old) /\ hp_ = old + 1 /\ table \in Tables(2^(old + 1))
        /\ q \in Nat /\ f \in Nat
        /\ Halfway(table, old, q, f) /\ Within(table, Window(old + 1))
        /\ Rising(table) /\ KeysOnce(table) /\ walk[t].own = BucketIds
    BY <1>0, <1>1, SpreadSees
  <1>4. CASE WindowIsFull(t)
    <2> DEFINE w == [walk[t] EXCEPT !.bucket = 0]
    <2>1. /\ walk' = [walk EXCEPT ![t] = w] /\ pc' = [pc EXCEPT ![t] = "lock_all"]
          /\ hp_' = hp_ /\ table' = table /\ locks' = locks /\ todo' = todo
      BY <1>4 DEF MoveFar, Goto, shared
    <2>2. w.own = BucketIds /\ w.bucket = 0
      BY <1>3, WalkFacts DEF WalkRecords
    <2> HIDE DEF w
    <2>3. OthersStill(t) /\ walk'[t] = w /\ pc'[t] = "lock_all"
      BY <2>1, MovedTo
    <2>4. 0 \in BucketIds /\ BucketIds' = BucketIds
      <3> DEFINE m == 2^(hp_ - SlotPow)
      <3>1. BucketIds = 0..m - 1 /\ m \in Nat \ {0}
        BY Basics DEF RHInv, SizesOK
      <3> HIDE DEF m
      <3>2. 0 \in BucketIds
        BY <3>1
      <3> QED BY <2>1, <3>2 DEF BucketIds
    <2>5. Stuck(t)' /\ walk'[t].own = BucketIds'
      BY <2>2, <2>3, <2>4 DEF Stuck
    <2>6. Ordered'
      BY <2>5 DEF Ordered, Doubling
    <2>7. 2^hp_' >= 2 * MaxWindow
      BY <2>1 DEF OrderInv
    <2> QED BY <1>3, <2>1, <2>3, <2>5, <2>6, <2>7, DoublerOrder DEF Under
  <1>5. CASE ~WindowIsFull(t)
    <2> DEFINE e == Entry(table[q].key, table[q].val, 0)
               P == Put(table, h, e)
               new == [P EXCEPT ![q] = Empty]
    <2>1. Rearrange(t, new, f + 1)
      BY <1>0, <1>1, <1>5, StillCounting DEF MoveFar, PutFar
    <2>2. e \in EntryRecords /\ e.key = table[q].key /\ e.dist = 0
      BY <1>2 DEF Entry, EntryRecords
    <2> HIDE DEF e
    <2>3. 2^(old + 1) \in Nat
      BY <1>3, Powers
    <2>4. P \in Tables(2^(old + 1)) /\ P = Put(table, h, e)
      BY <1>1, <1>3, <2>2, <2>3, PutFacts
    <2> HIDE DEF P
    <2>5. /\ new \in Tables(2^(old + 1)) /\ new[q] = Empty
          /\ \A x \in DOMAIN table : x # q => new[x] = P[x]
      <3>1. q \in DOMAIN table
        BY <1>2 DEF Entries
      <3>2. DOMAIN P = DOMAIN table
        BY <1>3, <2>4 DEF Tables
      <3> QED BY <2>4, <3>1, <3>2 DEF Tables
    <2> HIDE DEF new
    <2>6. h = Home(table[q].key, old + 1)
      BY <1>1, <1>3
    <2>7. Rising(new) /\ KeysOnce(new) /\ Halfway(new, old, q + 1, f + 1)
      BY <1>1, <1>2, <1>3, <2>2, <2>4, <2>5, <2>6, MovedOn
    <2> QED BY <1>0, <1>1, <2>1, <2>7, RearrangedOrder
  <1> QED BY <1>4, <1>5

LEMMA DoubledOrder ==
    ASSUME PowerLaw, RHInv, RHInv', OrderInv, AsExpected, NEW t \in Threads, Doubled(t)
    PROVE  OrderInv'
  <1>0. PICK old, q, f : old = walk[t].seen /\ q = At(t) /\ f = walk[t].free
    OBVIOUS
  <1>1. /\ pc[t] = "spread" /\ q = 2^old /\ hp_' = hp_ /\ table' = table /\ todo' = todo
        /\ walk' = [walk EXCEPT ![t].go = "start"] /\ pc' = [pc EXCEPT ![t] = "release"]
    BY <1>0 DEF Doubled, StartRelease, Goto, shared
  <1>2. /\ old \in Nat /\ Wide(old) /\ hp_ = old + 1 /\ table \in Tables(2^(old + 1))
        /\ q \in Nat /\ f \in Nat
        /\ Halfway(table, old, q, f) /\ Within(table, Window(old + 1))
        /\ Rising(table) /\ KeysOnce(table) /\ walk[t].own = BucketIds
    BY <1>0, <1>1, SpreadSees
  <1>3. table[q] = Empty \/ table[q].dist = 0
    BY <1>0, <1>1 DEF AsExpected, DoublingsStayInside
  <1>4. Housed(table, hp_) /\ \A k \in DOMAIN table : ~Gap(table, k)
    BY <1>1, <1>2, <1>3, DoneHalfway
  <1>5. Ordered'
    BY <1>1, <1>4 DEF Ordered
  <1>6. OthersStill(t) /\ pc'[t] = "release"
    <2> DEFINE w == [walk[t] EXCEPT !.go = "start"]
    <2>1. walk' = [walk EXCEPT ![t] = w]
      BY <1>1
    <2> HIDE DEF w
    <2> QED BY <1>1, <2>1, MovedTo
  <1>7. 2^hp_' >= 2 * MaxWindow
    BY <1>1 DEF OrderInv
  <1> QED BY <1>1, <1>2, <1>5, <1>6, <1>7, DoublerOrder DEF Under, Stuck

-----------------------------------------------------------------------------
LEMMA InitOrder == PowerLaw /\ Init => OrderInv
  <1> SUFFICES ASSUME PowerLaw, Init PROVE OrderInv
    OBVIOUS
  <1>1. PICK p \in Programs : hp_ = p.hp /\ table = InitTable(p)
    BY DEF Init
  <1>2. \A t \in Threads : pc[t] = "idle"
    BY DEF Init
  <1>3. RHInv
    BY InitHolds
  <1>4. /\ hp_ \in Nat /\ 2^hp_ \in Nat \ {0} /\ table \in Tables(2^hp_)
        /\ 2^hp_ >= 2 * MaxWindow
    BY <1>1, <1>3, SizesBasics, RobinHoodAssumption
  <1>5. KeysOnce(table) /\ \A i \in Entries(table) : InPlace(table, hp_, i)
    BY <1>1, InitialTables
  <1>6. \A i \in Entries(table) : /\ i \in Nat /\ From(table, i) \in Int /\ From(table, i) <= i
                                  /\ table[i].dist \in Nat
    BY <1>4, EntryFacts
  <1>7. ASSUME NEW i \in Entries(table)
        PROVE  /\ From(table, i) = Home(table[i].key, hp_) /\ table[i].dist <= Window(hp_)
               /\ \A j \in From(table, i)..i - 1 :
                     table[j] # Empty /\ table[j].dist >= j - From(table, i)
    BY <1>5 DEF InPlace, From
  <1>8. Housed(table, hp_)
    BY <1>7 DEF Housed
  <1>9. Rising(table)
    <2> SUFFICES ASSUME NEW i \in Entries(table), NEW j \in Entries(table), i < j
                 PROVE  From(table, i) <= From(table, j)
      BY DEF Rising
    <2>1. CASE i < From(table, j)
      BY <1>6, <2>1
    <2>2. CASE ~(i < From(table, j))
      <3>1. i \in From(table, j)..j - 1
        BY <1>6, <2>2
      <3>2. table[i].dist >= i - From(table, j)
        BY <1>7, <3>1
      <3> QED BY <1>6, <3>2 DEF From
    <2> QED BY <2>1, <2>2
  <1>10. ASSUME NEW k \in DOMAIN table, Gap(table, k) PROVE FALSE
    <2>1. PICK j \in Entries(table) : From(table, j) <= k /\ k < j
      BY <1>10 DEF Gap
    <2>2. k \in From(table, j)..j - 1
      <3>1. k \in Int
        BY <1>3, Basics
      <3> QED BY <1>6, <2>1, <3>1
    <2> QED BY <1>7, <1>10, <2>2 DEF Gap
  <1>11. ASSUME NEW t \in Threads
         PROVE  ~Stuck(t) /\ pc[t] # "spread" /\ PathOK(t)
    BY <1>2 DEF Stuck, PathOK, Heading, Under, Stops
  <1> QED BY <1>4, <1>5, <1>8, <1>9, <1>10, <1>11 DEF OrderInv, Ordered

LEMMA SameStateOrder == OrderInv /\ UNCHANGED vars => OrderInv'
  <1> SUFFICES ASSUME OrderInv, UNCHANGED vars PROVE OrderInv'
    OBVIOUS
  <1>1. UNCHANGED <<hp_, table, locks, pc, todo, walk>>
    BY DEF vars, shared
  <1>2. Ordered'
    BY <1>1 DEF OrderInv, Ordered, Doubling, Stuck, Hole, Heading
  <1>3. ASSUME NEW t \in Threads
        PROVE  /\ Stuck(t)' => walk'[t].own = BucketIds'
               /\ pc'[t] = "spread" => SpreadOK(t)'
               /\ PathOK(t)'
    <2>1. (Stuck(t) => walk[t].own = BucketIds) /\ (pc[t] = "spread" => SpreadOK(t)) /\ PathOK(t)
      BY DEF OrderInv
    <2>2. Stuck(t)' => walk'[t].own = BucketIds'
      BY <1>1, <2>1 DEF Stuck, BucketIds
    <2>3. pc'[t] = "spread" => SpreadOK(t)'
      BY <1>1, <2>1 DEF SpreadOK, At
    <2>4. PathOK(t)'
      BY <1>1, <2>1 DEF PathOK, Heading, Passed, HomeOf, WindowOf, Key, Call
    <2> QED BY <2>2, <2>3, <2>4
  <1>4. 2^hp_' >= 2 * MaxWindow /\ KeysOnce(table') /\ Rising(table')
    <2>1. 2^hp_ >= 2 * MaxWindow /\ KeysOnce(table) /\ Rising(table)
      BY DEF OrderInv
    <2> QED BY <1>1, <2>1
  <1> QED BY <1>2, <1>3, <1>4 DEF OrderInv

LEMMA NextOrder == PowerLaw /\ RHInv /\ RHInv' /\ OrderInv /\ AsExpected /\ [Next]_vars => OrderInv'
  <1> SUFFICES ASSUME PowerLaw, RHInv, RHInv', OrderInv, AsExpected, [Next]_vars PROVE OrderInv'
    OBVIOUS
  <1>1. SmallWindows
    BY DEF AsExpected
  <1>2. ASSUME NEW t \in Threads, Begin(t) \/ Step(t) PROVE OrderInv'
    <2>1. CASE Begin(t) \/ Start(t) \/ Return(t) \/ Find(t) \/ DoubleRaced(t)
      BY <2>1, OutsideOrder
    <2>2. CASE NotFound(t) \/ RehashRequired(t) \/ Release(t) \/ LockAll(t)
      BY <2>2, GivenUpOrder
    <2>3. CASE LockFirst(t) \/ LockNext(t)
      BY <2>3, LockFirstOrder, LockNextOrder
    <2>4. CASE Probe(t) \/ FindPath(t)
      BY <1>1, <2>4, ProbeOrder, FindPathOrder
    <2>5. CASE Found(t) \/ Add(t) \/ MovePath(t)
      BY <2>5, FoundOrder, AddOrder, MovePathOrder
    <2>6. CASE Erase(t) \/ Shift(t)
      BY <1>1, <2>6, EraseOrder, ShiftOrder
    <2>7. CASE Grow(t)
      BY <2>7, GrowOrder
    <2>8. CASE SkipFree(t) \/ Stay(t)
      BY <2>8, SkipFreeOrder, StayOrder
    <2>9. CASE MoveNear(t) \/ MoveFar(t)
      BY <2>9, MoveNearOrder, MoveFarOrder
    <2>10. CASE Doubled(t)
      BY <2>10, DoubledOrder
    <2> QED BY <1>2, <2>1, <2>2, <2>3, <2>4, <2>5, <2>6, <2>7, <2>8, <2>9, <2>10
            DEF Step, Write, Double
  <1>3. CASE UNCHANGED vars
    BY <1>3, SameStateOrder
  <1> QED BY <1>2, <1>3 DEF Next, Finished

\* The order of the table, whatever walks, displacements, shifts and doublings
\* overlap, as long as doublings find it as they expect it.
THEOREM OrderInvariant == PowerLaw => (Spec /\ []AsExpected => []OrderInv)
  <1> SUFFICES ASSUME PowerLaw PROVE Spec /\ []AsExpected => []OrderInv
    OBVIOUS
  <1>1. Init => OrderInv
    BY InitOrder
  <1>2. RHInv /\ RHInv' /\ OrderInv /\ AsExpected /\ [Next]_vars => OrderInv'
    BY NextOrder
  <1> QED BY <1>1, <1>2, LocksInvariant, PTL DEF Spec

LEMMA OrderedIsReachable == RHInv /\ OrderInv => EntriesAreReachable
  <1> SUFFICES ASSUME RHInv, OrderInv, NEW i \in Entries(table),
                      \A b \in BucketOf(i - table[i].dist)..BucketOf(i) : ~Locked(b)
               PROVE  InPlace(table, hp_, i)
    BY DEF EntriesAreReachable
  <1> DEFINE h == From(table, i)
  <1>1. table \in Tables(2^hp_) /\ 2^hp_ \in Nat /\ hp_ \in Nat /\ Slots \in Nat \ {0}
    BY SizesBasics
  <1>2. \A x \in Entries(table) : /\ x \in Nat /\ From(table, x) \in Int /\ From(table, x) <= x
                                  /\ table[x].dist \in Nat /\ table[x].key \in Keys /\ x \in DOMAIN table
    BY <1>1, EntryFacts
  <1>3. \A x \in Int : h <= x /\ x <= i => ~Locked(BucketOf(x))
    <2> SUFFICES ASSUME NEW x \in Int, h <= x, x <= i PROVE ~Locked(BucketOf(x))
      OBVIOUS
    <2>1. /\ BucketOf(h) <= BucketOf(x) /\ BucketOf(x) <= BucketOf(i)
          /\ BucketOf(h) \in Int /\ BucketOf(x) \in Int /\ BucketOf(i) \in Int
      BY <1>1, <1>2, BucketsRise, SlotFacts
    <2>2. BucketOf(x) \in BucketOf(h)..BucketOf(i)
      <3> DEFINE bh == BucketOf(h)
                 bx == BucketOf(x)
                 bi == BucketOf(i)
      <3>1. bh <= bx /\ bx <= bi /\ bh \in Int /\ bx \in Int /\ bi \in Int
        BY <2>1
      <3> HIDE DEF bh, bx, bi
      <3>2. bx \in bh..bi
        BY <3>1
      <3> QED BY <3>2 DEF bh, bx, bi
    <2> QED BY <2>2 DEF From
  <1>4. \A x \in DOMAIN table : h <= x /\ x <= i => \A t \in Threads : BucketOf(x) \notin walk[t].own
    <2> SUFFICES ASSUME NEW x \in DOMAIN table, h <= x, x <= i, NEW t \in Threads,
                        BucketOf(x) \in walk[t].own
                 PROVE  FALSE
      OBVIOUS
    <2>1. ~Locked(BucketOf(x)) /\ BucketOf(x) \in BucketIds
      BY <1>3, Basics
    <2> QED BY <2>1 DEF RHInv, LocksOK
  <1>5. \A t \in Threads : ~Doubling(t)
    <2> SUFFICES ASSUME NEW t \in Threads, Doubling(t) PROVE FALSE
      OBVIOUS
    <2>1. BucketOf(i) \in walk[t].own
      BY <1>2, Basics, DoublersOwnAll
    <2> QED BY <1>2, <1>4, <2>1
  <1>6. Rising(table) /\ Housed(table, hp_) /\ \A k \in DOMAIN table : Gap(table, k) => Hole(k)
    BY <1>5 DEF OrderInv, Ordered
  <1>7. h = Home(table[i].key, hp_) /\ table[i].dist <= Window(hp_)
    BY <1>6 DEF Housed
  <1>8. ASSUME NEW j \in h..i - 1
        PROVE  table[j] # Empty /\ table[j].dist >= j - h
    <2>1. h \in Nat
      BY <1>1, <1>2, <1>7, HomeIsNat, SizesBasics
    <2>2. j \in DOMAIN table /\ j \in Nat /\ h <= j /\ j < i
      <3> DEFINE n == 2^hp_
      <3>1. i \in 0..n - 1 /\ DOMAIN table = 0..n - 1 /\ n \in Nat
        BY <1>1, <1>2, SizesBasics
      <3> HIDE DEF n
      <3>2. j \in Nat /\ h <= j /\ j < i
        <4> HIDE DEF h
        <4> QED BY <2>1, <3>1
      <3> QED BY <3>1, <3>2
    <2>3. table[j] # Empty
      <3>1. ASSUME table[j] = Empty PROVE FALSE
        <4>1. Gap(table, j)
          BY <2>2, <3>1 DEF Gap
        <4>2. PICK t \in Threads : Heading(t, "shift") /\ j = walk[t].pos - 1
          BY <1>6, <2>2, <4>1 DEF Hole
        <4>3. BucketOf(j) \in walk[t].own
          BY <4>2, KnownIsOwned
        <4>4. j <= i
          BY <1>2, <2>2
        <4> QED BY <1>4, <2>2, <4>3, <4>4
      <3> QED BY <3>1
    <2>4. j \in Entries(table)
      BY <2>2, <2>3 DEF Entries
    <2>5. From(table, j) <= h
      BY <1>6, <2>2, <2>4 DEF Rising
    <2>6. From(table, j) = j - table[j].dist /\ table[j].dist \in Nat /\ h \in Int
      BY <1>2, <2>4 DEF From
    <2> HIDE DEF h
    <2> QED BY <2>2, <2>3, <2>5, <2>6
  <1> QED BY <1>7, <1>8 DEF InPlace, From

\* Every entry is where walks from its home pass, unless a bucket on its way
\* is locked.
THEOREM ReachableEntries == PowerLaw => (Spec /\ []AsExpected => []EntriesAreReachable)
  BY OrderedIsReachable, LocksInvariant, OrderInvariant, PTL

\* No key is stored twice, in the middle of a doubling either.
THEOREM KeysAreStoredOnce == PowerLaw => (Spec /\ []AsExpected => []KeysOnce(table))
  <1>1. OrderInv => KeysOnce(table)
    BY DEF OrderInv
  <1> QED BY <1>1, OrderInvariant, PTL

-----------------------------------------------------------------------------
\* What keeps walks inside: a thread keeps the hashpower it has started with,
\* the table never shrinks below it, and its homes leave room for a window.  A
\* lookup is in that window, in the bucket it has read the epoch of last.
Reads == [at : Nat, epochs : Seq(Nat), got : Results \cup {Empty}]

StartedOK(t) ==
    pc[t] \notin {"idle", "start"} =>
        /\ 2^walk[t].seen >= 2 * MaxWindow /\ Window(walk[t].seen) < MaxWindow
        /\ 2^walk[t].seen <= 2^hp_

LooksAt(t, room, b) ==
    HomeOf(t) <= lookup[t].at /\ lookup[t].at <= HomeOf(t) + WindowOf(t) + room
        /\ BucketOf(lookup[t].at) = b

LookupOK(t) ==
    /\ pc[t] = "epoch" => LooksAt(t, 0, ReadBucket(t))
    /\ pc[t] \in {"check_hp", "value"} => LooksAt(t, 0, ReadBucket(t) - 1)
    /\ pc[t] = "scan" => LooksAt(t, 1, ReadBucket(t) - 1)

WalkInv ==
    /\ lookup \in [Threads -> Reads]
    /\ \A t \in Threads : /\ StartedOK(t) /\ LookupOK(t)
                          /\ pc[t] = "lock_all" => walk[t].bucket \in BucketIds

LEMMA TablesGrow ==
    ASSUME PowerLaw, RHInv, RHInv', NEW t \in Threads, Begin(t) \/ Step(t)
    PROVE  2^hp_ <= 2^hp_' /\ BucketIds \subseteq BucketIds' /\ (Grow(t) \/ hp_' = hp_)
  <1>1. BucketIds = 0..2^(hp_ - SlotPow) - 1 /\ BucketIds' = 0..2^(hp_' - SlotPow) - 1
    BY DEF RHInv, Typed, BucketIds
  <1>2. CASE Grow(t)
    <2> DEFINE n == 2^(hp_ - SlotPow)
               s == 2^hp_
    <2>1. hp_' = hp_ + 1 /\ 2^(hp_ + 1) = 2 * s /\ 2^(hp_ + 1 - SlotPow) = 2 * n
      BY <1>2, GrowSizes DEF Grow
    <2>2. s \in Nat /\ n \in Nat
      BY DEF RHInv, SizesOK
    <2>3. 2^hp_' = 2 * s /\ 2^(hp_' - SlotPow) = 2 * n
      <3>1. hp_ \in Int /\ SlotPow \in Int /\ hp_' = hp_ + 1
        BY <2>1, RobinHoodAssumption DEF RHInv, SizesOK
      <3>2. hp_' - SlotPow = hp_ + 1 - SlotPow
        BY <3>1
      <3>3. 2^(hp_') = 2^(hp_ + 1)
        BY <3>1
      <3>4. 2^(hp_' - SlotPow) = 2^(hp_ + 1 - SlotPow)
        BY <3>2
      <3> QED BY <2>1, <3>3, <3>4
    <2>4. s <= 2 * s /\ 0..n - 1 \subseteq 0..2 * n - 1
      <3> HIDE DEF n, s
      <3> QED BY <2>2
    <2> QED BY <1>1, <1>2, <2>3, <2>4
  <1>3. CASE ~Grow(t)
    <2>1. hp_' = hp_
      <3>1. CASE Begin(t) \/ Start(t) \/ Return(t) \/ Find(t)
        BY <3>1, SMTT(60) DEF Begin, Start, Return, Find, Epoch, CheckHp, Scan, Value, CheckEpochs, shared
      <3>2. CASE Write(t)
        BY <3>2 DEF Write, LockFirst, LockNext, Probe, Release, Found, NotFound, Add, FindPath,
                    MovePath, Erase, Shift, shared
      <3>3. CASE Double(t)
        BY <1>3, <3>3 DEF Double, RehashRequired, LockAll, DoubleRaced, SkipFree, MoveFar, MoveNear,
                          Stay, Doubled, Rearrange, shared
      <3> QED BY <3>1, <3>2, <3>3 DEF Step
    <2>2. 2^hp_ \in Nat
      BY DEF RHInv, SizesOK
    <2>3. 2^hp_ <= 2^hp_'
      BY <2>1, <2>2
    <2> QED BY <1>1, <2>1, <2>3
  <1> QED BY <1>2, <1>3

LEMMA OthersInside ==
    ASSUME RHInv, WalkInv, NEW t \in Threads, Begin(t) \/ Step(t), NEW u \in Threads \ {t},
           2^hp_ <= 2^hp_', 2^hp_' \in Nat, BucketIds \subseteq BucketIds',
           lookup'[u] = lookup[u], todo'[u] = todo[u]
    PROVE  /\ StartedOK(u)' /\ LookupOK(u)'
           /\ pc'[u] = "lock_all" => walk'[u].bucket \in BucketIds'
  <1>1. pc'[u] = pc[u] /\ walk'[u] = walk[u]
    BY OthersStay
  <1>2. StartedOK(u) /\ LookupOK(u) /\ (pc[u] = "lock_all" => walk[u].bucket \in BucketIds)
    BY DEF WalkInv
  <1>3. LookupOK(u)'
    BY <1>1, <1>2 DEF LookupOK, LooksAt, ReadBucket, HomeOf, WindowOf, Key, Call
  <1>4. StartedOK(u)'
    <2> SUFFICES ASSUME pc'[u] \notin {"idle", "start"}
                 PROVE  /\ 2^walk[u].seen >= 2 * MaxWindow /\ Window(walk[u].seen) < MaxWindow
                        /\ 2^walk[u].seen <= 2^hp_'
      BY <1>1 DEF StartedOK
    <2> DEFINE a == 2^walk[u].seen
               b == 2^hp_
               c == 2^hp_'
    <2>1. a >= 2 * MaxWindow /\ Window(walk[u].seen) < MaxWindow /\ a <= b /\ b <= c
      BY <1>1, <1>2 DEF StartedOK
    <2>2. a \in Nat /\ b \in Nat /\ c \in Nat
      BY DEF RHInv, SizesOK
    <2> HIDE DEF a, b, c
    <2>3. a <= c
      BY <2>1, <2>2
    <2> QED BY <2>1, <2>3 DEF a, c
  <1> QED BY <1>1, <1>2, <1>3, <1>4

\* The steps outside lookups keep the hashpower they have started with.
LEMMA OwnSteps ==
    ASSUME RHInv, NEW t \in Threads, Write(t) \/ Double(t)
    PROVE  /\ lookup' = lookup /\ todo' = todo
           /\ walk'[t].seen = walk[t].seen /\ pc[t] \notin {"idle", "start"}
           /\ pc'[t] \notin {"epoch", "check_hp", "value", "scan"}
  <1> USE DEF Goto
  <1>0. pc \in [Threads -> Labels] /\ walk \in [Threads -> WalkRecords] /\ walk[t] \in WalkRecords
    BY DEF RHInv, Typed
  <1>1. CASE LockFirst(t)
    BY <1>0, <1>1 DEF LockFirst, WalkRecords
  <1>2. CASE LockNext(t)
    <2>1. pc[t] = "lock_next" /\ walk[t].go \in {"probe", "less_dist", "shift"}
      BY <1>2 DEF LockNext, RHInv, OwnOK
    <2> QED BY <1>0, <1>2, <2>1 DEF LockNext, WalkRecords
  <1>3. CASE Probe(t)
    <2> DEFINE b == walk[t].bucket
               status(i) == Status(table, Key(t), i, i - HomeOf(t), walk[t].seen)
               stops == {i \in SlotsOf(b) : i >= HomeOf(t) /\ status(i) # "next"}
    <2>1. pc[t] \in Under /\ pc[t] = "probe"
      BY <1>3 DEF Probe, Under
    <2>2. stops \in SUBSET Nat /\ HomeOf(t) \in Nat /\ walk[t].seen \in Nat
      BY <2>1, UnderFacts, CallFacts, WalkFacts
    <2>3. lookup' = lookup /\ todo' = todo
      BY <1>3 DEF Probe
    <2>4. CASE stops # {}
      <3>1. /\ pc'[t] = status(Min(stops)) /\ walk' = [walk EXCEPT ![t].pos = Min(stops)]
        BY <1>0, <1>3, <2>4 DEF Probe
      <3>2. Min(stops) \in Nat
        <4> HIDE DEF stops
        <4> QED BY <2>2, <2>4, MinIsLeast
      <3>3. status(Min(stops)) \notin {"epoch", "check_hp", "value", "scan"}
        <4>1. \A i \in Nat : i - HomeOf(t) \in Int
          BY <2>2
        <4>2. \A i \in Nat : status(i) \notin {"epoch", "check_hp", "value", "scan"}
          BY <2>2, <4>1, StatusCases
        <4> QED BY <3>2, <4>2
      <3>4. walk'[t].seen = walk[t].seen
        <4> DEFINE m == Min(stops)
        <4>1. walk' = [walk EXCEPT ![t].pos = m]
          BY <3>1
        <4> HIDE DEF m
        <4> QED BY <1>0, <4>1 DEF WalkRecords
      <3> QED BY <2>1, <2>3, <3>1, <3>3, <3>4
    <2>5. CASE stops = {}
      <3>1. \/ pc' = [pc EXCEPT ![t] = "out_of_window"] /\ walk' = walk
            \/ /\ pc' = [pc EXCEPT ![t] = "lock_next"]
               /\ walk' = [walk EXCEPT ![t].bucket = @ + 1, ![t].go = "probe"]
        BY <1>3, <2>5 DEF Probe, ToNextBucket
      <3> QED BY <1>0, <2>1, <2>3, <3>1 DEF WalkRecords
    <2> QED BY <2>4, <2>5
  <1>4. CASE Release(t)
    <2>1. pc[t] = "release" /\ walk[t].go \in {"start", "return", "lock_all"}
      BY <1>4 DEF Release, RHInv, OwnOK
    <2>2. PICK b \in walk[t].own :
              /\ walk' = [walk EXCEPT ![t].own = @ \ {b}, ![t].bucket = 0]
              /\ pc' = [pc EXCEPT ![t] = IF walk[t].own = {b} THEN walk[t].go ELSE "release"]
      BY <1>4 DEF Release
    <2>3. lookup' = lookup /\ todo' = todo
      BY <1>4 DEF Release
    <2> QED BY <1>0, <2>1, <2>2, <2>3 DEF WalkRecords
  <1>5. CASE Found(t) \/ NotFound(t) \/ Add(t) \/ MovePath(t)
    BY <1>0, <1>5 DEF Found, NotFound, Add, MovePath, Answer, WalkRecords
  <1>6. CASE FindPath(t)
    BY <1>0, <1>6 DEF FindPath, ToNextBucket, WalkRecords
  <1>7. CASE Erase(t)
    BY <1>0, <1>7 DEF Erase, WalkRecords
  <1>8. CASE Shift(t)
    <2>1. pc[t] = "shift" /\ lookup' = lookup /\ todo' = todo
      BY <1>8 DEF Shift
    <2>2. PICK e : \/ /\ walk' = [walk EXCEPT ![t].go = "return"]
                      /\ pc' = [pc EXCEPT ![t] = "release"]
                   \/ /\ walk' = [walk EXCEPT ![t].bucket = @ + 1, ![t].pos = e, ![t].go = "shift"]
                      /\ pc' = [pc EXCEPT ![t] = "lock_next"]
      BY <1>8 DEF Shift, StartRelease
    <2> QED BY <1>0, <2>1, <2>2 DEF WalkRecords
  <1>9. CASE RehashRequired(t) \/ DoubleRaced(t) \/ Doubled(t)
    BY <1>0, <1>9 DEF RehashRequired, DoubleRaced, Doubled, StartRelease, WalkRecords
  <1>10. CASE LockAll(t) \/ Grow(t)
    BY <1>0, <1>10 DEF LockAll, Grow, WalkRecords
  <1>11. CASE SkipFree(t) \/ Stay(t) \/ MoveNear(t) \/ MoveFar(t)
    <2>1. pc[t] = "spread" /\ lookup' = lookup /\ todo' = todo
      BY <1>11 DEF SkipFree, Stay, MoveNear, MoveFar, Rearrange, Spreading
    <2>2. pc' = pc \/ pc' = [pc EXCEPT ![t] = "lock_all"]
      BY <1>11 DEF SkipFree, Stay, MoveNear, MoveFar, Rearrange
    <2>3. PICK f : \/ walk' = [walk EXCEPT ![t].pos = @ + 1, ![t].free = f]
                   \/ walk' = [walk EXCEPT ![t].bucket = 0]
      BY <1>11 DEF SkipFree, Stay, MoveNear, MoveFar, Rearrange
    <2> QED BY <1>0, <2>1, <2>2, <2>3 DEF WalkRecords
  <1> QED BY <1>1, <1>2, <1>3, <1>4, <1>5, <1>6, <1>7, <1>8, <1>9, <1>10, <1>11 DEF Write, Double

LEMMA InitInside == PowerLaw /\ Init => WalkInv
  <1> SUFFICES ASSUME PowerLaw, Init PROVE WalkInv
    OBVIOUS
  <1>1. /\ \A t \in Threads : pc[t] = "idle"
        /\ lookup = [t \in Threads |-> NoRead]
    BY DEF Init
  <1>2. NoRead \in Reads
    BY DEF NoRead, Reads, Results
  <1> QED BY <1>1, <1>2 DEF WalkInv, StartedOK, LookupOK

LEMMA OwnInside ==
    ASSUME RHInv, RHInv', WalkInv, NEW t \in Threads, Write(t) \/ Double(t), 2^hp_ <= 2^hp_',
           BucketIds \subseteq BucketIds'
    PROVE  /\ lookup' = lookup /\ todo' = todo /\ StartedOK(t)' /\ LookupOK(t)'
           /\ pc'[t] = "lock_all" => walk'[t].bucket \in BucketIds'
  <1>1. /\ lookup' = lookup /\ todo' = todo
        /\ walk'[t].seen = walk[t].seen /\ pc[t] \notin {"idle", "start"}
        /\ pc'[t] \notin {"epoch", "check_hp", "value", "scan"}
    BY OwnSteps
  <1>2. LookupOK(t)'
    BY <1>1 DEF LookupOK
  <1>3. StartedOK(t)'
    <2> DEFINE a == 2^walk[t].seen
               b == 2^hp_
               c == 2^(hp_')
    <2>1. a >= 2 * MaxWindow /\ Window(walk[t].seen) < MaxWindow /\ a <= b /\ b <= c
      BY <1>1 DEF StartedOK, WalkInv
    <2>2. a \in Nat /\ b \in Nat /\ c \in Nat
      BY DEF RHInv, SizesOK
    <2>3. 2^(walk'[t].seen) = a
      BY <1>1
    <2> HIDE DEF a, b, c
    <2>4. a <= c
      BY <2>1, <2>2
    <2>5. 2^(walk'[t].seen) >= 2 * MaxWindow /\ 2^(walk'[t].seen) <= c
      BY <2>1, <2>3, <2>4
    <2>6. Window(walk'[t].seen) < MaxWindow
      BY <1>1, <2>1
    <2> QED BY <2>5, <2>6 DEF StartedOK, c
  <1>4. ASSUME pc'[t] = "lock_all"
        PROVE  walk'[t].bucket \in BucketIds'
    <2>0. walk \in [Threads -> WalkRecords] /\ walk[t] \in WalkRecords /\ pc \in [Threads -> Labels]
      BY DEF RHInv, Typed
    <2>1. 0 \in BucketIds
      <3> DEFINE n == 2^(hp_ - SlotPow)
      <3>1. n \in Nat \ {0} /\ BucketIds = 0..n - 1
        BY Basics DEF RHInv, SizesOK
      <3> HIDE DEF n
      <3> QED BY <3>1
    <2>2. CASE LockAll(t)
      <3> DEFINE b == walk[t].bucket
      <3>1. /\ locks' = [locks EXCEPT ![b].flag = TRUE, ![b].epoch = @ + 1]
            /\ walk' = [walk EXCEPT ![t].own = @ \cup {b}, ![t].bucket = b + 1]
            /\ pc' = [pc EXCEPT ![t] = IF b + 1 \in BucketIds THEN "lock_all" ELSE "double"]
        BY <2>2 DEF LockAll, LockBucket, Goto
      <3>2. walk'[t].bucket = b + 1
        BY <2>0, <3>1 DEF WalkRecords
      <3>3. b + 1 \in BucketIds
        BY <1>4, <2>0, <3>1
      <3> QED BY <3>2, <3>3
    <2>3. CASE Release(t)
      <3>1. PICK b : walk' = [walk EXCEPT ![t].own = @ \ {b}, ![t].bucket = 0]
        BY <2>3 DEF Release
      <3>2. walk'[t].bucket = 0
        BY <2>0, <3>1 DEF WalkRecords
      <3> QED BY <2>1, <3>2
    <2>4. CASE MoveFar(t)
      <3>1. pc[t] = "spread"
        BY <2>4 DEF MoveFar, Spreading
      <3>2. walk' = [walk EXCEPT ![t].bucket = 0]
        BY <1>4, <2>0, <2>4, <3>1 DEF MoveFar, Rearrange
      <3>3. walk'[t].bucket = 0
        BY <2>0, <3>2 DEF WalkRecords
      <3> QED BY <2>1, <3>3
    <2>5. Begin(t) \/ Step(t)
      BY DEF Step
    <2> QED BY <1>4, <2>2, <2>3, <2>4, <2>5, LockAllStarts
  <1> QED BY <1>1, <1>2, <1>3, <1>4

LEMMA StartInside ==
    ASSUME RHInv, RHInv', OrderInv, SmallWindows, WalkInv, NEW t \in Threads, Start(t)
    PROVE  /\ lookup' \in [Threads -> Reads] /\ StartedOK(t)' /\ LookupOK(t)'
           /\ pc'[t] # "lock_all" /\ todo' = todo
           /\ \A u \in Threads \ {t} : lookup'[u] = lookup[u]
  <1> DEFINE h == Home(Key(t), hp_)
             w == [NoWalk EXCEPT !.seen = hp_, !.bucket = BucketOf(h)]
             r == [NoRead EXCEPT !.at = h]
             l == IF Call(t).op = "find" THEN "epoch" ELSE "lock_first"
  <1>1. /\ pc[t] = "start" /\ walk' = [walk EXCEPT ![t] = w] /\ pc' = [pc EXCEPT ![t] = l]
        /\ lookup' = [lookup EXCEPT ![t] = r] /\ UNCHANGED <<hp_, table, locks, todo>>
    BY DEF Start, Goto, shared
  <1>2. /\ hp_ \in Nat /\ 2^hp_ \in Nat \ {0} /\ Slots \in Nat \ {0} /\ Key(t) \in Keys
    BY <1>1, SizesBasics, CallFacts
  <1>3. h \in Nat /\ BucketOf(h) \in Nat
    BY <1>2, HomeIsNat, SlotFacts
  <1> HIDE DEF h
  <1>4. w.seen = hp_ /\ r \in Reads /\ r.at = h /\ r.epochs = <<>>
    <2>1. w.seen = hp_ /\ r = [at |-> h, epochs |-> <<>>, got |-> Absent]
      BY DEF NoWalk, NoRead
    <2>2. <<>> \in Seq(Nat) /\ Absent \in Results \cup {Empty}
      BY DEF Results
    <2> HIDE DEF w, r
    <2> QED BY <1>3, <2>1, <2>2 DEF Reads
  <1> HIDE DEF w, r
  <1>5. /\ pc'[t] = l /\ walk'[t] = w /\ lookup'[t] = r /\ lookup' \in [Threads -> Reads]
        /\ \A u \in Threads \ {t} : lookup'[u] = lookup[u]
    BY <1>1, <1>4 DEF RHInv, Typed, WalkInv
  <1>6. l \in {"epoch", "lock_first"}
    OBVIOUS
  <1> HIDE DEF l
  <1>7. HomeOf(t)' = h /\ Window(hp_) \in Nat /\ WindowOf(t)' = Window(hp_)
    BY <1>1, <1>2, <1>4, <1>5 DEF HomeOf, WindowOf, Window, Key, Call, h
  <1>8. StartedOK(t)'
    <2>1. 2^(walk'[t].seen) = 2^hp_ /\ 2^(hp_') = 2^hp_
      BY <1>1, <1>4, <1>5
    <2>2. 2^hp_ >= 2 * MaxWindow /\ Window(hp_) < MaxWindow /\ 2^hp_ <= 2^hp_
      BY <1>2 DEF OrderInv, SmallWindows
    <2>3. Window(walk'[t].seen) < MaxWindow
      BY <1>4, <1>5, <2>2
    <2> QED BY <2>1, <2>2, <2>3 DEF StartedOK
  <1>9. LookupOK(t)'
    <2>1. Len(lookup'[t].epochs) = 0 /\ lookup'[t].at = h
      BY <1>4, <1>5
    <2>2. BucketOf(h) + 0 = BucketOf(h) /\ h <= h /\ h <= h + Window(hp_) + 0
      BY <1>3, <1>7
    <2>3. ReadBucket(t)' = BucketOf(h) + 0
      BY <1>7, <2>1 DEF ReadBucket
    <2>4. LooksAt(t, 0, ReadBucket(t))'
      BY <1>7, <2>1, <2>2, <2>3 DEF LooksAt
    <2> QED BY <1>5, <1>6, <2>4 DEF LookupOK
  <1> QED BY <1>1, <1>5, <1>6, <1>8, <1>9

\* The next slot lies in the same bucket or in the one after it.
LEMMA NextSlot ==
    ASSUME Slots \in Nat \ {0}, NEW i \in Nat
    PROVE  /\ BucketOf(i) \in Nat /\ BucketOf(i + 1) \in Nat
           /\ BucketOf(i + 1) = BucketOf(i) \/ BucketOf(i + 1) = BucketOf(i) + 1
  <1> DEFINE b == BucketOf(i)
             c == BucketOf(i + 1)
  <1>1. b \in Nat /\ c \in Nat /\ b <= c
    BY SlotFacts, BucketsRise
  <1>2. /\ First(c) \in Int /\ First(b + 1) \in Int /\ First(c) <= i + 1 /\ i < First(b + 1)
    <2>1. i \in SlotsOf(b) /\ i + 1 \in SlotsOf(c) /\ b + 1 \in Int
      BY <1>1, SlotFacts
    <2> HIDE DEF b, c
    <2> QED BY <1>1, <2>1, SlotFacts
  <1>3. ~(c > b + 1)
    <2> SUFFICES ASSUME c > b + 1 PROVE FALSE
      OBVIOUS
    <2> HIDE DEF b, c
    <2>1. (c - b - 2) * Slots >= 0
      BY <1>1
    <2>2. (c - b - 2) * Slots = c * Slots - (b + 1) * Slots - Slots
      BY <1>1
    <2>3. c * Slots <= i + 1 /\ i < (b + 1) * Slots /\ c * Slots \in Int /\ (b + 1) * Slots \in Int
      BY <1>1, <1>2 DEF First
    <2>4. c * Slots >= (b + 1) * Slots + Slots
      BY <2>1, <2>2, <2>3
    <2> QED BY <2>3, <2>4
  <1> HIDE DEF b, c
  <1>4. c = b \/ c = b + 1
    BY <1>1, <1>3
  <1> QED BY <1>1, <1>4 DEF b, c

LEMMA InsideTable ==
    ASSUME PowerLaw, RHInv, NEW t \in Threads, StartedOK(t), pc[t] \notin {"idle", "start"}
    PROVE  /\ HomeOf(t) \in Nat /\ WindowOf(t) \in Nat
           /\ \A i \in Nat : i <= HomeOf(t) + WindowOf(t) + 1 => i \in DOMAIN table
  <1> DEFINE h == HomeOf(t)
             v == WindowOf(t)
             a == 2^walk[t].seen
             n == 2^hp_
  <1>1. h \in Nat /\ v \in Nat /\ Key(t) \in Keys /\ walk[t].seen \in Nat
    BY CallFacts, WalkFacts
  <1>2. a >= 2 * MaxWindow /\ a <= n /\ Window(walk[t].seen) < MaxWindow
    BY DEF StartedOK
  <1>3. h + v < a - 1
    BY <1>1, <1>2, HomesLeaveRoom DEF HomeOf, WindowOf
  <1>4. a \in Nat /\ n \in Nat /\ DOMAIN table = 0..n - 1
    BY WalkFacts, SizesBasics
  <1> HIDE DEF h, v, a, n
  <1>5. \A i \in Nat : i <= h + v + 1 => i \in 0..n - 1
    BY <1>1, <1>2, <1>3, <1>4
  <1> QED BY <1>1, <1>4, <1>5 DEF h, v

LEMMA InsideIsInside ==
    ASSUME PowerLaw, RHInv, OrderInv, WalkInv
    PROVE  WalksStayInside
  <1> SUFFICES ASSUME NEW t \in Threads
               PROVE  /\ Wanted(t) \subseteq BucketIds
                      /\ pc[t] = "epoch" => ReadBucket(t) \in BucketIds
                      /\ pc[t] = "scan" => lookup[t].at \in DOMAIN table
    BY DEF WalksStayInside
  <1>1. /\ StartedOK(t) /\ LookupOK(t) /\ lookup[t].at \in Nat
        /\ pc[t] = "lock_all" => walk[t].bucket \in BucketIds
    BY DEF WalkInv, Reads
  <1>2. \A i \in DOMAIN table : BucketOf(i) \in BucketIds
    BY Basics
  <1>3. ASSUME pc[t] = "lock_first" PROVE walk[t].bucket \in BucketIds
    <2>1. walk[t].bucket = BucketOf(HomeOf(t))
      BY <1>3 DEF RHInv, OwnOK, HomeBucket
    <2>2. HomeOf(t) \in DOMAIN table
      <3>1. HomeOf(t) \in Nat /\ WindowOf(t) \in Nat
        BY <1>1, <1>3, InsideTable
      <3>2. HomeOf(t) <= HomeOf(t) + WindowOf(t) + 1
        BY <3>1
      <3> QED BY <1>1, <1>3, <3>1, <3>2, InsideTable
    <2> QED BY <1>2, <2>1, <2>2
  <1>4. ASSUME pc[t] = "lock_next" PROVE walk[t].bucket \in BucketIds
    <2>1. First(walk[t].bucket) \in DOMAIN table
      BY <1>4 DEF OrderInv, PathOK
    <2>2. BucketOf(First(walk[t].bucket)) = walk[t].bucket
      <3> DEFINE b == walk[t].bucket
      <3>1. b \in Int /\ Slots \in Nat \ {0}
        BY WalkFacts, SizesBasics
      <3> HIDE DEF b
      <3>2. BucketOf(First(b)) = b
        BY <3>1, SlotFacts
      <3> QED BY <3>2 DEF b
    <2> QED BY <1>2, <2>1, <2>2
  <1>5. Wanted(t) \subseteq BucketIds
    BY <1>1, <1>3, <1>4 DEF Wanted
  <1>6. ASSUME pc[t] = "epoch" PROVE ReadBucket(t) \in BucketIds
    <2>1. LooksAt(t, 0, ReadBucket(t))
      BY <1>1, <1>6 DEF LookupOK
    <2>2. HomeOf(t) \in Nat /\ WindowOf(t) \in Nat
      BY <1>1, <1>6, InsideTable
    <2>3. lookup[t].at <= HomeOf(t) + WindowOf(t) + 0 /\ BucketOf(lookup[t].at) = ReadBucket(t)
      BY <2>1 DEF LooksAt
    <2>4. lookup[t].at <= HomeOf(t) + WindowOf(t) + 1
      BY <1>1, <2>2, <2>3
    <2> QED BY <1>1, <1>2, <1>6, <2>3, <2>4, InsideTable
  <1>7. ASSUME pc[t] = "scan" PROVE lookup[t].at \in DOMAIN table
    <2>1. lookup[t].at <= HomeOf(t) + WindowOf(t) + 1
      BY <1>1, <1>7 DEF LookupOK, LooksAt
    <2> QED BY <1>1, <1>7, <2>1, InsideTable
  <1> QED BY <1>5, <1>6, <1>7

\* The steps of a lookup.
LEMMA LookupMoved ==
    ASSUME RHInv, WalkInv, NEW t \in Threads, Find(t), StartedOK(t), hp_' = hp_
    PROVE  /\ pc[t] \notin {"idle", "start"} /\ pc'[t] # "lock_all"
           /\ walk' = walk /\ todo' = todo /\ StartedOK(t)'
           /\ HomeOf(t)' = HomeOf(t) /\ WindowOf(t)' = WindowOf(t)
           /\ \A u \in Threads \ {t} : lookup'[u] = lookup[u]
  <1> USE DEF Goto
  <1>0. pc \in [Threads -> Labels] /\ lookup \in [Threads -> Reads]
    BY DEF RHInv, Typed, WalkInv
  <1>1. walk' = walk /\ todo' = todo
    BY DEF Find, Epoch, CheckHp, Scan, Value, CheckEpochs
  <1>2. pc[t] \notin {"idle", "start"} /\ pc'[t] # "lock_all"
    BY <1>0 DEF Find, Epoch, CheckHp, Scan, Value, CheckEpochs
  <1>3. \A u \in Threads \ {t} : lookup'[u] = lookup[u]
    BY <1>0 DEF Find, Epoch, CheckHp, Scan, Value, CheckEpochs
  <1>4. StartedOK(t)'
    BY <1>1, <1>2 DEF StartedOK
  <1> QED BY <1>1, <1>2, <1>3, <1>4 DEF HomeOf, WindowOf, Key, Call

LEMMA EpochInside ==
    ASSUME RHInv, WalkInv, NEW t \in Threads, Epoch(t), StartedOK(t), hp_' = hp_
    PROVE  lookup' \in [Threads -> Reads] /\ LookupOK(t)'
  <1> DEFINE b == ReadBucket(t)
             e == locks[b].epoch
             l == IF Locked(b) THEN "start" ELSE IF lookup[t].epochs = <<>> THEN "check_hp" ELSE "scan"
             r == [lookup[t] EXCEPT !.epochs = Append(@, e)]
  <1>1. /\ pc[t] = "epoch" /\ b \in BucketIds /\ lookup' = [lookup EXCEPT ![t] = r]
        /\ pc' = [pc EXCEPT ![t] = l]
    BY DEF Epoch, Goto
  <1>2. e \in Nat
    BY <1>1, Basics DEF LockRecords
  <1>3. lookup \in [Threads -> Reads] /\ lookup[t] \in Reads /\ pc \in [Threads -> Labels]
    BY DEF WalkInv, RHInv, Typed
  <1> HIDE DEF e
  <1>4. r \in Reads /\ r.at = lookup[t].at /\ Len(r.epochs) = Len(lookup[t].epochs) + 1
    <2> DEFINE q == lookup[t].epochs
    <2>1. q \in Seq(Nat) /\ r = [lookup[t] EXCEPT !.epochs = Append(q, e)]
      BY <1>3 DEF Reads
    <2> HIDE DEF q, r
    <2>2. Append(q, e) \in Seq(Nat) /\ Len(Append(q, e)) = Len(q) + 1
      BY <1>2, <2>1
    <2>3. r \in Reads /\ r.at = lookup[t].at /\ r.epochs = Append(q, e)
      BY <1>3, <2>1, <2>2 DEF Reads
    <2> QED BY <2>2, <2>3 DEF q
  <1>5. lookup'[t] = r /\ pc'[t] = l /\ lookup' \in [Threads -> Reads] /\ l \in {"start", "check_hp", "scan"}
    <2> HIDE DEF r, b
    <2> QED BY <1>1, <1>3, <1>4
  <1> HIDE DEF r, l
  <1>6. HomeOf(t)' = HomeOf(t) /\ WindowOf(t)' = WindowOf(t)
    BY LookupMoved DEF Find
  <1>7. /\ HomeOf(t) <= lookup[t].at /\ lookup[t].at <= HomeOf(t) + WindowOf(t) + 0
        /\ BucketOf(lookup[t].at) = ReadBucket(t)
    BY <1>1 DEF WalkInv, LookupOK, LooksAt
  <1>8. /\ HomeOf(t) \in Nat /\ WindowOf(t) \in Nat /\ lookup[t].at \in Nat /\ Len(lookup[t].epochs) \in Nat
        /\ BucketOf(HomeOf(t)) \in Nat
    BY <1>1, <1>3, CallFacts DEF Reads, HomeBucket
  <1>9. ReadBucket(t)' - 1 = ReadBucket(t) /\ lookup'[t].at = lookup[t].at
    BY <1>4, <1>5, <1>6, <1>8, SMTT(60) DEF ReadBucket
  <1>10. LooksAt(t, 0, ReadBucket(t) - 1)'
    BY <1>6, <1>7, <1>9 DEF LooksAt
  <1>11. LooksAt(t, 1, ReadBucket(t) - 1)'
    <2>1. lookup[t].at <= HomeOf(t) + WindowOf(t) + 1
      BY <1>7, <1>8
    <2> QED BY <1>6, <1>7, <1>9, <2>1 DEF LooksAt
  <1> QED BY <1>5, <1>10, <1>11 DEF LookupOK

LEMMA ScanInside ==
    ASSUME PowerLaw, RHInv, WalkInv, NEW t \in Threads, Scan(t), StartedOK(t), hp_' = hp_
    PROVE  lookup' \in [Threads -> Reads] /\ LookupOK(t)'
  <1> DEFINE i == lookup[t].at
             d == i - HomeOf(t)
             r == [lookup[t] EXCEPT !.at = i + 1]
  <1>1. pc[t] = "scan" /\ pc \in [Threads -> Labels] /\ lookup \in [Threads -> Reads]
    BY DEF Scan, WalkInv, RHInv, Typed
  <1>2. /\ HomeOf(t) \in Nat /\ WindowOf(t) \in Nat /\ i \in Nat /\ Len(lookup[t].epochs) \in Nat
        /\ BucketOf(HomeOf(t)) \in Nat /\ Slots \in Nat \ {0} /\ lookup[t] \in Reads
    BY <1>1, CallFacts, SizesBasics DEF Reads, HomeBucket
  <1>3. /\ HomeOf(t) <= i /\ i <= HomeOf(t) + WindowOf(t) + 1 /\ BucketOf(i) = ReadBucket(t) - 1
    BY <1>1 DEF WalkInv, LookupOK, LooksAt
  <1>4. HomeOf(t)' = HomeOf(t) /\ WindowOf(t)' = WindowOf(t)
    BY LookupMoved DEF Find
  <1>5. ReadBucket(t) \in Int
    BY <1>2 DEF ReadBucket
  <1>6. CASE pc' = [pc EXCEPT ![t] = "check_epochs"] /\ lookup' = lookup
    <2>1. pc'[t] = "check_epochs"
      BY <1>1, <1>6
    <2> QED BY <1>1, <1>6, <2>1 DEF LookupOK
  <1>7. CASE ~(d > WindowOf(t)) /\ pc' = [pc EXCEPT ![t] = "value"] /\ lookup' = lookup
    <2>1. pc'[t] = "value"
      BY <1>1, <1>7
    <2>2. i <= HomeOf(t) + WindowOf(t) + 0
      BY <1>2, <1>7
    <2>3. LooksAt(t, 0, ReadBucket(t) - 1)'
      BY <1>3, <1>4, <1>7, <2>2 DEF LooksAt, ReadBucket
    <2> QED BY <1>1, <1>7, <2>1, <2>3 DEF LookupOK
  <1>8. CASE /\ ~(d > WindowOf(t)) /\ lookup' = [lookup EXCEPT ![t] = r]
             /\ pc' = [pc EXCEPT ![t] = IF BucketOf(i + 1) = BucketOf(i) THEN "scan"
                           ELSE IF d + 1 > WindowOf(t) THEN "check_epochs" ELSE "epoch"]
    <2>1. r \in Reads /\ r.at = i + 1 /\ r.epochs = lookup[t].epochs
      BY <1>2, SMTT(60) DEF Reads
    <2> HIDE DEF r
    <2>2. lookup'[t] = r /\ lookup' \in [Threads -> Reads]
      BY <1>1, <1>8, <2>1
    <2>3. ReadBucket(t)' = ReadBucket(t) /\ lookup'[t].at = i + 1
      BY <1>4, <2>1, <2>2 DEF ReadBucket
    <2>4. HomeOf(t) <= i + 1 /\ i + 1 <= HomeOf(t) + WindowOf(t) + 1
      BY <1>2, <1>3, <1>8
    <2>5. CASE BucketOf(i + 1) = BucketOf(i)
      <3>1. pc'[t] = "scan"
        BY <1>1, <1>8, <2>5
      <3>2. LooksAt(t, 1, ReadBucket(t) - 1)'
        BY <1>3, <1>4, <2>3, <2>4, <2>5 DEF LooksAt
      <3> QED BY <2>2, <3>1, <3>2 DEF LookupOK
    <2>6. CASE BucketOf(i + 1) # BucketOf(i) /\ d + 1 > WindowOf(t)
      <3>1. pc'[t] = "check_epochs"
        BY <1>1, <1>8, <2>6
      <3> QED BY <2>2, <3>1 DEF LookupOK
    <2>7. CASE BucketOf(i + 1) # BucketOf(i) /\ ~(d + 1 > WindowOf(t))
      <3>1. pc'[t] = "epoch"
        BY <1>1, <1>8, <2>7
      <3>2. BucketOf(i + 1) = ReadBucket(t)
        <4>1. BucketOf(i) \in Nat /\ BucketOf(i + 1) = BucketOf(i) + 1
          BY <1>2, <2>7, NextSlot
        <4> QED BY <1>3, <1>5, <4>1
      <3>3. i + 1 <= HomeOf(t) + WindowOf(t) + 0
        BY <1>2, <2>7
      <3>4. LooksAt(t, 0, ReadBucket(t))'
        BY <1>4, <2>3, <2>4, <3>2, <3>3 DEF LooksAt
      <3> QED BY <2>2, <3>1, <3>4 DEF LookupOK
    <2> QED BY <2>5, <2>6, <2>7
  <1>9. \/ pc' = [pc EXCEPT ![t] = "check_epochs"] /\ lookup' = lookup
        \/ ~(d > WindowOf(t)) /\ pc' = [pc EXCEPT ![t] = "value"] /\ lookup' = lookup
        \/ /\ ~(d > WindowOf(t)) /\ lookup' = [lookup EXCEPT ![t] = r]
           /\ pc' = [pc EXCEPT ![t] = IF BucketOf(i + 1) = BucketOf(i) THEN "scan"
                         ELSE IF d + 1 > WindowOf(t) THEN "check_epochs" ELSE "epoch"]
    BY DEF Scan, Goto
  <1> QED BY <1>6, <1>7, <1>8, <1>9

LEMMA FindInside ==
    ASSUME PowerLaw, RHInv, WalkInv, NEW t \in Threads, Find(t), StartedOK(t), hp_' = hp_
    PROVE  lookup' \in [Threads -> Reads] /\ LookupOK(t)'
  <1>0. pc \in [Threads -> Labels] /\ lookup \in [Threads -> Reads] /\ lookup[t] \in Reads
    BY DEF RHInv, Typed, WalkInv
  <1>1. CASE CheckHp(t)
    <2>1. pc[t] = "check_hp" /\ lookup' = lookup /\ pc'[t] \in {"start", "scan"}
      BY <1>0, <1>1 DEF CheckHp, Goto
    <2>2. HomeOf(t)' = HomeOf(t) /\ WindowOf(t)' = WindowOf(t)
      BY <1>1, LookupMoved DEF Find
    <2>3. /\ HomeOf(t) <= lookup[t].at /\ lookup[t].at <= HomeOf(t) + WindowOf(t) + 0
          /\ BucketOf(lookup[t].at) = ReadBucket(t) - 1
      BY <2>1 DEF WalkInv, LookupOK, LooksAt
    <2>4. HomeOf(t) \in Nat /\ WindowOf(t) \in Nat /\ lookup[t].at \in Nat
      BY <1>0, <2>1, CallFacts DEF Reads
    <2>5. lookup[t].at <= HomeOf(t) + WindowOf(t) + 1
      BY <2>3, <2>4
    <2>6. LooksAt(t, 1, ReadBucket(t) - 1)'
      BY <2>1, <2>2, <2>3, <2>5 DEF LooksAt, ReadBucket
    <2> QED BY <1>0, <2>1, <2>6 DEF LookupOK
  <1>2. CASE Value(t)
    <2>1. pc[t] = "value" /\ pc'[t] = "check_epochs"
      BY <1>0, <1>2 DEF Value, Goto
    <2>2. lookup[t].at \in DOMAIN table
      <3>1. HomeOf(t) \in Nat /\ WindowOf(t) \in Nat /\ lookup[t].at \in Nat
        BY <1>0, <2>1, CallFacts DEF Reads
      <3>2. lookup[t].at <= HomeOf(t) + WindowOf(t) + 0
        BY <2>1 DEF WalkInv, LookupOK, LooksAt
      <3>3. lookup[t].at <= HomeOf(t) + WindowOf(t) + 1
        BY <3>1, <3>2
      <3> QED BY <2>1, <3>1, <3>3, InsideTable
    <2>3. table[lookup[t].at] \in EntryRecords \cup {Empty}
      BY <2>2, Basics
    <2> DEFINE v == IF table[lookup[t].at] = Empty THEN Empty ELSE table[lookup[t].at].val
    <2>4. v \in Results \cup {Empty}
      BY <2>3 DEF Results, EntryRecords
    <2>5. lookup' = [lookup EXCEPT ![t].got = v]
      BY <1>2 DEF Value
    <2> HIDE DEF v
    <2>6. [lookup[t] EXCEPT !.got = v] \in Reads
      BY <1>0, <2>4 DEF Reads
    <2>7. lookup' \in [Threads -> Reads]
      BY <1>0, <2>5, <2>6
    <2> QED BY <2>1, <2>7 DEF LookupOK
  <1>3. CASE CheckEpochs(t)
    <2> DEFINE n == Len(lookup[t].epochs)
               s == SubSeq(lookup[t].epochs, 1, n - 1)
    <2>1. /\ pc[t] = "check_epochs"
          /\ \/ pc' = [pc EXCEPT ![t] = "start"] /\ lookup' = lookup
             \/ pc' = [pc EXCEPT ![t] = "return"] /\ lookup' = lookup
             \/ pc' = pc /\ lookup' = [lookup EXCEPT ![t].epochs = s]
      BY <1>3 DEF CheckEpochs, Goto
    <2>2. pc'[t] \in {"start", "return", "check_epochs"}
      BY <1>0, <2>1
    <2>3. lookup[t].epochs \in Seq(Nat) /\ s \in Seq(Nat)
      <3> DEFINE q == lookup[t].epochs
      <3>1. q \in Seq(Nat)
        BY <1>0 DEF Reads
      <3> HIDE DEF q
      <3>2. Len(q) - 1 \in Int /\ SubSeq(q, 1, Len(q) - 1) \in Seq(Nat)
        BY <3>1
      <3> QED BY <3>1, <3>2 DEF q
    <2> HIDE DEF s
    <2>4. [lookup[t] EXCEPT !.epochs = s] \in Reads
      BY <1>0, <2>3 DEF Reads
    <2>5. lookup' \in [Threads -> Reads]
      BY <1>0, <2>1, <2>4
    <2> QED BY <2>2, <2>5 DEF LookupOK
  <1> QED BY <1>1, <1>2, <1>3, EpochInside, ScanInside DEF Find

LEMMA NextInside ==
    PowerLaw /\ RHInv /\ RHInv' /\ OrderInv /\ SmallWindows /\ WalkInv /\ [Next]_vars => WalkInv'
  <1> SUFFICES ASSUME PowerLaw, RHInv, RHInv', OrderInv, SmallWindows, WalkInv, [Next]_vars
               PROVE  WalkInv'
    OBVIOUS
  <1>1. CASE UNCHANGED vars
    <2>1. UNCHANGED <<hp_, locks, pc, todo, walk, lookup>>
      BY <1>1 DEF vars, shared
    <2> QED BY <2>1 DEF WalkInv, StartedOK, LookupOK, LooksAt, ReadBucket, HomeOf, WindowOf, Key, Call,
                        BucketIds
  <1>2. ASSUME NEW t \in Threads, Begin(t) \/ Step(t) PROVE WalkInv'
    <2>1. 2^hp_ <= 2^hp_' /\ BucketIds \subseteq BucketIds' /\ (Grow(t) \/ hp_' = hp_)
      BY <1>2, TablesGrow
    <2>2. /\ lookup \in [Threads -> Reads] /\ StartedOK(t) /\ todo \in [Threads -> Seq(CallRecords)]
          /\ pc \in [Threads -> Labels] /\ 2^hp_' \in Nat
      BY DEF WalkInv, RHInv, Typed, SizesOK
    <2>3. /\ lookup' \in [Threads -> Reads] /\ StartedOK(t)' /\ LookupOK(t)'
          /\ pc'[t] = "lock_all" => walk'[t].bucket \in BucketIds'
          /\ \A u \in Threads \ {t} : lookup'[u] = lookup[u] /\ todo'[u] = todo[u]
      <3>1. CASE Begin(t)
        <4>1. pc'[t] = "start" /\ lookup' = lookup /\ todo' = todo
          BY <2>2, <3>1 DEF Begin, Goto
        <4> QED BY <2>2, <4>1 DEF StartedOK, LookupOK
      <3>2. CASE Return(t)
        <4>1. /\ pc'[t] = "idle" /\ lookup' = [lookup EXCEPT ![t] = NoRead]
              /\ todo' = [todo EXCEPT ![t] = Tail(@)]
          BY <2>2, <3>2 DEF Return, Goto
        <4>2. NoRead \in Reads
          BY DEF NoRead, Reads, Results
        <4>3. lookup' \in [Threads -> Reads]
          BY <2>2, <4>1, <4>2
        <4>4. \A u \in Threads \ {t} : lookup'[u] = lookup[u] /\ todo'[u] = todo[u]
          BY <2>2, <4>1
        <4> QED BY <4>1, <4>3, <4>4 DEF StartedOK, LookupOK
      <3>3. CASE Start(t)
        BY <3>3, StartInside
      <3>4. CASE Find(t)
        <4>1. hp_' = hp_
          BY <3>4 DEF Find, Epoch, CheckHp, Scan, Value, CheckEpochs, shared
        <4> QED BY <2>2, <3>4, <4>1, LookupMoved, FindInside
      <3>5. CASE Write(t) \/ Double(t)
        BY <2>1, <2>2, <3>5, OwnInside
      <3> QED BY <1>2, <3>1, <3>2, <3>3, <3>4, <3>5 DEF Step
    <2>4. \A u \in Threads \ {t} : /\ StartedOK(u)' /\ LookupOK(u)'
                                   /\ pc'[u] = "lock_all" => walk'[u].bucket \in BucketIds'
      BY <1>2, <2>1, <2>2, <2>3, OthersInside
    <2> QED BY <2>3, <2>4 DEF WalkInv
  <1> QED BY <1>1, <1>2 DEF Next, Finished

LEMMA InsideInvariant == PowerLaw => (Spec /\ []AsExpected => []WalkInv)
  <1> SUFFICES ASSUME PowerLaw PROVE Spec /\ []AsExpected => []WalkInv
    OBVIOUS
  <1>1. Init => WalkInv
    BY InitInside
  <1>2. RHInv /\ RHInv' /\ OrderInv /\ AsExpected /\ WalkInv /\ [Next]_vars => WalkInv'
    BY NextInside DEF AsExpected
  <1> QED BY <1>1, <1>2, LocksInvariant, OrderInvariant, PTL DEF Spec

\* No walk, path, shift or lookup leaves the table, whatever doublings it has
\* missed: nothing but the folded homes keeps it inside (365-370).
THEOREM InsideTheTable == PowerLaw => (Spec /\ []AsExpected => []WalksStayInside)
  <1> SUFFICES ASSUME PowerLaw PROVE Spec /\ []AsExpected => []WalksStayInside
    OBVIOUS
  <1>1. RHInv /\ OrderInv /\ WalkInv => WalksStayInside
    BY InsideIsInside
  <1> QED BY <1>1, LocksInvariant, OrderInvariant, InsideInvariant, PTL DEF Spec

-----------------------------------------------------------------------------
\* The promises of module ConcurrentMap.  Of the content only the pairs of
\* keys and values matter that are stored, wherever they are.
Stored(tab) == {<<tab[x].key, tab[x].val>> : x \in Entries(tab)}

Finding(t) == pc[t] # "idle" /\ Call(t).op = "find"

LegalOK(t) ==
    /\ legal[t] \subseteq Results
    /\ legal[t] # {} <=> Finding(t)
    /\ Finding(t) => Contents[Key(t)] \in legal[t]

\* A writer has its answer from the step on that takes effect.
Decided(t) ==
    pc[t] = "return" \/ (pc[t] = "release" /\ walk[t].go = "return") \/ Heading(t, "shift")

Reading == {"epoch", "check_hp", "scan", "value", "check_epochs"}

AnswerOK(t) ==
    /\ walk[t].answer # Empty <=> Decided(t) /\ Call(t).op # "find"
    /\ pc[t] \in Reading => Call(t).op = "find"
    /\ pc[t] = "release" /\ walk[t].go = "return" => Call(t).op # "find"
    /\ pc[t] = "return" /\ Call(t).op = "find" => lookup[t].got \in legal[t]

\* The buckets whose epochs a lookup still has, and whether one stands: then
\* nothing has changed in the bucket since.
Known(t) == HomeBucket(t)..ReadBucket(t) - 1
EpochRead(t, b) == lookup[t].epochs[b - HomeBucket(t) + 1]
Stands(t, b) == locks[b].epoch = EpochRead(t, b)

EpochsOK(t) ==
    /\ \A b \in Known(t) :
          b \in BucketIds /\ EpochRead(t, b) % 2 = 0 /\ EpochRead(t, b) <= locks[b].epoch
    /\ pc[t] \notin {"epoch", "check_hp"} \/ (pc[t] = "epoch" /\ lookup[t].epochs # <<>>) =>
          HomeBucket(t) \in Known(t) /\ (Stands(t, HomeBucket(t)) => hp_ = walk[t].seen)
    /\ pc[t] = "check_hp" => HomeBucket(t) \in Known(t)

\* The slots before the one a lookup is at hold other keys, while their
\* epochs stand; so what it has found is right if all of them do.
SeenOK(t) ==
    /\ pc[t] # "check_epochs" =>
          /\ lookup[t].got = Absent
          /\ \A j \in HomeOf(t)..lookup[t].at - 1 :
                BucketOf(j) \in Known(t)
                   /\ (Stands(t, BucketOf(j)) => table[j] # Empty /\ table[j].key # Key(t))
    /\ pc[t] = "value" /\ Stands(t, BucketOf(lookup[t].at)) =>
          table[lookup[t].at] # Empty /\ table[lookup[t].at].key = Key(t)
    /\ pc[t] = "check_epochs" /\ (\A b \in Known(t) : Stands(t, b)) => lookup[t].got \in legal[t]

ReadingOK(t) == pc[t] \in Reading => EpochsOK(t) /\ SeenOK(t)

PromiseInv ==
    /\ legal \in [Threads -> SUBSET Results]
    /\ \A t \in Threads : LegalOK(t) /\ AnswerOK(t) /\ ReadingOK(t)

LEMMA ContentIsStored ==
    ASSUME NEW n \in Nat, NEW tab \in Tables(n), KeysOnce(tab), NEW k \in Keys
    PROVE  /\ \A v : <<k, v>> \in Stored(tab) => ContentsOf(tab)[k] = v
           /\ (\A v : <<k, v>> \notin Stored(tab)) => ContentsOf(tab)[k] = Absent
  <1> DEFINE at == {x \in Entries(tab) : tab[x].key = k}
  <1>1. ContentsOf(tab)[k] = CASE at = {} -> Absent
                               [] Cardinality(at) = 1 -> tab[CHOOSE i \in at : TRUE].val
                               [] OTHER -> Empty
    BY DEF ContentsOf
  <1>2. ASSUME NEW v, <<k, v>> \in Stored(tab) PROVE ContentsOf(tab)[k] = v
    <2>1. PICK x \in Entries(tab) : tab[x].key = k /\ tab[x].val = v
      BY <1>2 DEF Stored
    <2>2. at = {x}
      BY <2>1 DEF KeysOnce
    <2>3. Cardinality(at) = 1 /\ at # {}
      BY <2>2, FS_Singleton
    <2>4. (CHOOSE i \in at : TRUE) = x
      BY <2>2
    <2> HIDE DEF at
    <2> QED BY <1>1, <2>1, <2>3, <2>4
  <1>3. ASSUME \A v : <<k, v>> \notin Stored(tab) PROVE ContentsOf(tab)[k] = Absent
    <2>1. at = {}
      <3> SUFFICES ASSUME NEW x \in Entries(tab), tab[x].key = k PROVE FALSE
        OBVIOUS
      <3>1. <<k, tab[x].val>> \in Stored(tab)
        BY DEF Stored
      <3> QED BY <1>3, <3>1
    <2>2. Cardinality(at) # 1
      BY <2>1, FS_EmptySet
    <2> HIDE DEF at
    <2> QED BY <1>1, <2>1, <2>2
  <1> QED BY <1>2, <1>3

\* The key of an entry has its value, a key of no entry none.
LEMMA ContentOfEntries ==
    ASSUME NEW n \in Nat, NEW tab \in Tables(n), KeysOnce(tab), NEW k \in Keys
    PROVE  /\ \A x \in Entries(tab) : tab[x].key = k => ContentsOf(tab)[k] = tab[x].val
           /\ (\A x \in Entries(tab) : tab[x].key # k) => ContentsOf(tab)[k] = Absent
  <1>1. ASSUME NEW x \in Entries(tab), tab[x].key = k PROVE <<k, tab[x].val>> \in Stored(tab)
    BY <1>1 DEF Stored
  <1>2. ASSUME \A x \in Entries(tab) : tab[x].key # k, NEW v PROVE <<k, v>> \notin Stored(tab)
    BY <1>2 DEF Stored
  <1> QED BY <1>1, <1>2, ContentIsStored

LEMMA ContentTyped ==
    ASSUME NEW n \in Nat, NEW tab \in Tables(n), KeysOnce(tab)
    PROVE  ContentsOf(tab) \in [Keys -> Results]
  <1>1. ASSUME NEW k \in Keys PROVE ContentsOf(tab)[k] \in Results
    <2>1. CASE \E x \in Entries(tab) : tab[x].key = k
      <3>1. PICK x \in Entries(tab) : tab[x].key = k
        BY <2>1
      <3>2. tab[x].val \in Vals
        BY EntryFacts DEF EntryRecords
      <3> QED BY <3>1, <3>2, ContentOfEntries DEF Results
    <2>2. CASE \A x \in Entries(tab) : tab[x].key # k
      BY <2>2, ContentOfEntries DEF Results
    <2> QED BY <2>1, <2>2
  <1>2. ContentsOf(tab) = [k \in Keys |-> ContentsOf(tab)[k]]
    BY DEF ContentsOf
  <1> QED BY <1>1, <1>2

\* One key gets a value or loses it, the others keep theirs.
OneChanged(tab, new, k) == \A c \in Keys \ {k} : \A v : <<c, v>> \in Stored(new) <=> <<c, v>> \in Stored(tab)

LEMMA ContentChanged ==
    ASSUME NEW n \in Nat, NEW tab \in Tables(n), KeysOnce(tab),
           NEW m \in Nat, NEW new \in Tables(m), KeysOnce(new), NEW k \in Keys, OneChanged(tab, new, k)
    PROVE  /\ \A v : <<k, v>> \in Stored(new) => ContentsOf(new) = [ContentsOf(tab) EXCEPT ![k] = v]
           /\ (\A v : <<k, v>> \notin Stored(new)) =>
                  ContentsOf(new) = [ContentsOf(tab) EXCEPT ![k] = Absent]
  <1>1. ContentsOf(new) \in [Keys -> Results] /\ ContentsOf(tab) \in [Keys -> Results]
    BY ContentTyped
  <1>2. ASSUME NEW c \in Keys \ {k} PROVE ContentsOf(new)[c] = ContentsOf(tab)[c]
    <2>1. CASE \E v : <<c, v>> \in Stored(tab)
      <3>1. PICK v : <<c, v>> \in Stored(tab)
        BY <2>1
      <3>2. <<c, v>> \in Stored(new)
        BY <3>1 DEF OneChanged
      <3> QED BY <3>1, <3>2, ContentIsStored
    <2>2. CASE \A v : <<c, v>> \notin Stored(tab)
      <3>1. \A v : <<c, v>> \notin Stored(new)
        BY <2>2 DEF OneChanged
      <3> QED BY <2>2, <3>1, ContentIsStored
    <2> QED BY <2>1, <2>2
  <1>3. ASSUME NEW v, ContentsOf(new)[k] = v PROVE ContentsOf(new) = [ContentsOf(tab) EXCEPT ![k] = v]
    BY <1>1, <1>2, <1>3
  <1> QED BY <1>3, ContentIsStored

LEMMA ContentKept ==
    ASSUME NEW n \in Nat, NEW tab \in Tables(n), KeysOnce(tab),
           NEW m \in Nat, NEW new \in Tables(m), KeysOnce(new), Stored(new) = Stored(tab)
    PROVE  ContentsOf(new) = ContentsOf(tab)
  <1>1. ContentsOf(new) \in [Keys -> Results] /\ ContentsOf(tab) \in [Keys -> Results]
    BY ContentTyped
  <1>2. ASSUME NEW c \in Keys PROVE ContentsOf(new)[c] = ContentsOf(tab)[c]
    BY ContentIsStored
  <1> QED BY <1>1, <1>2

\* The same pairs in other slots.
LEMMA StoredByMoves ==
    ASSUME NEW tab, NEW new,
           \A x \in Entries(new) : \E y \in Entries(tab) : new[x].key = tab[y].key /\ new[x].val = tab[y].val,
           \A y \in Entries(tab) : \E x \in Entries(new) : new[x].key = tab[y].key /\ new[x].val = tab[y].val
    PROVE  Stored(new) = Stored(tab)
  BY DEF Stored

\* What displacing, shifting back and taking out do to the pairs.
LEMMA PutStores ==
    ASSUME NEW n \in Nat, NEW tab \in Tables(n), NEW i \in Nat, NEW e \in EntryRecords,
           NEW F, F = FreeFrom(tab, i), F # n, NEW P, P = Put(tab, i, e)
    PROVE  Stored(P) = Stored(tab) \cup {<<e.key, e.val>>}
  <1>1. /\ P \in Tables(n) /\ F \in 0..n - 1 /\ i <= F /\ tab[F] = Empty
        /\ \A y \in i..F - 1 : y \in Entries(tab)
        /\ \A k \in 0..n - 1 : P[k] = Empty => tab[k] = Empty /\ k \notin i..F
        /\ \A x \in 0..n - 1 : x \notin i..F => P[x] = tab[x]
        /\ \A x \in i..F : \/ P[x].key = e.key /\ P[x].val = e.val
                           \/ \E y \in i..F - 1 : P[x].key = tab[y].key /\ P[x].val = tab[y].val
    BY PutWhere, SMTT(60)
  <1>2. /\ DOMAIN tab = 0..n - 1 /\ DOMAIN P = 0..n - 1
        /\ \A x \in 0..n - 1 : (tab[x] # Empty <=> x \in Entries(tab)) /\ (P[x] # Empty <=> x \in Entries(P))
        /\ Entries(tab) \subseteq 0..n - 1 /\ Entries(P) \subseteq 0..n - 1
    BY <1>1, EntryFacts
  <1>3. {What(P, x) : x \in i..F} =
            {<<e.key, e.val, i - e.dist>>} \cup {What(tab, x) : x \in i..F - 1}
    BY PutKeeps
  <1>4. \A x \in i..F : x \in 0..n - 1 /\ x \in Entries(P)
    BY <1>1, <1>2
  <1>5. ASSUME NEW x \in Entries(P)
        PROVE  <<P[x].key, P[x].val>> \in Stored(tab) \cup {<<e.key, e.val>>}
    <2>1. CASE x \in i..F
      <3>1. CASE P[x].key = e.key /\ P[x].val = e.val
        BY <3>1
      <3>2. CASE \E y \in i..F - 1 : P[x].key = tab[y].key /\ P[x].val = tab[y].val
        <4>1. PICK y \in i..F - 1 : P[x].key = tab[y].key /\ P[x].val = tab[y].val
          BY <3>2
        <4>2. y \in Entries(tab)
          BY <1>1
        <4> QED BY <4>1, <4>2 DEF Stored
      <3> QED BY <1>1, <2>1, <3>1, <3>2
    <2>2. CASE x \notin i..F
      <3>1. P[x] = tab[x] /\ x \in Entries(tab)
        BY <1>1, <1>2, <2>2
      <3> QED BY <3>1 DEF Stored
    <2> QED BY <2>1, <2>2
  <1>6. ASSUME NEW k, NEW v, NEW d, <<k, v, d>> \in {What(P, x) : x \in i..F}
        PROVE  <<k, v>> \in Stored(P)
    <2>1. PICK x \in i..F : <<k, v, d>> = What(P, x)
      BY <1>6
    <2>2. k = P[x].key /\ v = P[x].val
      BY <2>1 DEF What
    <2> QED BY <1>4, <2>2 DEF Stored
  <1>7. <<e.key, e.val>> \in Stored(P)
    BY <1>3, <1>6
  <1>8. ASSUME NEW x \in Entries(tab) PROVE <<tab[x].key, tab[x].val>> \in Stored(P)
    <2>1. CASE x \in i..F - 1
      <3>1. What(tab, x) \in {What(P, y) : y \in i..F}
        BY <1>3, <2>1
      <3> QED BY <1>6, <3>1 DEF What
    <2>2. CASE x \notin i..F - 1
      <3>1. x \in 0..n - 1 /\ tab[x] # Empty
        BY <1>2
      <3>2. x \notin i..F
        BY <1>1, <2>2, <3>1
      <3>3. P[x] = tab[x] /\ x \in Entries(P)
        BY <1>1, <1>2, <3>1, <3>2
      <3> QED BY <3>3 DEF Stored
    <2> QED BY <2>1, <2>2
  <1> QED BY <1>5, <1>7, <1>8 DEF Stored

LEMMA ShiftedStores ==
    ASSUME NEW n \in Nat, NEW tab \in Tables(n), NEW new \in Tables(n), NEW p \in Nat, NEW e \in Nat,
           p <= e, Shifted(n, tab, new, p, e)
    PROVE  Stored(new) = Stored(tab)
  <1> USE DEF Shifted
  <1>0. /\ Entries(tab) \subseteq 0..n - 1 /\ Entries(new) \subseteq 0..n - 1
        /\ \A x \in 0..n - 1 : (tab[x] # Empty <=> x \in Entries(tab)) /\ (new[x] # Empty <=> x \in Entries(new))
    BY EntryFacts
  <1>1. ASSUME NEW x \in Entries(new)
        PROVE  \E y \in Entries(tab) : new[x].key = tab[y].key /\ new[x].val = tab[y].val
    <2>1. CASE x \in p - 1..e - 2
      <3>1. x + 1 \in p..e - 1
        BY <2>1
      <3>2. x + 1 \in Entries(tab)
        BY <1>0, <3>1, RobinHoodAssumption
      <3> QED BY <2>1, <3>2
    <2>2. CASE x \notin p - 1..e - 2
      <3>1. x \in 0..n - 1 /\ x # e - 1
        BY <1>0
      <3>2. x \notin p - 1..e - 1
        BY <2>2, <3>1
      <3>3. new[x] = tab[x]
        BY <3>1, <3>2
      <3> QED BY <1>0, <3>1, <3>3
    <2> QED BY <2>1, <2>2
  <1>2. ASSUME NEW y \in Entries(tab)
        PROVE  \E x \in Entries(new) : new[x].key = tab[y].key /\ new[x].val = tab[y].val
    <2>0. y \in 0..n - 1 /\ tab[y] # Empty /\ y # p - 1
      BY <1>0
    <2>1. CASE y \in p..e - 1
      <3>1. y - 1 \in p - 1..e - 2 /\ y - 1 + 1 = y /\ y - 1 \in 0..n - 1
        BY <2>0, <2>1
      <3>2. new[y - 1] # Empty /\ new[y - 1].key = tab[y].key /\ new[y - 1].val = tab[y].val
        BY <3>1
      <3>3. y - 1 \in Entries(new)
        BY <1>0, <3>1, <3>2
      <3> QED BY <3>2, <3>3
    <2>2. CASE y \notin p..e - 1
      <3>1. y \notin p - 1..e - 1
        BY <2>0, <2>2
      <3>2. new[y] = tab[y]
        BY <2>0, <3>1
      <3> QED BY <1>0, <2>0, <3>2
    <2> QED BY <2>1, <2>2
  <1> QED BY <1>1, <1>2, StoredByMoves

LEMMA RemovedStores ==
    ASSUME NEW n \in Nat, NEW tab \in Tables(n), NEW p \in 0..n - 1,
           NEW new \in Tables(n), new[p] = Empty, \A x \in 0..n - 1 : x # p => new[x] = tab[x]
    PROVE  Stored(new) = {<<tab[x].key, tab[x].val>> : x \in Entries(tab) \ {p}}
  <1>1. Entries(new) = Entries(tab) \ {p}
    BY Removed
  <1>2. \A x \in Entries(tab) \ {p} : new[x] = tab[x]
    BY EntryFacts
  <1> QED BY <1>1, <1>2 DEF Stored

-----------------------------------------------------------------------------
\* What the steps do to the content.
LEMMA FoundContent ==
    ASSUME RHInv, OrderInv, OrderInv', NEW t \in Threads, Found(t)
    PROVE  /\ Contents[Key(t)] # Absent
           /\ Contents' = [Contents EXCEPT ![Key(t)] =
                              IF Call(t).op = "insert" THEN Contents[Key(t)] ELSE Call(t).val]
  <1> DEFINE p == walk[t].pos
             k == Key(t)
             n == 2^hp_
  <1>1. pc[t] = "equal" /\ pc[t] # "idle"
    BY DEF Found
  <1>2. p \in DOMAIN table /\ table[p] \in EntryRecords /\ table[p].key = k /\ k \in Keys
    BY <1>1, EqualFacts, CallFacts DEF OrderInv, PathOK
  <1>3. table \in Tables(n) /\ n \in Nat /\ KeysOnce(table) /\ KeysOnce(table')
    BY SizesBasics DEF OrderInv
  <1>4. p \in Entries(table) /\ table[p].val \in Vals
    BY <1>2, RobinHoodAssumption DEF Entries, EntryRecords
  <1>5. Contents[k] = table[p].val /\ Contents[k] # Absent
    BY <1>2, <1>3, <1>4, ContentOfEntries, RobinHoodAssumption DEF Contents
  <1>6. Contents \in [Keys -> Results]
    BY <1>3, ContentTyped DEF Contents
  <1>7. CASE Call(t).op = "insert"
    <2>1. Contents' = Contents
      BY <1>7 DEF Found, Contents
    <2> QED BY <1>5, <1>6, <1>7, <2>1
  <1>8. CASE Call(t).op # "insert"
    <2> DEFINE new == table'
               v == Call(t).val
               e == [table[p] EXCEPT !.val = v]
    <2>1. v \in Vals
      <3>1. Call(t).op # "find" /\ Call(t).op # "erase"
        BY <1>1 DEF Found, RHInv, OwnOK, Under
      <3> QED BY <1>1, <3>1, CallFacts
    <2>2. e \in EntryRecords /\ e.key = k /\ e.val = v /\ e # Empty
      <3>1. e \in EntryRecords /\ e.key = k /\ e.val = v
        BY <1>2, <2>1 DEF EntryRecords
      <3> QED BY <3>1, RobinHoodAssumption
    <2>3. new = [table EXCEPT ![p] = e]
      BY <1>8 DEF Found
    <2> HIDE DEF e, n, p, k, v, new
    <2>4. /\ new \in Tables(n) /\ new[p] = e /\ \A x \in DOMAIN table : x # p => new[x] = table[x]
          /\ DOMAIN new = DOMAIN table
      BY <1>2, <1>3, <2>2, <2>3 DEF Tables
    <2>5. Entries(new) = Entries(table)
      BY <1>2, <1>4, <2>2, <2>4 DEF Entries
    <2>6. \A x \in Entries(table) : x \in DOMAIN table /\ (table[x].key = k => x = p)
      BY <1>2, <1>3, <1>4 DEF KeysOnce, Entries
    <2>7. OneChanged(table, new, k)
      <3> SUFFICES ASSUME NEW c \in Keys \ {k}, NEW u
                   PROVE  <<c, u>> \in Stored(new) <=> <<c, u>> \in Stored(table)
        BY DEF OneChanged
      <3>1. ASSUME NEW x \in Entries(table) PROVE table[x].key = c <=> new[x].key = c
        BY <1>2, <2>2, <2>4, <2>6
      <3>2. ASSUME NEW x \in Entries(table), table[x].key = c PROVE table[x] = new[x]
        BY <1>2, <2>4, <2>6, <3>2
      <3> QED BY <2>5, <3>1, <3>2 DEF Stored
    <2>8. <<k, v>> \in Stored(new)
      BY <1>4, <2>2, <2>4, <2>5 DEF Stored
    <2>9. ContentsOf(new) = [ContentsOf(table) EXCEPT ![k] = v]
      <3>1. KeysOnce(new)
        BY <1>3 DEF new
      <3>2. k \in Keys
        BY <1>2
      <3> QED BY <1>3, <2>4, <2>7, <2>8, <3>1, <3>2, ContentChanged
    <2> QED BY <1>5, <1>8, <2>9 DEF Contents, k, v, new
  <1> QED BY <1>7, <1>8

\* A key that no entry had is put into the table.
LEMMA PutContent ==
    ASSUME RHInv, OrderInv, OrderInv', NEW t \in Threads, pc[t] # "idle",
           NEW p \in Nat, NEW e \in EntryRecords, e.key = Key(t), e.val = Call(t).val,
           FreeFrom(table, p) \in DOMAIN table, table' = Put(table, p, e),
           \A x \in Entries(table) : table[x].key # Key(t)
    PROVE  /\ Contents[Key(t)] = Absent
           /\ Contents' = [Contents EXCEPT ![Key(t)] = Call(t).val]
  <1> DEFINE k == Key(t)
             v == Call(t).val
             n == 2^hp_
             new == table'
             F == FreeFrom(table, p)
  <1>1. /\ table \in Tables(n) /\ n \in Nat /\ DOMAIN table = 0..n - 1 /\ KeysOnce(table) /\ KeysOnce(new)
        /\ k \in Keys
    BY SizesBasics, CallFacts DEF OrderInv
  <1>2. F # n
    BY <1>1
  <1> HIDE DEF n
  <1>3. Stored(new) = Stored(table) \cup {<<e.key, e.val>>} /\ new \in Tables(n)
    BY <1>1, <1>2, PutStores, PutFacts
  <1> HIDE DEF new, k, v, F
  <1>4. e.key = k /\ e.val = v
    BY DEF k, v
  <1>5. OneChanged(table, new, k) /\ <<k, v>> \in Stored(new)
    BY <1>3, <1>4 DEF OneChanged
  <1>6. ContentsOf(new) = [ContentsOf(table) EXCEPT ![k] = v]
    BY <1>1, <1>3, <1>5, ContentChanged
  <1>7. ContentsOf(table)[k] = Absent
    BY <1>1, ContentOfEntries DEF k
  <1> QED BY <1>6, <1>7 DEF Contents, k, v, new

LEMMA AddContent ==
    ASSUME PowerLaw, RHInv, RHInv', OrderInv, NEW t \in Threads, Add(t) \/ MovePath(t)
    PROVE  /\ Contents[Key(t)] = Absent
           /\ Contents' = [Contents EXCEPT ![Key(t)] = Call(t).val]
  <1> DEFINE p == walk[t].pos
             e == Entry(Key(t), Call(t).val, p - HomeOf(t))
  <1>1. OrderInv' /\ \A x \in Entries(table) : table[x].key # Key(t)
    BY AddOrder, MovePathOrder, SMTT(60)
  <1>2. /\ pc[t] # "idle" /\ Call(t).op \in Inserts /\ p \in Nat /\ HomeOf(t) <= p
    BY WalkFacts, EqualFacts DEF Add, MovePath, RHInv, SlotsOK
  <1>3. e \in EntryRecords /\ e.key = Key(t) /\ e.val = Call(t).val
    BY <1>2, NewEntry DEF Entry
  <1>4. FreeFrom(table, p) \in DOMAIN table /\ table' = Put(table, p, e)
    <2>1. CASE MovePath(t)
      <3>1. table' = Put(table, p, e)
        BY <2>1 DEF MovePath
      <3> QED BY <2>1, <3>1, PathIsOwned
    <2>2. CASE Add(t)
      <3>1. table' = [table EXCEPT ![p] = e]
        BY <2>2 DEF Add
      <3>2. p \in DOMAIN table /\ table[p] = Empty
        BY <2>2, EqualFacts DEF Add
      <3>3. 2^hp_ \in Nat /\ table \in Tables(2^hp_) /\ p \in 0..2^hp_ - 1
        BY <3>2, SizesBasics
      <3> HIDE DEF e, p
      <3>4. FreeFrom(table, p) = p /\ Put(table, p, e) = [table EXCEPT ![p] = e]
        BY <1>3, <3>2, <3>3, PutInFree
      <3> QED BY <3>1, <3>2, <3>4
    <2> QED BY <2>1, <2>2
  <1> HIDE DEF p, e
  <1> QED BY <1>1, <1>2, <1>3, <1>4, PutContent

LEMMA EraseContent ==
    ASSUME RHInv, OrderInv, OrderInv', NEW t \in Threads, Erase(t)
    PROVE  /\ Contents[Key(t)] # Absent
           /\ Contents' = [Contents EXCEPT ![Key(t)] = Absent]
  <1> DEFINE p == walk[t].pos
             k == Key(t)
             n == 2^hp_
             new == table'
  <1>1. pc[t] = "equal" /\ pc[t] # "idle" /\ new = [table EXCEPT ![p] = Empty]
    BY DEF Erase
  <1>2. p \in DOMAIN table /\ table[p] \in EntryRecords /\ table[p].key = k /\ k \in Keys
    BY <1>1, EqualFacts, CallFacts DEF OrderInv, PathOK
  <1>3. /\ table \in Tables(n) /\ n \in Nat /\ DOMAIN table = 0..n - 1
        /\ KeysOnce(table) /\ KeysOnce(new)
    BY SizesBasics DEF OrderInv
  <1>4. p \in Entries(table) /\ table[p].val \in Vals
    BY <1>2, RobinHoodAssumption DEF Entries, EntryRecords
  <1>5. Contents[k] # Absent
    BY <1>2, <1>3, <1>4, ContentOfEntries, RobinHoodAssumption DEF Contents
  <1> HIDE DEF n, p, k, new
  <1>6. p \in 0..n - 1 /\ new \in Tables(n) /\ new[p] = Empty /\ \A x \in 0..n - 1 : x # p => new[x] = table[x]
    BY <1>1, <1>2, <1>3 DEF Tables
  <1>7. Stored(new) = {<<table[x].key, table[x].val>> : x \in Entries(table) \ {p}}
    BY <1>3, <1>6, RemovedStores
  <1>8. \A x \in Entries(table) \ {p} : table[x].key # k
    BY <1>2, <1>3, <1>4 DEF KeysOnce
  <1>9. OneChanged(table, new, k)
    <2> SUFFICES ASSUME NEW c \in Keys \ {k}, NEW u
                 PROVE  <<c, u>> \in Stored(new) <=> <<c, u>> \in Stored(table)
      BY DEF OneChanged
    <2> QED BY <1>2, <1>7 DEF Stored
  <1>10. \A v : <<k, v>> \notin Stored(new)
    BY <1>7, <1>8
  <1>11. ContentsOf(new) = [ContentsOf(table) EXCEPT ![k] = Absent]
    BY <1>2, <1>3, <1>6, <1>9, <1>10, ContentChanged
  <1> QED BY <1>5, <1>11 DEF Contents, k, new

LEMMA ShiftContent ==
    ASSUME RHInv, OrderInv, OrderInv', NEW t \in Threads, Shift(t)
    PROVE  Contents' = Contents
  <1>1. PICK e : e = ShiftEnd(t)
    OBVIOUS
  <1> DEFINE n == 2^hp_
             p == walk[t].pos
             new == table'
  <1>2. Shifted(n, table, new, p, e) /\ new \in Tables(n) /\ p \in Nat /\ e \in Nat /\ p <= e
    BY <1>1, ShiftIsShifted
  <1>3. table \in Tables(n) /\ n \in Nat /\ KeysOnce(table) /\ KeysOnce(new)
    BY SizesBasics DEF OrderInv
  <1> HIDE DEF n, p, new
  <1>4. Stored(new) = Stored(table)
    BY <1>2, <1>3, ShiftedStores
  <1>5. ContentsOf(new) = ContentsOf(table)
    BY <1>2, <1>3, <1>4, ContentKept
  <1> QED BY <1>5 DEF Contents, new

LEMMA GrowContent ==
    ASSUME PowerLaw, RHInv, RHInv', OrderInv, OrderInv', NEW t \in Threads, Grow(t)
    PROVE  Contents' = Contents
  <1> DEFINE N == 2^hp_
             n == 2^(hp_ + 1)
             new == table'
  <1>1. new = [i \in 0..n - 1 |-> IF i \in DOMAIN table THEN table[i] ELSE Empty] /\ hp_' = hp_ + 1
    BY DEF Grow
  <1>2. hp_ \in Nat /\ N \in Nat /\ n = 2 * N /\ DOMAIN table = 0..N - 1 /\ table \in Tables(N)
    BY SizesBasics DEF PowerLaw
  <1>3. KeysOnce(table) /\ KeysOnce(new)
    BY DEF OrderInv
  <1>4. new \in Tables(n)
    <2>1. table' \in Tables(2^hp_')
      BY DEF RHInv, Typed
    <2> QED BY <1>1, <2>1
  <1>5. \A i \in DOMAIN table : i \in 0..n - 1
    <2> HIDE DEF N, n
    <2> QED BY <1>2
  <1> HIDE DEF n, N, new
  <1>6. Entries(new) = Entries(table) /\ \A x \in Entries(table) : new[x] = table[x]
    BY <1>1, <1>5 DEF Entries
  <1>7. Stored(new) = Stored(table)
    BY <1>6 DEF Stored
  <1>8. n \in Nat
    BY <1>2
  <1>9. ContentsOf(new) = ContentsOf(table)
    BY <1>2, <1>3, <1>4, <1>7, <1>8, ContentKept
  <1> QED BY <1>9 DEF Contents, new

\* A walk that has met neither its key nor a free slot of its own making finds
\* the key nowhere.
LEMMA AbsentWhenNotFound ==
    ASSUME RHInv, OrderInv, NEW t \in Threads, pc[t] \in {"out_of_window", "not_occupied", "less_dist"},
           Call(t).op \notin Inserts
    PROVE  Contents[Key(t)] = Absent
  <1> DEFINE h == HomeOf(t)
             k == Key(t)
             n == 2^hp_
  <1>1. pc[t] \in Under /\ pc[t] # "idle"
    BY DEF Under
  <1>2. /\ walk[t].seen = hp_ /\ h = Home(k, hp_) /\ WindowOf(t) = Window(hp_)
        /\ Rising(table) /\ KeysOnce(table) /\ Housed(table, hp_)
        /\ \A x \in DOMAIN table : BucketOf(x) \in walk[t].own /\ Gap(table, x) => pc[t] = "shift"
    BY <1>1, OwnerSees
  <1>3. table \in Tables(n) /\ n \in Nat /\ k \in Keys /\ h \in Nat /\ WindowOf(t) \in Nat
    BY <1>1, SizesBasics, CallFacts
  <1>4. PICK x \in Nat : /\ Passed(t, x)
                         /\ \A y \in Entries(table) : y >= x /\ table[y].key = k => FALSE
    <2>1. CASE pc[t] = "out_of_window"
      <3>1. PICK x \in Nat : x - h > WindowOf(t) /\ Passed(t, x)
        BY <2>1 DEF OrderInv, PathOK
      <3>2. ASSUME NEW y \in Entries(table), y >= x, table[y].key = k PROVE FALSE
        <4>1. From(table, y) = h /\ table[y].dist <= WindowOf(t) /\ y \in Nat /\ table[y].dist \in Nat
          BY <1>2, <1>3, <3>2, EntryFacts DEF Housed
        <4> HIDE DEF h
        <4> QED BY <1>3, <3>1, <3>2, <4>1 DEF From
      <3> QED BY <3>1, <3>2
    <2>2. CASE pc[t] = "less_dist"
      <3> DEFINE p == walk[t].pos
      <3>1. Passed(t, p) /\ table[p] # Empty /\ From(table, p) > h /\ BucketOf(p) \in walk[t].own /\ p \in Nat
        BY <2>2, WalkFacts DEF OrderInv, PathOK, Heading
      <3>2. p \in Entries(table)
        BY <3>1, OwnedSlots DEF Entries
      <3>3. ASSUME NEW y \in Entries(table), y >= p, table[y].key = k PROVE FALSE
        <4>1. From(table, y) = h /\ y \in Nat /\ From(table, p) \in Int
          BY <1>2, <1>3, <3>2, <3>3, EntryFacts DEF Housed
        <4>2. p < y => From(table, p) <= From(table, y)
          BY <1>2, <3>2 DEF Rising
        <4> HIDE DEF h, p
        <4> QED BY <1>3, <3>1, <3>3, <4>1, <4>2
      <3> QED BY <3>1, <3>3
    <2>3. CASE pc[t] = "not_occupied"
      <3> DEFINE p == walk[t].pos
      <3>1. Passed(t, p) /\ p \in Nat
        BY <2>3, WalkFacts DEF OrderInv, PathOK, Stops
      <3>2. p \in DOMAIN table /\ BucketOf(p) \in walk[t].own /\ table[p] = Empty /\ h <= p
        BY <2>3, EqualFacts
      <3>3. ASSUME NEW y \in Entries(table), y >= p, table[y].key = k PROVE FALSE
        <4>1. From(table, y) = h /\ y \in Nat /\ table[y] # Empty
          BY <1>2, <1>3, <3>3, EntryFacts DEF Housed, Entries
        <4>2. p < y
          BY <3>1, <3>2, <3>3, <4>1
        <4>3. Gap(table, p)
          BY <3>2, <4>1, <4>2 DEF Gap
        <4> QED BY <1>2, <2>3, <3>2, <4>3
      <3> QED BY <3>1, <3>3
    <2> QED BY <2>1, <2>2, <2>3
  <1>5. ASSUME NEW y \in Entries(table), table[y].key = k PROVE FALSE
    <2>1. From(table, y) = h /\ y \in Nat /\ From(table, y) <= y
      BY <1>2, <1>3, <1>5, EntryFacts DEF Housed
    <2>2. y < x
      BY <1>4, <1>5, <2>1
    <2>3. y \in h..x - 1
      <3> HIDE DEF h
      <3> QED BY <1>3, <1>4, <2>1, <2>2
    <2> QED BY <1>4, <1>5, <2>3 DEF Passed
  <1> QED BY <1>2, <1>3, <1>5, ContentOfEntries DEF Contents

\* A doubling moves entries back and on, and keeps them.
LEMMA MoveNearContent ==
    ASSUME PowerLaw, RHInv, RHInv', OrderInv, OrderInv', AsExpected, NEW t \in Threads, MoveNear(t)
    PROVE  Contents' = Contents
  <1>0. PICK old, q, f, h, b, n : /\ old = walk[t].seen /\ q = At(t) /\ f = walk[t].free /\ h = NewHome(t)
                                  /\ b = (IF h > q - f THEN h ELSE q - f) /\ n = 2^(old + 1)
    OBVIOUS
  <1> DEFINE e == [Here(t) EXCEPT !.dist = b - h]
             new == [table EXCEPT ![b] = e, ![q] = Empty]
  <1>1. /\ Spreading(t) /\ pc[t] = "spread" /\ q < 2^old /\ Here(t) # Empty /\ Here(t) = table[q]
        /\ h <= q /\ f > 0 /\ table' = new
    BY <1>0 DEF MoveNear, Spreading, Here, NewHome, Rearrange
  <1>2. q \in Entries(table) /\ table[q] \in EntryRecords /\ h \in Nat
    BY <1>0, <1>1, HereFacts, SpreadFacts
  <1>3. /\ old \in Nat /\ hp_ = old + 1 /\ table \in Tables(n) /\ q \in Nat /\ f \in Nat
        /\ Halfway(table, old, q, f) /\ KeysOnce(table) /\ KeysOnce(table') /\ n \in Nat
    BY <1>0, <1>1, SpreadSees, Powers DEF OrderInv
  <1>4. f <= q /\ \A x \in q - f..q - 1 : table[x] = Empty
    BY <1>3 DEF Halfway
  <1>5. DOMAIN table = 0..n - 1 /\ q \in 0..n - 1 /\ table[q] # Empty
    BY <1>2, <1>3, EntryFacts DEF Entries
  <1>6. b \in Nat /\ b <= q /\ (b = q \/ b \in q - f..q - 1) /\ b \in 0..n - 1 /\ h <= b
    <2>1. CASE h > q - f
      <3>1. b = h
        BY <1>0, <2>1
      <3> QED BY <1>1, <1>2, <1>3, <1>4, <1>5, <2>1, <3>1
    <2>2. CASE ~(h > q - f)
      <3>1. b = q - f
        BY <1>0, <2>2
      <3> QED BY <1>1, <1>2, <1>3, <1>4, <1>5, <2>2, <3>1
    <2> QED BY <2>1, <2>2
  <1>7. /\ e \in EntryRecords /\ e.key = table[q].key /\ e.val = table[q].val /\ e # Empty
    <2>1. b - h \in Nat
      BY <1>2, <1>6
    <2>2. e \in EntryRecords /\ e.key = table[q].key /\ e.val = table[q].val
      BY <1>1, <1>2, <2>1 DEF EntryRecords
    <2> QED BY <2>2, RobinHoodAssumption
  <1>8. b # q
    <2>1. CASE b = q
      <3>1. q = h
        BY <1>0, <1>1, <1>3, <2>1
      <3>2. table[q].dist # 0 /\ h = Home(table[q].key, old + 1)
        BY <1>0, <1>1, <1>3 DEF MoveNear, NewHome, Here
      <3>3. /\ Wide(old) /\ Within(table, Window(old + 1)) /\ table \in Tables(2^(old + 1))
        BY <1>0, <1>1, SpreadSees
      <3>4. From(table, q) = h
        BY <1>2, <1>3, <3>1, <3>2, <3>3, HalfwayFacts
      <3>5. table[q].dist \in Nat
        BY <1>2 DEF EntryRecords
      <3> QED BY <1>3, <3>1, <3>2, <3>4, <3>5 DEF From
    <2> QED BY <2>1
  <1> HIDE DEF e
  <1>9. /\ new \in Tables(n) /\ new[b] = e /\ new[q] = Empty
        /\ \A x \in 0..n - 1 : x # b /\ x # q => new[x] = table[x]
    BY <1>3, <1>5, <1>6, <1>7, <1>8 DEF Tables
  <1> HIDE DEF new
  <1>10. table[b] = Empty
    BY <1>4, <1>6, <1>8
  <1>11. /\ Entries(table) \subseteq 0..n - 1 /\ Entries(new) \subseteq 0..n - 1
         /\ \A x \in 0..n - 1 : (table[x] # Empty <=> x \in Entries(table)) /\ (new[x] # Empty <=> x \in Entries(new))
    BY <1>3, <1>9, EntryFacts
  <1>12. Stored(new) = Stored(table)
    <2>1. ASSUME NEW x \in Entries(new)
          PROVE  \E y \in Entries(table) : new[x].key = table[y].key /\ new[x].val = table[y].val
      BY <1>2, <1>7, <1>9, <1>11
    <2>2. ASSUME NEW y \in Entries(table)
          PROVE  \E x \in Entries(new) : new[x].key = table[y].key /\ new[x].val = table[y].val
      <3>1. CASE y = q
        <4>1. b \in Entries(new)
          BY <1>6, <1>7, <1>9, <1>11
        <4> QED BY <1>7, <1>9, <3>1, <4>1
      <3>2. CASE y # q
        <4>1. y # b /\ y \in 0..n - 1
          BY <1>10, <1>11
        <4> QED BY <1>9, <1>11, <3>2, <4>1
      <3> QED BY <3>1, <3>2
    <2> QED BY <2>1, <2>2, StoredByMoves
  <1>13. ContentsOf(new) = ContentsOf(table)
    BY <1>1, <1>3, <1>9, <1>12, ContentKept
  <1> QED BY <1>1, <1>13 DEF Contents

LEMMA MoveFarContent ==
    ASSUME PowerLaw, RHInv, RHInv', OrderInv, OrderInv', AsExpected, NEW t \in Threads, MoveFar(t)
    PROVE  Contents' = Contents
  <1>0. PICK old, q, f, h, n : /\ old = walk[t].seen /\ q = At(t) /\ f = walk[t].free /\ h = NewHome(t)
                               /\ n = 2^(old + 1)
    OBVIOUS
  <1>1. CASE WindowIsFull(t)
    BY <1>1 DEF MoveFar, Contents, shared
  <1>2. CASE ~WindowIsFull(t)
    <2> DEFINE e == Entry(table[q].key, table[q].val, 0)
               P == Put(table, h, e)
               new == [P EXCEPT ![q] = Empty]
               F == FreeFrom(table, h)
    <2>1. /\ Spreading(t) /\ pc[t] = "spread" /\ q < 2^old /\ Here(t) # Empty /\ Here(t) = table[q]
          /\ q < h /\ h \in Nat /\ table' = new /\ h = Home(table[q].key, hp_)
      BY <1>0, <1>2, SpreadFacts DEF MoveFar, Spreading, Here, NewHome, Rearrange, PutFar
    <2>2. q \in Entries(table) /\ table[q] \in EntryRecords
      BY <1>0, <2>1, HereFacts
    <2>3. /\ old \in Nat /\ Wide(old) /\ hp_ = old + 1 /\ table \in Tables(n) /\ table \in Tables(2^(old + 1))
          /\ q \in Nat /\ f \in Nat /\ KeysOnce(table) /\ KeysOnce(table') /\ n \in Nat
          /\ Halfway(table, old, q, f) /\ Within(table, Window(old + 1))
      BY <1>0, <2>1, SpreadSees, Powers DEF OrderInv
    <2>4. e \in EntryRecords /\ e.key = table[q].key /\ e.val = table[q].val
      BY <2>2 DEF Entry, EntryRecords
    <2>5. F # n
      <3> DEFINE N == 2^old
      <3>1. N \in Nat \ {0} /\ n = 2 * N /\ 2 * N - 1 \notin Entries(table)
        BY <1>0, <2>3, HalfwayFacts
      <3>2. h < N + N
        <4>1. table[q].key \in Keys
          BY <2>2 DEF EntryRecords
        <4>2. Home(table[q].key, old + 1) + Window(old + 1) < 2^(old + 1) - 1
          <5>1. 2^(old + 1) >= 2 * MaxWindow
            BY <2>3 DEF OrderInv
          <5> QED BY <2>3, <4>1, <5>1, HomesLeaveRoom DEF Wide
        <4>3. Window(old + 1) \in Nat
          BY <2>3 DEF Window
        <4> HIDE DEF N
        <4> QED BY <1>0, <2>1, <2>3, <3>1, <4>2, <4>3
      <3> HIDE DEF N
      <3>3. 2 * N - 1 \in 0..n - 1 /\ 2 * N - 1 >= h /\ 2 * N - 1 # n
        BY <2>1, <3>1, <3>2
      <3>4. table[2 * N - 1] = Empty
        BY <2>3, <3>1, <3>3, EntryFacts
      <3>5. F <= 2 * N - 1
        BY <2>1, <2>3, <3>3, <3>4, FreeFromFacts
      <3> HIDE DEF F
      <3> QED BY <2>3, <3>1, <3>5
    <2> HIDE DEF e
    <2>6. /\ Stored(P) = Stored(table) \cup {<<e.key, e.val>>} /\ P \in Tables(n) /\ F \in 0..n - 1 /\ h <= F
          /\ \A x \in 0..n - 1 : x \notin h..F => P[x] = table[x]
      BY <2>1, <2>3, <2>4, <2>5, PutStores, PutWhere
    <2>7. \E x \in h..F : x \in Entries(P) /\ P[x].key = e.key /\ P[x].val = e.val
      <3>1. <<e.key, e.val, h - e.dist>> \in {What(P, x) : x \in h..F}
        <4>1. {What(P, x) : x \in h..F} =
                  {<<e.key, e.val, h - e.dist>>} \cup {What(table, x) : x \in h..F - 1}
          BY <2>1, <2>3, <2>4, <2>5, PutKeeps
        <4> QED BY <4>1
      <3>2. PICK x \in h..F : <<e.key, e.val, h - e.dist>> = What(P, x)
        BY <3>1
      <3>3. P[x] # Empty /\ x \in 0..n - 1
        <4>1. \A k \in 0..n - 1 : P[k] = Empty => k \notin h..F
          BY <2>1, <2>3, <2>4, <2>5, PutWhere
        <4>2. x \in 0..n - 1
          <5> HIDE DEF F
          <5> QED BY <2>1, <2>3, <2>6
        <4> QED BY <4>1, <4>2
      <3>4. x \in Entries(P)
        BY <2>3, <2>6, <3>3, EntryFacts
      <3> QED BY <3>2, <3>4 DEF What
    <2>8. q \in 0..n - 1 /\ table[q] # Empty /\ q \notin h..F
      <3>1. q \in 0..n - 1 /\ table[q] # Empty
        BY <2>2, <2>3, EntryFacts DEF Entries
      <3> QED BY <2>1, <3>1
    <2> HIDE DEF P, F
    <2>9. /\ new \in Tables(n) /\ new[q] = Empty /\ \A x \in 0..n - 1 : x # q => new[x] = P[x]
      BY <2>6, <2>8 DEF Tables
    <2> HIDE DEF new
    <2>10. Stored(new) = {<<P[x].key, P[x].val>> : x \in Entries(P) \ {q}}
      BY <2>3, <2>6, <2>8, <2>9, RemovedStores
    <2>11. P[q] = table[q]
      BY <2>6, <2>8
    <2>12. Stored(new) = Stored(P)
      <3>1. PICK z \in Entries(P) : z # q /\ P[z].key = e.key /\ P[z].val = e.val
        BY <2>7, <2>8
      <3>2. <<P[q].key, P[q].val>> = <<P[z].key, P[z].val>>
        BY <2>4, <2>11, <3>1
      <3> QED BY <2>10, <3>1, <3>2 DEF Stored
    <2>13. Stored(P) = Stored(table)
      <3>1. <<e.key, e.val>> \in Stored(table)
        BY <2>2, <2>4 DEF Stored
      <3> QED BY <2>6, <3>1
    <2>14. ContentsOf(new) = ContentsOf(table)
      BY <2>1, <2>3, <2>9, <2>12, <2>13, ContentKept
    <2> QED BY <2>1, <2>14 DEF Contents
  <1> QED BY <1>1, <1>2

-----------------------------------------------------------------------------
\* What a step leaves of the calls and the answers of the threads.
LEMMA OthersLook ==
    ASSUME RHInv, WalkInv, NEW t \in Threads, Begin(t) \/ Step(t), NEW u \in Threads \ {t}
    PROVE  /\ pc'[u] = pc[u] /\ walk'[u] = walk[u] /\ todo'[u] = todo[u] /\ lookup'[u] = lookup[u]
           /\ CallOf(u)' = CallOf(u) /\ AnswerOf(u)' = AnswerOf(u)
  <1>0. /\ lookup \in [Threads -> Reads] /\ todo \in [Threads -> Seq(CallRecords)]
        /\ pc \in [Threads -> Labels]
    BY DEF RHInv, Typed, WalkInv
  <1>1. todo'[u] = todo[u] /\ lookup'[u] = lookup[u]
    <2>1. CASE Write(t) \/ Double(t)
      BY <2>1, OwnSteps
    <2>2. CASE Find(t)
      BY <1>0, <2>2 DEF Find, Epoch, CheckHp, Scan, Value, CheckEpochs
    <2>3. CASE Begin(t) \/ Start(t) \/ Return(t)
      BY <1>0, <2>3 DEF Begin, Start, Return
    <2> QED BY <2>1, <2>2, <2>3 DEF Step
  <1>2. pc'[u] = pc[u] /\ walk'[u] = walk[u]
    BY OthersStay
  <1> QED BY <1>1, <1>2 DEF CallOf, AnswerOf, Call

\* The steps of writers and doublings that neither take effect nor end a call.
Effective(t) == Found(t) \/ NotFound(t) \/ Add(t) \/ MovePath(t) \/ Erase(t)

LEMMA UndecidedSteps ==
    ASSUME RHInv, NEW t \in Threads, Write(t) \/ Double(t), ~Effective(t)
    PROVE  /\ walk'[t].answer = walk[t].answer /\ (Decided(t)' <=> Decided(t)) /\ legal' = legal
           /\ pc[t] # "return" /\ pc'[t] # "idle" /\ pc'[t] # "check_epochs"
  <1> USE DEF Goto
  <1>0. /\ pc \in [Threads -> Labels] /\ walk \in [Threads -> WalkRecords] /\ walk[t] \in WalkRecords
        /\ walk[t].go \in Labels
    BY WalkFacts DEF RHInv, Typed
  <1>1. CASE LockFirst(t)
    BY <1>0, <1>1 DEF LockFirst, WalkRecords, Decided, Heading
  <1>2. CASE LockNext(t)
    <2>1. pc[t] = "lock_next" /\ walk[t].go \in {"probe", "less_dist", "shift"}
      BY <1>2 DEF LockNext, RHInv, OwnOK
    <2> QED BY <1>0, <1>2, <2>1 DEF LockNext, WalkRecords, Decided, Heading
  <1>3. CASE Probe(t)
    <2> DEFINE b == walk[t].bucket
               status(i) == Status(table, Key(t), i, i - HomeOf(t), walk[t].seen)
               stops == {i \in SlotsOf(b) : i >= HomeOf(t) /\ status(i) # "next"}
    <2>1. pc[t] \in Under /\ pc[t] = "probe" /\ legal' = legal
      BY <1>3 DEF Probe, Under
    <2>2. stops \in SUBSET Nat /\ HomeOf(t) \in Nat /\ walk[t].seen \in Nat
      BY <2>1, UnderFacts, CallFacts, WalkFacts
    <2>4. CASE stops # {}
      <3>1. PICK m : m = Min(stops)
        OBVIOUS
      <3>2. pc' = [pc EXCEPT ![t] = status(m)] /\ walk' = [walk EXCEPT ![t].pos = m]
        BY <1>3, <2>4, <3>1 DEF Probe
      <3>3. m \in Nat
        <4> HIDE DEF stops
        <4> QED BY <2>2, <2>4, <3>1, MinIsLeast
      <3>4. status(m) \in {"out_of_window", "not_occupied", "less_dist", "equal", "next"}
        <4>1. m - HomeOf(t) \in Int
          BY <2>2, <3>3
        <4> QED BY <2>2, <4>1, StatusCases
      <3> HIDE DEF status, stops
      <3>5. walk'[t].answer = walk[t].answer /\ walk'[t].go = walk[t].go
        BY <1>0, <3>2 DEF WalkRecords
      <3>6. pc'[t] \in {"out_of_window", "not_occupied", "less_dist", "equal", "next"}
        BY <1>0, <3>2, <3>4
      <3> QED BY <2>1, <3>5, <3>6 DEF Decided, Heading
    <2>5. CASE stops = {}
      <3>1. \/ pc' = [pc EXCEPT ![t] = "out_of_window"] /\ walk' = walk
            \/ /\ pc' = [pc EXCEPT ![t] = "lock_next"]
               /\ walk' = [walk EXCEPT ![t].bucket = @ + 1, ![t].go = "probe"]
        BY <1>3, <2>5 DEF Probe, ToNextBucket
      <3> QED BY <1>0, <2>1, <3>1 DEF WalkRecords, Decided, Heading
    <2> QED BY <2>4, <2>5
  <1>4. CASE Release(t)
    <2>1. pc[t] = "release" /\ walk[t].go \in {"start", "return", "lock_all"} /\ legal' = legal
      BY <1>4 DEF Release, RHInv, OwnOK
    <2>2. PICK b \in walk[t].own :
              /\ walk' = [walk EXCEPT ![t].own = @ \ {b}, ![t].bucket = 0]
              /\ pc' = [pc EXCEPT ![t] = IF walk[t].own = {b} THEN walk[t].go ELSE "release"]
      BY <1>4 DEF Release
    <2> QED BY <1>0, <2>1, <2>2 DEF WalkRecords, Decided, Heading
  <1>6. CASE FindPath(t)
    BY <1>0, <1>6 DEF FindPath, ToNextBucket, WalkRecords, Decided, Heading
  <1>8. CASE Shift(t)
    <2>1. pc[t] = "shift" /\ legal' = legal
      BY <1>8 DEF Shift
    <2>2. PICK e : \/ /\ walk' = [walk EXCEPT ![t].go = "return"]
                      /\ pc' = [pc EXCEPT ![t] = "release"]
                   \/ /\ walk' = [walk EXCEPT ![t].bucket = @ + 1, ![t].pos = e, ![t].go = "shift"]
                      /\ pc' = [pc EXCEPT ![t] = "lock_next"]
      BY <1>8 DEF Shift, StartRelease
    <2> QED BY <1>0, <2>1, <2>2 DEF WalkRecords, Decided, Heading
  <1>9. CASE RehashRequired(t) \/ DoubleRaced(t) \/ Doubled(t)
    BY <1>0, <1>9 DEF RehashRequired, DoubleRaced, Doubled, StartRelease, WalkRecords, Decided, Heading
  <1>10. CASE LockAll(t)
    BY <1>0, <1>10 DEF LockAll, WalkRecords, Decided, Heading
  <1>12. CASE Grow(t)
    BY <1>0, <1>12 DEF Grow, WalkRecords, Decided, Heading
  <1>11. CASE SkipFree(t) \/ Stay(t) \/ MoveNear(t) \/ MoveFar(t)
    <2>1. pc[t] = "spread" /\ legal' = legal
      BY <1>11 DEF SkipFree, Stay, MoveNear, MoveFar, Rearrange, Spreading
    <2>2. pc' = pc \/ pc' = [pc EXCEPT ![t] = "lock_all"]
      BY <1>11 DEF SkipFree, Stay, MoveNear, MoveFar, Rearrange
    <2>3. PICK f : \/ walk' = [walk EXCEPT ![t].pos = @ + 1, ![t].free = f]
                   \/ walk' = [walk EXCEPT ![t].bucket = 0]
      BY <1>11 DEF SkipFree, Stay, MoveNear, MoveFar, Rearrange
    <2> QED BY <1>0, <2>1, <2>2, <2>3 DEF WalkRecords, Decided, Heading
  <1> QED BY <1>1, <1>2, <1>3, <1>4, <1>6, <1>8, <1>9, <1>10, <1>11, <1>12 DEF Write, Double, Effective

-----------------------------------------------------------------------------
\* What a step does to buckets nobody has locked: epochs only rise, and while
\* one stays no slot of its bucket changes and the table does not grow.
Calm ==
    /\ hp_' = hp_ \/ \A b \in BucketIds : Locked(b)
    /\ \A b \in BucketIds :
          /\ b \in BucketIds' /\ locks[b].epoch <= locks'[b].epoch
          /\ ~Locked(b) /\ locks'[b].epoch = locks[b].epoch =>
                \A i \in SlotsOf(b) : table'[i] = table[i]

LEMMA OwnedIsLocked ==
    ASSUME RHInv, NEW t \in Threads, NEW b \in walk[t].own
    PROVE  b \in BucketIds /\ Locked(b)
  BY DEF RHInv, LocksOK

LEMMA EpochFacts ==
    ASSUME RHInv
    PROVE  /\ \A b \in BucketIds : locks[b].epoch \in Nat /\ locks[b] \in LockRecords
           /\ locks \in [BucketIds -> LockRecords]
           /\ \A b \in BucketIds : \A i \in SlotsOf(b) : i \in DOMAIN table /\ BucketOf(i) = b
  <1>1. locks \in [BucketIds -> LockRecords] /\ \A b \in BucketIds : locks[b] \in LockRecords
    BY DEF RHInv, Typed, BucketIds
  <1>2. \A b \in BucketIds : \A i \in SlotsOf(b) : i \in DOMAIN table /\ BucketOf(i) = b
    <2>1. Slots \in Nat \ {0}
      BY DEF RHInv, SizesOK
    <2>2. \A b \in BucketIds : b \in Nat /\ SlotsOf(b) \subseteq DOMAIN table
      BY Basics
    <2> QED BY <2>1, <2>2, SlotFacts
  <1>3. \A b \in BucketIds : locks[b].epoch \in Nat
    BY <1>1 DEF LockRecords
  <1> QED BY <1>1, <1>2, <1>3

\* The owner changes slots and counters.
LEMMA OwnerIsCalm ==
    ASSUME RHInv, NEW t \in Threads, hp_' = hp_, BucketIds' = BucketIds,
           \A b \in BucketIds : locks'[b].epoch = locks[b].epoch,
           \A i \in DOMAIN table : BucketOf(i) \notin walk[t].own => table'[i] = table[i]
    PROVE  Calm
  <1>1. ASSUME NEW b \in BucketIds, ~Locked(b), NEW i \in SlotsOf(b)
        PROVE  table'[i] = table[i]
    <2>1. i \in DOMAIN table /\ BucketOf(i) = b
      BY EpochFacts
    <2>2. b \notin walk[t].own
      BY <1>1, OwnedIsLocked
    <2> QED BY <2>1, <2>2
  <1>2. \A b \in BucketIds : locks[b].epoch <= locks'[b].epoch
    BY EpochFacts
  <1> QED BY <1>1, <1>2 DEF Calm

\* No slot changes, and one epoch rises if any.
LEMMA LockingIsCalm ==
    ASSUME RHInv, hp_' = hp_, table' = table, BucketIds' = BucketIds,
           NEW b, NEW r, locks' = [locks EXCEPT ![b] = r], b \in BucketIds => locks[b].epoch <= r.epoch
    PROVE  Calm
  <1>1. ASSUME NEW c \in BucketIds
        PROVE  locks[c].epoch <= locks'[c].epoch
    <2>1. locks'[c] = IF c = b THEN r ELSE locks[c]
      BY EpochFacts
    <2> QED BY <2>1, EpochFacts
  <1> QED BY <1>1 DEF Calm

LEMMA QuietIsCalm ==
    ASSUME RHInv, UNCHANGED shared
    PROVE  Calm
  <1>1. UNCHANGED <<hp_, table, locks>>
    BY DEF shared
  <1> QED BY <1>1, EpochFacts DEF Calm, BucketIds

LEMMA LockersAreCalm ==
    ASSUME RHInv, NEW t \in Threads, LockFirst(t) \/ LockNext(t) \/ LockAll(t) \/ Release(t)
    PROVE  Calm
  <1>1. ASSUME NEW b, LockBucket(t, b), hp_' = hp_, table' = table
        PROVE  Calm
    <2>1. b \in BucketIds /\ locks' = [locks EXCEPT ![b] = [locks[b] EXCEPT !.flag = TRUE, !.epoch = @ + 1]]
      BY <1>1 DEF LockBucket
    <2>2. locks[b].epoch <= [locks[b] EXCEPT !.flag = TRUE, !.epoch = @ + 1].epoch
      BY <2>1, EpochFacts DEF LockRecords
    <2>3. BucketIds' = BucketIds
      BY <2>1 DEF BucketIds
    <2> QED BY <1>1, <2>1, <2>2, <2>3, LockingIsCalm
  <1>2. CASE LockNext(t) \/ LockAll(t)
    BY <1>1, <1>2 DEF LockNext, LockAll
  <1>3. CASE LockFirst(t)
    <2>1. hp_' = hp_ /\ table' = table
      BY <1>3 DEF LockFirst
    <2>2. CASE LockBucket(t, walk[t].bucket)
      BY <1>1, <2>1, <2>2
    <2>3. CASE locks' = [locks EXCEPT ![walk[t].bucket].epoch = @ + 2]
      <3>1. PICK b : b = walk[t].bucket
        OBVIOUS
      <3>2. locks' = [locks EXCEPT ![b] = [locks[b] EXCEPT !.epoch = @ + 2]]
        BY <2>3, <3>1
      <3>3. b \in BucketIds => locks[b].epoch <= [locks[b] EXCEPT !.epoch = @ + 2].epoch
        BY EpochFacts DEF LockRecords
      <3>4. BucketIds' = BucketIds
        BY <3>2 DEF BucketIds
      <3> QED BY <2>1, <3>2, <3>3, <3>4, LockingIsCalm
    <2> QED BY <1>3, <2>2, <2>3 DEF LockFirst
  <1>4. CASE Release(t)
    <2>1. PICK b \in walk[t].own : locks' = [locks EXCEPT ![b].flag = FALSE, ![b].epoch = @ + 1]
      BY <1>4 DEF Release
    <2>2. hp_' = hp_ /\ table' = table
      BY <1>4 DEF Release
    <2>3. locks' = [locks EXCEPT ![b] = [locks[b] EXCEPT !.flag = FALSE, !.epoch = @ + 1]]
      BY <2>1
    <2>4. b \in BucketIds
      BY OwnedIsLocked
    <2>5. locks[b].epoch <= [locks[b] EXCEPT !.flag = FALSE, !.epoch = @ + 1].epoch
      BY <2>4, EpochFacts DEF LockRecords
    <2>6. BucketIds' = BucketIds
      BY <2>3 DEF BucketIds
    <2> QED BY <2>2, <2>3, <2>5, <2>6, LockingIsCalm
  <1> QED BY <1>2, <1>3, <1>4

LEMMA WritersAreCalm ==
    ASSUME RHInv, OrderInv, NEW t \in Threads, Found(t) \/ Add(t) \/ Erase(t) \/ MovePath(t) \/ Shift(t)
    PROVE  Calm
  <1>0. /\ table \in Tables(2^hp_) /\ DOMAIN table = 0..2^hp_ - 1
        /\ \A b \in BucketIds : locks[b].epoch \in Nat /\ locks[b] \in LockRecords
        /\ locks \in [BucketIds -> LockRecords]
    BY EpochFacts, Basics DEF RHInv, Typed
  <1>1. ASSUME NEW b, NEW c, locks' = [locks EXCEPT ![b].count = c]
        PROVE  BucketIds' = BucketIds /\ \A a \in BucketIds : locks'[a].epoch = locks[a].epoch
    BY <1>0, <1>1 DEF BucketIds, LockRecords
  <1>2. CASE Found(t)
    <2>1. BucketOf(walk[t].pos) \in walk[t].own
      BY <1>2, EqualFacts DEF Found
    <2>2. PICK p : p = walk[t].pos
      OBVIOUS
    <2>3. table' = table \/ table' = [table EXCEPT ![p].val = Call(t).val]
      BY <1>2, <2>2 DEF Found
    <2>4. \A i \in DOMAIN table : i # p => table'[i] = table[i]
      BY <2>3
    <2>5. \A i \in DOMAIN table : BucketOf(i) \notin walk[t].own => table'[i] = table[i]
      BY <2>1, <2>2, <2>4
    <2>6. hp_' = hp_ /\ locks' = locks
      BY <1>2 DEF Found
    <2>7. BucketIds' = BucketIds
      BY <2>6 DEF BucketIds
    <2> QED BY <2>5, <2>6, <2>7, OwnerIsCalm
  <1>3. CASE Add(t) \/ Erase(t)
    <2>1. BucketOf(walk[t].pos) \in walk[t].own
      <3>1. pc[t] \in {"equal", "not_occupied"}
        BY <1>3 DEF Add, Erase
      <3> QED BY <3>1, EqualFacts
    <2>2. PICK p : p = walk[t].pos
      OBVIOUS
    <2>3. \E e : table' = [table EXCEPT ![p] = e]
      BY <1>3, <2>2 DEF Add, Erase
    <2>4. \A i \in DOMAIN table : i # p => table'[i] = table[i]
      BY <2>3
    <2>5. \A i \in DOMAIN table : BucketOf(i) \notin walk[t].own => table'[i] = table[i]
      BY <2>1, <2>2, <2>4
    <2>6. hp_' = hp_ /\ \E b, c : locks' = [locks EXCEPT ![b].count = c]
      BY <1>3 DEF Add, Erase
    <2> QED BY <1>1, <2>5, <2>6, OwnerIsCalm
  <1>4. CASE MovePath(t)
    <2>1. PICK F : F = FreeFrom(table, walk[t].pos)
      OBVIOUS
    <2>2. walk[t].pos \in DOMAIN table /\ \A i \in walk[t].pos..F : BucketOf(i) \in walk[t].own
      BY <1>4, <2>1, PathIsOwned
    <2>3. PICK p, e : p = walk[t].pos /\ e = Entry(Key(t), Call(t).val, p - HomeOf(t))
      OBVIOUS
    <2>4. table' = Put(table, p, e) /\ hp_' = hp_ /\ \E b, c : locks' = [locks EXCEPT ![b].count = c]
      BY <1>4, <2>3 DEF MovePath
    <2>5. p \in Nat /\ e \in EntryRecords
      <3>1. pc[t] = "move_path" /\ pc[t] # "idle" /\ Call(t).op \in Inserts
        BY <1>4 DEF MovePath, RHInv, SlotsOK
      <3>2. HomeOf(t) <= walk[t].pos
        BY <3>1 DEF RHInv, SlotsOK
      <3>3. p \in Nat
        BY <2>3, WalkFacts
      <3> QED BY <2>3, <3>1, <3>2, <3>3, NewEntry
    <2>6. 2^hp_ \in Nat
      BY DEF RHInv, SizesOK
    <2>7. \A i \in 0..2^hp_ - 1 : i \notin p..F => table'[i] = table[i]
      BY <1>0, <2>1, <2>3, <2>4, <2>5, <2>6, PutFacts
    <2>8. \A i \in DOMAIN table : BucketOf(i) \notin walk[t].own => table'[i] = table[i]
      BY <1>0, <2>2, <2>3, <2>7
    <2> QED BY <1>1, <2>4, <2>8, OwnerIsCalm
  <1>5. CASE Shift(t)
    <2>1. OnlyOwned(t) /\ LocksKept
      BY <1>5, ShiftDownFacts, ShiftCounts
    <2>2. BucketIds' = BucketIds
      BY <2>1 DEF LocksKept, BucketIds
    <2>3. hp_' = hp_
      BY <1>5 DEF Shift
    <2> QED BY <2>1, <2>2, <2>3, OwnerIsCalm DEF OnlyOwned, LocksKept
  <1> QED BY <1>2, <1>3, <1>4, <1>5

\* Under the locks of all buckets there is nobody to disturb.
LEMMA DoublersAreCalm ==
    ASSUME PowerLaw, RHInv, RHInv', NEW t \in Threads,
           SkipFree(t) \/ Stay(t) \/ MoveNear(t) \/ MoveFar(t) \/ Grow(t)
    PROVE  Calm
  <1>1. CASE UNCHANGED shared
    BY <1>1, QuietIsCalm
  <1>2. ASSUME ~UNCHANGED shared
        PROVE  pc[t] \in {"double", "spread"}
    BY <1>2 DEF SkipFree, Stay, MoveNear, MoveFar, Grow, Spreading
  <1>3. ASSUME ~UNCHANGED shared
        PROVE  \A b \in BucketIds : Locked(b)
    <2>1. walk[t].own = BucketIds
      BY <1>2, <1>3 DEF RHInv, OwnOK
    <2> QED BY <2>1, OwnedIsLocked
  <1>4. ASSUME ~UNCHANGED shared
        PROVE  \A b \in BucketIds : b \in BucketIds' /\ locks'[b].epoch = locks[b].epoch
    <2>1. CASE Grow(t)
      <3>1. locks' = [b \in 0..2^(hp_ + 1 - SlotPow) - 1 |->
                        IF b \in BucketIds THEN locks[b] ELSE [flag |-> TRUE, epoch |-> 1, count |-> 0]]
        BY <2>1 DEF Grow
      <3>2. \E f : locks' = [b \in BucketIds' |-> IF b \in BucketIds THEN locks[b] ELSE f]
        BY <3>1 DEF BucketIds
      <3>3. BucketIds \subseteq BucketIds'
        BY TablesGrow, <2>1 DEF Step, Double
      <3> QED BY <3>2, <3>3
    <2>2. CASE \E tab, f : Rearrange(t, tab, f)
      <3>1. PICK c : locks' = [b \in BucketIds |-> [locks[b] EXCEPT !.count = c[b]]]
        <4>1. PICK tab, f : Rearrange(t, tab, f)
          BY <2>2
        <4> DEFINE g == [b \in BucketIds |->
               locks[b].count + Cardinality(Occupied(table', b)) - Cardinality(Occupied(table, b))]
        <4>2. locks' = [b \in BucketIds |-> [locks[b] EXCEPT !.count = g[b]]]
          BY <4>1 DEF Rearrange
        <4> HIDE DEF g
        <4> QED BY <4>2
      <3>2. BucketIds' = BucketIds
        BY <3>1 DEF BucketIds
      <3>3. \A b \in BucketIds : locks[b] \in LockRecords
        BY EpochFacts
      <3> QED BY <3>1, <3>2, <3>3 DEF LockRecords
    <2> QED BY <1>4, <2>1, <2>2 DEF SkipFree, Stay, MoveNear, MoveFar
  <1> QED BY <1>1, <1>3, <1>4, EpochFacts DEF Calm

LEMMA StepIsCalm ==
    ASSUME PowerLaw, RHInv, RHInv', OrderInv, NEW t \in Threads, Begin(t) \/ Step(t)
    PROVE  Calm
  <1>1. CASE UNCHANGED shared
    BY <1>1, QuietIsCalm
  <1>2. CASE Begin(t) \/ Start(t) \/ Return(t) \/ Find(t)
    BY <1>1, <1>2 DEF Begin, Start, Return, Find, Epoch, CheckHp, Scan, Value, CheckEpochs
  <1>3. CASE Probe(t) \/ NotFound(t) \/ FindPath(t) \/ RehashRequired(t) \/ DoubleRaced(t) \/ Doubled(t)
    BY <1>1, <1>3 DEF Probe, NotFound, FindPath, RehashRequired, DoubleRaced, Doubled
  <1>4. CASE LockFirst(t) \/ LockNext(t) \/ LockAll(t) \/ Release(t)
    BY <1>4, LockersAreCalm
  <1>5. CASE Found(t) \/ Add(t) \/ Erase(t) \/ MovePath(t) \/ Shift(t)
    BY <1>5, WritersAreCalm
  <1>6. CASE SkipFree(t) \/ Stay(t) \/ MoveNear(t) \/ MoveFar(t) \/ Grow(t)
    BY <1>6, DoublersAreCalm
  <1> QED BY <1>2, <1>3, <1>4, <1>5, <1>6 DEF Step, Write, Double

-----------------------------------------------------------------------------
\* What a lookup has seen, while the other threads go on.
LEMMA ReadFacts ==
    ASSUME RHInv, WalkInv, NEW t \in Threads, pc[t] \in Reading
    PROVE  /\ HomeOf(t) \in Nat /\ HomeBucket(t) \in Nat /\ WindowOf(t) \in Nat
           /\ lookup[t].epochs \in Seq(Nat) /\ Len(lookup[t].epochs) \in Nat /\ lookup[t].at \in Nat
           /\ ReadBucket(t) = HomeBucket(t) + Len(lookup[t].epochs)
           /\ Known(t) = HomeBucket(t)..HomeBucket(t) + Len(lookup[t].epochs) - 1
           /\ \A b \in Known(t) : EpochRead(t, b) \in Nat
  <1>1. lookup[t] \in Reads
    BY DEF WalkInv
  <1>2. lookup[t].epochs \in Seq(Nat) /\ lookup[t].at \in Nat
    BY <1>1 DEF Reads
  <1>3. HomeOf(t) \in Nat /\ HomeBucket(t) \in Nat /\ WindowOf(t) \in Nat
    BY CallFacts DEF Reading
  <1>4. ReadBucket(t) = HomeBucket(t) + Len(lookup[t].epochs)
    BY DEF ReadBucket, HomeBucket
  <1>9. Len(lookup[t].epochs) \in Nat
    BY <1>2
  <1>5. Known(t) = HomeBucket(t)..HomeBucket(t) + Len(lookup[t].epochs) - 1
    BY <1>3, <1>4, <1>9 DEF Known
  <1>6. PICK q : q = lookup[t].epochs
    OBVIOUS
  <1>7. PICK h : h = HomeBucket(t)
    OBVIOUS
  <1>8. \A b \in h..h + Len(q) - 1 : q[b - h + 1] \in Nat
    <2>1. q \in Seq(Nat) /\ h \in Nat /\ Len(q) \in Nat
      BY <1>2, <1>3, <1>6, <1>7
    <2> QED BY <2>1
  <1> QED BY <1>2, <1>3, <1>4, <1>5, <1>6, <1>7, <1>8, <1>9 DEF EpochRead

LEMMA StillStands ==
    ASSUME RHInv, RHInv', Calm, WalkInv, NEW u \in Threads, pc[u] \in Reading, EpochsOK(u),
           walk'[u] = walk[u], todo'[u] = todo[u], lookup'[u] = lookup[u],
           NEW b \in Known(u), Stands(u, b)'
    PROVE  /\ Stands(u, b) /\ ~Locked(b) /\ hp_' = hp_
           /\ \A i \in SlotsOf(b) : table'[i] = table[i]
  <1>1. EpochRead(u, b)' = EpochRead(u, b)
    BY DEF EpochRead, HomeBucket, HomeOf, Key, Call
  <1>2. b \in BucketIds /\ EpochRead(u, b) % 2 = 0 /\ EpochRead(u, b) <= locks[b].epoch
    BY DEF EpochsOK
  <1>3. locks[b].epoch <= locks'[b].epoch /\ locks[b].epoch \in Nat /\ locks'[b].epoch = EpochRead(u, b)
    BY <1>1, <1>2, EpochFacts DEF Calm, Stands
  <1>4. EpochRead(u, b) \in Nat
    BY ReadFacts
  <1>5. locks[b].epoch = EpochRead(u, b) /\ locks'[b].epoch = locks[b].epoch
    BY <1>2, <1>3, <1>4
  <1>6. ~Locked(b)
    BY <1>2, <1>5 DEF Locked
  <1> QED BY <1>2, <1>5, <1>6 DEF Calm, Stands

\* What a lookup knows it knows also after a step of another thread.
LEMMA OthersRead ==
    ASSUME RHInv, RHInv', Calm, WalkInv, NEW u \in Threads, ReadingOK(u), pc'[u] = pc[u],
           walk'[u] = walk[u], todo'[u] = todo[u], lookup'[u] = lookup[u],
           legal[u] \subseteq legal'[u]
    PROVE  ReadingOK(u)'
  <1> SUFFICES ASSUME pc[u] \in Reading
               PROVE  EpochsOK(u)' /\ SeenOK(u)'
    BY DEF ReadingOK
  <1>0. EpochsOK(u) /\ SeenOK(u)
    BY DEF ReadingOK
  <1>1. /\ HomeOf(u)' = HomeOf(u) /\ HomeBucket(u)' = HomeBucket(u) /\ Known(u)' = Known(u)
        /\ Key(u)' = Key(u)
        /\ \A b : EpochRead(u, b)' = EpochRead(u, b)
    BY DEF Known, ReadBucket, EpochRead, HomeBucket, HomeOf, Key, Call
  <1>2. ASSUME NEW b \in Known(u), Stands(u, b)'
        PROVE  /\ Stands(u, b) /\ hp_' = hp_
               /\ \A i \in SlotsOf(b) : table'[i] = table[i]
    BY <1>0, <1>2, StillStands
  <1>3. EpochsOK(u)'
    <2>1. ASSUME NEW b \in Known(u)
          PROVE  b \in BucketIds' /\ EpochRead(u, b) % 2 = 0 /\ EpochRead(u, b) <= locks'[b].epoch
      <3>1. b \in BucketIds /\ EpochRead(u, b) % 2 = 0 /\ EpochRead(u, b) <= locks[b].epoch
        BY <1>0 DEF EpochsOK
      <3>2. b \in BucketIds' /\ locks[b].epoch <= locks'[b].epoch
        BY <3>1 DEF Calm
      <3>3. locks[b].epoch \in Nat /\ EpochRead(u, b) \in Nat /\ locks'[b].epoch \in Nat
        <4>1. locks'[b].epoch \in Nat
          BY <3>2 DEF RHInv, Typed, LockRecords, BucketIds
        <4> QED BY <3>1, <4>1, EpochFacts, ReadFacts
      <3> QED BY <3>1, <3>2, <3>3
    <2>2. ASSUME HomeBucket(u) \in Known(u), Stands(u, HomeBucket(u)) => hp_ = walk[u].seen
          PROVE  (Stands(u, HomeBucket(u)))' => hp_' = walk'[u].seen
      <3>1. PICK h : h = HomeBucket(u)
        OBVIOUS
      <3>2. Stands(u, h)' => Stands(u, h) /\ hp_' = hp_
        BY <1>2, <2>2, <3>1
      <3>3. (Stands(u, HomeBucket(u)))' <=> Stands(u, h)'
        BY <1>1, <3>1 DEF Stands, EpochRead
      <3> QED BY <2>2, <3>1, <3>2, <3>3
    <2> QED BY <1>0, <1>1, <2>1, <2>2 DEF EpochsOK
  <1>4. SeenOK(u)'
    <2>1. Slots \in Nat \ {0}
      BY DEF RHInv, SizesOK
    <2>2. ASSUME pc[u] # "check_epochs", NEW j \in HomeOf(u)..lookup[u].at - 1, Stands(u, BucketOf(j))'
          PROVE  table'[j] # Empty /\ table'[j].key # Key(u)
      <3>1. /\ BucketOf(j) \in Known(u)
            /\ Stands(u, BucketOf(j)) => table[j] # Empty /\ table[j].key # Key(u)
        BY <1>0, <2>2 DEF SeenOK
      <3>2. j \in SlotsOf(BucketOf(j))
        <4>1. j \in Int
          BY ReadFacts
        <4> QED BY <2>1, <4>1, SlotFacts
      <3>3. Stands(u, BucketOf(j)) /\ \A i \in SlotsOf(BucketOf(j)) : table'[i] = table[i]
        BY <1>2, <2>2, <3>1
      <3> QED BY <3>1, <3>2, <3>3
    <2>3. ASSUME pc[u] = "value", Stands(u, BucketOf(lookup[u].at))'
          PROVE  table'[lookup[u].at] # Empty /\ table'[lookup[u].at].key = Key(u)
      <3>1. PICK i : i = lookup[u].at
        OBVIOUS
      <3>2. i \in Nat /\ i \in SlotsOf(BucketOf(i))
        <4>1. i \in Nat /\ i \in Int
          BY <3>1, ReadFacts
        <4> QED BY <2>1, <4>1, SlotFacts
      <3>3. BucketOf(i) \in Known(u)
        <4>1. BucketOf(i) = ReadBucket(u) - 1
          BY <2>3, <3>1 DEF WalkInv, LookupOK, LooksAt
        <4>2. HomeBucket(u) \in Known(u)
          BY <1>0, <2>3 DEF EpochsOK
        <4> QED BY <4>1, <4>2, ReadFacts
      <3>4. Stands(u, BucketOf(i))'
        BY <2>3, <3>1 DEF Stands, EpochRead
      <3>5. Stands(u, BucketOf(i)) /\ table'[i] = table[i]
        BY <1>2, <3>2, <3>3, <3>4
      <3>6. table[i] # Empty /\ table[i].key = Key(u)
        BY <1>0, <2>3, <3>1, <3>5 DEF SeenOK
      <3> QED BY <3>1, <3>5, <3>6
    <2>4. ASSUME pc[u] = "check_epochs", \A b \in Known(u) : Stands(u, b)'
          PROVE  lookup'[u].got \in legal'[u]
      <3>1. \A b \in Known(u) : Stands(u, b)
        BY <1>2, <2>4
      <3> QED BY <1>0, <2>4, <3>1 DEF SeenOK
    <2>5. pc[u] # "check_epochs" =>
             /\ lookup[u].got = Absent
             /\ \A j \in HomeOf(u)..lookup[u].at - 1 : BucketOf(j) \in Known(u)
      BY <1>0 DEF SeenOK
    <2> QED BY <1>1, <2>2, <2>3, <2>4, <2>5 DEF SeenOK
  <1> QED BY <1>3, <1>4

-----------------------------------------------------------------------------
\* A lookup none of whose epochs has moved has seen what is there.
LEMMA FreeIsOrdered ==
    ASSUME RHInv, OrderInv, NEW b \in BucketIds, ~Locked(b)
    PROVE  /\ Housed(table, hp_)
           /\ \A k \in DOMAIN table : Gap(table, k) => Locked(BucketOf(k))
  <1>1. \A u \in Threads : ~Doubling(u)
    <2> SUFFICES ASSUME NEW u \in Threads, Doubling(u)
                 PROVE  FALSE
      OBVIOUS
    <2>1. b \in walk[u].own
      BY DoublersOwnAll
    <2> QED BY <2>1, OwnedIsLocked
  <1>2. Housed(table, hp_) /\ \A k \in DOMAIN table : Gap(table, k) => Hole(k)
    BY <1>1 DEF OrderInv, Ordered
  <1>3. ASSUME NEW k \in DOMAIN table, Hole(k)
        PROVE  Locked(BucketOf(k))
    <2>1. PICK u \in Threads : Heading(u, "shift") /\ k = walk[u].pos - 1
      BY <1>3 DEF Hole
    <2>2. BucketOf(k) \in walk[u].own
      BY <2>1, KnownIsOwned
    <2> QED BY <2>2, OwnedIsLocked
  <1> QED BY <1>2, <1>3

\* A key is nowhere if it is not among the slots from its home to one that is
\* out of its window, free but no gap, or holds an entry with a later home.
LEMMA NowhereElse ==
    ASSUME RHInv, OrderInv, Housed(table, hp_), NEW k \in Keys, NEW h \in Nat, h = Home(k, hp_),
           NEW y \in Nat, h <= y, \A j \in h..y - 1 : table[j].key # k,
           \/ y - h > Window(hp_)
           \/ y \in DOMAIN table /\ table[y] = Empty /\ ~Gap(table, y)
           \/ y \in Entries(table) /\ From(table, y) > h
    PROVE  Contents[k] = Absent
  <1>1. /\ table \in Tables(2^hp_) /\ 2^hp_ \in Nat /\ KeysOnce(table) /\ Rising(table)
        /\ Window(hp_) \in Nat
    BY DEF RHInv, SizesOK, Typed, OrderInv, Window
  <1>2. ASSUME NEW x \in Entries(table), table[x].key = k
        PROVE  FALSE
    <2>1. x \in Nat /\ table[x].dist \in Nat /\ table[x] # Empty
      BY <1>1, EntryFacts DEF Entries
    <2>2. From(table, x) = h /\ table[x].dist <= Window(hp_)
      BY <1>2 DEF Housed
    <2>3. h <= x /\ x - h <= Window(hp_)
      BY <2>1, <2>2 DEF From
    <2>4. ~(x < y)
      BY <1>2, <2>1, <2>3
    <2>5. CASE y - h > Window(hp_)
      BY <1>1, <2>1, <2>3, <2>4, <2>5
    <2>6. CASE y \in DOMAIN table /\ table[y] = Empty /\ ~Gap(table, y)
      <3>1. y < x
        BY <2>1, <2>4, <2>6
      <3> QED BY <2>2, <2>6, <3>1 DEF Gap
    <2>7. CASE y \in Entries(table) /\ From(table, y) > h
      <3>1. y < x
        BY <2>1, <2>2, <2>4, <2>7
      <3>2. From(table, y) <= From(table, x) /\ From(table, y) \in Int
        BY <1>1, <2>7, <3>1, EntryFacts DEF Rising
      <3> QED BY <2>2, <2>7, <3>2
    <2> QED BY <2>5, <2>6, <2>7
  <1> QED BY <1>1, <1>2, ContentOfEntries DEF Contents

LEMMA StandingIsFree ==
    ASSUME RHInv, WalkInv, NEW t \in Threads, pc[t] \in Reading, EpochsOK(t),
           NEW b \in Known(t), Stands(t, b)
    PROVE  b \in BucketIds /\ ~Locked(b)
  BY DEF EpochsOK, Stands, Locked

LEMMA ScannedIsAbsent ==
    ASSUME RHInv, OrderInv, WalkInv, PromiseInv, NEW t \in Threads, pc[t] = "scan",
           \A b \in Known(t) : Stands(t, b),
           NEW y \in Nat, HomeOf(t) <= y, \A j \in HomeOf(t)..y - 1 : table[j].key # Key(t),
           \/ y - HomeOf(t) > WindowOf(t)
           \/ /\ y \in DOMAIN table /\ BucketOf(y) \in Known(t)
              /\ table[y] = Empty \/ table[y].dist + 1 < y - HomeOf(t)
    PROVE  Absent \in legal[t]
  <1>1. pc[t] \in Reading /\ EpochsOK(t) /\ LegalOK(t) /\ AnswerOK(t)
    BY DEF PromiseInv, Reading, ReadingOK
  <1>2. HomeBucket(t) \in Known(t) /\ hp_ = walk[t].seen
    BY <1>1 DEF EpochsOK
  <1>3. /\ Housed(table, hp_)
        /\ \A k \in DOMAIN table : Gap(table, k) => Locked(BucketOf(k))
    BY <1>1, <1>2, StandingIsFree, FreeIsOrdered
  <1>4. /\ Key(t) \in Keys /\ HomeOf(t) \in Nat
        /\ HomeOf(t) = Home(Key(t), hp_) /\ WindowOf(t) = Window(hp_)
    BY <1>1, <1>2, CallFacts DEF HomeOf, WindowOf
  <1>5. \/ y - HomeOf(t) > Window(hp_)
        \/ y \in DOMAIN table /\ table[y] = Empty /\ ~Gap(table, y)
        \/ y \in Entries(table) /\ From(table, y) > HomeOf(t)
    <2>1. CASE y - HomeOf(t) > WindowOf(t)
      BY <1>4, <2>1
    <2>2. CASE y \in DOMAIN table /\ BucketOf(y) \in Known(t) /\ table[y] = Empty
      BY <1>1, <1>3, <2>2, StandingIsFree
    <2>3. CASE y \in DOMAIN table /\ table[y] # Empty /\ table[y].dist + 1 < y - HomeOf(t)
      <3>1. y \in Entries(table)
        BY <2>3 DEF Entries
      <3>2. table[y].dist \in Nat
        BY <2>3, Basics DEF EntryRecords
      <3>3. y - table[y].dist > HomeOf(t)
        BY <1>4, <2>3, <3>2
      <3> QED BY <3>1, <3>3 DEF From
    <2> QED BY <2>1, <2>2, <2>3
  <1>6. Contents[Key(t)] = Absent
    <2>1. PICK k, h : k = Key(t) /\ h = HomeOf(t)
      OBVIOUS
    <2>2. k \in Keys /\ h \in Nat /\ h = Home(k, hp_) /\ h <= y /\ \A j \in h..y - 1 : table[j].key # k
      BY <1>4, <2>1
    <2>3. \/ y - h > Window(hp_)
          \/ y \in DOMAIN table /\ table[y] = Empty /\ ~Gap(table, y)
          \/ y \in Entries(table) /\ From(table, y) > h
      BY <1>5, <2>1
    <2>4. Contents[k] = Absent
      BY <1>3, <2>2, <2>3, NowhereElse
    <2> QED BY <2>1, <2>4
  <1>7. Finding(t)
    BY <1>1 DEF AnswerOK, Finding, Reading
  <1> QED BY <1>1, <1>6, <1>7 DEF LegalOK

-----------------------------------------------------------------------------
\* The steps of a lookup.
LEMMA FindLeaves ==
    ASSUME RHInv, WalkInv, NEW t \in Threads, Find(t)
    PROVE  /\ UNCHANGED shared /\ walk' = walk /\ todo' = todo /\ legal' = legal
           /\ pc[t] \in Reading /\ pc \in [Threads -> Labels] /\ lookup \in [Threads -> Reads]
           /\ HomeOf(t)' = HomeOf(t) /\ HomeBucket(t)' = HomeBucket(t)
           /\ WindowOf(t)' = WindowOf(t) /\ Key(t)' = Key(t) /\ Call(t)' = Call(t)
           /\ hp_' = hp_ /\ table' = table /\ locks' = locks /\ BucketIds' = BucketIds
  <1>1. UNCHANGED shared /\ walk' = walk /\ todo' = todo /\ legal' = legal /\ pc[t] \in Reading
    BY DEF Find, Epoch, CheckHp, Scan, Value, CheckEpochs, Reading
  <1> QED BY <1>1 DEF RHInv, Typed, WalkInv, shared, HomeBucket, HomeOf, WindowOf, Key, Call, BucketIds

\* A step that reads no epoch keeps what is known of those read before.
LEMMA EpochsKept ==
    ASSUME RHInv, WalkInv, NEW t \in Threads, Find(t), EpochsOK(t),
           lookup'[t].epochs = lookup[t].epochs,
           pc[t] \in {"scan", "value", "check_epochs"}, pc'[t] \in {"epoch", "scan", "value", "check_epochs"}
    PROVE  /\ EpochsOK(t)' /\ Known(t)' = Known(t)
           /\ \A b : Stands(t, b)' <=> Stands(t, b)
  <1>1. Known(t)' = Known(t) /\ \A b : EpochRead(t, b)' = EpochRead(t, b)
    BY FindLeaves DEF Known, ReadBucket, EpochRead, HomeBucket
  <1>2. HomeBucket(t) \in Known(t) /\ (Stands(t, HomeBucket(t)) => hp_ = walk[t].seen)
    BY DEF EpochsOK
  <1>3. \A b : Stands(t, b)' <=> Stands(t, b)
    BY <1>1, FindLeaves DEF Stands
  <1>4. Stands(t, HomeBucket(t))' <=> Stands(t, HomeBucket(t))
    <2>1. PICK h : h = HomeBucket(t)
      OBVIOUS
    <2>2. (Stands(t, HomeBucket(t)))' <=> Stands(t, h)'
      BY <2>1, FindLeaves DEF Stands, EpochRead
    <2> QED BY <1>3, <2>1, <2>2
  <1>5. \A b \in Known(t) : b \in BucketIds /\ EpochRead(t, b) % 2 = 0 /\ EpochRead(t, b) <= locks[b].epoch
    BY DEF EpochsOK
  <1> QED BY <1>1, <1>2, <1>3, <1>4, <1>5, FindLeaves DEF EpochsOK

LEMMA ScanPlace ==
    ASSUME PowerLaw, RHInv, WalkInv, NEW t \in Threads, Scan(t), NEW i, i = lookup[t].at
    PROVE  /\ i \in Nat /\ i \in DOMAIN table /\ HomeOf(t) \in Nat /\ HomeOf(t) <= i
           /\ WindowOf(t) \in Nat /\ BucketOf(i) = ReadBucket(t) - 1 /\ pc[t] = "scan"
           /\ table[i] # Empty => table[i].dist \in Nat
  <1>1. pc[t] = "scan" /\ pc[t] \in Reading
    BY DEF Scan, Reading
  <1>2. i \in Nat /\ HomeOf(t) \in Nat /\ WindowOf(t) \in Nat
    BY <1>1, ReadFacts
  <1>3. StartedOK(t) /\ LooksAt(t, 1, ReadBucket(t) - 1)
    BY <1>1 DEF WalkInv, LookupOK
  <1>4. HomeOf(t) <= i /\ i <= HomeOf(t) + WindowOf(t) + 1 /\ BucketOf(i) = ReadBucket(t) - 1
    BY <1>3 DEF LooksAt
  <1>5. i \in DOMAIN table
    BY <1>1, <1>2, <1>3, <1>4, InsideTable
  <1> QED BY <1>1, <1>2, <1>4, <1>5, Basics DEF EntryRecords

LEMMA ScanReads ==
    ASSUME PowerLaw, RHInv, OrderInv, WalkInv, PromiseInv, NEW t \in Threads, Scan(t)
    PROVE  ReadingOK(t)'
  <1>0. PICK i : i = lookup[t].at
    OBVIOUS
  <1>1. /\ i \in Nat /\ i \in DOMAIN table /\ HomeOf(t) \in Nat /\ HomeOf(t) <= i
        /\ WindowOf(t) \in Nat /\ BucketOf(i) = ReadBucket(t) - 1 /\ pc[t] = "scan"
        /\ table[i] # Empty => table[i].dist \in Nat
    BY <1>0, ScanPlace
  <1>2. Find(t) /\ pc[t] \in Reading
    BY <1>1 DEF Find, Reading
  <1>3. EpochsOK(t) /\ SeenOK(t) /\ HomeBucket(t) \in Known(t)
    <2>1. EpochsOK(t) /\ SeenOK(t)
      BY <1>2 DEF PromiseInv, ReadingOK
    <2> QED BY <1>1, <2>1 DEF EpochsOK
  <1>4. BucketOf(i) \in Known(t)
    BY <1>1, <1>2, <1>3, ReadFacts
  <1>5. /\ pc \in [Threads -> Labels] /\ lookup \in [Threads -> Reads]
        /\ HomeOf(t)' = HomeOf(t) /\ Key(t)' = Key(t) /\ table' = table /\ legal' = legal
    BY <1>2, FindLeaves
  <1>6. /\ lookup[t].got = Absent
        /\ \A j \in HomeOf(t)..i - 1 :
              BucketOf(j) \in Known(t)
                 /\ (Stands(t, BucketOf(j)) => table[j] # Empty /\ table[j].key # Key(t))
    BY <1>0, <1>1, <1>3 DEF SeenOK
  <1>7. ASSUME \A b \in Known(t) : Stands(t, b), NEW y \in Nat, y \in {i, i + 1},
               y = i + 1 => table[i].key # Key(t),
               \/ y - HomeOf(t) > WindowOf(t)
               \/ y = i /\ (table[y] = Empty \/ table[y].dist + 1 < y - HomeOf(t))
        PROVE  Absent \in legal[t]
    <2>1. \A j \in HomeOf(t)..y - 1 : table[j].key # Key(t)
      <3>1. \A j \in HomeOf(t)..i - 1 : table[j].key # Key(t)
        BY <1>6, <1>7
      <3>2. \A j \in HomeOf(t)..y - 1 : j \in HomeOf(t)..i - 1 \/ (j = i /\ y = i + 1)
        BY <1>1, <1>7
      <3> QED BY <1>7, <3>1, <3>2
    <2>2. HomeOf(t) <= y
      BY <1>1, <1>7
    <2> QED BY <1>1, <1>4, <1>7, <2>1, <2>2, ScannedIsAbsent
  <1>8. CASE lookup' = lookup
    <2>1. \/ /\ pc'[t] = "check_epochs"
             /\ i - HomeOf(t) > WindowOf(t) \/ table[i] = Empty \/ table[i].dist + 1 < i - HomeOf(t)
          \/ pc'[t] = "value" /\ table[i] # Empty /\ table[i].key = Key(t)
      <3>1. [lookup EXCEPT ![t].at = i + 1] # lookup
        <4>1. PICK m : m = [lookup EXCEPT ![t].at = i + 1]
          OBVIOUS
        <4>2. m[t].at = i + 1
          BY <1>5, <4>1 DEF Reads
        <4>3. m[t].at # lookup[t].at
          BY <1>0, <1>1, <4>2
        <4> QED BY <4>1, <4>3
      <3> QED BY <1>0, <1>5, <1>8, <3>1 DEF Scan, Goto
    <2>2. EpochsOK(t)' /\ Known(t)' = Known(t) /\ \A b : Stands(t, b)' <=> Stands(t, b)
      BY <1>1, <1>2, <1>3, <1>8, <2>1, EpochsKept
    <2>3. CASE pc'[t] = "check_epochs"
      <3>1. (\A b \in Known(t) : Stands(t, b)) => Absent \in legal[t]
        BY <1>1, <1>7, <2>1, <2>3
      <3> QED BY <1>5, <1>6, <1>8, <2>2, <2>3, <3>1 DEF ReadingOK, SeenOK
    <2>4. CASE pc'[t] = "value"
      <3>1. table[i] # Empty /\ table[i].key = Key(t)
        BY <2>1, <2>4
      <3>2. \A j : Stands(t, BucketOf(j))' <=> Stands(t, BucketOf(j))
        BY <2>2
      <3> QED BY <1>0, <1>5, <1>6, <1>8, <2>2, <2>4, <3>1, <3>2 DEF ReadingOK, SeenOK
    <2> QED BY <2>1, <2>3, <2>4
  <1>9. CASE lookup' # lookup
    <2>1. /\ lookup' = [lookup EXCEPT ![t].at = i + 1]
          /\ table[i] # Empty /\ table[i].key # Key(t)
          /\ \/ pc'[t] \in {"scan", "epoch"}
             \/ pc'[t] = "check_epochs" /\ i - HomeOf(t) + 1 > WindowOf(t)
      BY <1>0, <1>5, <1>9 DEF Scan, Goto
    <2>2. lookup'[t].at = i + 1 /\ lookup'[t].got = lookup[t].got /\ lookup'[t].epochs = lookup[t].epochs
      BY <1>5, <2>1 DEF Reads
    <2>3. pc'[t] \in {"scan", "epoch", "check_epochs"}
      BY <2>1
    <2>4. EpochsOK(t)' /\ Known(t)' = Known(t) /\ \A b : Stands(t, b)' <=> Stands(t, b)
      BY <1>1, <1>2, <1>3, <2>2, <2>3, EpochsKept
    <2>5. CASE pc'[t] = "check_epochs"
      <3>1. PICK y \in Nat : y = i + 1 /\ y - HomeOf(t) > WindowOf(t)
        BY <1>1, <2>1, <2>5
      <3>2. ASSUME \A b \in Known(t) : Stands(t, b)
            PROVE  Absent \in legal[t]
        <4>1. y \in {i, i + 1} /\ (y = i + 1 => table[i].key # Key(t))
          BY <2>1, <3>1
        <4> QED BY <1>7, <3>1, <3>2, <4>1
      <3> QED BY <1>5, <1>6, <2>2, <2>4, <2>5, <3>2 DEF ReadingOK, SeenOK
    <2>6. CASE pc'[t] \in {"scan", "epoch"}
      <3>1. \A j \in HomeOf(t)..i : j \in HomeOf(t)..i - 1 \/ j = i
        BY <1>1
      <3>2. \A j \in HomeOf(t)..i :
               BucketOf(j) \in Known(t)
                 /\ (Stands(t, BucketOf(j)) => table[j] # Empty /\ table[j].key # Key(t))
        BY <1>4, <1>6, <2>1, <3>1
      <3>3. lookup'[t].at - 1 = i
        BY <1>1, <2>2
      <3>4. \A j : Stands(t, BucketOf(j))' <=> Stands(t, BucketOf(j))
        BY <2>4
      <3> QED BY <1>5, <1>6, <2>2, <2>4, <2>6, <3>2, <3>3, <3>4 DEF ReadingOK, SeenOK
    <2> QED BY <2>1, <2>5, <2>6
  <1> QED BY <1>8, <1>9

LEMMA AppendedEpoch ==
    ASSUME NEW q \in Seq(Nat), NEW e \in Nat, NEW r, r = Append(q, e)
    PROVE  /\ Len(q) \in Nat /\ Len(r) = Len(q) + 1 /\ r[Len(q) + 1] = e
           /\ \A i \in 1..Len(q) : r[i] = q[i]
  OBVIOUS

LEMMA EpochReads ==
    ASSUME RHInv, WalkInv, PromiseInv, NEW t \in Threads, Epoch(t)
    PROVE  ReadingOK(t)'
  <1>1. Find(t) /\ pc[t] = "epoch" /\ pc[t] \in Reading
    BY DEF Find, Epoch, Reading
  <1>2. /\ EpochsOK(t) /\ SeenOK(t)
        /\ lookup[t].epochs # <<>> =>
              HomeBucket(t) \in Known(t) /\ (Stands(t, HomeBucket(t)) => hp_ = walk[t].seen)
    <2>1. EpochsOK(t) /\ SeenOK(t)
      BY <1>1 DEF PromiseInv, ReadingOK
    <2> QED BY <1>1, <2>1 DEF EpochsOK
  <1>3. /\ pc \in [Threads -> Labels] /\ lookup \in [Threads -> Reads] /\ HomeOf(t)' = HomeOf(t)
        /\ HomeBucket(t)' = HomeBucket(t) /\ Key(t)' = Key(t) /\ table' = table /\ legal' = legal
        /\ locks' = locks /\ hp_' = hp_ /\ walk' = walk /\ BucketIds' = BucketIds
    BY <1>1, FindLeaves
  <1>4. PICK h, q : h = HomeBucket(t) /\ q = lookup[t].epochs
    OBVIOUS
  <1>5. /\ h \in Nat /\ q \in Seq(Nat) /\ Len(q) \in Nat /\ ReadBucket(t) = h + Len(q)
        /\ Known(t) = h..h + Len(q) - 1
    BY <1>1, <1>4, ReadFacts
  <1>6. PICK b, e : b = h + Len(q) /\ e = locks[b].epoch
    OBVIOUS
  <1>7. /\ b \in BucketIds /\ b \in Nat /\ e \in Nat
        /\ lookup' = [lookup EXCEPT ![t].epochs = Append(@, e)]
        /\ pc' = [pc EXCEPT ![t] = IF Locked(b) THEN "start" ELSE IF q = <<>> THEN "check_hp" ELSE "scan"]
    <2>1. /\ b \in BucketIds /\ lookup' = [lookup EXCEPT ![t].epochs = Append(@, e)]
          /\ pc' = [pc EXCEPT ![t] = IF Locked(b) THEN "start" ELSE IF q = <<>> THEN "check_hp" ELSE "scan"]
      BY <1>4, <1>5, <1>6 DEF Epoch, Goto
    <2> QED BY <1>5, <1>6, <2>1, EpochFacts
  <1>8. PICK r : r = Append(q, e)
    OBVIOUS
  <1>9. lookup'[t].epochs = r /\ lookup'[t].at = lookup[t].at /\ lookup'[t].got = lookup[t].got
    BY <1>3, <1>4, <1>7, <1>8 DEF Reads
  <1>10. Len(r) = Len(q) + 1 /\ r[Len(q) + 1] = e /\ \A i \in 1..Len(q) : r[i] = q[i]
    BY <1>5, <1>7, <1>8, AppendedEpoch
  <1>11. CASE pc'[t] = "start"
    BY <1>11 DEF ReadingOK, Reading
  <1>12. CASE pc'[t] # "start"
    <2>1. ~Locked(b) /\ pc'[t] = (IF q = <<>> THEN "check_hp" ELSE "scan")
      BY <1>3, <1>7, <1>12
    <2>2. e % 2 = 0
      BY <1>6, <1>7, <2>1 DEF Locked
    <2>3. Known(t)' = h..b
      <3>1. ReadBucket(t)' = h + Len(r)
        BY <1>3, <1>4, <1>9 DEF ReadBucket, HomeBucket
      <3>3. ReadBucket(t)' - 1 = b
        BY <1>5, <1>6, <1>10, <3>1
      <3>4. Known(t)' = HomeBucket(t)'..ReadBucket(t)' - 1
        BY DEF Known
      <3>5. HomeBucket(t)' = h
        BY <1>3, <1>4
      <3> QED BY <3>3, <3>4, <3>5
    <2>4. \A c : EpochRead(t, c)' = r[c - h + 1] /\ EpochRead(t, c) = q[c - h + 1]
      BY <1>3, <1>4, <1>9 DEF EpochRead
    <2>5. \A c \in Known(t) : EpochRead(t, c)' = EpochRead(t, c)
      <3>1. \A c \in h..h + Len(q) - 1 : c - h + 1 \in 1..Len(q)
        BY <1>5
      <3> QED BY <1>5, <1>10, <2>4, <3>1
    <2>6. EpochRead(t, b)' = e
      <3>1. b - h + 1 = Len(q) + 1
        BY <1>5, <1>6
      <3> QED BY <1>10, <2>4, <3>1
    <2>7. \A c \in h..b : c \in Known(t) \/ c = b
      BY <1>5, <1>6
    <2>8. \A c \in Known(t)' :
             c \in BucketIds' /\ EpochRead(t, c)' % 2 = 0 /\ EpochRead(t, c)' <= locks'[c].epoch
      <3>1. \A c \in Known(t) : c \in BucketIds /\ EpochRead(t, c) % 2 = 0 /\ EpochRead(t, c) <= locks[c].epoch
        BY <1>2 DEF EpochsOK
      <3>2. e <= locks[b].epoch
        BY <1>6, <1>7
      <3> QED BY <1>3, <1>7, <2>2, <2>3, <2>5, <2>6, <2>7, <3>1, <3>2
    <2>9. h \in h..b
      BY <1>5, <1>6
    <2>10. \A c \in Known(t) : Stands(t, c)' <=> Stands(t, c)
      BY <1>3, <2>5 DEF Stands
    <2>11. EpochsOK(t)'
      <3>1. q # <<>> => (Stands(t, HomeBucket(t))' => hp_' = walk'[t].seen)
        <4> SUFFICES ASSUME q # <<>>, (Stands(t, HomeBucket(t)))'
                     PROVE  hp_' = walk'[t].seen
          OBVIOUS
        <4>1. h \in Known(t) /\ (Stands(t, h) => hp_ = walk[t].seen)
          BY <1>2, <1>4
        <4>2. (Stands(t, HomeBucket(t)))' <=> Stands(t, h)'
          BY <1>3, <1>4 DEF Stands, EpochRead
        <4> QED BY <1>3, <2>10, <4>1, <4>2
      <3>2. pc'[t] # "epoch" /\ (pc'[t] # "check_hp" => q # <<>>)
        BY <2>1
      <3>3. HomeBucket(t)' \in Known(t)'
        BY <1>3, <1>4, <2>3, <2>9
      <3> QED BY <2>8, <3>1, <3>2, <3>3 DEF EpochsOK
    <2>12. SeenOK(t)'
      <3>1. /\ lookup[t].got = Absent
            /\ \A j \in HomeOf(t)..lookup[t].at - 1 :
                  BucketOf(j) \in Known(t)
                     /\ (Stands(t, BucketOf(j)) => table[j] # Empty /\ table[j].key # Key(t))
        BY <1>1, <1>2 DEF SeenOK
      <3>2. \A c \in Known(t) : c \in Known(t)'
        BY <1>5, <1>6, <2>3
      <3>3. \A j \in HomeOf(t)..lookup[t].at - 1 :
                BucketOf(j) \in Known(t)'
                   /\ (Stands(t, BucketOf(j))' => table[j] # Empty /\ table[j].key # Key(t))
        BY <2>10, <3>1, <3>2
      <3>4. pc'[t] \notin {"value", "check_epochs"}
        BY <2>1
      <3> QED BY <1>3, <1>9, <3>1, <3>3, <3>4 DEF SeenOK
    <2> QED BY <2>11, <2>12 DEF ReadingOK
  <1> QED BY <1>11, <1>12

LEMMA CheckHpReads ==
    ASSUME RHInv, WalkInv, PromiseInv, NEW t \in Threads, CheckHp(t)
    PROVE  ReadingOK(t)'
  <1>1. Find(t) /\ pc[t] = "check_hp" /\ pc[t] \in Reading /\ lookup' = lookup
    BY DEF Find, CheckHp, Reading
  <1>2. EpochsOK(t) /\ SeenOK(t)
    BY <1>1 DEF PromiseInv, ReadingOK
  <1>3. /\ pc \in [Threads -> Labels] /\ HomeOf(t)' = HomeOf(t)
        /\ HomeBucket(t)' = HomeBucket(t) /\ Key(t)' = Key(t) /\ table' = table /\ legal' = legal
        /\ locks' = locks /\ hp_' = hp_ /\ walk' = walk /\ BucketIds' = BucketIds
    BY <1>1, FindLeaves
  <1>4. Known(t)' = Known(t) /\ (\A b : EpochRead(t, b)' = EpochRead(t, b))
           /\ \A b : Stands(t, b)' <=> Stands(t, b)
    BY <1>1, <1>3, FindLeaves DEF Known, ReadBucket, EpochRead, HomeBucket, Stands
  <1>5. CASE pc'[t] = "start"
    BY <1>5 DEF ReadingOK, Reading
  <1>6. CASE pc'[t] = "scan" /\ hp_ = walk[t].seen
    <2>1. HomeBucket(t) \in Known(t)
      BY <1>1, <1>2 DEF EpochsOK
    <2>2. EpochsOK(t)'
      BY <1>2, <1>3, <1>4, <1>6, <2>1 DEF EpochsOK
    <2>3. \A j : Stands(t, BucketOf(j))' <=> Stands(t, BucketOf(j))
      BY <1>4
    <2>4. SeenOK(t)'
      BY <1>1, <1>2, <1>3, <1>4, <1>6, <2>3 DEF SeenOK
    <2> QED BY <2>2, <2>4 DEF ReadingOK
  <1> QED BY <1>3, <1>5, <1>6 DEF CheckHp, Goto

LEMMA ValueReads ==
    ASSUME RHInv, OrderInv, WalkInv, PromiseInv, NEW t \in Threads, Value(t)
    PROVE  ReadingOK(t)'
  <1>1. Find(t) /\ pc[t] = "value" /\ pc[t] \in Reading
    BY DEF Find, Value, Reading
  <1>2. EpochsOK(t) /\ SeenOK(t) /\ HomeBucket(t) \in Known(t)
    <2>1. EpochsOK(t) /\ SeenOK(t)
      BY <1>1 DEF PromiseInv, ReadingOK
    <2> QED BY <1>1, <2>1 DEF EpochsOK
  <1>3. PICK i : i = lookup[t].at
    OBVIOUS
  <1>4. BucketOf(i) \in Known(t)
    <2>1. BucketOf(i) = ReadBucket(t) - 1
      BY <1>1, <1>3 DEF WalkInv, LookupOK, LooksAt
    <2> QED BY <1>1, <1>2, <2>1, ReadFacts
  <1>5. pc \in [Threads -> Labels] /\ lookup \in [Threads -> Reads] /\ legal' = legal
    BY <1>1, FindLeaves
  <1>6. PICK v : v = IF table[i] = Empty THEN Empty ELSE table[i].val
    OBVIOUS
  <1>7. lookup' = [lookup EXCEPT ![t].got = v] /\ pc' = [pc EXCEPT ![t] = "check_epochs"]
    BY <1>3, <1>6 DEF Value, Goto
  <1>8. lookup'[t].got = v /\ lookup'[t].epochs = lookup[t].epochs /\ pc'[t] = "check_epochs"
    BY <1>5, <1>7 DEF Reads
  <1>9. EpochsOK(t)' /\ Known(t)' = Known(t) /\ \A b : Stands(t, b)' <=> Stands(t, b)
    BY <1>1, <1>2, <1>8, EpochsKept
  <1>10. ASSUME \A b \in Known(t) : Stands(t, b)
         PROVE  v \in legal[t]
    <2>1. table[i] # Empty /\ table[i].key = Key(t)
      BY <1>1, <1>2, <1>3, <1>4, <1>10 DEF SeenOK
    <2>2. BucketOf(i) \in BucketIds /\ i \in Nat
      BY <1>1, <1>2, <1>3, <1>4, ReadFacts DEF EpochsOK
    <2>3. i \in DOMAIN table
      <3>1. Slots \in Nat \ {0}
        BY DEF RHInv, SizesOK
      <3>2. i \in SlotsOf(BucketOf(i))
        BY <2>2, <3>1, SlotFacts
      <3> QED BY <2>2, <3>2, EpochFacts
    <2>4. table \in Tables(2^hp_) /\ 2^hp_ \in Nat /\ KeysOnce(table) /\ i \in Entries(table)
      BY <2>1, <2>3 DEF RHInv, SizesOK, Typed, OrderInv, Entries
    <2>5. Key(t) \in Keys
      BY <1>1, CallFacts DEF Reading
    <2>6. Contents[Key(t)] = v
      BY <1>6, <2>1, <2>4, <2>5, ContentOfEntries DEF Contents
    <2>7. Finding(t) /\ LegalOK(t)
      BY <1>1 DEF PromiseInv, AnswerOK, Finding, Reading
    <2> QED BY <2>6, <2>7 DEF LegalOK
  <1> QED BY <1>5, <1>8, <1>9, <1>10 DEF ReadingOK, SeenOK

LEMMA ShorterEpochs ==
    ASSUME NEW q \in Seq(Nat), NEW r, r = SubSeq(q, 1, Len(q) - 1), Len(q) > 1
    PROVE  /\ Len(q) \in Nat /\ Len(r) = Len(q) - 1
           /\ \A i \in 1..Len(q) - 1 : r[i] = q[i]
  OBVIOUS

\* From the last epoch back to the first: those that are gone stood.
LEMMA CheckReads ==
    ASSUME RHInv, WalkInv, PromiseInv, NEW t \in Threads, CheckEpochs(t)
    PROVE  /\ ReadingOK(t)'
           /\ pc'[t] \in {"start", "return", "check_epochs"} /\ lookup'[t].got = lookup[t].got
           /\ pc'[t] = "return" => lookup[t].got \in legal[t]
  <1>1. Find(t) /\ pc[t] = "check_epochs" /\ pc[t] \in Reading
    BY DEF Find, CheckEpochs, Reading
  <1>2. EpochsOK(t) /\ SeenOK(t) /\ HomeBucket(t) \in Known(t)
    <2>1. EpochsOK(t) /\ SeenOK(t)
      BY <1>1 DEF PromiseInv, ReadingOK
    <2> QED BY <1>1, <2>1 DEF EpochsOK
  <1>3. /\ pc \in [Threads -> Labels] /\ lookup \in [Threads -> Reads] /\ legal' = legal
        /\ HomeBucket(t)' = HomeBucket(t) /\ HomeOf(t)' = HomeOf(t)
        /\ locks' = locks /\ hp_' = hp_ /\ walk' = walk /\ BucketIds' = BucketIds
    BY <1>1, FindLeaves
  <1>4. PICK h, q : h = HomeBucket(t) /\ q = lookup[t].epochs
    OBVIOUS
  <1>5. /\ h \in Nat /\ q \in Seq(Nat) /\ Len(q) \in Nat /\ ReadBucket(t) = h + Len(q)
        /\ Known(t) = h..h + Len(q) - 1
    BY <1>1, <1>4, ReadFacts
  <1>6. h \in h..h + Len(q) - 1 /\ Len(q) >= 1
    BY <1>2, <1>4, <1>5
  <1>7. PICK b : b = h + Len(q) - 1
    OBVIOUS
  <1>8. b \in Nat /\ b \in Known(t) /\ b = ReadBucket(t) - 1 /\ EpochRead(t, b) = q[Len(q)]
    <2>1. b - h + 1 = Len(q) /\ b \in Nat /\ b \in h..h + Len(q) - 1
      BY <1>5, <1>6, <1>7
    <2>2. b = ReadBucket(t) - 1
      BY <1>5, <1>7
    <2>3. EpochRead(t, b) = q[b - h + 1]
      BY <1>4 DEF EpochRead
    <2> QED BY <1>5, <2>1, <2>2, <2>3
  <1>9. CASE locks[b].epoch # q[Len(q)]
    <2>1. pc'[t] = "start" /\ lookup' = lookup
      BY <1>3, <1>4, <1>8, <1>9 DEF CheckEpochs, Goto
    <2> QED BY <2>1 DEF ReadingOK, Reading
  <1>10. CASE locks[b].epoch = q[Len(q)] /\ Len(q) = 1
    <2>1. pc'[t] = "return" /\ lookup' = lookup
      BY <1>3, <1>4, <1>8, <1>10 DEF CheckEpochs, Goto
    <2>2. \A c \in Known(t) : c = b
      BY <1>5, <1>7, <1>10
    <2>3. \A c \in Known(t) : Stands(t, c)
      BY <1>8, <1>10, <2>2 DEF Stands
    <2>4. lookup[t].got \in legal[t]
      BY <1>1, <1>2, <2>3 DEF SeenOK
    <2> QED BY <2>1, <2>4 DEF ReadingOK, Reading
  <1>11. CASE locks[b].epoch = q[Len(q)] /\ Len(q) # 1
    <2>1. PICK r : r = SubSeq(q, 1, Len(q) - 1)
      OBVIOUS
    <2>2. pc' = pc /\ lookup' = [lookup EXCEPT ![t].epochs = r]
      BY <1>4, <1>8, <1>11, <2>1 DEF CheckEpochs
    <2>3. lookup'[t].epochs = r /\ lookup'[t].got = lookup[t].got
      BY <1>3, <2>2 DEF Reads
    <2>4. Len(q) > 1
      <3>1. Len(q) \in Nat /\ Len(q) >= 1 /\ Len(q) # 1
        BY <1>5, <1>6, <1>11
      <3> QED BY <3>1, SMTT(60)
    <2>5. Len(r) = Len(q) - 1 /\ \A i \in 1..Len(q) - 1 : r[i] = q[i]
      BY <1>5, <2>1, <2>4, ShorterEpochs
    <2>6. Known(t)' = h..b - 1
      <3>1. ReadBucket(t)' = h + Len(r)
        BY <1>3, <1>4, <2>3 DEF ReadBucket, HomeBucket
      <3>2. ReadBucket(t)' - 1 = b - 1
        BY <1>5, <1>7, <2>5, <3>1
      <3>3. Known(t)' = HomeBucket(t)'..ReadBucket(t)' - 1
        BY DEF Known
      <3>4. HomeBucket(t)' = h
        BY <1>3, <1>4
      <3> QED BY <3>2, <3>3, <3>4
    <2>7. \A c : EpochRead(t, c)' = r[c - h + 1] /\ EpochRead(t, c) = q[c - h + 1]
      BY <1>3, <1>4, <2>3 DEF EpochRead
    <2>8. \A c \in h..b - 1 : c \in Known(t) /\ EpochRead(t, c)' = EpochRead(t, c)
      <3>1. \A c \in h..b - 1 : c \in Known(t) /\ c - h + 1 \in 1..Len(q) - 1
        BY <1>5, <1>7
      <3> QED BY <2>5, <2>7, <3>1
    <2>9. \A c \in h..b - 1 : Stands(t, c)' <=> Stands(t, c)
      BY <1>3, <2>8 DEF Stands
    <2>10. h \in h..b - 1
      BY <1>5, <1>7, <2>4
    <2>11. EpochsOK(t)'
      <3>1. \A c \in Known(t) : c \in BucketIds /\ EpochRead(t, c) % 2 = 0 /\ EpochRead(t, c) <= locks[c].epoch
        BY <1>2 DEF EpochsOK
      <3>2. \A c \in Known(t)' :
               c \in BucketIds' /\ EpochRead(t, c)' % 2 = 0 /\ EpochRead(t, c)' <= locks'[c].epoch
        BY <1>3, <2>6, <2>8, <3>1
      <3>3. Stands(t, HomeBucket(t)) => hp_ = walk[t].seen
        BY <1>1, <1>2 DEF EpochsOK
      <3>4. (Stands(t, HomeBucket(t)))' => hp_' = walk'[t].seen
        <4>1. (Stands(t, HomeBucket(t)))' <=> Stands(t, h)'
          BY <1>3, <1>4 DEF Stands, EpochRead
        <4> QED BY <1>3, <1>4, <2>9, <2>10, <3>3, <4>1
      <3>5. HomeBucket(t)' \in Known(t)'
        BY <1>3, <1>4, <2>6, <2>10
      <3> QED BY <3>2, <3>4, <3>5 DEF EpochsOK
    <2>12. SeenOK(t)'
      <3>1. ASSUME \A c \in Known(t)' : Stands(t, c)'
            PROVE  lookup[t].got \in legal[t]
        <4>1. \A c \in Known(t) : c \in h..b - 1 \/ c = b
          BY <1>5, <1>7
        <4>2. Stands(t, b)
          BY <1>8, <1>11 DEF Stands
        <4>3. \A c \in Known(t) : Stands(t, c)
          BY <2>6, <2>9, <3>1, <4>1, <4>2
        <4> QED BY <1>1, <1>2, <4>3 DEF SeenOK
      <3> QED BY <1>1, <1>3, <2>2, <2>3, <3>1 DEF SeenOK
    <2> QED BY <1>1, <2>2, <2>3, <2>11, <2>12 DEF ReadingOK
  <1> QED BY <1>9, <1>10, <1>11

\* A lookup starts with nothing seen.
LEMMA StartReads ==
    ASSUME RHInv, WalkInv, NEW t \in Threads, Start(t)
    PROVE  /\ ReadingOK(t)' /\ walk'[t].answer = Empty /\ Call(t)' = Call(t)
           /\ pc'[t] = IF Call(t).op = "find" THEN "epoch" ELSE "lock_first"
           /\ pc[t] = "start" /\ todo' = todo /\ legal' = legal /\ table' = table
  <1>1. PICK h : h = Home(Key(t), hp_)
    OBVIOUS
  <1>2. /\ pc \in [Threads -> Labels] /\ lookup \in [Threads -> Reads] /\ walk \in [Threads -> WalkRecords]
        /\ hp_ \in Nat /\ 2^hp_ \in Nat \ {0}
    BY DEF RHInv, Typed, WalkInv, SizesOK
  <1>3. /\ pc[t] = "start" /\ todo' = todo /\ legal' = legal /\ table' = table
        /\ walk' = [walk EXCEPT ![t] = [NoWalk EXCEPT !.seen = hp_, !.bucket = BucketOf(h)]]
        /\ lookup' = [lookup EXCEPT ![t] = [NoRead EXCEPT !.at = h]]
        /\ pc' = [pc EXCEPT ![t] = IF Call(t).op = "find" THEN "epoch" ELSE "lock_first"]
    BY <1>1 DEF Start, Goto, shared
  <1>4. /\ walk'[t].seen = hp_ /\ walk'[t].answer = Empty
        /\ lookup'[t].at = h /\ lookup'[t].epochs = <<>> /\ lookup'[t].got = Absent
        /\ pc'[t] = IF Call(t).op = "find" THEN "epoch" ELSE "lock_first"
    BY <1>2, <1>3 DEF NoWalk, NoRead
  <1>5. HomeOf(t)' = h /\ Call(t)' = Call(t)
    BY <1>1, <1>3, <1>4 DEF HomeOf, Key, Call
  <1>6. h \in Nat
    <2>1. Key(t) \in Keys
      BY <1>3, CallFacts
    <2> QED BY <1>1, <1>2, <2>1, HomeIsNat
  <1>7. Known(t)' = {}
    <2>1. Slots \in Nat \ {0}
      BY DEF RHInv, SizesOK
    <2>2. PICK b : b = BucketOf(h) /\ b \in Nat
      BY <1>6, <2>1, SlotFacts
    <2>3. HomeBucket(t)' = b /\ ReadBucket(t)' = b
      BY <1>4, <1>5, <2>2 DEF HomeBucket, ReadBucket
    <2>4. b..b - 1 = {}
      BY <2>2
    <2> QED BY <2>3, <2>4 DEF Known
  <1>8. h..h - 1 = {}
    BY <1>6
  <1>9. ReadingOK(t)'
    BY <1>4, <1>5, <1>7, <1>8 DEF ReadingOK, EpochsOK, SeenOK, Reading
  <1> QED BY <1>3, <1>4, <1>5, <1>9

LEMMA FindReads ==
    ASSUME PowerLaw, RHInv, OrderInv, WalkInv, PromiseInv, NEW t \in Threads, Find(t)
    PROVE  /\ ReadingOK(t)' /\ pc'[t] \in Reading \cup {"start", "return"}
           /\ pc'[t] = "return" => CheckEpochs(t) /\ lookup'[t].got \in legal[t]
  <1>1. ReadingOK(t)'
    BY EpochReads, CheckHpReads, ScanReads, ValueReads, CheckReads DEF Find
  <1>2. pc \in [Threads -> Labels]
    BY DEF RHInv, Typed
  <1>3. CASE CheckEpochs(t)
    BY <1>1, <1>3, CheckReads DEF Reading
  <1>4. CASE Epoch(t) \/ CheckHp(t) \/ Scan(t) \/ Value(t)
    BY <1>1, <1>2, <1>4 DEF Epoch, CheckHp, Scan, Value, Goto, Reading
  <1> QED BY <1>3, <1>4 DEF Find

-----------------------------------------------------------------------------
\* What the running finds may answer after a step.
LEMMA ContentsTyped ==
    ASSUME RHInv, OrderInv
    PROVE  Contents \in [Keys -> Results]
  <1>1. table \in Tables(2^hp_) /\ 2^hp_ \in Nat /\ KeysOnce(table)
    BY DEF RHInv, SizesOK, Typed, OrderInv
  <1> QED BY <1>1, ContentTyped DEF Contents

\* What the promise says of them.
SeenBy(u, c) == IF legal[u] = {} THEN {} ELSE legal[u] \cup {c[CallOf(u).key]}

\* One key changes, or none.
LEMMA SeenAfter ==
    ASSUME RHInv, OrderInv, PromiseInv, NEW k \in Keys, NEW v \in Results,
           NEW c, c = [Contents EXCEPT ![k] = v], Contents' = c, todo' = todo,
           Becomes(k, v) \/ (legal' = legal /\ v = Contents[k]),
           NEW u \in Threads, pc'[u] = "idle" <=> pc[u] = "idle"
    PROVE  LegalOK(u)' /\ legal'[u] = SeenBy(u, c) /\ legal[u] \subseteq legal'[u]
  <1>1. Contents \in [Keys -> Results] /\ legal \in [Threads -> SUBSET Results] /\ LegalOK(u)
    BY ContentsTyped DEF PromiseInv
  <1>2. Finding(u)' <=> Finding(u)
    BY DEF Finding, Call
  <1>3. Key(u)' = Key(u)
    BY DEF Key, Call
  <1>4. CASE legal[u] = {}
    <2>1. legal'[u] = {}
      BY <1>1, <1>4 DEF Becomes
    <2>2. ~Finding(u)
      BY <1>1, <1>4 DEF LegalOK
    <2> QED BY <1>2, <1>4, <2>1, <2>2 DEF LegalOK, SeenBy
  <1>5. CASE legal[u] # {}
    <2>1. Finding(u) /\ Contents[Key(u)] \in legal[u] /\ legal[u] \subseteq Results
      BY <1>1, <1>5 DEF LegalOK
    <2>2. pc[u] # "idle" /\ Key(u) \in Keys /\ CallOf(u).key = Key(u)
      BY <2>1, CallFacts DEF Finding, CallOf, Key
    <2>3. c[Key(u)] = IF Key(u) = k THEN v ELSE Contents[Key(u)]
      BY <1>1, <2>2
    <2>4. CASE legal' = legal /\ v = Contents[k]
      <3>1. c[Key(u)] = Contents[Key(u)]
        BY <2>3, <2>4
      <3>2. legal[u] \cup {c[Key(u)]} = legal[u]
        BY <2>1, <3>1
      <3> QED BY <1>2, <1>3, <1>5, <2>1, <2>2, <2>4, <3>1, <3>2 DEF LegalOK, SeenBy
    <2>5. CASE Becomes(k, v)
      <3>1. legal'[u] = IF Key(u) = k THEN legal[u] \cup {v} ELSE legal[u]
        BY <1>5, <2>5 DEF Becomes
      <3>2. legal'[u] = legal[u] \cup {c[Key(u)]}
        BY <2>1, <2>3, <3>1
      <3>3. legal'[u] \subseteq Results /\ legal'[u] # {} /\ Contents'[Key(u)] \in legal'[u]
        BY <2>1, <2>3, <3>2
      <3> QED BY <1>2, <1>3, <1>5, <2>1, <2>2, <3>2, <3>3 DEF LegalOK, SeenBy
    <2> QED BY <2>4, <2>5
  <1> QED BY <1>4, <1>5

-----------------------------------------------------------------------------
\* The steps that take effect: what the key of the call has then, and what the
\* call answers.
Decides(t, v, a) ==
    LET old == Contents[Key(t)]
    IN  IF Call(t).op \in Inserts
        THEN IF old = Absent THEN a = TRUE /\ v = Call(t).val
             ELSE a = FALSE /\ v = IF Call(t).op = "insert" THEN old ELSE Call(t).val
        ELSE IF old = Absent THEN a = FALSE /\ v = old
             ELSE a = TRUE /\ v = IF Call(t).op = "erase" THEN Absent ELSE Call(t).val

TakesEffect(t, v, a) ==
    /\ Decides(t, v, a) /\ Contents' = [Contents EXCEPT ![Key(t)] = v]
    /\ Becomes(Key(t), v) \/ (legal' = legal /\ v = Contents[Key(t)])
    /\ walk'[t].answer = a /\ Decided(t)' /\ pc'[t] \in {"release", "shift"}

LEMMA AnsweredNow ==
    ASSUME RHInv, NEW t \in Threads, NEW a \in BOOLEAN, Answer(t, a)
    PROVE  walk'[t].answer = a /\ Decided(t)' /\ pc'[t] \in {"release", "shift"}
  <1>1. walk \in [Threads -> WalkRecords] /\ pc \in [Threads -> Labels]
    BY DEF RHInv, Typed
  <1>2. walk'[t].answer = a /\ walk'[t].go = "return" /\ pc'[t] = "release"
    BY <1>1 DEF Answer, Goto, WalkRecords
  <1> QED BY <1>2 DEF Decided

LEMMA EffectiveStep ==
    ASSUME PowerLaw, RHInv, RHInv', OrderInv, OrderInv', NEW t \in Threads, Effective(t)
    PROVE  /\ pc[t] \in Under /\ Key(t) \in Keys /\ Call(t) \in CallRecords /\ Call(t).op # "find"
           /\ \E v \in Results, a \in BOOLEAN : TakesEffect(t, v, a)
  <1>1. pc[t] \in Under
    BY DEF Effective, Found, NotFound, Add, MovePath, Erase, Under
  <1>2. /\ pc[t] # "idle" /\ Call(t) \in CallRecords /\ Key(t) \in Keys /\ Call(t).op # "find"
        /\ Call(t).op \notin {"find", "erase"} => Call(t).val \in Vals
    <2>1. pc[t] # "idle"
      BY <1>1, UnderFacts
    <2>2. Call(t).op # "find"
      BY <1>1 DEF RHInv, OwnOK
    <2> QED BY <2>1, <2>2, CallFacts
  <1>3. Contents \in [Keys -> Results] /\ Contents[Key(t)] \in Results
    BY <1>2, ContentsTyped
  <1>4. /\ Call(t).op \in OpKinds
        /\ Call(t).op \notin {"find", "erase"} => Call(t).val \in Results
    BY <1>2 DEF CallRecords, Results
  <1>5. CASE Found(t)
    <2>1. PICK v : v = IF Call(t).op = "insert" THEN Contents[Key(t)] ELSE Call(t).val
      OBVIOUS
    <2>2. Contents[Key(t)] # Absent /\ Contents' = [Contents EXCEPT ![Key(t)] = v]
      BY <1>5, <2>1, FoundContent
    <2>3. PICK a \in BOOLEAN : a = (Call(t).op = "update")
      OBVIOUS
    <2>4. Call(t).op # "erase" /\ Answer(t, a)
      BY <1>5, <2>3 DEF Found
    <2>5. v \in Results
      BY <1>2, <1>3, <1>4, <2>1, <2>4
    <2>6. Becomes(Key(t), v) \/ (legal' = legal /\ v = Contents[Key(t)])
      BY <1>5, <2>1 DEF Found
    <2>7. Call(t).op \in {"insert", "insert_or_assign", "update"}
      BY <1>2, <1>4, <2>4 DEF OpKinds, CallRecords
    <2>8. Decides(t, v, a)
      BY <2>1, <2>2, <2>3, <2>7 DEF Decides, Inserts
    <2>9. TakesEffect(t, v, a)
      BY <2>2, <2>4, <2>6, <2>8, AnsweredNow DEF TakesEffect
    <2> QED BY <1>1, <1>2, <2>5, <2>9
  <1>6. CASE Add(t) \/ MovePath(t)
    <2>1. PICK v : v = Call(t).val
      OBVIOUS
    <2>2. Contents[Key(t)] = Absent /\ Contents' = [Contents EXCEPT ![Key(t)] = v]
      BY <1>6, <2>1, AddContent
    <2>3. Call(t).op \in Inserts
      BY <1>6 DEF Add, MovePath, RHInv, SlotsOK
    <2>4. Answer(t, TRUE) /\ Becomes(Key(t), v)
      BY <1>6, <2>1 DEF Add, MovePath
    <2>5. v \in Results
      BY <1>4, <2>1, <2>3 DEF Inserts
    <2>6. Decides(t, v, TRUE)
      BY <2>1, <2>2, <2>3 DEF Decides
    <2>7. TakesEffect(t, v, TRUE)
      BY <2>2, <2>4, <2>6, AnsweredNow DEF TakesEffect
    <2> QED BY <1>1, <1>2, <2>5, <2>7
  <1>7. CASE Erase(t)
    <2>1. Contents[Key(t)] # Absent /\ Contents' = [Contents EXCEPT ![Key(t)] = Absent]
      BY <1>7, EraseContent
    <2>2. walk'[t].answer = TRUE /\ Decided(t)' /\ pc'[t] \in {"release", "shift"}
      <3>1. walk \in [Threads -> WalkRecords] /\ pc \in [Threads -> Labels]
        BY DEF RHInv, Typed
      <3>2. walk'[t].answer = TRUE /\ pc'[t] = "shift"
        BY <1>7, <3>1 DEF Erase, Goto, WalkRecords
      <3> QED BY <3>2 DEF Decided, Heading
    <2>3. Becomes(Key(t), Absent) /\ Call(t).op = "erase"
      BY <1>7 DEF Erase
    <2>4. Decides(t, Absent, TRUE)
      BY <2>1, <2>3 DEF Decides, Inserts
    <2>5. TakesEffect(t, Absent, TRUE) /\ Absent \in Results
      BY <2>1, <2>2, <2>3, <2>4 DEF TakesEffect, Results
    <2> QED BY <1>1, <1>2, <2>5
  <1>8. CASE NotFound(t)
    <2>1. /\ pc[t] \in {"out_of_window", "not_occupied", "less_dist"} /\ Call(t).op \notin Inserts
          /\ Answer(t, FALSE) /\ table' = table /\ legal' = legal
      BY <1>8 DEF NotFound, shared
    <2>2. Contents[Key(t)] = Absent
      BY <2>1, AbsentWhenNotFound
    <2>3. Contents' = Contents
      BY <2>1 DEF Contents
    <2>4. PICK v \in Results : v = Contents[Key(t)]
      BY <1>3
    <2>5. Contents' = [Contents EXCEPT ![Key(t)] = v]
      BY <1>3, <2>3, <2>4
    <2>6. Decides(t, v, FALSE)
      BY <2>1, <2>2, <2>4 DEF Decides
    <2>7. TakesEffect(t, v, FALSE)
      BY <2>1, <2>4, <2>5, <2>6, AnsweredNow DEF TakesEffect
    <2> QED BY <1>1, <1>2, <2>7
  <1> QED BY <1>5, <1>6, <1>7, <1>8 DEF Effective

\* The other steps of writers and doublings leave the content as it is.
LEMMA ContentStays ==
    ASSUME PowerLaw, RHInv, RHInv', OrderInv, OrderInv', AsExpected,
           NEW t \in Threads, Write(t) \/ Double(t), ~Effective(t)
    PROVE  Contents' = Contents
  <1>1. CASE table' = table
    BY <1>1 DEF Contents
  <1>2. CASE LockFirst(t) \/ LockNext(t) \/ Probe(t) \/ Release(t) \/ FindPath(t)
    BY <1>1, <1>2 DEF LockFirst, LockNext, Probe, Release, FindPath, shared
  <1>3. CASE RehashRequired(t) \/ LockAll(t) \/ DoubleRaced(t) \/ Doubled(t)
    BY <1>1, <1>3 DEF RehashRequired, LockAll, DoubleRaced, Doubled, shared
  <1>4. CASE SkipFree(t) \/ Stay(t)
    BY <1>1, <1>4 DEF SkipFree, Stay, Rearrange
  <1>5. CASE Shift(t) \/ Grow(t) \/ MoveNear(t) \/ MoveFar(t)
    BY <1>5, ShiftContent, GrowContent, MoveNearContent, MoveFarContent
  <1> QED BY <1>2, <1>3, <1>4, <1>5 DEF Write, Double, Effective

-----------------------------------------------------------------------------
\* Every step is one of the promise or leaves what that speaks of alone.
LEMMA SamePromise ==
    ASSUME Contents' = Contents, legal' = legal,
           \A u \in Threads : CallOf(u)' = CallOf(u) /\ AnswerOf(u)' = AnswerOf(u)
    PROVE  UNCHANGED Promise!vars
  <1>1. [u \in Threads |-> CallOf(u)]' = [u \in Threads |-> CallOf(u)]
    OBVIOUS
  <1>2. [u \in Threads |-> AnswerOf(u)]' = [u \in Threads |-> AnswerOf(u)]
    OBVIOUS
  <1> QED BY <1>1, <1>2 DEF Promise!vars

LEMMA EffectMaps ==
    ASSUME NEW t \in Threads, NEW c, NEW a, Contents' = c,
           legal' = [u \in Threads |-> SeenBy(u, c)],
           \A u \in Threads : CallOf(u)' = CallOf(u),
           \A u \in Threads \ {t} : AnswerOf(u)' = AnswerOf(u), AnswerOf(t)' = a
    PROVE  Promise!Effect(t, c, a)
  <1>1. [u \in Threads |-> CallOf(u)]' = [u \in Threads |-> CallOf(u)]
    OBVIOUS
  <1>2. [u \in Threads |-> AnswerOf(u)]' = [[u \in Threads |-> AnswerOf(u)] EXCEPT ![t] = a]
    OBVIOUS
  <1>3. legal' = [u \in Threads |-> IF legal[u] = {} THEN {}
                      ELSE legal[u] \cup {c[[w \in Threads |-> CallOf(w)][u].key]}]
    BY DEF SeenBy
  <1> QED BY <1>1, <1>2, <1>3 DEF Promise!Effect

\* What the other threads are promised.
LEMMA OthersPromise ==
    ASSUME PowerLaw, RHInv, RHInv', OrderInv, WalkInv, PromiseInv, NEW t \in Threads, Begin(t) \/ Step(t),
           NEW u \in Threads \ {t}, legal[u] \subseteq legal'[u]
    PROVE  AnswerOK(u)' /\ ReadingOK(u)'
  <1>1. pc'[u] = pc[u] /\ walk'[u] = walk[u] /\ todo'[u] = todo[u] /\ lookup'[u] = lookup[u]
    BY OthersLook
  <1>2. AnswerOK(u) /\ ReadingOK(u)
    BY DEF PromiseInv
  <1>3. AnswerOK(u)'
    BY <1>1, <1>2 DEF AnswerOK, Decided, Heading, Call
  <1>4. ReadingOK(u)'
    BY <1>1, <1>2, StepIsCalm, OthersRead
  <1> QED BY <1>3, <1>4

LEMMA KeptLegal ==
    ASSUME PromiseInv, legal' = legal, Contents' = Contents, NEW u \in Threads,
           todo'[u] = todo[u], (pc'[u] = "idle" <=> pc[u] = "idle")
    PROVE  LegalOK(u)'
  <1>1. LegalOK(u)
    BY DEF PromiseInv
  <1> QED BY <1>1 DEF LegalOK, Finding, Key, Call

\* A step of a call that leaves content and finds alone.
LEMMA QuietPromise ==
    ASSUME PowerLaw, RHInv, RHInv', OrderInv, WalkInv, PromiseInv, NEW t \in Threads, Step(t),
           legal' = legal, Contents' = Contents, todo' = todo, pc[t] # "idle", pc'[t] # "idle",
           AnswerOK(t)', ReadingOK(t)'
    PROVE  PromiseInv'
  <1>1. \A u \in Threads : pc'[u] = "idle" <=> pc[u] = "idle"
    BY OthersLook
  <1>2. \A u \in Threads : LegalOK(u)'
    BY <1>1, KeptLegal
  <1>3. \A u \in Threads \ {t} : AnswerOK(u)' /\ ReadingOK(u)'
    BY OthersPromise
  <1>4. legal' \in [Threads -> SUBSET Results]
    BY DEF PromiseInv
  <1> QED BY <1>2, <1>3, <1>4 DEF PromiseInv

LEMMA UndecidedPromise ==
    ASSUME PowerLaw, RHInv, RHInv', OrderInv, OrderInv', WalkInv, PromiseInv, AsExpected,
           NEW t \in Threads, Write(t) \/ Double(t), ~Effective(t)
    PROVE  PromiseInv' /\ UNCHANGED Promise!vars
  <1>1. /\ walk'[t].answer = walk[t].answer /\ (Decided(t)' <=> Decided(t)) /\ legal' = legal
        /\ pc[t] # "return" /\ pc'[t] # "idle" /\ pc'[t] # "check_epochs"
    BY UndecidedSteps
  <1>2. /\ lookup' = lookup /\ todo' = todo /\ pc[t] \notin {"idle", "start"}
        /\ pc'[t] \notin {"epoch", "check_hp", "value", "scan"}
    BY OwnSteps
  <1>3. Contents' = Contents
    BY ContentStays
  <1>4. pc'[t] \notin Reading /\ AnswerOK(t) /\ Call(t)' = Call(t)
    BY <1>1, <1>2 DEF Reading, PromiseInv, Call
  <1>5. Decided(t) => Call(t).op # "find"
    <2>1. Heading(t, "shift") => Call(t).op # "find"
      BY DEF Heading, Under, RHInv, OwnOK
    <2> QED BY <1>1, <1>4, <2>1 DEF Decided, AnswerOK
  <1>6. AnswerOK(t)'
    <2>1. (walk[t].answer # Empty) <=> (Decided(t) /\ Call(t).op # "find")
      BY <1>4 DEF AnswerOK
    <2>2. (pc'[t] = "release" /\ walk'[t].go = "return") \/ pc'[t] = "return" => Decided(t)'
      BY DEF Decided
    <2> QED BY <1>1, <1>4, <1>5, <2>1, <2>2 DEF AnswerOK
  <1>7. ReadingOK(t)'
    BY <1>4 DEF ReadingOK
  <1>8. Step(t)
    BY DEF Step
  <1>9. PromiseInv'
    BY <1>1, <1>2, <1>3, <1>6, <1>7, <1>8, QuietPromise
  <1>10. CallOf(t)' = CallOf(t) /\ AnswerOf(t)' = AnswerOf(t)
    <2>1. pc'[t] = "return" => Call(t).op # "find"
      <3>1. pc'[t] = "return" => Decided(t)'
        BY DEF Decided
      <3> QED BY <1>1, <1>5, <3>1
    <2> QED BY <1>1, <1>2, <1>4, <2>1 DEF CallOf, AnswerOf
  <1>11. \A u \in Threads : CallOf(u)' = CallOf(u) /\ AnswerOf(u)' = AnswerOf(u)
    BY <1>8, <1>10, OthersLook
  <1> QED BY <1>1, <1>3, <1>9, <1>11, SamePromise

\* A step that takes effect is one of a writer of the promise.
LEMMA EffectivePromise ==
    ASSUME PowerLaw, RHInv, RHInv', OrderInv, OrderInv', WalkInv, PromiseInv,
           NEW t \in Threads, Write(t), Effective(t)
    PROVE  PromiseInv' /\ Promise!Next
  <1>1. /\ pc[t] \in Under /\ Key(t) \in Keys /\ Call(t) \in CallRecords /\ Call(t).op # "find"
        /\ \E v \in Results, a \in BOOLEAN : TakesEffect(t, v, a)
    BY EffectiveStep
  <1>2. PICK v \in Results, a \in BOOLEAN : TakesEffect(t, v, a)
    BY <1>1
  <1>3. PICK c : c = [Contents EXCEPT ![Key(t)] = v]
    OBVIOUS
  <1>4. /\ Decides(t, v, a) /\ Contents' = c
        /\ Becomes(Key(t), v) \/ (legal' = legal /\ v = Contents[Key(t)])
        /\ walk'[t].answer = a /\ Decided(t)' /\ pc'[t] \in {"release", "shift"}
    BY <1>2, <1>3 DEF TakesEffect
  <1>5. Step(t) /\ todo' = todo /\ lookup' = lookup /\ pc[t] # "idle" /\ a # Empty
    BY OwnSteps, RobinHoodAssumption DEF Step
  <1>6. \A u \in Threads : pc'[u] = "idle" <=> pc[u] = "idle"
    BY <1>4, <1>5, OthersLook
  <1>7. \A u \in Threads : LegalOK(u)' /\ legal'[u] = SeenBy(u, c) /\ legal[u] \subseteq legal'[u]
    BY <1>1, <1>3, <1>4, <1>5, <1>6, SeenAfter, ZenonT(60)
  <1>8. legal' \in [Threads -> SUBSET Results]
    <2>1. legal \in [Threads -> SUBSET Results] /\ \A u \in Threads : legal'[u] \subseteq Results
      BY <1>7 DEF PromiseInv, LegalOK
    <2>2. legal' = [u \in Threads |-> legal'[u]]
      BY <1>4, <2>1 DEF Becomes
    <2> QED BY <2>1, <2>2
  <1>9. AnswerOK(t)' /\ ReadingOK(t)'
    <2>1. Call(t)' = Call(t)
      BY <1>5 DEF Call
    <2> QED BY <1>1, <1>4, <1>5, <2>1 DEF AnswerOK, ReadingOK, Reading
  <1>10. PromiseInv'
    <2>1. \A u \in Threads \ {t} : AnswerOK(u)' /\ ReadingOK(u)'
      BY <1>5, <1>7, OthersPromise
    <2> QED BY <1>7, <1>8, <1>9, <2>1 DEF PromiseInv
  <1>11. CallOf(t) = Call(t) /\ CallOf(t)' = CallOf(t) /\ AnswerOf(t)' = a
    BY <1>1, <1>4, <1>5 DEF CallOf, AnswerOf, Call
  <1>12. AnswerOf(t) = Empty
    <2>1. ~Decided(t) /\ AnswerOK(t)
      BY <1>1 DEF Decided, Heading, Effective, Found, NotFound, Add, MovePath, Erase, PromiseInv
    <2> QED BY <1>1, <1>5, <2>1 DEF AnswerOf, AnswerOK
  <1>13. Promise!Effect(t, c, a)
    <2>1. \A u \in Threads \ {t} : CallOf(u)' = CallOf(u) /\ AnswerOf(u)' = AnswerOf(u)
      BY <1>5, OthersLook
    <2>2. \A u \in Threads : CallOf(u)' = CallOf(u)
      BY <1>11, <2>1
    <2>3. legal' = [u \in Threads |-> SeenBy(u, c)]
      BY <1>7, <1>8
    <2> QED BY <1>4, <1>11, <2>1, <2>2, <2>3, EffectMaps
  <1>14. Promise!InCall(t)
    <2>1. Call(t) # Empty
      BY <1>1, RobinHoodAssumption
    <2> QED BY <1>11, <1>12, <2>1 DEF Promise!InCall
  <1>15. Promise!Insert(t) \/ Promise!Change(t)
    <2>1. Promise!Key(t) = Key(t) /\ Promise!Op(t) = Call(t).op
             /\ [u \in Threads |-> CallOf(u)][t].val = Call(t).val
      BY <1>11 DEF Promise!Key, Promise!Op, Key
    <2>2. Call(t).op \in OpKinds
      BY <1>1 DEF CallRecords
    <2>3. Contents \in [Keys -> Results]
      BY ContentsTyped
    <2>4. CASE Call(t).op \in Inserts
      <3>1. Call(t).op \in Promise!Inserts
        BY <2>4 DEF Inserts, Promise!Inserts
      <3>2. CASE Contents[Key(t)] = Absent
        <4>1. v = Call(t).val /\ a = TRUE
          BY <1>4, <2>4, <3>2 DEF Decides
        <4> QED BY <1>3, <1>13, <2>1, <3>1, <3>2, <4>1 DEF Promise!Insert, Promise!Present, Promise!With
      <3>3. CASE Contents[Key(t)] # Absent
        <4>1. a = FALSE /\ v = CASE Call(t).op = "insert" -> Contents[Key(t)]
                                 [] Call(t).op = "insert_or_assign" -> Call(t).val
                                 [] Call(t).op = "uprase" -> Absent
          BY <1>4, <2>4, <3>3 DEF Decides, Inserts
        <4> QED BY <1>3, <1>13, <2>1, <3>1, <3>3, <4>1 DEF Promise!Insert, Promise!Present, Promise!With
      <3> QED BY <3>2, <3>3
    <2>5. CASE Call(t).op \notin Inserts
      <3>1. Call(t).op \in {"update", "erase"}
        BY <1>1, <2>2, <2>5 DEF OpKinds, Inserts
      <3>2. CASE Contents[Key(t)] = Absent
        <4>1. v = Contents[Key(t)] /\ a = FALSE
          BY <1>4, <2>5, <3>2 DEF Decides
        <4>2. c = Contents
          BY <1>1, <1>3, <2>3, <4>1
        <4> QED BY <1>13, <2>1, <3>1, <3>2, <4>1, <4>2 DEF Promise!Change, Promise!Present
      <3>3. CASE Contents[Key(t)] # Absent
        <4>1. a = TRUE /\ v = IF Call(t).op = "erase" THEN Absent ELSE Call(t).val
          BY <1>4, <2>5, <3>3 DEF Decides
        <4> QED BY <1>3, <1>13, <2>1, <3>1, <3>3, <4>1 DEF Promise!Change, Promise!Present, Promise!With
      <3> QED BY <3>2, <3>3
    <2> QED BY <2>4, <2>5
  <1>16. Promise!Next
    BY <1>14, <1>15 DEF Promise!Next, Promise!Operate
  <1> QED BY <1>10, <1>16

LEMMA FindPromise ==
    ASSUME PowerLaw, RHInv, RHInv', OrderInv, WalkInv, PromiseInv, NEW t \in Threads, Find(t)
    PROVE  PromiseInv' /\ [Promise!Next]_Promise!vars
  <1>1. /\ walk' = walk /\ todo' = todo /\ legal' = legal /\ pc[t] \in Reading /\ table' = table
        /\ Call(t)' = Call(t)
    BY FindLeaves
  <1>2. /\ ReadingOK(t)' /\ pc'[t] \in Reading \cup {"start", "return"}
        /\ pc'[t] = "return" => CheckEpochs(t) /\ lookup'[t].got \in legal[t]
    BY FindReads
  <1>3. Call(t).op = "find" /\ ~Decided(t) /\ walk[t].answer = Empty /\ LegalOK(t)
    <2>1. AnswerOK(t) /\ LegalOK(t) /\ Call(t).op = "find"
      BY <1>1 DEF PromiseInv, AnswerOK
    <2>2. ~Decided(t)
      BY <1>1, <2>1 DEF Decided, Heading, Reading
    <2> QED BY <2>1, <2>2 DEF AnswerOK
  <1>4. Contents' = Contents /\ Step(t) /\ pc[t] # "idle" /\ pc'[t] # "idle"
    BY <1>1, <1>2 DEF Contents, Step, Reading
  <1>5. AnswerOK(t)'
    BY <1>1, <1>2, <1>3 DEF AnswerOK, Reading
  <1>6. PromiseInv'
    BY <1>1, <1>2, <1>4, <1>5, QuietPromise
  <1>7. CallOf(t) = Call(t) /\ CallOf(t)' = CallOf(t) /\ AnswerOf(t) = Empty
    BY <1>1, <1>3, <1>4 DEF CallOf, AnswerOf, Reading
  <1>8. \A u \in Threads \ {t} : CallOf(u)' = CallOf(u) /\ AnswerOf(u)' = AnswerOf(u)
    BY <1>4, OthersLook
  <1>9. \A u \in Threads : CallOf(u)' = CallOf(u)
    BY <1>7, <1>8
  <1>10. CASE pc'[t] # "return"
    <2>1. AnswerOf(t)' = AnswerOf(t)
      BY <1>1, <1>3, <1>4, <1>7, <1>10 DEF AnswerOf
    <2> QED BY <1>1, <1>4, <1>6, <1>8, <1>9, <2>1, SamePromise
  <1>11. CASE pc'[t] = "return"
    <2>1. PICK c, a : c = Contents /\ a = lookup'[t].got
      OBVIOUS
    <2>2. AnswerOf(t)' = a /\ a \in legal[t]
      BY <1>1, <1>2, <1>3, <1>11, <2>1 DEF AnswerOf
    <2>3. \A u \in Threads : legal'[u] = SeenBy(u, c)
      <3> SUFFICES ASSUME NEW u \in Threads, legal[u] # {}
                   PROVE  legal[u] = legal[u] \cup {c[CallOf(u).key]}
        BY <1>1 DEF SeenBy
      <3>1. Finding(u) /\ Contents[Key(u)] \in legal[u]
        BY DEF PromiseInv, LegalOK
      <3>2. CallOf(u).key = Key(u)
        BY <3>1 DEF Finding, CallOf, Key
      <3> QED BY <2>1, <3>1, <3>2
    <2>4. legal' = [u \in Threads |-> SeenBy(u, c)]
      BY <1>1, <2>3 DEF PromiseInv
    <2>5. Promise!Effect(t, c, a)
      BY <1>4, <1>8, <1>9, <2>1, <2>2, <2>4, EffectMaps
    <2>6. Promise!Find(t)
      <3>1. Promise!Op(t) = "find"
        BY <1>3, <1>7 DEF Promise!Op
      <3> QED BY <2>1, <2>2, <2>5, <3>1 DEF Promise!Find
    <2>7. Promise!InCall(t)
      <3>1. Call(t) \in CallRecords
        BY <1>4, CallFacts
      <3> QED BY <1>7, <3>1, RobinHoodAssumption DEF Promise!InCall
    <2> QED BY <1>6, <2>6, <2>7 DEF Promise!Next, Promise!Operate
  <1> QED BY <1>10, <1>11

LEMMA StartPromise ==
    ASSUME PowerLaw, RHInv, RHInv', OrderInv, WalkInv, PromiseInv, NEW t \in Threads, Start(t)
    PROVE  PromiseInv' /\ UNCHANGED Promise!vars
  <1>1. /\ ReadingOK(t)' /\ walk'[t].answer = Empty /\ Call(t)' = Call(t)
        /\ pc'[t] = IF Call(t).op = "find" THEN "epoch" ELSE "lock_first"
        /\ pc[t] = "start" /\ todo' = todo /\ legal' = legal /\ table' = table
    BY StartReads
  <1>2. walk[t].answer = Empty
    BY <1>1 DEF PromiseInv, AnswerOK, Decided, Heading
  <1>3. Contents' = Contents /\ Step(t) /\ pc[t] # "idle" /\ pc'[t] # "idle" /\ pc'[t] # "return"
    BY <1>1 DEF Contents, Step
  <1>4. AnswerOK(t)'
    BY <1>1 DEF AnswerOK, Decided, Heading, Reading
  <1>5. PromiseInv'
    BY <1>1, <1>3, <1>4, QuietPromise
  <1>6. CallOf(t)' = CallOf(t) /\ AnswerOf(t)' = AnswerOf(t)
    BY <1>1, <1>2, <1>3 DEF CallOf, AnswerOf
  <1>7. \A u \in Threads : CallOf(u)' = CallOf(u) /\ AnswerOf(u)' = AnswerOf(u)
    BY <1>3, <1>6, OthersLook
  <1> QED BY <1>1, <1>3, <1>5, <1>7, SamePromise

\* A call begins or returns: only its own thread is concerned.
LEMMA BeginPromise ==
    ASSUME PowerLaw, RHInv, RHInv', OrderInv, WalkInv, PromiseInv, NEW t \in Threads, Begin(t)
    PROVE  PromiseInv' /\ Promise!Next
  <1>1. PICK s : s = IF Call(t).op = "find" THEN {Contents[Key(t)]} ELSE {}
    OBVIOUS
  <1>2. /\ pc[t] = "idle" /\ todo[t] # <<>> /\ pc' = [pc EXCEPT ![t] = "start"]
        /\ legal' = [legal EXCEPT ![t] = s]
        /\ table' = table /\ todo' = todo /\ walk' = walk /\ lookup' = lookup
    BY <1>1 DEF Begin, Goto, shared
  <1>3. /\ legal \in [Threads -> SUBSET Results] /\ pc'[t] = "start" /\ legal'[t] = s
        /\ \A u \in Threads \ {t} : legal'[u] = legal[u]
    BY <1>2 DEF PromiseInv, RHInv, Typed
  <1>4. Call(t) \in CallRecords /\ Key(t) \in Keys /\ Call(t)' = Call(t)
    <2>1. todo[t] \in Seq(CallRecords)
      BY DEF RHInv, Typed
    <2>2. PICK q : q = todo[t]
      OBVIOUS
    <2>3. Head(q) \in CallRecords
      BY <1>2, <2>1, <2>2
    <2> QED BY <1>2, <2>2, <2>3 DEF Key, Call, CallRecords
  <1>5. Contents' = Contents /\ s \subseteq Results
    <2>1. Contents[Key(t)] \in Results
      BY <1>4, ContentsTyped
    <2> QED BY <1>1, <1>2, <2>1 DEF Contents
  <1>6. LegalOK(t)'
    BY <1>1, <1>2, <1>3, <1>4, <1>5 DEF LegalOK, Finding, Key
  <1>7. \A u \in Threads \ {t} : LegalOK(u)'
    <2> SUFFICES ASSUME NEW u \in Threads \ {t}
                 PROVE  LegalOK(u)'
      OBVIOUS
    <2>1. pc'[u] = pc[u] /\ LegalOK(u)
      BY <1>2 DEF PromiseInv, RHInv, Typed
    <2> QED BY <1>2, <1>3, <1>5, <2>1 DEF LegalOK, Finding, Key, Call
  <1>8. AnswerOK(t)' /\ ReadingOK(t)' /\ walk[t].answer = Empty
    BY <1>2, <1>3 DEF PromiseInv, AnswerOK, ReadingOK, Reading, Decided, Heading
  <1>9. \A u \in Threads \ {t} : AnswerOK(u)' /\ ReadingOK(u)'
    BY <1>3, OthersPromise
  <1>10. legal' \in [Threads -> SUBSET Results]
    BY <1>2, <1>3, <1>5
  <1>11. PromiseInv'
    BY <1>6, <1>7, <1>8, <1>9, <1>10 DEF PromiseInv
  <1>12. /\ CallOf(t) = Empty /\ CallOf(t)' = Call(t)
         /\ AnswerOf(t)' = AnswerOf(t)
    BY <1>2, <1>3, <1>4, <1>8 DEF CallOf, AnswerOf
  <1>13. \A u \in Threads \ {t} : CallOf(u)' = CallOf(u) /\ AnswerOf(u)' = AnswerOf(u)
    BY OthersLook
  <1>14. PICK m : m = Call(t)
    OBVIOUS
  <1>15. [u \in Threads |-> CallOf(u)]' = [[u \in Threads |-> CallOf(u)] EXCEPT ![t] = m]
    BY <1>12, <1>13, <1>14
  <1>16. [u \in Threads |-> AnswerOf(u)]' = [u \in Threads |-> AnswerOf(u)]
    BY <1>12, <1>13
  <1>17. legal' = [legal EXCEPT ![t] = IF m.op = "find" THEN {Contents[m.key]} ELSE {}]
    BY <1>1, <1>2, <1>14 DEF Key
  <1>18. [u \in Threads |-> CallOf(u)]'[t] = m
    BY <1>12, <1>14
  <1>19. Promise!Start(t)
    BY <1>4, <1>5, <1>12, <1>14, <1>15, <1>16, <1>17, <1>18 DEF Promise!Start
  <1> QED BY <1>11, <1>19 DEF Promise!Next

LEMMA ReturnPromise ==
    ASSUME PowerLaw, RHInv, RHInv', OrderInv, WalkInv, PromiseInv, NEW t \in Threads, Return(t)
    PROVE  PromiseInv' /\ Promise!Next
  <1>1. /\ pc[t] = "return" /\ pc' = [pc EXCEPT ![t] = "idle"] /\ todo' = [todo EXCEPT ![t] = Tail(@)]
        /\ walk' = [walk EXCEPT ![t] = NoWalk] /\ lookup' = [lookup EXCEPT ![t] = NoRead]
        /\ legal' = [legal EXCEPT ![t] = {}] /\ table' = table /\ Step(t)
    BY DEF Return, Goto, shared, Step
  <1>2. /\ legal \in [Threads -> SUBSET Results] /\ pc'[t] = "idle" /\ legal'[t] = {}
        /\ walk'[t].answer = Empty
        /\ \A u \in Threads \ {t} : legal'[u] = legal[u]
    BY <1>1 DEF PromiseInv, RHInv, Typed, NoWalk
  <1>3. Contents' = Contents
    BY <1>1 DEF Contents
  <1>4. LegalOK(t)' /\ AnswerOK(t)' /\ ReadingOK(t)'
    BY <1>2 DEF LegalOK, Finding, AnswerOK, Decided, Heading, ReadingOK, Reading
  <1>5. \A u \in Threads \ {t} : LegalOK(u)'
    <2> SUFFICES ASSUME NEW u \in Threads \ {t}
                 PROVE  LegalOK(u)'
      OBVIOUS
    <2>1. pc'[u] = pc[u] /\ todo'[u] = todo[u] /\ LegalOK(u)
      BY <1>1 DEF PromiseInv, RHInv, Typed
    <2> QED BY <1>2, <1>3, <2>1 DEF LegalOK, Finding, Key, Call
  <1>6. \A u \in Threads \ {t} : AnswerOK(u)' /\ ReadingOK(u)'
    BY <1>1, <1>2, OthersPromise
  <1>7. legal' \in [Threads -> SUBSET Results]
    BY <1>1, <1>2
  <1>8. PromiseInv'
    BY <1>4, <1>5, <1>6, <1>7 DEF PromiseInv
  <1>9. AnswerOf(t) # Empty
    <2>1. AnswerOK(t) /\ Decided(t)
      BY <1>1 DEF PromiseInv, Decided
    <2>2. Empty \notin legal[t]
      BY <1>2, RobinHoodAssumption DEF Results
    <2> QED BY <1>1, <2>1, <2>2 DEF AnswerOf, AnswerOK
  <1>10. CallOf(t)' = Empty /\ AnswerOf(t)' = Empty
    BY <1>2 DEF CallOf, AnswerOf
  <1>11. \A u \in Threads \ {t} : CallOf(u)' = CallOf(u) /\ AnswerOf(u)' = AnswerOf(u)
    BY <1>1, OthersLook
  <1>12. [u \in Threads |-> CallOf(u)]' = [[u \in Threads |-> CallOf(u)] EXCEPT ![t] = Empty]
    BY <1>10, <1>11
  <1>13. [u \in Threads |-> AnswerOf(u)]' = [[u \in Threads |-> AnswerOf(u)] EXCEPT ![t] = Empty]
    BY <1>10, <1>11
  <1>14. Promise!Return(t)
    BY <1>1, <1>3, <1>9, <1>12, <1>13 DEF Promise!Return
  <1> QED BY <1>8, <1>14 DEF Promise!Next

LEMMA InitPromise ==
    ASSUME PowerLaw, Init
    PROVE  PromiseInv /\ Promise!Init
  <1>1. /\ pc = [t \in Threads |-> "idle"] /\ walk = [t \in Threads |-> NoWalk]
        /\ lookup = [t \in Threads |-> NoRead] /\ legal = [t \in Threads |-> {}]
    BY DEF Init
  <1>2. \A t \in Threads : LegalOK(t) /\ AnswerOK(t) /\ ReadingOK(t)
    BY <1>1 DEF LegalOK, Finding, AnswerOK, Decided, Heading, ReadingOK, Reading, NoWalk
  <1>3. PromiseInv
    BY <1>1, <1>2 DEF PromiseInv
  <1>4. Contents \in [Keys -> Results]
    BY InitHolds, InitOrder, ContentsTyped
  <1>5. [t \in Threads |-> CallOf(t)] = [t \in Threads |-> Empty]
    BY <1>1 DEF CallOf
  <1>6. [t \in Threads |-> AnswerOf(t)] = [t \in Threads |-> Empty]
    BY <1>1 DEF AnswerOf, NoWalk
  <1> QED BY <1>1, <1>3, <1>4, <1>5, <1>6 DEF Promise!Init, Results

LEMMA SameStatePromise ==
    ASSUME PromiseInv, UNCHANGED vars
    PROVE  PromiseInv' /\ UNCHANGED Promise!vars
  <1>1. UNCHANGED <<hp_, table, locks, pc, todo, walk, lookup, legal>>
    BY DEF vars, shared
  <1>2. Contents' = Contents
    BY <1>1 DEF Contents
  <1>3. \A u \in Threads : CallOf(u)' = CallOf(u) /\ AnswerOf(u)' = AnswerOf(u)
    BY <1>1 DEF CallOf, AnswerOf, Call
  <1>4. UNCHANGED Promise!vars
    BY <1>1, <1>2, <1>3, SamePromise
  <1>5. ASSUME NEW u \in Threads
        PROVE  LegalOK(u)' /\ AnswerOK(u)' /\ ReadingOK(u)'
    <2>1. LegalOK(u) /\ AnswerOK(u) /\ ReadingOK(u)
      BY DEF PromiseInv
    <2>2. LegalOK(u)'
      BY <1>1, <1>2, <2>1 DEF LegalOK, Finding, Key, Call
    <2>3. AnswerOK(u)'
      BY <1>1, <2>1 DEF AnswerOK, Decided, Heading, Call
    <2>4. /\ HomeOf(u)' = HomeOf(u) /\ HomeBucket(u)' = HomeBucket(u) /\ Known(u)' = Known(u)
          /\ Key(u)' = Key(u) /\ BucketIds' = BucketIds
          /\ \A b : EpochRead(u, b)' = EpochRead(u, b)
      BY <1>1 DEF Known, ReadBucket, EpochRead, HomeBucket, HomeOf, Key, Call, BucketIds
    <2>5. \A b : Stands(u, b)' <=> Stands(u, b)
      BY <1>1, <2>4 DEF Stands
    <2>6. (Stands(u, HomeBucket(u)))' <=> Stands(u, HomeBucket(u))
      BY <1>1 DEF Stands, EpochRead, HomeBucket, HomeOf, Key, Call
    <2>7. (Stands(u, BucketOf(lookup[u].at)))' <=> Stands(u, BucketOf(lookup[u].at))
      BY <1>1 DEF Stands, EpochRead, HomeBucket, HomeOf, Key, Call
    <2>8. \A j : Stands(u, BucketOf(j))' <=> Stands(u, BucketOf(j))
      BY <2>5
    <2>9. EpochsOK(u) => EpochsOK(u)'
      BY <1>1, <2>4, <2>6 DEF EpochsOK
    <2>10. SeenOK(u) => SeenOK(u)'
      BY <1>1, <2>4, <2>5, <2>7, <2>8 DEF SeenOK
    <2> QED BY <1>1, <2>1, <2>2, <2>3, <2>9, <2>10 DEF ReadingOK
  <1>6. PromiseInv'
    BY <1>1, <1>5 DEF PromiseInv
  <1> QED BY <1>4, <1>6

LEMMA NextPromise ==
    PowerLaw /\ RHInv /\ RHInv' /\ OrderInv /\ OrderInv' /\ WalkInv /\ AsExpected /\ PromiseInv
        /\ [Next]_vars => PromiseInv' /\ [Promise!Next]_Promise!vars
  <1> SUFFICES ASSUME PowerLaw, RHInv, RHInv', OrderInv, OrderInv', WalkInv, AsExpected, PromiseInv,
                      [Next]_vars
               PROVE  PromiseInv' /\ [Promise!Next]_Promise!vars
    OBVIOUS
  <1>1. CASE UNCHANGED vars
    BY <1>1, SameStatePromise
  <1>2. ASSUME NEW t \in Threads, Begin(t) \/ Step(t)
        PROVE  PromiseInv' /\ [Promise!Next]_Promise!vars
    <2>1. CASE Begin(t)
      BY <2>1, BeginPromise
    <2>2. CASE Start(t)
      BY <2>2, StartPromise
    <2>3. CASE Return(t)
      BY <2>3, ReturnPromise
    <2>4. CASE Find(t)
      BY <2>4, FindPromise
    <2>5. CASE Effective(t)
      <3>1. Write(t)
        BY <2>5 DEF Effective, Write
      <3> QED BY <2>5, <3>1, EffectivePromise
    <2>6. CASE (Write(t) \/ Double(t)) /\ ~Effective(t)
      BY <2>6, UndecidedPromise
    <2> QED BY <1>2, <2>1, <2>2, <2>3, <2>4, <2>5, <2>6 DEF Step
  <1> QED BY <1>1, <1>2 DEF Next, Finished

\* The map keeps the promises of a concurrent map: every insertion, update and
\* erasure takes effect in one step between its call and its return and
\* answers by the content at that step (216-276), every find answers what its
\* key had during the call (194-222), and displacements (563-591), shifts
\* (457-469) and doublings (609-643) change nothing that a caller can see.
THEOREM MapKeepsPromises == PowerLaw => (Spec /\ []AsExpected => KeepsPromises)
  <1> SUFFICES ASSUME PowerLaw PROVE Spec /\ []AsExpected => KeepsPromises
    OBVIOUS
  <1>1. Init => PromiseInv /\ Promise!Init
    BY InitPromise
  <1>2. RHInv /\ RHInv' /\ OrderInv /\ OrderInv' /\ WalkInv /\ AsExpected /\ PromiseInv /\ [Next]_vars =>
            PromiseInv' /\ [Promise!Next]_Promise!vars
    BY NextPromise
  <1> QED BY <1>1, <1>2, LocksInvariant, OrderInvariant, InsideInvariant, PTL
          DEF Spec, KeepsPromises, Promise!Spec
=============================================================================
