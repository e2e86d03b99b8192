----------------------------- MODULE SumProofs -----------------------------
(***************************************************************************)
(* Sums of a function over a finite set, as module Functions defines them  *)
(* (SumFunction), and what counting has to do with them: the maps add up   *)
(* the counters of their locks to the number of their elements.            *)
(***************************************************************************)
EXTENDS Integers, FiniteSets, FiniteSetsExt, Functions, FiniteSetTheorems,
        WellFoundedInduction, TLAPS

\* The element a sum takes next, and the sums over all subsets of a set.
OneOf(S) == CHOOSE x \in S : TRUE
SumStep(f, g, s) == IF s = {} THEN 0 ELSE f[OneOf(s)] + g[s \ {OneOf(s)}]
SumsOf(f, g, S) == g = [s \in SUBSET S |-> SumStep(f, g, s)]
Sum(f, S) == SumFunctionOnSet(f, S)

\* A set of subsets of a finite set that is not empty has a smallest member.
LEMMA SmallestSet ==
    ASSUME NEW S, IsFiniteSet(S), NEW T \in SUBSET (SUBSET S), T # {}
    PROVE  \E x \in T : \A y \in T : y \subseteq x => y = x
  <1>1. T \subseteq FiniteSubsetsOf(S)
    BY FS_Subset DEF FiniteSubsetsOf
  <1>2. PICK x \in T : \A y \in T : ~(<<y, x>> \in StrictSubsetOrdering(S))
    BY <1>1, FS_StrictSubsetOrderingWellFounded, WFMin
  <1>3. \A y \in T : y \subseteq x => y = x
    BY <1>2 DEF StrictSubsetOrdering
  <1> QED BY <1>3

\* Sums over the subsets of two sets agree on their common subsets.
LEMMA SumsAgree ==
    ASSUME NEW f, NEW S, IsFiniteSet(S), NEW R, NEW g, NEW h, SumsOf(f, g, S), SumsOf(f, h, R),
           S \subseteq R, NEW v \in SUBSET S
    PROVE  g[v] = h[v]
  <1> DEFINE T == {s \in SUBSET S : g[s] # h[s]}
  <1>1. SUFFICES ASSUME T # {} PROVE FALSE
    OBVIOUS
  <1>2. PICK s \in T : \A y \in T : y \subseteq s => y = s
    <2>1. T \in SUBSET (SUBSET S)
      OBVIOUS
    <2> HIDE DEF T
    <2> QED BY <1>1, <2>1, SmallestSet
  <1>3. s \in SUBSET S /\ s \in SUBSET R /\ g[s] # h[s]
    OBVIOUS
  <1>4. g[s] = SumStep(f, g, s) /\ h[s] = SumStep(f, h, s)
    BY <1>3 DEF SumsOf
  <1>5. s # {}
    BY <1>3, <1>4 DEF SumStep
  <1>6. OneOf(s) \in s
    BY <1>5 DEF OneOf
  <1>7. g[s \ {OneOf(s)}] = h[s \ {OneOf(s)}]
    <2>1. s \ {OneOf(s)} \notin T
      BY <1>2, <1>6
    <2> QED BY <2>1, <1>3
  <1> QED BY <1>3, <1>4, <1>7 DEF SumStep

\* There are sums over all subsets of a finite set.
LEMMA SumsExist ==
    ASSUME NEW f, NEW S, IsFiniteSet(S)
    PROVE  \E g : SumsOf(f, g, S)
  <1> DEFINE T == {s \in SUBSET S : ~\E g : SumsOf(f, g, s)}
  <1>1. SUFFICES ASSUME T # {} PROVE FALSE
    OBVIOUS
  <1>2. PICK s \in T : \A y \in T : y \subseteq s => y = s
    <2>1. T \in SUBSET (SUBSET S)
      OBVIOUS
    <2> HIDE DEF T
    <2> QED BY <1>1, <2>1, SmallestSet
  <1>3. s \in SUBSET S /\ ~\E g : SumsOf(f, g, s)
    OBVIOUS
  <1> DEFINE H(v) == CHOOSE g : SumsOf(f, g, v)
             G == [v \in SUBSET s |-> IF v = {} THEN 0 ELSE f[OneOf(v)] + H(v \ {OneOf(v)})[v \ {OneOf(v)}]]
  <1>4. \A v \in SUBSET s : v # s => SumsOf(f, H(v), v)
    BY <1>2, <1>3
  <1> HIDE DEF H, T
  <1>5. ASSUME NEW v \in SUBSET s, v # {}
        PROVE  G[v] = f[OneOf(v)] + G[v \ {OneOf(v)}]
    <2> DEFINE w == v \ {OneOf(v)}
    <2>1. OneOf(v) \in v
      BY <1>5 DEF OneOf
    <2>2. w \in SUBSET s /\ w # s
      BY <2>1
    <2>3. SumsOf(f, H(w), w)
      BY <2>2, <1>4
    <2>4. H(w)[w] = G[w]
      <3>1. H(w)[w] = SumStep(f, H(w), w)
        BY <2>3 DEF SumsOf
      <3>2. CASE w = {}
        BY <3>1, <3>2, <2>2 DEF SumStep
      <3>3. CASE w # {}
        <4> DEFINE u == w \ {OneOf(w)}
        <4>1. OneOf(w) \in w
          BY <3>3 DEF OneOf
        <4>2. u \in SUBSET s /\ u # s /\ u \subseteq w
          BY <4>1, <2>2
        <4>3. SumsOf(f, H(u), u)
          BY <4>2, <1>4
        <4>4. IsFiniteSet(u)
          BY <1>3, <4>2, FS_Subset
        <4>5. H(u)[u] = H(w)[u]
          <5> HIDE DEF u, w
          <5>1. u \in SUBSET u
            OBVIOUS
          <5> QED BY <4>2, <4>3, <4>4, <2>3, <5>1, SumsAgree
        <4>6. G[w] = f[OneOf(w)] + H(u)[u]
          BY <3>3, <2>2
        <4> QED BY <3>1, <3>3, <4>5, <4>6 DEF SumStep
      <3> QED BY <3>2, <3>3
    <2> QED BY <2>4, <1>5
  <1>6. SumsOf(f, G, s)
    <2>1. \A v \in SUBSET s : G[v] = SumStep(f, G, v)
      <3> TAKE v \in SUBSET s
      <3>1. CASE v = {}
        BY <3>1 DEF SumStep
      <3>2. CASE v # {}
        <4> HIDE DEF G
        <4> QED BY <3>2, <1>5 DEF SumStep
      <3> QED BY <3>1, <3>2
    <2>2. G = [v \in SUBSET s |-> G[v]]
      OBVIOUS
    <2> HIDE DEF G
    <2> QED BY <2>1, <2>2 DEF SumsOf
  <1> QED BY <1>3, <1>6

\* What the recursion of a sum computes.
LEMMA SumIsSums ==
    ASSUME NEW f, NEW S, IsFiniteSet(S)
    PROVE  \E g : SumsOf(f, g, S) /\ Sum(f, S) = g[S]
  <1> DEFINE g == CHOOSE h : h = [s \in SUBSET S |-> SumStep(f, h, s)]
  <1>1. Sum(f, S) = g[S]
    BY DEF Sum, SumFunctionOnSet, FoldFunctionOnSet, MapThenFoldSet, SumStep, OneOf
  <1>2. PICK h : SumsOf(f, h, S)
    BY SumsExist
  <1>3. SumsOf(f, g, S)
    BY <1>2 DEF SumsOf
  <1> HIDE DEF g
  <1> QED BY <1>1, <1>3

LEMMA SumEmpty == ASSUME NEW f PROVE Sum(f, {}) = 0
  <1>1. PICK g : SumsOf(f, g, {}) /\ Sum(f, {}) = g[{}]
    BY SumIsSums, FS_EmptySet
  <1>2. g[{}] = SumStep(f, g, {})
    BY <1>1 DEF SumsOf
  <1> QED BY <1>1, <1>2 DEF SumStep

LEMMA SumUnfold ==
    ASSUME NEW f, NEW S, IsFiniteSet(S), S # {}
    PROVE  /\ OneOf(S) \in S
           /\ Sum(f, S) = f[OneOf(S)] + Sum(f, S \ {OneOf(S)})
  <1> DEFINE R == S \ {OneOf(S)}
  <1>1. OneOf(S) \in S
    BY DEF OneOf
  <1>2. IsFiniteSet(R)
    BY FS_RemoveElement
  <1>3. PICK g : SumsOf(f, g, S) /\ Sum(f, S) = g[S]
    BY SumIsSums
  <1>4. PICK h : SumsOf(f, h, R) /\ Sum(f, R) = h[R]
    BY <1>2, SumIsSums
  <1>5. g[S] = f[OneOf(S)] + g[R]
    BY <1>3 DEF SumsOf, SumStep
  <1>6. g[R] = h[R]
    BY <1>2, <1>3, <1>4, SumsAgree
  <1> QED BY <1>1, <1>3, <1>4, <1>5, <1>6

LEMMA SumType ==
    ASSUME NEW f, NEW S, IsFiniteSet(S), \A x \in S : f[x] \in Int
    PROVE  Sum(f, S) \in Int
  <1> DEFINE T == {s \in SUBSET S : Sum(f, s) \notin Int}
  <1>1. SUFFICES ASSUME T # {} PROVE FALSE
    <2>1. S \in SUBSET S
      OBVIOUS
    <2> QED BY <2>1
  <1>2. PICK s \in T : \A y \in T : y \subseteq s => y = s
    <2>1. T \in SUBSET (SUBSET S)
      OBVIOUS
    <2> HIDE DEF T
    <2> QED BY <1>1, <2>1, SmallestSet
  <1>3. s \in SUBSET S /\ Sum(f, s) \notin Int /\ IsFiniteSet(s)
    BY FS_Subset
  <1>4. s # {}
    BY <1>3, SumEmpty
  <1>5. OneOf(s) \in s /\ Sum(f, s) = f[OneOf(s)] + Sum(f, s \ {OneOf(s)})
    BY <1>3, <1>4, SumUnfold
  <1>6. Sum(f, s \ {OneOf(s)}) \in Int
    BY <1>2, <1>5, <1>3
  <1>7. f[OneOf(s)] \in Int
    BY <1>3, <1>5
  <1> QED BY <1>3, <1>5, <1>6, <1>7

\* A sum does not depend on the order of the elements.
LEMMA SumRemove ==
    ASSUME NEW f, NEW S, IsFiniteSet(S), \A x \in S : f[x] \in Int, NEW a \in S
    PROVE  Sum(f, S) = f[a] + Sum(f, S \ {a})
  <1> DEFINE T == {s \in SUBSET S : \E x \in s : Sum(f, s) # f[x] + Sum(f, s \ {x})}
  <1>1. SUFFICES ASSUME T # {} PROVE FALSE
    <2>1. S \in SUBSET S
      OBVIOUS
    <2> QED BY <2>1
  <1>2. PICK s \in T : \A y \in T : y \subseteq s => y = s
    <2>1. T \in SUBSET (SUBSET S)
      OBVIOUS
    <2> HIDE DEF T
    <2> QED BY <1>1, <2>1, SmallestSet
  <1>3. PICK x \in s : Sum(f, s) # f[x] + Sum(f, s \ {x})
    OBVIOUS
  <1>4. s \in SUBSET S /\ IsFiniteSet(s) /\ s # {}
    BY <1>3, FS_Subset
  <1> DEFINE c == OneOf(s)
             r == s \ {c}
             q == s \ {x}
             b == r \ {x}
  <1>5. c \in s /\ Sum(f, s) = f[c] + Sum(f, r)
    BY <1>4, SumUnfold
  <1>6. c # x
    BY <1>5, <1>3
  <1>7. r \in SUBSET S /\ q \in SUBSET S /\ r # s /\ q # s /\ x \in r /\ c \in q /\ b = q \ {c}
    BY <1>4, <1>5, <1>6
  <1>8. r \notin T /\ q \notin T
    BY <1>2, <1>5
  <1> HIDE DEF c
  <1>9. Sum(f, r) = f[x] + Sum(f, b)
    BY <1>7, <1>8
  <1>10. Sum(f, q) = f[c] + Sum(f, b)
    BY <1>7, <1>8
  <1>11. Sum(f, b) \in Int /\ f[c] \in Int /\ f[x] \in Int
    <2>1. IsFiniteSet(b) /\ b \in SUBSET S
      BY <1>4, FS_Subset
    <2>2. Sum(f, b) \in Int
      BY <2>1, SumType
    <2> QED BY <2>2, <1>4, <1>5, <1>3
  <1>12. Sum(f, s) = f[x] + Sum(f, q)
    <2> HIDE DEF b, r, q
    <2> QED BY <1>5, <1>9, <1>10, <1>11
  <1> QED BY <1>12, <1>3

LEMMA SumSame ==
    ASSUME NEW f, NEW g, NEW S, IsFiniteSet(S), \A x \in S : f[x] = g[x]
    PROVE  Sum(f, S) = Sum(g, S)
  <1> DEFINE T == {s \in SUBSET S : Sum(f, s) # Sum(g, s)}
  <1>1. SUFFICES ASSUME T # {} PROVE FALSE
    <2>1. S \in SUBSET S
      OBVIOUS
    <2> QED BY <2>1
  <1>2. PICK s \in T : \A y \in T : y \subseteq s => y = s
    <2>1. T \in SUBSET (SUBSET S)
      OBVIOUS
    <2> HIDE DEF T
    <2> QED BY <1>1, <2>1, SmallestSet
  <1>3. s \in SUBSET S /\ Sum(f, s) # Sum(g, s) /\ IsFiniteSet(s)
    BY FS_Subset
  <1>4. s # {}
    BY <1>3, SumEmpty
  <1>5. /\ OneOf(s) \in s
        /\ Sum(f, s) = f[OneOf(s)] + Sum(f, s \ {OneOf(s)})
        /\ Sum(g, s) = g[OneOf(s)] + Sum(g, s \ {OneOf(s)})
    BY <1>3, <1>4, SumUnfold
  <1>6. Sum(f, s \ {OneOf(s)}) = Sum(g, s \ {OneOf(s)})
    BY <1>2, <1>5, <1>3
  <1> QED BY <1>3, <1>5, <1>6

\* One summand is changed.
LEMMA SumChange ==
    ASSUME NEW f, NEW g, NEW S, IsFiniteSet(S), NEW a \in S, \A x \in S : f[x] \in Int,
           g[a] \in Int, \A x \in S \ {a} : g[x] = f[x]
    PROVE  Sum(g, S) = Sum(f, S) + (g[a] - f[a])
  <1>1. \A x \in S : g[x] \in Int
    OBVIOUS
  <1>2. Sum(f, S) = f[a] + Sum(f, S \ {a})
    BY SumRemove
  <1>3. Sum(g, S) = g[a] + Sum(g, S \ {a})
    BY <1>1, SumRemove
  <1>4. IsFiniteSet(S \ {a})
    BY FS_RemoveElement
  <1>5. Sum(g, S \ {a}) = Sum(f, S \ {a}) /\ Sum(f, S \ {a}) \in Int
    BY <1>4, SumSame, SumType
  <1> QED BY <1>2, <1>3, <1>5

\* Sums over two sets that have no element in common.
LEMMA SumUnion ==
    ASSUME NEW f, NEW S, IsFiniteSet(S), NEW R, IsFiniteSet(R), S \cap R = {},
           \A x \in S \cup R : f[x] \in Int
    PROVE  Sum(f, S \cup R) = Sum(f, S) + Sum(f, R)
  <1> DEFINE T == {s \in SUBSET R : Sum(f, S \cup s) # Sum(f, S) + Sum(f, s)}
  <1>1. SUFFICES ASSUME T # {} PROVE FALSE
    <2>1. R \in SUBSET R
      OBVIOUS
    <2> QED BY <2>1
  <1>2. PICK s \in T : \A y \in T : y \subseteq s => y = s
    <2>1. T \in SUBSET (SUBSET R)
      OBVIOUS
    <2> HIDE DEF T
    <2> QED BY <1>1, <2>1, SmallestSet
  <1>3. s \in SUBSET R /\ Sum(f, S \cup s) # Sum(f, S) + Sum(f, s) /\ IsFiniteSet(s)
    BY FS_Subset
  <1>4. s # {}
    <2>1. ASSUME s = {} PROVE FALSE
      <3>1. S \cup s = S
        BY <2>1
      <3> QED BY <3>1, <2>1, <1>3, SumEmpty, SumType
    <2> QED BY <2>1
  <1>5. PICK a \in s : TRUE
    BY <1>4
  <1> DEFINE r == s \ {a}
  <1>6. Sum(f, s) = f[a] + Sum(f, r)
    BY <1>3, <1>5, SumRemove
  <1>7. Sum(f, S \cup s) = f[a] + Sum(f, S \cup r)
    <2>1. IsFiniteSet(S \cup s) /\ a \in S \cup s /\ (S \cup s) \ {a} = S \cup r
      BY <1>3, <1>5, FS_Union
    <2>2. \A x \in S \cup s : f[x] \in Int
      BY <1>3
    <2>3. Sum(f, S \cup s) = f[a] + Sum(f, (S \cup s) \ {a})
      BY <2>1, <2>2, SumRemove
    <2> QED BY <2>1, <2>3
  <1>8. Sum(f, S \cup r) = Sum(f, S) + Sum(f, r)
    BY <1>2, <1>3, <1>5
  <1>9. Sum(f, S) \in Int /\ Sum(f, r) \in Int /\ f[a] \in Int
    <2>1. IsFiniteSet(r) /\ \A x \in r : f[x] \in Int
      BY <1>3, FS_Subset
    <2>2. Sum(f, r) \in Int
      BY <2>1, SumType
    <2> QED BY <2>2, <1>3, <1>5, SumType
  <1> HIDE DEF r
  <1> QED BY <1>3, <1>6, <1>7, <1>8, <1>9

\* A sum of zeros.
LEMMA SumZeros ==
    ASSUME NEW f, NEW S, IsFiniteSet(S), \A x \in S : f[x] = 0
    PROVE  Sum(f, S) = 0
  <1> DEFINE T == {s \in SUBSET S : Sum(f, s) # 0}
  <1>1. SUFFICES ASSUME T # {} PROVE FALSE
    <2>1. S \in SUBSET S
      OBVIOUS
    <2> QED BY <2>1
  <1>2. PICK s \in T : \A y \in T : y \subseteq s => y = s
    <2>1. T \in SUBSET (SUBSET S)
      OBVIOUS
    <2> HIDE DEF T
    <2> QED BY <1>1, <2>1, SmallestSet
  <1>3. s \in SUBSET S /\ Sum(f, s) # 0 /\ IsFiniteSet(s)
    BY FS_Subset
  <1>4. s # {}
    BY <1>3, SumEmpty
  <1>5. OneOf(s) \in s /\ Sum(f, s) = f[OneOf(s)] + Sum(f, s \ {OneOf(s)})
    BY <1>3, <1>4, SumUnfold
  <1>6. Sum(f, s \ {OneOf(s)}) = 0
    BY <1>2, <1>5, <1>3
  <1> QED BY <1>3, <1>5, <1>6

\* The members of a set, counted class by class.
LEMMA SumOfClasses ==
    ASSUME NEW f, NEW S, IsFiniteSet(S), NEW E, IsFiniteSet(E), NEW c,
           \A e \in E : c[e] \in S,
           \A x \in S : f[x] = Cardinality({e \in E : c[e] = x})
    PROVE  Sum(f, S) = Cardinality(E)
  <1> DEFINE T == {s \in SUBSET S : Sum(f, s) # Cardinality({e \in E : c[e] \in s})}
  <1>1. SUFFICES ASSUME T # {} PROVE FALSE
    <2>1. S \in SUBSET S /\ {e \in E : c[e] \in S} = E
      OBVIOUS
    <2> QED BY <2>1
  <1>2. PICK s \in T : \A y \in T : y \subseteq s => y = s
    <2>1. T \in SUBSET (SUBSET S)
      OBVIOUS
    <2> HIDE DEF T
    <2> QED BY <1>1, <2>1, SmallestSet
  <1>3. s \in SUBSET S /\ Sum(f, s) # Cardinality({e \in E : c[e] \in s}) /\ IsFiniteSet(s)
    BY FS_Subset
  <1>4. s # {}
    <2>1. ASSUME s = {} PROVE FALSE
      <3>1. {e \in E : c[e] \in s} = {}
        BY <2>1
      <3> QED BY <3>1, <2>1, <1>3, SumEmpty, FS_EmptySet
    <2> QED BY <2>1
  <1> DEFINE a == OneOf(s)
             r == s \ {a}
             A == {e \in E : c[e] = a}
             B == {e \in E : c[e] \in r}
  <1>5. a \in s /\ Sum(f, s) = f[a] + Sum(f, r)
    BY <1>3, <1>4, SumUnfold
  <1>6. Sum(f, r) = Cardinality(B)
    <2>1. r \in SUBSET S /\ r \subseteq s /\ r # s
      BY <1>3, <1>5
    <2>2. r \notin T
      BY <2>1, <1>2
    <2> HIDE DEF r
    <2> QED BY <2>1, <2>2
  <1>7. IsFiniteSet(A) /\ IsFiniteSet(B) /\ A \cap B = {} /\ {e \in E : c[e] \in s} = A \cup B
    BY <1>5, FS_Subset
  <1>8. f[a] = Cardinality(A)
    BY <1>3, <1>5
  <1> HIDE DEF A, B, a, r
  <1>9. Cardinality(A \cup B) = Cardinality(A) + Cardinality(B)
    <2> HIDE DEF T
    <2>1. Cardinality(A \cup B) = Cardinality(A) + Cardinality(B) - Cardinality(A \cap B)
      BY <1>7, FS_Union
    <2>2. Cardinality(A \cap B) = 0
      BY <1>7, FS_EmptySet
    <2>3. Cardinality(A) \in Nat /\ Cardinality(B) \in Nat
      BY <1>7, FS_CardinalityType
    <2> QED BY <2>1, <2>2, <2>3
  <1> QED BY <1>3, <1>5, <1>6, <1>7, <1>8, <1>9

\* Two sets with a one-to-one map between them have as many members.
LEMMA SameCount ==
    ASSUME NEW S, NEW T, IsFiniteSet(T), NEW f \in [S -> T],
           \A x, y \in S : f[x] = f[y] => x = y, \A y \in T : \E x \in S : f[x] = y
    PROVE  IsFiniteSet(S) /\ Cardinality(S) = Cardinality(T)
  <1>1. f \in Injection(S, T) /\ f \in Surjection(S, T)
    BY DEF Injection, Surjection, IsInjective
  <1> QED BY <1>1, FS_Injection

\* Two sums over two sets, where each pair of numbers keeps its sum.
LEMMA SumPairs ==
    ASSUME NEW f, NEW g, NEW S, IsFiniteSet(S), NEW R, IsFiniteSet(R), NEW m \in [S -> R],
           \A x, y \in S : m[x] = m[y] => x = y, S \cap R = {},
           \A x \in S \cup R : f[x] \in Int /\ g[x] \in Int,
           \A x \in S : g[x] + g[m[x]] = f[x] + f[m[x]],
           NEW Both, \A x : x \in Both <=> x \in S \/ \E y \in S : x = m[y]
    PROVE  Sum(f, Both) = Sum(g, Both)
  <1> DEFINE U(s) == s \cup {m[x] : x \in s}
             T == {s \in SUBSET S : Sum(f, U(s)) # Sum(g, U(s))}
  <1>1. ASSUME T # {} PROVE FALSE
    <2>1. PICK s \in T : \A y \in T : y \subseteq s => y = s
      <3>1. T \in SUBSET (SUBSET S)
        OBVIOUS
      <3> HIDE DEF T
      <3> QED BY <1>1, <3>1, SmallestSet
    <2>2. s \in SUBSET S /\ Sum(f, U(s)) # Sum(g, U(s))
      OBVIOUS
    <2>3. s # {}
      <3>1. U({}) = {}
        OBVIOUS
      <3>2. Sum(f, {}) = 0 /\ Sum(g, {}) = 0
        BY SumEmpty
      <3> QED BY <2>2, <3>1, <3>2
    <2>4. PICK a \in s : TRUE
      BY <2>3
    <2> DEFINE r == s \ {a}
               V == U(r)
               W == V \cup {m[a]}
    <2>5. Sum(f, U(r)) = Sum(g, U(r))
      <3>1. r \subseteq s /\ r # s /\ r \in SUBSET S
        BY <2>2, <2>4
      <3>2. r \notin T
        BY <2>1, <3>1
      <3> QED BY <3>1, <3>2
    <2>6. a \in S /\ m[a] \in R /\ a \notin R /\ m[a] \notin S
      BY <2>2, <2>4
    <2>7. V \in SUBSET (S \cup R) /\ W \in SUBSET (S \cup R)
      BY <2>2, <2>6
    <2>8. m[a] \notin V
      BY <2>2, <2>6
    <2>9. a \notin W
      BY <2>2, <2>6
    <2>10. U(s) = W \cup {a}
      BY <2>2, <2>4
    <2>11. IsFiniteSet(V) /\ IsFiniteSet(W) /\ IsFiniteSet(U(s)) /\ U(s) \in SUBSET (S \cup R)
      <3>1. IsFiniteSet(S \cup R)
        BY FS_Union
      <3>2. U(s) \in SUBSET (S \cup R)
        BY <2>6, <2>7, <2>10
      <3> HIDE DEF V, W, U
      <3> QED BY <2>7, <3>1, <3>2, FS_Subset
    <2>12. U(s) \ {a} = W /\ W \ {m[a]} = V /\ a \in U(s) /\ m[a] \in W
      BY <2>8, <2>9, <2>10
    <2>13. Sum(f, U(r)) = Sum(f, V) /\ Sum(g, U(r)) = Sum(g, V)
      OBVIOUS
    <2> HIDE DEF V, W, U, T
    <2>14. Sum(f, U(s)) = f[a] + (f[m[a]] + Sum(f, V)) /\ Sum(f, V) \in Int
      <3>1. Sum(f, U(s)) = f[a] + Sum(f, U(s) \ {a})
        BY <2>11, <2>12, SumRemove
      <3>2. Sum(f, W) = f[m[a]] + Sum(f, W \ {m[a]})
        BY <2>7, <2>11, <2>12, SumRemove
      <3>3. Sum(f, V) \in Int
        BY <2>7, <2>11, SumType
      <3> QED BY <2>12, <3>1, <3>2, <3>3
    <2>15. Sum(g, U(s)) = g[a] + (g[m[a]] + Sum(g, V)) /\ Sum(g, V) \in Int
      <3>1. Sum(g, U(s)) = g[a] + Sum(g, U(s) \ {a})
        BY <2>11, <2>12, SumRemove
      <3>2. Sum(g, W) = g[m[a]] + Sum(g, W \ {m[a]})
        BY <2>7, <2>11, <2>12, SumRemove
      <3>3. Sum(g, V) \in Int
        BY <2>7, <2>11, SumType
      <3> QED BY <2>12, <3>1, <3>2, <3>3
    <2>16. /\ f[a] \in Int /\ f[m[a]] \in Int /\ g[a] \in Int /\ g[m[a]] \in Int
           /\ g[a] + g[m[a]] = f[a] + f[m[a]]
      BY <2>6
    <2>17. Sum(f, V) = Sum(g, V)
      BY <2>5, <2>13
    <2>18. PICK p, q, u, w, v \in Int : /\ p = f[a] /\ q = f[m[a]] /\ u = g[a] /\ w = g[m[a]]
                                        /\ v = Sum(f, V)
      BY <2>14, <2>16
    <2>21. u + w = p + q
      BY <2>16, <2>18
    <2>22. u + (w + v) = p + (q + v)
      BY <2>21
    <2>19. g[a] + (g[m[a]] + Sum(f, V)) = f[a] + (f[m[a]] + Sum(f, V))
      BY <2>18, <2>22
    <2>20. Sum(f, U(s)) = Sum(g, U(s))
      BY <2>14, <2>15, <2>17, <2>19, Zenon
    <2> QED BY <2>2, <2>20
  <1>2. Sum(f, U(S)) = Sum(g, U(S))
    <2>1. S \notin T
      BY <1>1
    <2>2. S \in SUBSET S
      OBVIOUS
    <2>3. (Sum(f, U(S)) # Sum(g, U(S))) => S \in T
      BY <2>2
    <2> HIDE DEF T, U
    <2> QED BY <2>1, <2>3
  <1>3. Both = U(S)
    OBVIOUS
  <1> HIDE DEF U
  <1> QED BY <1>2, <1>3

\* Two sums over two halves, where each pair of numbers keeps its sum.
LEMMA SumHalves ==
    ASSUME NEW n \in Nat, NEW f, NEW g, \A x \in 0..2 * n - 1 : f[x] \in Int /\ g[x] \in Int,
           \A x \in 0..n - 1 : g[x] + g[x + n] = f[x] + f[x + n]
    PROVE  Sum(f, 0..2 * n - 1) = Sum(g, 0..2 * n - 1)
  <1> DEFINE S == 0..n - 1
             R == n..2 * n - 1
             m == [x \in S |-> x + n]
             Both == 0..2 * n - 1
  <1>1. IsFiniteSet(S) /\ IsFiniteSet(R)
    BY FS_Interval
  <1>2. S \cap R = {} /\ S \cup R = Both
    OBVIOUS
  <1>3. m \in [S -> R] /\ \A x, y \in S : m[x] = m[y] => x = y
    OBVIOUS
  <1>4. \A x \in S : m[x] = x + n
    OBVIOUS
  <1>5. \A x : x \in Both <=> x \in S \/ \E y \in S : x = m[y]
    <2>1. \A x \in Both : x \in S \/ (x - n \in S /\ m[x - n] = x)
      OBVIOUS
    <2>2. \A x \in S : x \in Both /\ m[x] \in Both
      OBVIOUS
    <2> HIDE DEF S, m, Both
    <2> QED BY <2>1, <2>2
  <1>6. \A x \in S : g[x] + g[m[x]] = f[x] + f[m[x]]
    BY <1>4
  <1>7. \A x \in S \cup R : f[x] \in Int /\ g[x] \in Int
    BY <1>2
  <1> HIDE DEF S, R, m, Both
  <1>8. Sum(f, Both) = Sum(g, Both)
    BY <1>1, <1>2, <1>3, <1>5, <1>6, <1>7, SumPairs
  <1> QED BY <1>8 DEF Both

=============================================================================
