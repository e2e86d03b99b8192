------------------------- MODULE SeqlockWeakProofs -------------------------
(***************************************************************************)
(* Who holds the sequence lock sees the newest of everything behind it, in *)
(* the memory of SeqlockWeak: for every set of threads, every number of    *)
(* pieces and of calls, and every kind of operation, with or without the   *)
(* fence.  The argument is the one of every lock: the message that clears  *)
(* the flag carries the view of the last holder, to whom all was up to     *)
(* date, and nothing is stored while the flag is clear.                    *)
(* From there the types: what the holder counts on from is the newest      *)
(* epoch, whose parity is that of the place the holder has come to.        *)
(***************************************************************************)
EXTENDS SeqlockWeak, TLAPS

Stored == [val : Int, view : View]

\* Where the epoch is odd.
Opened == {<<"fence">>, <<"publish">>} \cup ({"store"} \X Pieces)

\* Every view points at messages there are.
Bounded ==
    \A t \in Threads, l \in Locations :
        /\ cur[t][l] \in 1 .. Len(mem[l])
        /\ acq[t][l] \in 1 .. Len(mem[l])
        /\ rel[t][l] \in 1 .. Len(mem[l])

\* So does every view that is handed on.
Carried ==
    \A l \in Locations : \A i \in 1 .. Len(mem[l]) : \A k \in Locations :
        mem[l][i].view[k] \in 1 .. Len(mem[k])

ShapeOK ==
    /\ mem \in [Locations -> Seq(Stored)]
    /\ cur \in [Threads -> View] /\ acq \in [Threads -> View] /\ rel \in [Threads -> View]
    /\ pc \in [Threads -> Labels]
    /\ \A l \in Locations : Len(mem[l]) > 0

\* A clear flag: nobody is in a critical section, and the message that cleared
\* it hands on all there is.
ClearFlagIsUpToDate ==
    Newest(Flag).val = 0 =>
        /\ \A t \in Threads : ~Holding(t)
        /\ \A k \in Locations : Newest(Flag).view[k] = Len(mem[k])

OneHolder == \A t, u \in Threads : Holding(t) /\ Holding(u) => t = u

IInv ==
    /\ ShapeOK /\ Bounded /\ Carried
    /\ ClearFlagIsUpToDate /\ OneHolder /\ HolderIsUpToDate

-----------------------------------------------------------------------------
LEMMA LocationFacts ==
    /\ Flag \in Locations /\ Epoch \in Locations /\ Epoch # Flag
    /\ \A p \in Pieces : p \in Locations /\ p # Flag
  BY WeakAssumption DEF Flag, Epoch, Pieces, Locations

\* The labels of the two halves of the program.
LEMMA Inside ==
    /\ <<"announce">> \in Sections /\ <<"fence">> \in Sections
    /\ <<"publish">> \in Sections /\ <<"clear">> \in Sections
    /\ \A p \in Pieces : <<"store", p>> \in Sections
  BY DEF Sections

LEMMA Outside ==
    /\ <<"idle">> \in Labels \ Sections /\ <<"spin">> \in Labels \ Sections
    /\ <<"epoch">> \in Labels \ Sections /\ <<"barrier">> \in Labels \ Sections
    /\ <<"check">> \in Labels \ Sections /\ <<"accepted">> \in Labels \ Sections
    /\ \A p \in Pieces : <<"load", p>> \in Labels \ Sections
  BY DEF Sections, Labels

LEMMA SectionsAreLabels == Sections \subseteq Labels
  BY DEF Labels

LEMMA JoinBounds ==
    ASSUME NEW v \in View, NEW w \in View
    PROVE  /\ Join(v, w) \in View
           /\ \A l \in Locations : /\ v[l] <= Join(v, w)[l] /\ w[l] <= Join(v, w)[l]
                                   /\ Join(v, w)[l] = v[l] \/ Join(v, w)[l] = w[l]
  BY DEF Join, View

LEMMA Messages ==
    ASSUME ShapeOK, NEW l \in Locations
    PROVE  /\ mem[l] \in Seq(Stored) /\ Len(mem[l]) \in Nat \ {0}
           /\ \A i \in 1 .. Len(mem[l]) : mem[l][i].val \in Int /\ mem[l][i].view \in View
  <1>1. mem[l] \in Seq(Stored) /\ Len(mem[l]) \in Nat \ {0}
    BY DEF ShapeOK
  <1>2. \A i \in 1 .. Len(mem[l]) : mem[l][i] \in Stored
    BY <1>1
  <1> QED BY <1>1, <1>2 DEF Stored

-----------------------------------------------------------------------------
LEMMA InitInv == Init => IInv
  <1> SUFFICES ASSUME Init PROVE IInv
    OBVIOUS
  <1> DEFINE first == [l \in Locations |-> 1]
  <1>1. /\ first \in View
        /\ \A l \in Locations : mem[l] = << [val |-> 0, view |-> first] >>
        /\ \A t \in Threads : cur[t] = first /\ acq[t] = first /\ rel[t] = first
        /\ \A t \in Threads : pc[t] = <<"idle">>
    BY DEF Init, View
  <1> DEFINE message == [val |-> 0, view |-> first]
  <1>2. \A l \in Locations : mem[l] \in Seq(Stored) /\ Len(mem[l]) = 1 /\ mem[l][1] = message
    <2>1. message \in Stored
      BY <1>1 DEF Stored
    <2>2. \A l \in Locations : mem[l] = << message >>
      BY <1>1
    <2> HIDE DEF message
    <2>3. << message >> \in Seq(Stored) /\ Len(<< message >>) = 1 /\ << message >>[1] = message
      BY <2>1
    <2> QED BY <2>2, <2>3
  <1>3. ShapeOK
    <2>1. mem \in [Locations -> Seq(Stored)]
      <3>1. mem = [l \in Locations |-> mem[l]]
        BY DEF Init
      <3> QED BY <3>1, <1>2
    <2>2. cur \in [Threads -> View] /\ acq \in [Threads -> View] /\ rel \in [Threads -> View]
      BY <1>1 DEF Init
    <2>3. pc \in [Threads -> Labels]
      BY Outside DEF Init
    <2> QED BY <2>1, <2>2, <2>3, <1>2 DEF ShapeOK
  <1>4. Bounded /\ Carried
    BY <1>1, <1>2 DEF Bounded, Carried
  <1>5. \A t \in Threads : ~Holding(t)
    BY <1>1, Outside DEF Holding
  <1>6. ClearFlagIsUpToDate
    BY <1>1, <1>2, <1>5, LocationFacts DEF ClearFlagIsUpToDate, Newest
  <1> QED BY <1>3, <1>4, <1>5, <1>6 DEF IInv, OneHolder, HolderIsUpToDate

\* A step outside the critical sections stores nothing, and the views of its
\* thread go to messages there are.
LEMMA OutsideStep ==
    ASSUME IInv, NEW t \in Threads, pc[t] \notin Sections,
           NEW w \in Labels \ Sections, pc' = [pc EXCEPT ![t] = w],
           UNCHANGED <<mem, rel>>,
           NEW c \in View, cur' = [cur EXCEPT ![t] = c],
           NEW a \in View, acq' = [acq EXCEPT ![t] = a],
           \A l \in Locations : c[l] \in 1 .. Len(mem[l]) /\ a[l] \in 1 .. Len(mem[l])
    PROVE  IInv'
  <1>1. ShapeOK'
    BY DEF IInv, ShapeOK
  <1>2. Bounded' /\ Carried'
    BY DEF IInv, ShapeOK, Bounded, Carried
  <1>3. \A u \in Threads : Holding(u)' => Holding(u) /\ u # t /\ cur'[u] = cur[u]
    BY DEF IInv, ShapeOK, Holding
  <1>4. ClearFlagIsUpToDate'
    BY <1>3 DEF IInv, ClearFlagIsUpToDate, Newest
  <1>5. OneHolder' /\ HolderIsUpToDate'
    BY <1>3 DEF IInv, OneHolder, HolderIsUpToDate
  <1> QED BY <1>1, <1>2, <1>4, <1>5 DEF IInv

\* A load keeps the views of its thread at messages there are.
LEMMA LoadViews ==
    ASSUME ShapeOK, Bounded, Carried, NEW t \in Threads, NEW l \in Locations,
           NEW i \in 1 .. Len(mem[l]), NEW order, Load(t, l, i, order)
    PROVE  \E c, a \in View :
              /\ cur' = [cur EXCEPT ![t] = c] /\ acq' = [acq EXCEPT ![t] = a]
              /\ \A k \in Locations : c[k] \in 1 .. Len(mem[k]) /\ a[k] \in 1 .. Len(mem[k])
  <1> DEFINE m == mem[l][i].view
             c == IF order = "acquire" THEN Join(cur[t], m) ELSE [cur[t] EXCEPT ![l] = i]
             a == Join(acq[t], m)
  <1>1. /\ m \in View /\ cur[t] \in View /\ acq[t] \in View
        /\ \A k \in Locations : m[k] \in 1 .. Len(mem[k])
    BY Messages DEF ShapeOK, Carried
  <1>2. a \in View /\ \A k \in Locations : a[k] \in 1 .. Len(mem[k])
    BY <1>1, JoinBounds DEF Bounded
  <1>3. c \in View /\ \A k \in Locations : c[k] \in 1 .. Len(mem[k])
    <2>1. CASE order = "acquire"
      BY <2>1, <1>1, JoinBounds DEF Bounded
    <2>2. CASE order # "acquire"
      BY <2>2, <1>1 DEF Bounded, View
    <2> QED BY <2>1, <2>2
  <1>4. cur' = [cur EXCEPT ![t] = c] /\ acq' = [acq EXCEPT ![t] = a]
    BY DEF Load
  <1> QED BY <1>2, <1>3, <1>4

\* Whoever holds the lock may store to a piece or to the epoch.
LEMMA HolderStores ==
    ASSUME IInv, NEW t \in Threads, Holding(t),
           NEW l \in Locations \ {Flag}, NEW val \in Int, Store(t, l, val, "relaxed"),
           NEW w \in Sections, pc' = [pc EXCEPT ![t] = w]
    PROVE  IInv'
  <1> DEFINE i == Len(mem[l]) + 1
             new == [val |-> val, view |-> [rel[t] EXCEPT ![l] = i]]
  <1>1. /\ mem' = [mem EXCEPT ![l] = Append(mem[l], new)]
        /\ cur' = [cur EXCEPT ![t][l] = i] /\ acq' = [acq EXCEPT ![t][l] = i] /\ rel' = rel
    BY DEF Store
  <1>2. /\ new \in Stored /\ i \in Nat \ {0} /\ mem[l] \in Seq(Stored)
        /\ cur[t] \in View /\ acq[t] \in View /\ rel[t] \in View
    <2>1. mem[l] \in Seq(Stored) /\ i \in Nat \ {0}
      BY Messages DEF IInv
    <2>2. cur[t] \in View /\ acq[t] \in View /\ rel[t] \in View
      BY DEF IInv, ShapeOK
    <2>3. [rel[t] EXCEPT ![l] = i] \in View
      BY <2>1, <2>2 DEF View
    <2> QED BY <2>1, <2>2, <2>3 DEF Stored
  <1>3. /\ mem'[l] \in Seq(Stored) /\ Len(mem'[l]) = i /\ mem'[l][i] = new
        /\ \A j \in 1 .. Len(mem[l]) : mem'[l][j] = mem[l][j]
        /\ \A k \in Locations \ {l} : mem'[k] = mem[k]
    BY <1>1, <1>2 DEF IInv, ShapeOK
  <1>4. \A k \in Locations : Len(mem[k]) \in Nat /\ Len(mem'[k]) \in Nat /\ Len(mem[k]) <= Len(mem'[k])
    BY <1>2, <1>3 DEF IInv, ShapeOK
  <1>5. ShapeOK'
    BY <1>1, <1>2, <1>3, <1>4, SectionsAreLabels DEF IInv, ShapeOK, View
  <1>6. Bounded'
    <2> SUFFICES ASSUME NEW u \in Threads, NEW k \in Locations
                 PROVE  /\ cur'[u][k] \in 1 .. Len(mem'[k]) /\ acq'[u][k] \in 1 .. Len(mem'[k])
                        /\ rel'[u][k] \in 1 .. Len(mem'[k])
      BY DEF Bounded
    <2>1. /\ cur[u][k] \in 1 .. Len(mem'[k]) /\ acq[u][k] \in 1 .. Len(mem'[k])
          /\ rel[u][k] \in 1 .. Len(mem'[k])
      BY <1>4 DEF IInv, Bounded
    <2>2. /\ cur'[u][k] = IF u = t /\ k = l THEN i ELSE cur[u][k]
          /\ acq'[u][k] = IF u = t /\ k = l THEN i ELSE acq[u][k]
      BY <1>1 DEF IInv, ShapeOK, View
    <2> QED BY <2>1, <2>2, <1>1, <1>2, <1>3
  <1>7. Carried'
    <2> SUFFICES ASSUME NEW n \in Locations, NEW j \in 1 .. Len(mem'[n]), NEW k \in Locations
                 PROVE  mem'[n][j].view[k] \in 1 .. Len(mem'[k])
      BY DEF Carried
    <2>1. CASE n = l /\ j = i
      BY <2>1, <1>2, <1>3, <1>4 DEF IInv, Bounded, View
    <2>2. CASE ~(n = l /\ j = i)
      <3>1. j \in 1 .. Len(mem[n]) /\ mem'[n][j] = mem[n][j]
        BY <2>2, <1>2, <1>3, <1>4
      <3> QED BY <3>1, <1>4 DEF IInv, Carried
    <2> QED BY <2>1, <2>2
  <1>8. \A u \in Threads : Holding(u)' <=> u = t
    BY DEF IInv, ShapeOK, Holding, OneHolder
  <1>9. ClearFlagIsUpToDate'
    <2>1. mem'[Flag] = mem[Flag]
      BY <1>3, LocationFacts
    <2> QED BY <2>1 DEF IInv, ClearFlagIsUpToDate, Newest
  <1>10. HolderIsUpToDate'
    BY <1>1, <1>2, <1>3, <1>8 DEF IInv, ShapeOK, HolderIsUpToDate, View
  <1> QED BY <1>5, <1>6, <1>7, <1>8, <1>9, <1>10 DEF IInv, OneHolder

\* One message more on the flag, by a thread whose view then is up to date.
LEMMA FlagChanges ==
    ASSUME IInv, NEW t \in Threads, NEW val \in Int, NEW view \in View,
           NEW c \in View, NEW a \in View, NEW w \in Labels,
           mem' = [mem EXCEPT ![Flag] = Append(mem[Flag], [val |-> val, view |-> view])],
           view[Flag] = Len(mem[Flag]) + 1, c[Flag] = Len(mem[Flag]) + 1,
           a[Flag] = Len(mem[Flag]) + 1,
           \A k \in Locations \ {Flag} : view[k] \in 1 .. Len(mem[k]),
           \A k \in Locations \ {Flag} : a[k] \in 1 .. Len(mem[k]),
           \A k \in Locations \ {Flag} : c[k] = Len(mem[k]),
           cur' = [cur EXCEPT ![t] = c], acq' = [acq EXCEPT ![t] = a], rel' = rel,
           pc' = [pc EXCEPT ![t] = w],
           \A u \in Threads \ {t} : ~Holding(u),
           \/ val # 0 /\ w \in Sections
           \/ val = 0 /\ w \notin Sections /\ \A k \in Locations \ {Flag} : view[k] = Len(mem[k])
    PROVE  IInv'
  <1> DEFINE i == Len(mem[Flag]) + 1
             new == [val |-> val, view |-> view]
  <1>1. new \in Stored /\ new.val = val /\ new.view = view
    BY DEF Stored
  <1>2. Flag \in Locations /\ mem[Flag] \in Seq(Stored) /\ i \in Nat \ {0}
    BY LocationFacts, Messages DEF IInv
  <1> HIDE DEF new
  <1>3. /\ mem'[Flag] \in Seq(Stored) /\ Len(mem'[Flag]) = i /\ mem'[Flag][i] = new
        /\ \A j \in 1 .. Len(mem[Flag]) : mem'[Flag][j] = mem[Flag][j]
        /\ \A k \in Locations \ {Flag} : mem'[k] = mem[k]
    BY <1>1, <1>2 DEF IInv, ShapeOK, new
  <1>4. \A k \in Locations : /\ Len(mem[k]) \in Nat \ {0} /\ Len(mem'[k]) \in Nat \ {0}
                              /\ Len(mem[k]) <= Len(mem'[k])
    BY <1>2, <1>3 DEF IInv, ShapeOK
  <1>5. ShapeOK'
    <2>1. mem' \in [Locations -> Seq(Stored)]
      BY <1>1, <1>2, <1>3 DEF IInv, ShapeOK
    <2> QED BY <2>1, <1>4 DEF IInv, ShapeOK
  <1>6. Bounded'
    <2> SUFFICES ASSUME NEW u \in Threads, NEW k \in Locations
                 PROVE  /\ cur'[u][k] \in 1 .. Len(mem'[k]) /\ acq'[u][k] \in 1 .. Len(mem'[k])
                        /\ rel'[u][k] \in 1 .. Len(mem'[k])
      BY DEF Bounded
    <2>1. /\ cur[u][k] \in 1 .. Len(mem'[k]) /\ acq[u][k] \in 1 .. Len(mem'[k])
          /\ rel'[u][k] \in 1 .. Len(mem'[k])
      BY <1>4 DEF IInv, Bounded
    <2>2. /\ cur'[u] = IF u = t THEN c ELSE cur[u]
          /\ acq'[u] = IF u = t THEN a ELSE acq[u]
      BY DEF IInv, ShapeOK
    <2>3. c[k] \in 1 .. Len(mem'[k]) /\ a[k] \in 1 .. Len(mem'[k])
      BY <1>2, <1>3, <1>4
    <2> QED BY <2>1, <2>2, <2>3
  <1>7. Carried'
    <2> SUFFICES ASSUME NEW n \in Locations, NEW j \in 1 .. Len(mem'[n]), NEW k \in Locations
                 PROVE  mem'[n][j].view[k] \in 1 .. Len(mem'[k])
      BY DEF Carried
    <2>1. CASE n = Flag /\ j = i
      BY <2>1, <1>1, <1>2, <1>3, <1>4
    <2>2. CASE ~(n = Flag /\ j = i)
      <3>1. j \in 1 .. Len(mem[n]) /\ mem'[n][j] = mem[n][j]
        BY <2>2, <1>2, <1>3, <1>4
      <3> QED BY <3>1, <1>4 DEF IInv, Carried
    <2> QED BY <2>1, <2>2
  <1>8. \A u \in Threads : Holding(u)' <=> u = t /\ w \in Sections
    BY DEF IInv, ShapeOK, Holding
  <1>9. ClearFlagIsUpToDate'
    BY <1>1, <1>3, <1>8 DEF ClearFlagIsUpToDate, Newest
  <1>10. HolderIsUpToDate'
    <2>1. \A k \in Locations : cur'[t][k] = Len(mem'[k])
      BY <1>3 DEF IInv, ShapeOK
    <2> QED BY <2>1, <1>8 DEF HolderIsUpToDate
  <1> QED BY <1>5, <1>6, <1>7, <1>8, <1>9, <1>10 DEF IInv, OneHolder

LEMMA TakeFlagInv ==
    ASSUME IInv, NEW t \in Threads, TakeFlag(t)
    PROVE  IInv'
  <1> DEFINE i == Len(mem[Flag]) + 1
             m == Newest(Flag).view
             view == [Join(rel[t], m) EXCEPT ![Flag] = i]
             c == [Join(cur[t], m) EXCEPT ![Flag] = i]
             a == [Join(acq[t], m) EXCEPT ![Flag] = i]
  <1>1. /\ mem' = [mem EXCEPT ![Flag] = Append(mem[Flag], [val |-> 1, view |-> view])]
        /\ cur' = [cur EXCEPT ![t] = c] /\ acq' = [acq EXCEPT ![t] = a] /\ rel' = rel
        /\ pc' = [pc EXCEPT ![t] = <<"announce">>]
        /\ Newest(Flag).val = 0
    BY DEF TakeFlag, Exchange, Goto
  <1>2. /\ m \in View /\ cur[t] \in View /\ acq[t] \in View /\ rel[t] \in View
        /\ i \in Nat \ {0} /\ Flag \in Locations
    BY LocationFacts, Messages DEF IInv, ShapeOK, Newest
  <1>3. \A u \in Threads : ~Holding(u)
    BY <1>1 DEF IInv, ClearFlagIsUpToDate
  <1>4. \A k \in Locations : /\ m[k] = Len(mem[k]) /\ Len(mem[k]) \in Nat \ {0}
                              /\ cur[t][k] \in 1 .. Len(mem[k])
                              /\ acq[t][k] \in 1 .. Len(mem[k])
                              /\ rel[t][k] \in 1 .. Len(mem[k])
    BY <1>1, Messages DEF IInv, ClearFlagIsUpToDate, Bounded
  <1> HIDE DEF m
  <1>5. ASSUME NEW v \in View, \A k \in Locations : v[k] \in 1 .. Len(mem[k])
        PROVE  Join(v, m) \in View /\ \A k \in Locations : Join(v, m)[k] = Len(mem[k])
    <2>1. Join(v, m) \in View
      BY <1>2, JoinBounds
    <2>2. ASSUME NEW k \in Locations PROVE Join(v, m)[k] = Len(mem[k])
      BY <1>4, <1>5 DEF Join
    <2> QED BY <2>1, <2>2
  <1>6. /\ view \in View /\ c \in View /\ a \in View
        /\ view[Flag] = i /\ c[Flag] = i /\ a[Flag] = i
        /\ \A k \in Locations \ {Flag} : view[k] \in 1 .. Len(mem[k])
        /\ \A k \in Locations \ {Flag} : a[k] \in 1 .. Len(mem[k])
        /\ \A k \in Locations \ {Flag} : c[k] = Len(mem[k])
    <2>1. /\ Join(rel[t], m) \in View /\ Join(cur[t], m) \in View /\ Join(acq[t], m) \in View
          /\ \A k \in Locations : /\ Join(rel[t], m)[k] = Len(mem[k])
                                   /\ Join(acq[t], m)[k] = Len(mem[k])
                                   /\ Join(cur[t], m)[k] = Len(mem[k])
      BY <1>2, <1>4, <1>5
    <2> QED BY <1>2, <1>4, <2>1 DEF View
  <1>7. <<"announce">> \in Sections /\ <<"announce">> \in Labels
    BY Inside, SectionsAreLabels
  <1> HIDE DEF view, c, a
  <1>8. 1 \in Int /\ \A u \in Threads \ {t} : ~Holding(u)
    BY <1>3
  <1>9. \/ 1 # 0 /\ <<"announce">> \in Sections
        \/ /\ 1 = 0 /\ <<"announce">> \notin Sections
           /\ \A k \in Locations \ {Flag} : view[k] = Len(mem[k])
    BY <1>7
  <1> QED BY <1>1, <1>6, <1>7, <1>8, <1>9, FlagChanges

LEMMA ClearInv ==
    ASSUME IInv, NEW t \in Threads, Clear(t)
    PROVE  IInv'
  <1> DEFINE i == Len(mem[Flag]) + 1
             view == [cur[t] EXCEPT ![Flag] = i]
             a == [acq[t] EXCEPT ![Flag] = i]
  <1>1. /\ mem' = [mem EXCEPT ![Flag] = Append(mem[Flag], [val |-> 0, view |-> view])]
        /\ cur' = [cur EXCEPT ![t] = view] /\ acq' = [acq EXCEPT ![t] = a] /\ rel' = rel
        /\ pc' = [pc EXCEPT ![t] = <<"idle">>]
        /\ pc[t] = <<"clear">>
    BY DEF Clear, Store, Goto
  <1>2. /\ cur[t] \in View /\ acq[t] \in View
        /\ i \in Nat \ {0} /\ Flag \in Locations
    BY LocationFacts, Messages DEF IInv, ShapeOK
  <1>3. Holding(t) /\ \A u \in Threads \ {t} : ~Holding(u)
    BY <1>1, Inside DEF IInv, OneHolder, Holding
  <1>4. \A k \in Locations : /\ cur[t][k] = Len(mem[k]) /\ cur[t][k] \in 1 .. Len(mem[k])
                              /\ acq[t][k] \in 1 .. Len(mem[k])
    BY <1>3 DEF IInv, HolderIsUpToDate, Bounded
  <1>5. /\ view \in View /\ a \in View /\ view[Flag] = i /\ a[Flag] = i
        /\ \A k \in Locations \ {Flag} : view[k] \in 1 .. Len(mem[k])
        /\ \A k \in Locations \ {Flag} : a[k] \in 1 .. Len(mem[k])
        /\ \A k \in Locations \ {Flag} : view[k] = Len(mem[k])
    BY <1>2, <1>4 DEF View
  <1>6. <<"idle">> \in Labels /\ <<"idle">> \notin Sections
    BY Outside
  <1> HIDE DEF view, a
  <1>7. \/ 0 # 0 /\ <<"idle">> \in Sections
        \/ /\ 0 = 0 /\ <<"idle">> \notin Sections
           /\ \A k \in Locations \ {Flag} : view[k] = Len(mem[k])
    BY <1>5, <1>6
  <1>8. 0 \in Int
    OBVIOUS
  <1> QED BY <1>1, <1>3, <1>5, <1>6, <1>7, <1>8, FlagChanges

LEMMA FenceInv ==
    ASSUME IInv, NEW t \in Threads, Fence(t)
    PROVE  IInv'
  <1>1. /\ UNCHANGED <<mem, cur, acq>> /\ rel' = [rel EXCEPT ![t] = cur[t]]
        /\ pc[t] = <<"fence">>
        /\ pc' = [pc EXCEPT ![t] = IF op[t] = "miss" THEN <<"publish">> ELSE <<"store", 1>>]
    BY DEF Fence, ReleaseFence, Goto
  <1>2. PICK w \in Sections : pc' = [pc EXCEPT ![t] = w]
    <2>1. 1 \in Pieces
      BY WeakAssumption DEF Pieces
    <2> QED BY <1>1, <2>1, Inside
  <1>3. ShapeOK'
    BY <1>1, <1>2, SectionsAreLabels DEF IInv, ShapeOK
  <1>4. Bounded' /\ Carried'
    BY <1>1 DEF IInv, ShapeOK, Bounded, Carried
  <1>5. \A u \in Threads : Holding(u)' <=> Holding(u)
    BY <1>1, <1>2, Inside DEF IInv, ShapeOK, Holding
  <1>6. ClearFlagIsUpToDate'
    BY <1>1, <1>5 DEF IInv, ClearFlagIsUpToDate, Newest
  <1>7. OneHolder' /\ HolderIsUpToDate'
    BY <1>1, <1>5 DEF IInv, OneHolder, HolderIsUpToDate
  <1> QED BY <1>3, <1>4, <1>6, <1>7 DEF IInv

\* The epoch the holder reads is a number.
LEMMA EpochIsNumber ==
    ASSUME IInv, NEW t \in Threads
    PROVE  CurEpoch(t) \in Int
  BY LocationFacts, Messages DEF IInv, Bounded, CurEpoch

LEMMA Halves == ASSUME NEW n \in Int PROVE n \div 2 \in Int
  OBVIOUS

LEMMA StoresInv ==
    ASSUME IInv, NEW t \in Threads, Announce(t) \/ StorePiece(t) \/ Publish(t)
    PROVE  IInv'
  <1>1. CurEpoch(t) \in Int /\ 1 \in Pieces
    BY EpochIsNumber, WeakAssumption DEF Pieces
  <1>2. CASE Announce(t)
    <2>1. Holding(t) /\ Store(t, Epoch, CurEpoch(t) + 1, "relaxed")
      BY <1>2, Inside DEF Announce, Holding
    <2>2. PICK w \in Sections : pc' = [pc EXCEPT ![t] = w]
      BY <1>1, <1>2, Inside DEF Announce, Goto
    <2>3. CurEpoch(t) + 1 \in Int /\ Epoch \in Locations \ {Flag}
      BY <1>1, LocationFacts
    <2> QED BY <2>1, <2>2, <2>3, HolderStores
  <1>3. CASE StorePiece(t)
    <2>1. PICK p \in Pieces :
              /\ pc[t] = <<"store", p>> /\ Store(t, p, (CurEpoch(t) + 1) \div 2, "relaxed")
              /\ Goto(t, IF p < NumPieces THEN <<"store", p + 1>> ELSE <<"publish">>)
      BY <1>3 DEF StorePiece
    <2>2. Holding(t)
      BY <2>1, Inside DEF Holding
    <2>3. PICK w \in Sections : pc' = [pc EXCEPT ![t] = w]
      <3>1. p < NumPieces => p + 1 \in Pieces
        BY WeakAssumption DEF Pieces
      <3> QED BY <2>1, <3>1, Inside DEF Goto
    <2>4. (CurEpoch(t) + 1) \div 2 \in Int
      BY <1>1, Halves
    <2> QED BY <2>1, <2>2, <2>3, <2>4, LocationFacts, HolderStores
  <1>4. CASE Publish(t)
    <2> DEFINE val == CurEpoch(t) + (IF op[t] = "miss" THEN -1 ELSE 1)
    <2>1. Holding(t) /\ Store(t, Epoch, val, "relaxed") /\ val \in Int
      BY <1>1, <1>4, Inside DEF Publish, Holding
    <2>2. PICK w \in Sections : pc' = [pc EXCEPT ![t] = w]
      BY <1>4, Inside DEF Publish, Goto
    <2> HIDE DEF val
    <2> QED BY <2>1, <2>2, LocationFacts, HolderStores
  <1> QED BY <1>2, <1>3, <1>4

LEMMA LookupsInv ==
    ASSUME IInv, NEW t \in Threads,
           Call(t) \/ LoadEpoch(t) \/ LoadPiece(t) \/ Barrier(t) \/ Check(t) \/ Return(t)
    PROVE  IInv'
  <1> DEFINE Reads(l) == \E i \in 1 .. Len(mem[l]), order \in {"acquire", "relaxed"} :
                             Load(t, l, i, order)
             Leaves == pc[t] \notin Sections
                       /\ \E w \in Labels \ Sections : pc' = [pc EXCEPT ![t] = w]
  <1>1. ASSUME Leaves, NEW l \in Locations, Reads(l) PROVE IInv'
    <2>1. PICK i \in 1 .. Len(mem[l]), order \in {"acquire", "relaxed"} : Load(t, l, i, order)
      BY <1>1
    <2>2. PICK c \in View, a \in View :
              /\ cur' = [cur EXCEPT ![t] = c] /\ acq' = [acq EXCEPT ![t] = a]
              /\ \A k \in Locations : c[k] \in 1 .. Len(mem[k]) /\ a[k] \in 1 .. Len(mem[k])
      BY <2>1, LoadViews DEF IInv
    <2>3. UNCHANGED <<mem, rel>>
      BY <2>1 DEF Load
    <2> QED BY <1>1, <2>2, <2>3, OutsideStep
  <1>2. ASSUME Leaves, UNCHANGED <<mem, rel, acq>>, cur' = cur \/ cur' = [cur EXCEPT ![t] = acq[t]]
        PROVE IInv'
    <2>1. cur[t] \in View /\ acq[t] \in View /\ acq' = [acq EXCEPT ![t] = acq[t]]
      BY <1>2 DEF IInv, ShapeOK
    <2>2. cur' = [cur EXCEPT ![t] = cur[t]] \/ cur' = [cur EXCEPT ![t] = acq[t]]
      BY <1>2 DEF IInv, ShapeOK
    <2>3. \A l \in Locations : cur[t][l] \in 1 .. Len(mem[l]) /\ acq[t][l] \in 1 .. Len(mem[l])
      BY DEF IInv, Bounded
    <2> QED BY <1>2, <2>1, <2>2, <2>3, OutsideStep
  <1> HIDE DEF Reads, Leaves
  <1>3. CASE Call(t)
    <2>1. Leaves
      BY <1>3, Outside DEF Call, Goto, Leaves
    <2> QED BY <1>2, <1>3, <2>1 DEF Call, views
  <1>4. CASE LoadEpoch(t)
    <2>1. Leaves
      <3>1. 1 \in Pieces
        BY WeakAssumption DEF Pieces
      <3> QED BY <1>4, <3>1, Outside DEF LoadEpoch, Goto, Leaves
    <2>2. Reads(Epoch)
      BY <1>4 DEF LoadEpoch, Reads
    <2> QED BY <1>1, <2>1, <2>2, LocationFacts
  <1>5. CASE LoadPiece(t)
    <2>1. PICK p \in Pieces :
              /\ pc[t] = <<"load", p>>
              /\ \E i \in 1 .. Len(mem[p]) : Load(t, p, i, "relaxed")
              /\ Goto(t, IF p < NumPieces THEN <<"load", p + 1>> ELSE <<"barrier">>)
      BY <1>5 DEF LoadPiece
    <2>2. Leaves
      <3>1. p < NumPieces => p + 1 \in Pieces
        BY WeakAssumption DEF Pieces
      <3> QED BY <2>1, <3>1, Outside DEF Goto, Leaves
    <2>3. Reads(p)
      BY <2>1 DEF Reads
    <2> QED BY <1>1, <2>2, <2>3, LocationFacts
  <1>6. CASE Barrier(t)
    <2>1. Leaves
      BY <1>6, Outside DEF Barrier, Goto, Leaves
    <2> QED BY <1>2, <1>6, <2>1 DEF Barrier, AcquireFence
  <1>7. CASE Check(t)
    <2>1. Leaves
      BY <1>7, Outside DEF Check, Goto, Leaves
    <2>2. Reads(Epoch)
      BY <1>7 DEF Check, Reads
    <2> QED BY <1>1, <2>1, <2>2, LocationFacts
  <1>8. CASE Return(t)
    <2>1. Leaves
      BY <1>8, Outside DEF Return, Goto, Leaves
    <2> QED BY <1>2, <1>8, <2>1 DEF Return, views
  <1> QED BY <1>3, <1>4, <1>5, <1>6, <1>7, <1>8

LEMMA StepInv == IInv /\ [Next]_vars => IInv'
  <1> SUFFICES ASSUME IInv, [Next]_vars PROVE IInv'
    OBVIOUS
  <1>1. CASE UNCHANGED vars
    BY <1>1 DEF vars, views, IInv, ShapeOK, Bounded, Carried, ClearFlagIsUpToDate, OneHolder,
       HolderIsUpToDate, Newest, Holding
  <1>2. ASSUME NEW t \in Threads,
               \/ Call(t) \/ TakeFlag(t) \/ Announce(t) \/ Fence(t) \/ StorePiece(t)
               \/ Publish(t) \/ Clear(t) \/ LoadEpoch(t) \/ LoadPiece(t) \/ Barrier(t)
               \/ Check(t) \/ Return(t)
        PROVE IInv'
    BY <1>2, TakeFlagInv, StoresInv, FenceInv, ClearInv, LookupsInv
  <1> QED BY <1>1, <1>2 DEF Next

\* Whoever holds the lock sees the newest message of every location
\* (seqlock.hpp:33-40, 92-95): the acquire of the flag and its release are
\* enough, whatever the operations do in between.
THEOREM HolderIsAlwaysUpToDate == Spec => []HolderIsUpToDate
  <1>1. Spec => []IInv
    BY InitInv, StepInv, PTL DEF Spec
  <1>2. IInv => HolderIsUpToDate
    BY DEF IInv
  <1> QED BY <1>1, <1>2, PTL

\* Two threads are never between the exchange that takes the flag and the
\* store that clears it (seqlock.hpp:33-40).
THEOREM OneHolderOnly == Spec => []OneHolder
  <1>1. Spec => []IInv
    BY InitInv, StepInv, PTL DEF Spec
  <1>2. IInv => OneHolder
    BY DEF IInv
  <1> QED BY <1>1, <1>2, PTL

-----------------------------------------------------------------------------
\* The epoch is odd exactly in the critical sections, from its announcement on.
Parity ==
    /\ (\A t \in Threads : pc[t] \notin Opened) => Newest(Epoch).val % 2 = 0
    /\ \A t \in Threads : pc[t] \in Opened => Newest(Epoch).val % 2 = 1

\* Every number stored is natural, and a message carries its own index.
Numbered ==
    \A l \in Locations : \A i \in 1 .. Len(mem[l]) :
        mem[l][i].val \in Nat /\ mem[l][i].view[l] = i

\* The release fence has handed on only what was seen, and an acquire fence takes
\* back nothing that was.
Ordered ==
    \A t \in Threads, l \in Locations : rel[t][l] <= cur[t][l] /\ cur[t][l] <= acq[t][l]

\* The locals of the threads, and the bound on their calls.
LocalTypes ==
    /\ op \in [Threads -> Ops \cup {"lookup"}]
    /\ seen \in [Threads -> Nat]
    /\ copy \in [Threads -> [Pieces -> Nat]]
    /\ calls \in 0 .. MaxOps

\* The inductive invariant behind the types.
TInv == IInv /\ Parity /\ Numbered /\ Ordered /\ LocalTypes

-----------------------------------------------------------------------------
LEMMA OpenedFacts ==
    /\ <<"fence">> \in Opened /\ <<"publish">> \in Opened /\ Opened \subseteq Sections
    /\ \A p \in Pieces : <<"store", p>> \in Opened
    /\ <<"announce">> \notin Opened /\ <<"clear">> \notin Opened
    /\ <<"idle">> \notin Opened /\ <<"spin">> \notin Opened
  BY DEF Opened, Sections

\* One message more at one location.
LEMMA Appended ==
    ASSUME IInv, NEW l \in Locations, NEW msg \in Stored,
           mem' = [mem EXCEPT ![l] = Append(mem[l], msg)]
    PROVE  /\ Len(mem[l]) \in Nat \ {0} /\ Len(mem'[l]) = Len(mem[l]) + 1
           /\ mem'[l][Len(mem[l]) + 1] = msg
           /\ \A j \in 1 .. Len(mem[l]) : mem'[l][j] = mem[l][j]
           /\ \A k \in Locations \ {l} : mem'[k] = mem[k]
           /\ Newest(l)' = msg
  <1>1. mem[l] \in Seq(Stored) /\ Len(mem[l]) \in Nat \ {0}
    BY Messages DEF IInv
  <1>2. mem'[l] = Append(mem[l], msg) /\ \A k \in Locations \ {l} : mem'[k] = mem[k]
    BY DEF IInv, ShapeOK
  <1>3. /\ Len(mem'[l]) = Len(mem[l]) + 1 /\ mem'[l][Len(mem[l]) + 1] = msg
        /\ \A j \in 1 .. Len(mem[l]) : mem'[l][j] = mem[l][j]
    BY <1>1, <1>2
  <1>4. Newest(l)' = msg
    BY <1>2, <1>3 DEF Newest
  <1> QED BY <1>1, <1>2, <1>3, <1>4

LEMMA NumbersGrow ==
    ASSUME IInv, Numbered, NEW l \in Locations, NEW msg \in Stored, msg.val \in Nat,
           msg.view[l] = Len(mem[l]) + 1, mem' = [mem EXCEPT ![l] = Append(mem[l], msg)]
    PROVE  Numbered'
  <1> SUFFICES ASSUME NEW k \in Locations, NEW j \in 1 .. Len(mem'[k])
               PROVE  mem'[k][j].val \in Nat /\ mem'[k][j].view[k] = j
    BY DEF Numbered
  <1> DEFINE i == Len(mem[l]) + 1
  <1>1. /\ Len(mem[l]) \in Nat /\ Len(mem'[l]) = i /\ mem'[l][i] = msg
        /\ \A m \in 1 .. Len(mem[l]) : mem'[l][m] = mem[l][m]
        /\ \A m \in Locations \ {l} : mem'[m] = mem[m]
    BY Appended
  <1>2. CASE k = l /\ j = i
    BY <1>1, <1>2
  <1>3. CASE k = l /\ j # i
    <2>1. j \in 1 .. Len(mem[k]) /\ mem'[k][j] = mem[k][j]
      BY <1>1, <1>3
    <2> QED BY <2>1 DEF Numbered
  <1>4. CASE k # l
    BY <1>1, <1>4 DEF Numbered
  <1> QED BY <1>2, <1>3, <1>4

\* What a store and a load do to the views.
LEMMA StoreEffect ==
    ASSUME IInv, NEW t \in Threads, NEW l \in Locations, NEW val \in Int, NEW order,
           Store(t, l, val, order)
    PROVE  /\ \E msg \in Stored :
                 /\ mem' = [mem EXCEPT ![l] = Append(mem[l], msg)]
                 /\ msg.val = val /\ msg.view[l] = Len(mem[l]) + 1
                 /\ order # "release" => \A k \in Locations \ {l} : msg.view[k] = rel[t][k]
           /\ rel' = rel
           /\ \A u \in Threads \ {t} : cur'[u] = cur[u] /\ acq'[u] = acq[u]
           /\ \A k \in Locations : /\ cur'[t][k] = IF k = l THEN Len(mem[l]) + 1 ELSE cur[t][k]
                                   /\ acq'[t][k] = IF k = l THEN Len(mem[l]) + 1 ELSE acq[t][k]
  <1> DEFINE i == Len(mem[l]) + 1
             carried == IF order = "release" THEN cur[t] ELSE rel[t]
             view == [carried EXCEPT ![l] = i]
             msg == [val |-> val, view |-> view]
  <1>1. /\ cur \in [Threads -> View] /\ acq \in [Threads -> View] /\ rel[t] \in View
        /\ i \in Nat /\ carried \in View
    BY Messages DEF IInv, ShapeOK
  <1>2. mem' = [mem EXCEPT ![l] = Append(mem[l], msg)]
    BY DEF Store
  <1>3. /\ cur' = [cur EXCEPT ![t][l] = i] /\ acq' = [acq EXCEPT ![t][l] = i] /\ rel' = rel
    BY DEF Store
  <1>4. order # "release" => carried = rel[t]
    OBVIOUS
  <1> HIDE DEF carried
  <1>5. /\ view \in View /\ view[l] = i /\ \A k \in Locations \ {l} : view[k] = carried[k]
    BY <1>1 DEF View
  <1> HIDE DEF view
  <1>6. msg \in Stored /\ msg.val = val /\ msg.view = view
    BY <1>5 DEF Stored
  <1>7. /\ \A u \in Threads \ {t} : cur'[u] = cur[u] /\ acq'[u] = acq[u]
        /\ \A k \in Locations : /\ cur'[t][k] = IF k = l THEN i ELSE cur[t][k]
                                /\ acq'[t][k] = IF k = l THEN i ELSE acq[t][k]
    BY <1>1, <1>3 DEF View
  <1> HIDE DEF msg
  <1>8. \E m \in Stored :
            /\ mem' = [mem EXCEPT ![l] = Append(mem[l], m)]
            /\ m.val = val /\ m.view[l] = i
            /\ order # "release" => \A k \in Locations \ {l} : m.view[k] = rel[t][k]
    BY <1>2, <1>4, <1>5, <1>6
  <1> QED BY <1>3, <1>7, <1>8

\* The message a store appends, apart from what it does to the views.
LEMMA StoreMessage ==
    ASSUME IInv, NEW t \in Threads, NEW l \in Locations, NEW val \in Int, NEW order,
           Store(t, l, val, order)
    PROVE  \E msg \in Stored : /\ mem' = [mem EXCEPT ![l] = Append(mem[l], msg)]
                               /\ msg.val = val /\ msg.view[l] = Len(mem[l]) + 1
  <1>1. PICK msg \in Stored : /\ mem' = [mem EXCEPT ![l] = Append(mem[l], msg)]
                             /\ msg.val = val /\ msg.view[l] = Len(mem[l]) + 1
    BY StoreEffect
  <1> QED BY <1>1

LEMMA LoadEffect ==
    ASSUME IInv, Numbered, NEW t \in Threads, NEW l \in Locations, NEW i \in 1 .. Len(mem[l]),
           NEW order, Load(t, l, i, order), Ordered
    PROVE  /\ mem' = mem /\ rel' = rel
           /\ \A u \in Threads \ {t} : cur'[u] = cur[u] /\ acq'[u] = acq[u]
           /\ \A k \in Locations : /\ cur[t][k] <= cur'[t][k] /\ cur'[t][k] <= acq'[t][k]
                                   /\ order = "acquire" => mem[l][i].view[k] <= cur'[t][k]
                                   /\ order # "acquire" /\ k # l => cur'[t][k] = cur[t][k]
           /\ order # "acquire" => cur'[t][l] = i
           /\ cur'[t] \in View
  <1> DEFINE m == mem[l][i].view
  <1>1. m \in View /\ m[l] = i /\ cur[t] \in View /\ acq[t] \in View
    BY Messages DEF IInv, ShapeOK, Numbered
  <1>2. /\ cur'[t] = IF order = "acquire" THEN Join(cur[t], m) ELSE [cur[t] EXCEPT ![l] = i]
        /\ acq'[t] = Join(acq[t], m)
        /\ \A u \in Threads \ {t} : cur'[u] = cur[u] /\ acq'[u] = acq[u]
        /\ mem' = mem /\ rel' = rel /\ cur[t][l] <= i
    BY DEF Load, IInv, ShapeOK
  <1>3. \A k \in Locations : cur[t][k] <= acq[t][k]
    BY DEF Ordered
  <1> HIDE DEF m
  <1>4. \A k \in Locations : /\ acq'[t][k] = IF acq[t][k] < m[k] THEN m[k] ELSE acq[t][k]
                             /\ acq[t][k] \in Nat /\ m[k] \in Nat /\ cur[t][k] \in Nat
    BY <1>1, <1>2 DEF Join, View
  <1>5. CASE order = "acquire"
    <2>1. \A k \in Locations : cur'[t][k] = IF cur[t][k] < m[k] THEN m[k] ELSE cur[t][k]
      BY <1>2, <1>5 DEF Join
    <2>2. cur'[t] \in View
      BY <1>1, <1>2, <1>5, JoinBounds
    <2> QED BY <1>2, <1>3, <1>4, <1>5, <2>1, <2>2 DEF m
  <1>6. CASE order # "acquire"
    <2>1. \A k \in Locations : cur'[t][k] = IF k = l THEN i ELSE cur[t][k]
      BY <1>1, <1>2, <1>6 DEF View
    <2>2. cur'[t] \in View
      BY <1>1, <1>2, <1>6 DEF View
    <2>3. i \in Nat /\ i = m[l]
      BY <1>1
    <2> QED BY <1>1, <1>2, <1>3, <1>4, <1>6, <2>1, <2>2, <2>3 DEF m
  <1> QED BY <1>5, <1>6

\* The views are in order when those of one thread are.
LEMMA OrderKept ==
    ASSUME Ordered, NEW t \in Threads,
           \A u \in Threads \ {t} : cur'[u] = cur[u] /\ acq'[u] = acq[u] /\ rel'[u] = rel[u],
           \A k \in Locations : rel'[t][k] <= cur'[t][k] /\ cur'[t][k] <= acq'[t][k]
    PROVE  Ordered'
  BY DEF Ordered

LEMMA StoreOrdered ==
    ASSUME IInv, Ordered, NEW t \in Threads, NEW l \in Locations, NEW val \in Int, NEW order,
           Store(t, l, val, order)
    PROVE  Ordered'
  <1> DEFINE i == Len(mem[l]) + 1
  <1>1. /\ rel' = rel /\ \A u \in Threads \ {t} : cur'[u] = cur[u] /\ acq'[u] = acq[u]
        /\ \A k \in Locations : /\ cur'[t][k] = IF k = l THEN i ELSE cur[t][k]
                                /\ acq'[t][k] = IF k = l THEN i ELSE acq[t][k]
    BY StoreEffect
  <1>2. i \in Nat /\ rel[t][l] \in 1 .. Len(mem[l])
    BY Messages DEF IInv, Bounded
  <1>3. \A k \in Locations : rel'[t][k] <= cur'[t][k] /\ cur'[t][k] <= acq'[t][k]
    BY <1>1, <1>2 DEF Ordered
  <1> QED BY <1>1, <1>3, OrderKept

LEMMA LoadOrdered ==
    ASSUME IInv, Numbered, Ordered, NEW t \in Threads, NEW l \in Locations, NEW i \in 1 .. Len(mem[l]),
           NEW order, Load(t, l, i, order)
    PROVE  Ordered' /\ Numbered'
  <1>1. /\ mem' = mem /\ rel' = rel
        /\ \A u \in Threads \ {t} : cur'[u] = cur[u] /\ acq'[u] = acq[u]
        /\ \A k \in Locations : cur[t][k] <= cur'[t][k] /\ cur'[t][k] <= acq'[t][k]
        /\ cur'[t] \in View
    BY LoadEffect
  <1>2. \A k \in Locations : rel[t][k] \in Nat /\ cur[t][k] \in Nat /\ cur'[t][k] \in Nat
    BY <1>1 DEF IInv, ShapeOK, View
  <1>3. \A k \in Locations : rel'[t][k] <= cur'[t][k] /\ cur'[t][k] <= acq'[t][k]
    BY <1>1, <1>2 DEF Ordered
  <1> QED BY <1>1, <1>3, OrderKept DEF Numbered

\* The epoch is left alone, and its parity with the place of the thread.
LEMMA ParityKept ==
    ASSUME IInv, Parity, NEW t \in Threads, NEW w \in Labels, pc' = [pc EXCEPT ![t] = w],
           w \in Opened <=> pc[t] \in Opened, Newest(Epoch)'.val = Newest(Epoch).val
    PROVE  Parity'
  <1>1. \A u \in Threads : pc'[u] \in Opened <=> pc[u] \in Opened
    BY DEF IInv, ShapeOK
  <1> QED BY <1>1 DEF Parity

LEMMA ParityTurns ==
    ASSUME IInv, NEW t \in Threads, Holding(t), NEW w \in Labels, pc' = [pc EXCEPT ![t] = w],
           Newest(Epoch)'.val % 2 = IF w \in Opened THEN 1 ELSE 0
    PROVE  Parity'
  <1>1. \A u \in Threads : pc'[u] \in Opened => u = t
    BY OpenedFacts DEF IInv, ShapeOK, OneHolder, Holding
  <1>2. pc'[t] = w
    BY DEF IInv, ShapeOK
  <1> QED BY <1>1, <1>2 DEF Parity

-----------------------------------------------------------------------------
LEMMA TypedInit == Init => TInv
  <1> SUFFICES ASSUME Init PROVE TInv
    OBVIOUS
  <1> DEFINE first == [l \in Locations |-> 1]
  <1>1. IInv
    BY InitInv
  <1>2. /\ \A l \in Locations : mem[l] = << [val |-> 0, view |-> first] >>
        /\ \A t \in Threads : cur[t] = first /\ acq[t] = first /\ rel[t] = first
        /\ \A t \in Threads : pc[t] = <<"idle">>
    BY DEF Init
  <1>3. \A l \in Locations : Len(mem[l]) = 1 /\ mem[l][1].val = 0 /\ mem[l][1].view = first
    BY <1>2
  <1>4. \A l \in Locations : first[l] = 1
    OBVIOUS
  <1> HIDE DEF first
  <1>5. Parity
    BY <1>2, <1>3, OpenedFacts, LocationFacts DEF Parity, Newest
  <1>6. Numbered
    BY <1>3, <1>4 DEF Numbered
  <1>7. Ordered
    BY <1>2, <1>4 DEF Ordered
  <1>8. LocalTypes
    BY WeakAssumption DEF Init, LocalTypes
  <1> QED BY <1>1, <1>5, <1>6, <1>7, <1>8 DEF TInv

LEMMA FlagTyped ==
    ASSUME TInv, IInv', NEW t \in Threads, TakeFlag(t) \/ Clear(t)
    PROVE  TInv'
  <1>f. Flag \in Locations /\ Epoch \in Locations \ {Flag}
    BY LocationFacts
  <1>0. IInv /\ Parity /\ Numbered /\ Ordered
    BY DEF TInv
  <1>1. CASE TakeFlag(t)
    <2> DEFINE i == Len(mem[Flag]) + 1
               m == Newest(Flag).view
               view == [Join(rel[t], m) EXCEPT ![Flag] = i]
               c == [Join(cur[t], m) EXCEPT ![Flag] = i]
               a == [Join(acq[t], m) EXCEPT ![Flag] = i]
    <2>1. /\ mem' = [mem EXCEPT ![Flag] = Append(mem[Flag], [val |-> 1, view |-> view])]
          /\ cur' = [cur EXCEPT ![t] = c] /\ acq' = [acq EXCEPT ![t] = a] /\ rel' = rel
          /\ pc' = [pc EXCEPT ![t] = <<"announce">>] /\ pc[t] = <<"spin">>
          /\ UNCHANGED <<op, seen, copy, calls>>
      BY <1>1 DEF TakeFlag, Exchange, Goto
    <2>2. /\ m \in View /\ cur[t] \in View /\ acq[t] \in View /\ rel[t] \in View
          /\ i \in Nat /\ \A k \in Locations : rel[t][k] \in 1 .. Len(mem[k])
      <3>1. Len(mem[Flag]) \in Nat \ {0} /\ \A j \in 1 .. Len(mem[Flag]) : mem[Flag][j].view \in View
        BY <1>0, <1>f, Messages DEF IInv
      <3>2. m \in View
        BY <3>1 DEF Newest
      <3> QED BY <1>0, <3>1, <3>2 DEF IInv, ShapeOK, Bounded
    <2> HIDE DEF m
    <2>3. /\ Join(rel[t], m) \in View /\ Join(cur[t], m) \in View /\ Join(acq[t], m) \in View
      BY <2>2, JoinBounds
    <2>4. view \in View /\ view[Flag] = i
      BY <1>f, <2>2, <2>3 DEF View
    <2>5. \A k \in Locations :
              /\ c[k] = IF k = Flag THEN i ELSE IF cur[t][k] < m[k] THEN m[k] ELSE cur[t][k]
              /\ a[k] = IF k = Flag THEN i ELSE IF acq[t][k] < m[k] THEN m[k] ELSE acq[t][k]
      BY <2>2, <2>3 DEF Join, View
    <2>6. \A k \in Locations : rel[t][k] <= c[k] /\ c[k] <= a[k]
      <3> SUFFICES ASSUME NEW k \in Locations PROVE rel[t][k] <= c[k] /\ c[k] <= a[k]
        OBVIOUS
      <3>1. /\ rel[t][k] \in Nat /\ cur[t][k] \in Nat /\ acq[t][k] \in Nat /\ m[k] \in Nat
            /\ rel[t][k] <= cur[t][k] /\ cur[t][k] <= acq[t][k]
        BY <1>0, <2>2 DEF Ordered, View
      <3>2. k = Flag => rel[t][k] <= i
        BY <2>2
      <3> QED BY <2>2, <2>5, <3>1, <3>2
    <2> HIDE DEF view, c, a
    <2>m. PICK msg \in Stored : msg = [val |-> 1, view |-> view]
      <3>1. [val |-> 1, view |-> view] \in Stored
        BY <2>4 DEF Stored
      <3> QED BY <3>1
    <2>7. Numbered'
      BY <1>0, <1>f, <2>1, <2>4, <2>m, NumbersGrow
    <2>8. Newest(Epoch)' = Newest(Epoch)
      BY <1>0, <1>f, <2>1, <2>m, Appended DEF Newest
    <2>9. Ordered'
      <3>1. \A u \in Threads : /\ cur'[u] = IF u = t THEN c ELSE cur[u]
                               /\ acq'[u] = IF u = t THEN a ELSE acq[u]
        BY <1>0, <2>1 DEF IInv, ShapeOK
      <3> QED BY <1>0, <2>1, <2>6, <3>1, OrderKept
    <2>10. Parity'
      <3>1. <<"announce">> \in Labels
        BY Inside, SectionsAreLabels
      <3> QED BY <1>0, <2>1, <2>8, <3>1, OpenedFacts, ParityKept
    <2>11. LocalTypes'
      BY <2>1 DEF TInv, LocalTypes
    <2> QED BY <2>7, <2>9, <2>10, <2>11 DEF TInv
  <1>2. CASE Clear(t)
    <2>1. /\ Store(t, Flag, 0, "release") /\ pc[t] = <<"clear">>
          /\ pc' = [pc EXCEPT ![t] = <<"idle">>]
          /\ UNCHANGED <<op, seen, copy, calls>>
      BY <1>2 DEF Clear, Goto
    <2>2. PICK msg \in Stored : /\ mem' = [mem EXCEPT ![Flag] = Append(mem[Flag], msg)]
                               /\ msg.val = 0 /\ msg.view[Flag] = Len(mem[Flag]) + 1
      <3>1. PICK free \in Int : free = 0
        OBVIOUS
      <3>2. Store(t, Flag, free, "release")
        BY <2>1, <3>1
      <3>3. \E msg \in Stored : /\ mem' = [mem EXCEPT ![Flag] = Append(mem[Flag], msg)]
                                /\ msg.val = free /\ msg.view[Flag] = Len(mem[Flag]) + 1
        BY <1>0, <1>f, <3>2, StoreMessage
      <3> QED BY <3>1, <3>3
    <2>3. Numbered' /\ Newest(Epoch)' = Newest(Epoch)
      <3>0. msg.val \in Nat
        BY <2>2
      <3>1. Numbered'
        BY <1>0, <1>f, <2>2, <3>0, NumbersGrow
      <3>2. Newest(Epoch)' = Newest(Epoch)
        BY <1>0, <1>f, <2>2, Appended DEF Newest
      <3> QED BY <3>1, <3>2
    <2>4. Ordered'
      BY <1>0, <1>f, <2>1, StoreOrdered
    <2>5. Parity'
      BY <1>0, <2>1, <2>3, OpenedFacts, Outside, ParityKept
    <2>6. LocalTypes'
      BY <2>1 DEF TInv, LocalTypes
    <2> QED BY <2>3, <2>4, <2>5, <2>6 DEF TInv
  <1> QED BY <1>1, <1>2

\* What the holder counts on from: the newest epoch, odd where it is open.
LEMMA HolderCounts ==
    ASSUME TInv, NEW t \in Threads, Holding(t)
    PROVE  /\ CurEpoch(t) = Newest(Epoch).val /\ CurEpoch(t) \in Nat
           /\ CurEpoch(t) % 2 = IF pc[t] \in Opened THEN 1 ELSE 0
  <1>1. CurEpoch(t) = Newest(Epoch).val
    BY LocationFacts DEF TInv, IInv, HolderIsUpToDate, CurEpoch, Newest
  <1>2. Newest(Epoch).val \in Nat
    BY LocationFacts, Messages DEF TInv, IInv, Numbered, Newest
  <1>3. pc[t] \notin Opened => \A u \in Threads : pc[u] \notin Opened
    BY OpenedFacts DEF TInv, IInv, OneHolder, Holding
  <1> QED BY <1>1, <1>2, <1>3 DEF TInv, Parity

\* A holder stores a number to the epoch or to a piece.
LEMMA HolderTyped ==
    ASSUME TInv, IInv', NEW t \in Threads, Holding(t),
           NEW l \in Locations \ {Flag}, NEW val \in Nat, Store(t, l, val, "relaxed"),
           NEW w \in Sections, pc' = [pc EXCEPT ![t] = w],
           IF l = Epoch THEN val % 2 = IF w \in Opened THEN 1 ELSE 0
                        ELSE w \in Opened <=> pc[t] \in Opened,
           UNCHANGED <<op, seen, copy, calls>>
    PROVE  TInv'
  <1>0. IInv /\ Parity /\ Numbered /\ Ordered /\ val \in Int /\ l \in Locations
    BY DEF TInv
  <1>1. PICK msg \in Stored : /\ mem' = [mem EXCEPT ![l] = Append(mem[l], msg)]
                             /\ msg.val = val /\ msg.view[l] = Len(mem[l]) + 1
    BY <1>0, StoreMessage
  <1>2. Numbered'
    BY <1>0, <1>1, NumbersGrow
  <1>3. Newest(l)'.val = val /\ \A k \in Locations \ {l} : Newest(k)' = Newest(k)
    BY <1>0, <1>1, Appended DEF Newest
  <1>4. Ordered'
    BY <1>0, StoreOrdered
  <1>5. Parity'
    <2>1. w \in Labels
      BY SectionsAreLabels
    <2>2. CASE l = Epoch
      BY <1>0, <1>3, <2>1, <2>2, ParityTurns
    <2>3. CASE l # Epoch
      BY <1>0, <1>3, <2>1, <2>3, LocationFacts, ParityKept
    <2> QED BY <2>2, <2>3
  <1>6. LocalTypes'
    BY DEF TInv, LocalTypes
  <1> QED BY <1>2, <1>4, <1>5, <1>6 DEF TInv

LEMMA StoresTyped ==
    ASSUME TInv, IInv', NEW t \in Threads, Announce(t) \/ StorePiece(t) \/ Publish(t)
    PROVE  TInv'
  <1>e. PICK e : e = CurEpoch(t)
    OBVIOUS
  <1>l. Epoch \in Locations \ {Flag} /\ 1 \in Pieces
    BY LocationFacts, WeakAssumption DEF Pieces
  <1>1. CASE Announce(t)
    <2>1. PICK w \in Sections :
             /\ Store(t, Epoch, e + 1, "relaxed") /\ pc[t] = <<"announce">>
             /\ pc' = [pc EXCEPT ![t] = w] /\ w \in Opened
             /\ UNCHANGED <<op, seen, copy, calls>>
      BY <1>1, <1>e, <1>l, Inside, OpenedFacts DEF Announce, Goto
    <2>2. Holding(t) /\ pc[t] \notin Opened
      BY <2>1, Inside, OpenedFacts DEF Holding
    <2>3. e \in Nat /\ e % 2 = 0
      BY <1>e, <2>2, HolderCounts
    <2>4. e + 1 \in Nat /\ (e + 1) % 2 = 1
      BY <2>3
    <2> QED BY <1>l, <2>1, <2>2, <2>4, HolderTyped
  <1>2. CASE StorePiece(t)
    <2>1. PICK p \in Pieces :
             /\ pc[t] = <<"store", p>> /\ Store(t, p, (e + 1) \div 2, "relaxed")
             /\ Goto(t, IF p < NumPieces THEN <<"store", p + 1>> ELSE <<"publish">>)
             /\ UNCHANGED <<op, seen, copy, calls>>
      BY <1>2, <1>e DEF StorePiece
    <2>2. p < NumPieces => p + 1 \in Pieces
      BY WeakAssumption DEF Pieces
    <2>3. PICK w \in Sections : pc' = [pc EXCEPT ![t] = w] /\ w \in Opened
      BY <2>1, <2>2, Inside, OpenedFacts DEF Goto
    <2>4. Holding(t) /\ pc[t] \in Opened /\ p \in Locations \ {Flag} /\ p # Epoch
      BY <2>1, Inside, OpenedFacts, LocationFacts DEF Holding, Pieces, Epoch
    <2>5. e \in Nat
      BY <1>e, <2>4, HolderCounts
    <2>6. (e + 1) \div 2 \in Nat
      BY <2>5
    <2> QED BY <2>1, <2>3, <2>4, <2>6, HolderTyped
  <1>3. CASE Publish(t)
    <2>v. PICK val : val = e + (IF op[t] = "miss" THEN -1 ELSE 1)
      OBVIOUS
    <2>1. /\ Store(t, Epoch, val, "relaxed") /\ pc[t] = <<"publish">>
          /\ pc' = [pc EXCEPT ![t] = <<"clear">>] /\ <<"clear">> \in Sections
          /\ UNCHANGED <<op, seen, copy, calls>>
      BY <1>3, <1>e, <2>v, Inside DEF Publish, Goto
    <2>2. Holding(t) /\ pc[t] \in Opened /\ <<"clear">> \notin Opened
      BY <2>1, Inside, OpenedFacts DEF Holding
    <2>3. e \in Nat /\ e % 2 = 1
      BY <1>e, <2>2, HolderCounts
    <2>4. val \in Nat /\ val % 2 = 0
      BY <2>3, <2>v
    <2> QED BY <1>l, <2>1, <2>2, <2>4, HolderTyped
  <1> QED BY <1>1, <1>2, <1>3

LEMMA FenceTyped ==
    ASSUME TInv, IInv', NEW t \in Threads, Fence(t)
    PROVE  TInv'
  <1>0. IInv /\ Parity /\ Numbered /\ Ordered
    BY DEF TInv
  <1>1. /\ UNCHANGED <<mem, cur, acq, op, seen, copy, calls>> /\ rel' = [rel EXCEPT ![t] = cur[t]]
        /\ pc[t] = <<"fence">>
    BY DEF Fence, ReleaseFence
  <1>2. PICK w \in Sections : pc' = [pc EXCEPT ![t] = w] /\ w \in Opened
    <2>1. 1 \in Pieces
      BY WeakAssumption DEF Pieces
    <2>2. PICK w \in {<<"publish">>, <<"store", 1>>} : pc' = [pc EXCEPT ![t] = w]
      BY DEF Fence, Goto
    <2> QED BY <2>1, <2>2, Inside, OpenedFacts
  <1>3. Numbered' /\ Newest(Epoch)' = Newest(Epoch)
    BY <1>0, <1>1 DEF Numbered, Newest
  <1>4. Ordered'
    <2>1. rel'[t] = cur[t] /\ \A u \in Threads \ {t} : rel'[u] = rel[u]
      BY <1>0, <1>1 DEF IInv, ShapeOK
    <2>2. \A k \in Locations : cur[t][k] \in Nat /\ cur[t][k] <= acq[t][k]
      BY <1>0 DEF IInv, ShapeOK, View, Ordered
    <2>3. \A k \in Locations : rel'[t][k] <= cur'[t][k] /\ cur'[t][k] <= acq'[t][k]
      BY <1>1, <2>1, <2>2
    <2> QED BY <1>0, <1>1, <2>1, <2>3, OrderKept
  <1>5. Parity'
    BY <1>0, <1>1, <1>2, <1>3, OpenedFacts, SectionsAreLabels, ParityKept
  <1>6. LocalTypes'
    BY <1>1 DEF TInv, LocalTypes
  <1> QED BY <1>3, <1>4, <1>5, <1>6 DEF TInv

\* A step of a thread outside the critical sections.
LEMMA OutsideTyped ==
    ASSUME TInv, IInv', NEW t \in Threads, pc[t] \notin Sections, mem' = mem,
           NEW w \in Labels \ Sections, pc' = [pc EXCEPT ![t] = w], Ordered', LocalTypes'
    PROVE  TInv'
  <1>1. IInv /\ Parity /\ Numbered
    BY DEF TInv
  <1>2. Numbered' /\ Newest(Epoch)' = Newest(Epoch)
    BY <1>1 DEF Numbered, Newest
  <1>3. Parity'
    BY <1>1, <1>2, OpenedFacts, ParityKept
  <1> QED BY <1>2, <1>3 DEF TInv

LEMMA LookupsTyped ==
    ASSUME TInv, IInv', NEW t \in Threads,
           Call(t) \/ LoadEpoch(t) \/ LoadPiece(t) \/ Barrier(t) \/ Check(t) \/ Return(t)
    PROVE  TInv'
  <1>0. IInv /\ Parity /\ Numbered /\ Ordered /\ LocalTypes
    BY DEF TInv
  <1>l. Epoch \in Locations /\ (\A p \in Pieces : p \in Locations) /\ 1 \in Pieces
    BY LocationFacts, WeakAssumption DEF Pieces
  <1>1. CASE Call(t)
    <2>1. /\ UNCHANGED <<mem, cur, acq, rel, seen, copy>> /\ pc[t] \notin Sections
          /\ calls < MaxOps /\ calls' = calls + 1
      BY <1>1, Outside DEF Call, views
    <2>2. PICK o \in Ops : op' = [op EXCEPT ![t] = o]
      BY <1>1 DEF Call
    <2>3. PICK w \in Labels \ Sections : pc' = [pc EXCEPT ![t] = w]
      BY <1>1, Outside DEF Call, Goto
    <2>4. Ordered'
      BY <1>0, <2>1 DEF Ordered
    <2>5. LocalTypes'
      BY <1>0, <2>1, <2>2, WeakAssumption DEF LocalTypes
    <2> QED BY <2>1, <2>3, <2>4, <2>5, OutsideTyped
  <1>2. CASE LoadEpoch(t)
    <2>1. PICK i \in 1 .. Len(mem[Epoch]) :
              /\ Load(t, Epoch, i, "acquire") /\ seen' = [seen EXCEPT ![t] = mem[Epoch][i].val]
              /\ Goto(t, IF mem[Epoch][i].val % 2 = 1 THEN <<"epoch">> ELSE <<"load", 1>>)
      BY <1>2 DEF LoadEpoch
    <2>2. UNCHANGED <<op, copy, calls>> /\ pc[t] \notin Sections
      BY <1>2, Outside DEF LoadEpoch
    <2>3. PICK w \in Labels \ Sections : pc' = [pc EXCEPT ![t] = w]
      BY <1>l, <2>1, Outside DEF Goto
    <2>4. Ordered' /\ mem' = mem
      BY <1>0, <1>l, <2>1, LoadOrdered DEF Load
    <2>5. LocalTypes'
      BY <1>0, <1>l, <2>1, <2>2 DEF LocalTypes, Numbered
    <2> QED BY <2>2, <2>3, <2>4, <2>5, OutsideTyped
  <1>3. CASE LoadPiece(t)
    <2>1. PICK p \in Pieces :
              /\ pc[t] = <<"load", p>>
              /\ \E i \in 1 .. Len(mem[p]) : /\ Load(t, p, i, "relaxed")
                                             /\ copy' = [copy EXCEPT ![t][p] = mem[p][i].val]
              /\ Goto(t, IF p < NumPieces THEN <<"load", p + 1>> ELSE <<"barrier">>)
              /\ UNCHANGED <<op, seen, calls>>
      BY <1>3 DEF LoadPiece
    <2>2. PICK i \in 1 .. Len(mem[p]) : /\ Load(t, p, i, "relaxed")
                                        /\ copy' = [copy EXCEPT ![t][p] = mem[p][i].val]
      BY <2>1
    <2>3. p < NumPieces => p + 1 \in Pieces
      BY WeakAssumption DEF Pieces
    <2>4. PICK w \in Labels \ Sections : pc' = [pc EXCEPT ![t] = w]
      BY <2>1, <2>3, Outside DEF Goto
    <2>5. Ordered' /\ mem' = mem
      BY <1>0, <1>l, <2>2, LoadOrdered DEF Load
    <2>6. mem[p][i].val \in Nat
      BY <1>0, <1>l DEF Numbered
    <2>7. LocalTypes'
      BY <1>0, <2>1, <2>2, <2>6 DEF LocalTypes
    <2>8. pc[t] \notin Sections
      BY <2>1, Outside
    <2> QED BY <2>4, <2>5, <2>7, <2>8, OutsideTyped
  <1>4. CASE Barrier(t)
    <2>1. /\ UNCHANGED <<mem, acq, rel, op, seen, copy, calls>> /\ pc[t] \notin Sections
          /\ cur' = [cur EXCEPT ![t] = acq[t]] /\ pc' = [pc EXCEPT ![t] = <<"check">>]
      BY <1>4, Outside DEF Barrier, AcquireFence, Goto
    <2>2. cur'[t] = acq[t] /\ \A u \in Threads \ {t} : cur'[u] = cur[u]
      BY <1>0, <2>1 DEF IInv, ShapeOK
    <2>3. \A k \in Locations : rel'[t][k] <= cur'[t][k] /\ cur'[t][k] <= acq'[t][k]
      <3>1. \A k \in Locations : /\ rel[t][k] \in Nat /\ cur[t][k] \in Nat /\ acq[t][k] \in Nat
                                 /\ rel[t][k] <= cur[t][k] /\ cur[t][k] <= acq[t][k]
        BY <1>0 DEF IInv, ShapeOK, View, Ordered
      <3> QED BY <2>1, <2>2, <3>1
    <2>4. Ordered'
      BY <1>0, <2>1, <2>2, <2>3, OrderKept
    <2>5. LocalTypes'
      BY <1>0, <2>1 DEF LocalTypes
    <2> QED BY <2>1, <2>4, <2>5, Outside, OutsideTyped
  <1>5. CASE Check(t)
    <2>1. PICK i \in 1 .. Len(mem[Epoch]) :
              /\ Load(t, Epoch, i, "relaxed")
              /\ Goto(t, IF mem[Epoch][i].val = seen[t] THEN <<"accepted">> ELSE <<"epoch">>)
      BY <1>5 DEF Check
    <2>2. UNCHANGED <<op, seen, copy, calls>> /\ pc[t] \notin Sections
      BY <1>5, Outside DEF Check
    <2>3. PICK w \in Labels \ Sections : pc' = [pc EXCEPT ![t] = w]
      BY <2>1, Outside DEF Goto
    <2>4. Ordered' /\ mem' = mem
      BY <1>0, <1>l, <2>1, LoadOrdered DEF Load
    <2>5. LocalTypes'
      BY <1>0, <2>2 DEF LocalTypes
    <2> QED BY <2>2, <2>3, <2>4, <2>5, OutsideTyped
  <1>6. CASE Return(t)
    <2>1. /\ UNCHANGED <<mem, cur, acq, rel, op, seen, copy, calls>> /\ pc[t] \notin Sections
          /\ pc' = [pc EXCEPT ![t] = <<"idle">>]
      BY <1>6, Outside DEF Return, Goto, views
    <2>2. Ordered' /\ LocalTypes'
      BY <1>0, <2>1 DEF Ordered, LocalTypes
    <2> QED BY <2>1, <2>2, Outside, OutsideTyped
  <1> QED BY <1>1, <1>2, <1>3, <1>4, <1>5, <1>6

LEMMA TypedStep == TInv /\ [Next]_vars => TInv'
  <1> SUFFICES ASSUME TInv, [Next]_vars PROVE TInv'
    OBVIOUS
  <1>1. IInv'
    BY StepInv DEF TInv
  <1>2. CASE UNCHANGED vars
    BY <1>1, <1>2 DEF vars, views, TInv, Parity, Newest, Numbered, Ordered, LocalTypes
  <1>3. ASSUME NEW t \in Threads,
               \/ Call(t) \/ TakeFlag(t) \/ Announce(t) \/ Fence(t) \/ StorePiece(t)
               \/ Publish(t) \/ Clear(t) \/ LoadEpoch(t) \/ LoadPiece(t) \/ Barrier(t)
               \/ Check(t) \/ Return(t)
        PROVE TInv'
    BY <1>1, <1>3, FlagTyped, StoresTyped, FenceTyped, LookupsTyped
  <1> QED BY <1>2, <1>3 DEF Next

\* Every variable keeps its type: no epoch is ever negative, although
\* unlock_no_modified counts back (seqlock.hpp:57-60), as it is odd where it is
\* counted; and no thread's view is ahead of the memory.
THEOREM WeakTypes == Spec => []TypeOK
  <1>1. Spec => []TInv
    BY TypedInit, TypedStep, PTL DEF Spec
  <1>2. TInv => TypeOK
    <2> SUFFICES ASSUME TInv PROVE TypeOK
      OBVIOUS
    <2>1. mem \in [Locations -> Seq(Message)]
      <3>1. \A l \in Locations : mem[l] \in Seq(Message)
        <4> SUFFICES ASSUME NEW l \in Locations PROVE mem[l] \in Seq(Message)
          OBVIOUS
        <4>1. mem[l] \in Seq(Stored) /\ Len(mem[l]) \in Nat
          BY Messages DEF TInv, IInv
        <4>2. \A i \in 1 .. Len(mem[l]) : mem[l][i] \in Message
          <5>1. \A i \in 1 .. Len(mem[l]) : mem[l][i] \in Stored /\ mem[l][i].val \in Nat
            BY <4>1 DEF TInv, Numbered
          <5>2. \A m \in Stored : m.val \in Nat => m \in Message
            BY DEF Stored, Message
          <5> QED BY <5>1, <5>2
        <4> QED BY <4>1, <4>2
      <3> QED BY <3>1 DEF TInv, IInv, ShapeOK
    <2>2. \A t \in Threads : /\ cur[t] \in [Locations -> Nat \ {0}]
                             /\ acq[t] \in [Locations -> Nat \ {0}]
                             /\ rel[t] \in [Locations -> Nat \ {0}]
      <3> SUFFICES ASSUME NEW t \in Threads
                   PROVE  /\ cur[t] \in [Locations -> Nat \ {0}] /\ acq[t] \in [Locations -> Nat \ {0}]
                          /\ rel[t] \in [Locations -> Nat \ {0}]
        OBVIOUS
      <3>1. cur[t] \in View /\ acq[t] \in View /\ rel[t] \in View
        BY DEF TInv, IInv, ShapeOK
      <3>2. \A l \in Locations : /\ Len(mem[l]) \in Nat /\ cur[t][l] \in 1 .. Len(mem[l])
                                 /\ acq[t][l] \in 1 .. Len(mem[l]) /\ rel[t][l] \in 1 .. Len(mem[l])
        BY Messages DEF TInv, IInv, Bounded
      <3> QED BY <3>1, <3>2 DEF View
    <2>3. \A t \in Threads, l \in Locations : rel[t][l] <= cur[t][l] /\ cur[t][l] <= acq[t][l]
                                             /\ acq[t][l] <= Len(mem[l])
      BY Messages DEF TInv, IInv, Bounded, Ordered
    <2> QED BY <2>1, <2>2, <2>3 DEF TInv, IInv, ShapeOK, LocalTypes, TypeOK
  <1> QED BY <1>1, <1>2, PTL

-----------------------------------------------------------------------------
(***************************************************************************)
(* A lookup accepts nothing that is newer than the epoch it accepts, if    *)
(* every critical section starts with the release fence.  A piece then     *)
(* hands on the odd epoch behind which it was stored; no epoch from there  *)
(* on is smaller; and a lookup that has loaded the piece must see one of   *)
(* these after its acquire fence.                                          *)
(* Nor does it accept anything older than the update before: the even      *)
(* epoch hands on the view its holder had at the fence, behind which only  *)
(* the pieces of the last update are missing.                              *)
(***************************************************************************)

\* Half of n bounds all updates that have been stored or loaded.
Below(n) ==
    \A p \in Pieces :
        /\ \A i \in 1 .. Len(mem[p]) : 2 * mem[p][i].val <= n
        /\ \A u \in Threads : 2 * copy[u][p] <= n

\* The epochs e are those of update n or later from the k-th on.
After(e, k, n) == \A j \in k .. Len(e) : 2 * n <= e[j].val + 1

\* How far the updates may go beyond the epoch in a critical section.
Room(t) == IF pc[t] \notin Opened THEN 0
           ELSE IF op[t] = "miss" \/ pc[t] = <<"fence">> THEN -1 ELSE 1

Numbers ==
    /\ copy \in [Threads -> [Pieces -> Int]] /\ seen \in [Threads -> Int]
    /\ op \in [Threads -> Ops \cup {"lookup"}]

Rooms ==
    /\ (\A t \in Threads : ~Holding(t)) => Below(Newest(Epoch).val)
    /\ \A t \in Threads : Holding(t) => Below(Newest(Epoch).val + Room(t))

\* The fence is behind the holder that stores.
Fenced ==
    \A t \in Threads : \A p \in Pieces : pc[t] = <<"store", p>> =>
        op[t] # "miss" /\ rel[t][Epoch] = Len(mem[Epoch])

PiecesFollow ==
    \A p \in Pieces : \A i \in 1 .. Len(mem[p]) :
        After(mem[Epoch], mem[p][i].view[Epoch], mem[p][i].val)

CopiesFollow ==
    \A t \in Threads : \A p \in Pieces : After(mem[Epoch], acq[t][Epoch], copy[t][p])

ChecksFollow ==
    \A t \in Threads : pc[t] = <<"check">> =>
        \A p \in Pieces : After(mem[Epoch], cur[t][Epoch], copy[t][p])

\* A lookup goes on with an even epoch.
Looking == {<<"barrier">>, <<"check">>, <<"accepted">>} \cup ({"load"} \X Pieces)
SeenIsEven == \A t \in Threads : pc[t] \in Looking => seen[t] % 2 # 1

AcceptedFollow ==
    \A t \in Threads : pc[t] = <<"accepted">> => \A p \in Pieces : 2 * copy[t][p] <= seen[t] + 1

OInv ==
    /\ IInv /\ Numbers /\ Rooms /\ Fenced
    /\ PiecesFollow /\ CopiesFollow /\ ChecksFollow /\ SeenIsEven /\ AcceptedFollow

-----------------------------------------------------------------------------
LEMMA LabelFacts ==
    /\ <<"fence">> \in Opened /\ <<"publish">> \in Opened /\ Opened \subseteq Sections
    /\ <<"fence">> # <<"publish">>
    /\ <<"announce">> \notin Opened /\ <<"clear">> \notin Opened
    /\ <<"accepted">> # <<"check">>
    /\ Looking \cap Sections = {}
    /\ <<"idle">> \notin Looking /\ <<"spin">> \notin Looking /\ <<"epoch">> \notin Looking
    /\ <<"barrier">> \in Looking /\ <<"check">> \in Looking /\ <<"accepted">> \in Looking
    /\ <<"epoch">> # <<"check">> /\ <<"epoch">> # <<"accepted">>
    /\ <<"barrier">> # <<"check">> /\ <<"barrier">> # <<"accepted">>
  BY DEF Opened, Sections, Looking

LEMMA StoreLabels ==
    ASSUME NEW p \in Pieces
    PROVE  /\ <<"store", p>> \in Opened /\ <<"load", p>> \in Looking
           /\ <<"store", p>> # <<"fence">> /\ <<"store", p>> # <<"publish">>
           /\ <<"load", p>> # <<"check">> /\ <<"load", p>> # <<"accepted">>
           /\ <<"store", p>> # <<"announce">> /\ <<"store", p>> # <<"clear">>
           /\ <<"store", p>> # <<"check">> /\ <<"store", p>> # <<"accepted">>
  BY DEF Opened, Looking

LEMMA EvenBound ==
    ASSUME NEW n \in Int, NEW e \in Int, 2 * n <= e + 1, e % 2 # 1
    PROVE  n <= e \div 2
  OBVIOUS

LEMMA HalfBound ==
    ASSUME NEW e \in Int
    PROVE  2 * ((e + 1) \div 2) <= e + 1
  OBVIOUS

LEMMA AfterLater ==
    ASSUME NEW e, NEW k \in Nat, NEW m \in Nat, k <= m, Len(e) \in Nat, NEW n, After(e, k, n)
    PROVE  After(e, m, n)
  BY DEF After

LEMMA AfterAppend ==
    ASSUME NEW e \in Seq(Stored), NEW msg \in Stored, NEW k \in 1 .. Len(e) + 1, NEW n \in Int,
           k <= Len(e) => After(e, k, n), 2 * n <= msg.val + 1
    PROVE  After(Append(e, msg), k, n)
  <1> DEFINE f == Append(e, msg)
  <1>1. Len(e) \in Nat /\ Len(f) = Len(e) + 1 /\ f[Len(e) + 1] = msg
        /\ \A j \in 1 .. Len(e) : f[j] = e[j]
    OBVIOUS
  <1> HIDE DEF f
  <1>2. ASSUME NEW j \in k .. Len(f) PROVE 2 * n <= f[j].val + 1
    <2>1. CASE j = Len(e) + 1
      BY <1>1, <2>1
    <2>2. CASE j # Len(e) + 1
      <3>1. j \in k .. Len(e) /\ j \in 1 .. Len(e) /\ k <= Len(e)
        BY <1>1, <2>2
      <3> QED BY <1>1, <3>1 DEF After
    <2> QED BY <2>1, <2>2
  <1>3. After(f, k, n)
    BY <1>2 DEF After
  <1> QED BY <1>3 DEF f

LEMMA OrderInit == Init => OInv
  <1> SUFFICES ASSUME Init PROVE OInv
    OBVIOUS
  <1> DEFINE first == [l \in Locations |-> 1]
  <1>1. IInv
    BY InitInv
  <1>2. /\ \A l \in Locations : mem[l] = << [val |-> 0, view |-> first] >>
        /\ \A t \in Threads : pc[t] = <<"idle">> /\ \A p \in Pieces : copy[t][p] = 0
    BY DEF Init
  <1>3. \A l \in Locations : Len(mem[l]) = 1 /\ mem[l][1].val = 0
    BY <1>2
  <1>4. Numbers
    BY DEF Init, Numbers
  <1>5. Below(0) /\ Newest(Epoch).val = 0
    BY <1>2, <1>3, LocationFacts DEF Below, Newest
  <1>6. \A t \in Threads : ~Holding(t) /\ pc[t] \notin Looking
    BY <1>2, Outside, LabelFacts DEF Holding
  <1>7. Rooms /\ Fenced /\ SeenIsEven /\ ChecksFollow /\ AcceptedFollow
    BY <1>5, <1>6, LabelFacts, StoreLabels DEF Rooms, Fenced, SeenIsEven, ChecksFollow, AcceptedFollow,
       Holding
  <1>8. \A l \in Locations : first[l] = 1
    OBVIOUS
  <1> HIDE DEF first
  <1>9. After(mem[Epoch], 1, 0)
    BY <1>3, LocationFacts DEF After
  <1>10. PiecesFollow
    BY <1>2, <1>3, <1>8, <1>9, LocationFacts DEF PiecesFollow
  <1>11. CopiesFollow
    BY <1>2, <1>8, <1>9, LocationFacts DEF CopiesFollow, Init, first
  <1> QED BY <1>1, <1>4, <1>7, <1>10, <1>11 DEF OInv

-----------------------------------------------------------------------------
\* What a step has to show beyond IInv.
LEMMA Goal ==
    ASSUME IInv', Numbers', Rooms', Fenced', PiecesFollow', CopiesFollow', ChecksFollow',
           SeenIsEven', AcceptedFollow'
    PROVE  OInv'
  BY DEF OInv

\* Numbers that are compared.
LEMMA EpochNumbers ==
    ASSUME IInv
    PROVE  /\ Len(mem[Epoch]) \in Nat \ {0} /\ Newest(Epoch).val \in Int
           /\ \A j \in 1 .. Len(mem[Epoch]) : mem[Epoch][j].val \in Int
           /\ Newest(Epoch) = mem[Epoch][Len(mem[Epoch])]
           /\ \A p \in Pieces : \A i \in 1 .. Len(mem[p]) :
                 /\ mem[p][i].val \in Int /\ mem[p][i].view[Epoch] \in 1 .. Len(mem[Epoch])
           /\ \A t \in Threads : /\ acq[t][Epoch] \in 1 .. Len(mem[Epoch])
                                 /\ cur[t][Epoch] \in 1 .. Len(mem[Epoch])
                                 /\ rel[t][Epoch] \in 1 .. Len(mem[Epoch])
  BY LocationFacts, Messages DEF IInv, Bounded, Carried, Newest

\* Nothing but the flag is stored, and the views to come only grow.
LEMMA Quiet ==
    ASSUME OInv, IInv', copy' = copy, \A l \in Locations \ {Flag} : mem'[l] = mem[l],
           \A t \in Threads : acq[t][Epoch] <= acq'[t][Epoch]
    PROVE  /\ PiecesFollow' /\ CopiesFollow'
           /\ \A n : Below(n)' <=> Below(n)
           /\ Newest(Epoch)' = Newest(Epoch) /\ mem'[Epoch] = mem[Epoch]
  <1>1. /\ mem'[Epoch] = mem[Epoch] /\ \A p \in Pieces : mem'[p] = mem[p]
    BY LocationFacts
  <1>2. /\ \A n : Below(n)' <=> Below(n)
        /\ Newest(Epoch)' = Newest(Epoch)
    BY <1>1 DEF Below, Newest
  <1>3. PiecesFollow'
    BY <1>1 DEF OInv, PiecesFollow
  <1>4. CopiesFollow'
    <2> SUFFICES ASSUME NEW t \in Threads, NEW p \in Pieces
                 PROVE  After(mem[Epoch], acq'[t][Epoch], copy[t][p])
      BY <1>1 DEF CopiesFollow
    <2>1. PICK k : k = acq'[t][Epoch]
      OBVIOUS
    <2>2. k \in Nat
      BY <1>1, <2>1, EpochNumbers, LocationFacts, Messages DEF OInv, IInv, ShapeOK, View
    <2>3. acq[t][Epoch] \in Nat /\ Len(mem[Epoch]) \in Nat /\ acq[t][Epoch] <= k
      BY <2>1, EpochNumbers DEF OInv
    <2>4. After(mem[Epoch], acq[t][Epoch], copy[t][p])
      BY DEF OInv, CopiesFollow
    <2> QED BY <2>1, <2>2, <2>3, <2>4, AfterLater
  <1> QED BY <1>1, <1>2, <1>3, <1>4

\* A new epoch that no update is beyond.
LEMMA NewEpoch ==
    ASSUME OInv, NEW t \in Threads, NEW val \in Int,
           Store(t, Epoch, val, "relaxed"), Below(val + 1), copy' = copy
    PROVE  /\ PiecesFollow' /\ CopiesFollow'
           /\ Newest(Epoch)'.val = val
           /\ \A n : Below(n)' <=> Below(n)
           /\ \A u \in Threads \ {t} : \A p \in Pieces :
                 /\ cur'[u] = cur[u]
                 /\ After(mem[Epoch], cur[u][Epoch], copy[u][p])
                       => After(mem'[Epoch], cur[u][Epoch], copy[u][p])
  <1> DEFINE i == Len(mem[Epoch]) + 1
             new == [val |-> val, view |-> [rel[t] EXCEPT ![Epoch] = i]]
             e == Append(mem[Epoch], new)
  <1>1. /\ mem' = [mem EXCEPT ![Epoch] = e]
        /\ cur' = [cur EXCEPT ![t][Epoch] = i] /\ acq' = [acq EXCEPT ![t][Epoch] = i]
    BY DEF Store
  <1>2. mem[Epoch] \in Seq(Stored) /\ i \in Nat \ {0} /\ Epoch \in Locations
    BY LocationFacts, Messages DEF OInv, IInv
  <1>3. new.val = val /\ new \in Stored
    <2>1. [rel[t] EXCEPT ![Epoch] = i] \in View
      BY <1>2 DEF OInv, IInv, ShapeOK, View
    <2> QED BY <2>1 DEF Stored
  <1> HIDE DEF new
  <1>4. /\ Len(e) = i /\ e[i] = new
        /\ mem'[Epoch] = e /\ \A p \in Pieces : mem'[p] = mem[p]
    BY <1>1, <1>2, <1>3, LocationFacts DEF OInv, IInv, ShapeOK, Pieces, Epoch
  <1>5. Newest(Epoch)'.val = val
    BY <1>3, <1>4 DEF Newest
  <1>6. \A n : Below(n)' <=> Below(n)
    BY <1>4 DEF Below
  <1>7. ASSUME NEW n \in Int, NEW k \in 1 .. i, 2 * n <= val + 1,
               k <= Len(mem[Epoch]) => After(mem[Epoch], k, n)
        PROVE  After(e, k, n)
    BY <1>2, <1>3, <1>7, AfterAppend
  <1> HIDE DEF e
  <1>8. PiecesFollow'
    <2> SUFFICES ASSUME NEW p \in Pieces, NEW j \in 1 .. Len(mem[p])
                 PROVE  After(e, mem[p][j].view[Epoch], mem[p][j].val)
      BY <1>4 DEF PiecesFollow
    <2>1. /\ mem[p][j].val \in Int /\ mem[p][j].view[Epoch] \in 1 .. i
          /\ 2 * mem[p][j].val <= val + 1
      BY EpochNumbers DEF OInv, Below
    <2>2. After(mem[Epoch], mem[p][j].view[Epoch], mem[p][j].val)
      BY DEF OInv, PiecesFollow
    <2> QED BY <2>1, <2>2, <1>7
  <1>9. ASSUME NEW u \in Threads, NEW p \in Pieces
        PROVE  copy[u][p] \in Int /\ 2 * copy[u][p] <= val + 1
    BY DEF Below, OInv, Numbers
  <1>10. CopiesFollow'
    <2> SUFFICES ASSUME NEW u \in Threads, NEW p \in Pieces
                 PROVE  After(e, acq'[u][Epoch], copy[u][p])
      BY <1>4 DEF CopiesFollow
    <2>1. acq'[u][Epoch] = IF u = t THEN i ELSE acq[u][Epoch]
      BY <1>1, <1>2 DEF OInv, IInv, ShapeOK, View
    <2>2. After(e, i, copy[u][p])
      BY <1>2, <1>7, <1>9
    <2>3. After(e, acq[u][Epoch], copy[u][p])
      <3>1. acq[u][Epoch] \in 1 .. i
        BY EpochNumbers DEF OInv
      <3>2. After(mem[Epoch], acq[u][Epoch], copy[u][p])
        BY DEF OInv, CopiesFollow
      <3> QED BY <3>1, <3>2, <1>7, <1>9
    <2> QED BY <2>1, <2>2, <2>3
  <1>11. ASSUME NEW u \in Threads, NEW p \in Pieces, After(mem[Epoch], cur[u][Epoch], copy[u][p])
         PROVE  After(e, cur[u][Epoch], copy[u][p])
    <2>1. cur[u][Epoch] \in 1 .. i
      BY EpochNumbers DEF OInv
    <2> QED BY <2>1, <1>7, <1>9, <1>11
  <1>12. \A u \in Threads \ {t} : cur'[u] = cur[u]
    BY <1>1 DEF OInv, IInv, ShapeOK
  <1> QED BY <1>4, <1>5, <1>6, <1>8, <1>10, <1>11, <1>12

-----------------------------------------------------------------------------
\* The parts about threads, when only thread t goes on.
LEMMA OthersWait ==
    ASSUME OInv, NEW t \in Threads, NEW w \in Labels, pc' = [pc EXCEPT ![t] = w],
           \A u \in Threads \ {t} :
               /\ seen'[u] = seen[u] /\ copy'[u] = copy[u]
               /\ \A p \in Pieces : After(mem[Epoch], cur[u][Epoch], copy[u][p])
                                        => After(mem'[Epoch], cur'[u][Epoch], copy[u][p]),
           w \in Looking => seen'[t] % 2 # 1,
           w = <<"check">> => \A p \in Pieces : After(mem'[Epoch], cur'[t][Epoch], copy'[t][p]),
           w = <<"accepted">> => \A p \in Pieces : 2 * copy'[t][p] <= seen'[t] + 1
    PROVE  ChecksFollow' /\ SeenIsEven' /\ AcceptedFollow'
  <1>1. \A u \in Threads : pc'[u] = IF u = t THEN w ELSE pc[u]
    BY DEF OInv, IInv, ShapeOK
  <1>2. ChecksFollow'
    <2> SUFFICES ASSUME NEW u \in Threads, pc'[u] = <<"check">>, NEW p \in Pieces
                 PROVE  After(mem'[Epoch], cur'[u][Epoch], copy'[u][p])
      BY DEF ChecksFollow
    <2>1. CASE u = t
      BY <1>1, <2>1
    <2>2. CASE u # t
      <3>1. pc[u] = <<"check">> /\ copy'[u][p] = copy[u][p]
        BY <1>1, <2>2
      <3>2. After(mem[Epoch], cur[u][Epoch], copy[u][p])
        BY <3>1 DEF OInv, ChecksFollow
      <3> QED BY <2>2, <3>1, <3>2
    <2> QED BY <2>1, <2>2
  <1>3. SeenIsEven'
    BY <1>1 DEF OInv, SeenIsEven
  <1>4. AcceptedFollow'
    BY <1>1 DEF OInv, AcceptedFollow
  <1> QED BY <1>2, <1>3, <1>4

\* The holder goes on inside its critical section, or has just entered it.
LEMMA HolderGoesOn ==
    ASSUME OInv, IInv', NEW t \in Threads, NEW w \in Sections, pc' = [pc EXCEPT ![t] = w],
           NEW n, n = Newest(Epoch)'.val + Room(t)', Below(n)',
           \A p \in Pieces : w = <<"store", p>> => op'[t] # "miss" /\ rel'[t][Epoch] = Len(mem'[Epoch])
    PROVE  Rooms' /\ Fenced'
  <1>1. pc'[t] = w /\ Holding(t)'
    BY DEF OInv, IInv, ShapeOK, Holding
  <1>2. \A u \in Threads : Holding(u)' => u = t
    BY <1>1 DEF IInv, OneHolder
  <1>3. Rooms'
    BY <1>1, <1>2 DEF Rooms
  <1>4. \A u \in Threads \ {t}, p \in Pieces : pc'[u] # <<"store", p>>
    BY <1>2, Inside DEF Holding
  <1>5. Fenced'
    BY <1>1, <1>4 DEF Fenced
  <1> QED BY <1>3, <1>5

\* A thread goes on outside the critical sections.
LEMMA OutsideGoesOn ==
    ASSUME OInv, NEW t \in Threads, pc[t] \notin Sections,
           NEW w \in Labels \ Sections, pc' = [pc EXCEPT ![t] = w],
           \A u \in Threads \ {t} : op'[u] = op[u], UNCHANGED <<mem, rel>>,
           \A n : Below(n) => Below(n)'
    PROVE  Rooms' /\ Fenced'
  <1>1. \A u \in Threads : pc'[u] = IF u = t THEN w ELSE pc[u]
    BY DEF OInv, IInv, ShapeOK
  <1>2. \A u \in Threads : /\ Holding(u)' <=> Holding(u)
                           /\ Holding(u) => u # t /\ Room(u)' = Room(u)
    BY <1>1 DEF Holding, Room
  <1>3. Newest(Epoch)' = Newest(Epoch)
    BY DEF Newest
  <1>4. Rooms'
    <2>1. (\A u \in Threads : ~Holding(u)') => Below(Newest(Epoch).val)'
      BY <1>2, <1>3 DEF OInv, Rooms
    <2>2. ASSUME NEW u \in Threads, Holding(u)' PROVE Below(Newest(Epoch).val + Room(u))'
      <3>1. Below(Newest(Epoch).val + Room(u))
        BY <1>2, <2>2 DEF OInv, Rooms
      <3>2. PICK n : n = Newest(Epoch).val + Room(u)
        OBVIOUS
      <3>3. Below(n)' /\ n = Newest(Epoch)'.val + Room(u)'
        BY <1>2, <1>3, <2>2, <3>1, <3>2
      <3> QED BY <3>3
    <2> QED BY <2>1, <2>2 DEF Rooms
  <1>5. Fenced'
    <2> SUFFICES ASSUME NEW u \in Threads, NEW p \in Pieces, pc'[u] = <<"store", p>>
                 PROVE  op'[u] # "miss" /\ rel'[u][Epoch] = Len(mem'[Epoch])
      BY DEF Fenced
    <2>1. u # t /\ pc[u] = <<"store", p>> /\ op'[u] = op[u]
      BY <1>1, Inside
    <2>2. op[u] # "miss" /\ rel[u][Epoch] = Len(mem[Epoch])
      BY <2>1 DEF OInv, Fenced
    <2> QED BY <2>1, <2>2
  <1> QED BY <1>4, <1>5

\* What Below gives may be given away.
LEMMA BelowMore ==
    ASSUME OInv, NEW n \in Int, NEW k \in Int, n <= k, Below(n)
    PROVE  Below(k)
  BY EpochNumbers DEF OInv, Numbers, Below

LEMMA HolderRoom ==
    ASSUME OInv, NEW t \in Threads, Holding(t)
    PROVE  /\ Below(Newest(Epoch).val + Room(t)) /\ Newest(Epoch).val = CurEpoch(t)
           /\ CurEpoch(t) \in Int
  BY EpochNumbers, LocationFacts DEF OInv, IInv, Rooms, HolderIsUpToDate, CurEpoch

-----------------------------------------------------------------------------
LEMMA AnnounceOrder ==
    ASSUME OInv, IInv', NEW t \in Threads, Announce(t), op[t] # "move"
    PROVE  OInv'
  <1>e. PICK e : e = CurEpoch(t)
    OBVIOUS
  <1>1. /\ Store(t, Epoch, e + 1, "relaxed") /\ pc' = [pc EXCEPT ![t] = <<"fence">>]
        /\ UNCHANGED <<op, seen, copy, calls>> /\ pc[t] = <<"announce">>
    BY <1>e DEF Announce, Goto
  <1>2. Holding(t) /\ Room(t) = 0
    BY <1>1, Inside, LabelFacts DEF Holding, Room
  <1>3. e \in Int /\ Below(e) /\ e + 1 \in Int
    <2>1. Below(Newest(Epoch).val + Room(t)) /\ Newest(Epoch).val = e /\ e \in Int
      BY <1>e, <1>2, HolderRoom
    <2>2. Newest(Epoch).val + Room(t) = e
      BY <1>2, <2>1
    <2> QED BY <2>1, <2>2
  <1>4. Below((e + 1) + 1)
    BY <1>3, BelowMore
  <1>5. /\ PiecesFollow' /\ CopiesFollow' /\ Newest(Epoch)'.val = e + 1
        /\ Below(e)'
        /\ \A u \in Threads \ {t} : \A p \in Pieces :
              /\ cur'[u] = cur[u]
              /\ After(mem[Epoch], cur[u][Epoch], copy[u][p])
                    => After(mem'[Epoch], cur[u][Epoch], copy[u][p])
    BY <1>1, <1>3, <1>4, NewEpoch
  <1>6. pc'[t] = <<"fence">>
    BY <1>1 DEF OInv, IInv, ShapeOK
  <1>7. Room(t)' = -1
    BY <1>6, LabelFacts DEF Room
  <1>8. Rooms' /\ Fenced'
    <2>1. e = Newest(Epoch)'.val + Room(t)'
      BY <1>3, <1>5, <1>7
    <2>2. \A p \in Pieces : <<"fence">> # <<"store", p>>
      BY StoreLabels
    <2>3. <<"fence">> \in Sections
      BY Inside
    <2> QED BY <1>1, <1>5, <2>1, <2>2, <2>3, HolderGoesOn
  <1>9. ChecksFollow' /\ SeenIsEven' /\ AcceptedFollow'
    <2>1. /\ <<"fence">> \in Labels /\ <<"fence">> \notin Looking
          /\ <<"fence">> # <<"check">> /\ <<"fence">> # <<"accepted">>
      BY Inside, SectionsAreLabels, LabelFacts
    <2> QED BY <1>1, <1>5, <2>1, OthersWait
  <1>10. Numbers'
    BY <1>1 DEF OInv, Numbers
  <1> QED BY <1>5, <1>8, <1>9, <1>10, Goal

LEMMA PublishOrder ==
    ASSUME OInv, IInv', NEW t \in Threads, Publish(t)
    PROVE  OInv'
  <1>v. PICK val : val = CurEpoch(t) + (IF op[t] = "miss" THEN -1 ELSE 1)
    OBVIOUS
  <1>1. /\ Store(t, Epoch, val, "relaxed") /\ pc' = [pc EXCEPT ![t] = <<"clear">>]
        /\ UNCHANGED <<op, seen, copy, calls>> /\ pc[t] = <<"publish">>
    BY <1>v DEF Publish, Goto
  <1>2. Holding(t) /\ Room(t) = IF op[t] = "miss" THEN -1 ELSE 1
    BY <1>1, Inside, LabelFacts DEF Holding, Room
  <1>3. val \in Int /\ Below(val)
    <2>1. /\ Below(Newest(Epoch).val + Room(t))
          /\ Newest(Epoch).val = CurEpoch(t) /\ CurEpoch(t) \in Int
      BY <1>2, HolderRoom
    <2>2. Newest(Epoch).val + Room(t) = val
      BY <1>v, <1>2, <2>1
    <2> QED BY <1>v, <2>1, <2>2
  <1>4. Below(val + 1)
    BY <1>3, BelowMore
  <1>5. /\ PiecesFollow' /\ CopiesFollow' /\ Newest(Epoch)'.val = val
        /\ Below(val)'
        /\ \A u \in Threads \ {t} : \A p \in Pieces :
              /\ cur'[u] = cur[u]
              /\ After(mem[Epoch], cur[u][Epoch], copy[u][p])
                    => After(mem'[Epoch], cur[u][Epoch], copy[u][p])
    BY <1>1, <1>3, <1>4, NewEpoch
  <1>6. pc'[t] = <<"clear">>
    BY <1>1 DEF OInv, IInv, ShapeOK
  <1>7. Room(t)' = 0
    BY <1>6, LabelFacts DEF Room
  <1>8. Rooms' /\ Fenced'
    <2>1. val = Newest(Epoch)'.val + Room(t)'
      BY <1>3, <1>5, <1>7
    <2>2. \A p \in Pieces : <<"clear">> # <<"store", p>>
      BY StoreLabels
    <2>3. <<"clear">> \in Sections
      BY Inside
    <2> QED BY <1>1, <1>5, <2>1, <2>2, <2>3, HolderGoesOn
  <1>9. ChecksFollow' /\ SeenIsEven' /\ AcceptedFollow'
    <2>1. /\ <<"clear">> \in Labels /\ <<"clear">> \notin Looking
          /\ <<"clear">> # <<"check">> /\ <<"clear">> # <<"accepted">>
      BY Inside, SectionsAreLabels, LabelFacts
    <2> QED BY <1>1, <1>5, <2>1, OthersWait
  <1>10. Numbers'
    BY <1>1 DEF OInv, Numbers
  <1> QED BY <1>5, <1>8, <1>9, <1>10, Goal

LEMMA FenceOrder ==
    ASSUME OInv, IInv', NEW t \in Threads, Fence(t)
    PROVE  OInv'
  <1>1. /\ UNCHANGED <<mem, cur, acq, op, seen, copy>> /\ rel' = [rel EXCEPT ![t] = cur[t]]
        /\ pc[t] = <<"fence">>
        /\ pc' = [pc EXCEPT ![t] = IF op[t] = "miss" THEN <<"publish">> ELSE <<"store", 1>>]
    BY DEF Fence, ReleaseFence, Goto
  <1>2. Holding(t) /\ Room(t) = -1
    BY <1>1, Inside, LabelFacts DEF Holding, Room
  <1>e. PICK e : e = CurEpoch(t)
    OBVIOUS
  <1>3. /\ e \in Int /\ Below(e - 1) /\ Newest(Epoch).val = e
        /\ cur[t][Epoch] = Len(mem[Epoch])
    <2>1. Below(Newest(Epoch).val + Room(t)) /\ Newest(Epoch).val = e /\ e \in Int
      BY <1>e, <1>2, HolderRoom
    <2>2. Newest(Epoch).val + Room(t) = e - 1
      BY <1>2, <2>1
    <2> QED BY <1>2, <2>1, <2>2, LocationFacts DEF OInv, IInv, HolderIsUpToDate
  <1>4. /\ PiecesFollow' /\ CopiesFollow' /\ \A n : Below(n)' <=> Below(n)
        /\ Newest(Epoch)' = Newest(Epoch)
    BY <1>1, EpochNumbers, Quiet DEF OInv
  <1>5. 1 \in Pieces
    BY WeakAssumption DEF Pieces
  <1>6. PICK w \in Sections :
            /\ pc' = [pc EXCEPT ![t] = w]
            /\ \/ w = <<"publish">> /\ op[t] = "miss"
               \/ w = <<"store", 1>> /\ op[t] # "miss"
    BY <1>1, <1>5, Inside
  <1>7. pc'[t] = w /\ op'[t] = op[t] /\ rel'[t] = cur[t]
    BY <1>1, <1>6 DEF OInv, IInv, ShapeOK
  <1>8. Room(t)' = IF op[t] = "miss" THEN -1 ELSE 1
    BY <1>5, <1>6, <1>7, LabelFacts, StoreLabels DEF Room
  <1>9. Rooms' /\ Fenced'
    <2>n. PICK n : n = e + (IF op[t] = "miss" THEN -1 ELSE 1)
      OBVIOUS
    <2>1. n = Newest(Epoch)'.val + Room(t)' /\ n \in Int /\ e - 1 \in Int /\ e - 1 <= n
      BY <2>n, <1>3, <1>4, <1>8
    <2>2. Below(n)'
      BY <1>3, <1>4, <2>1, BelowMore
    <2>3. \A p \in Pieces : w = <<"store", p>> => op'[t] # "miss" /\ rel'[t][Epoch] = Len(mem'[Epoch])
      BY <1>1, <1>3, <1>6, <1>7, StoreLabels
    <2> QED BY <1>6, <2>1, <2>2, <2>3, HolderGoesOn
  <1>10. ChecksFollow' /\ SeenIsEven' /\ AcceptedFollow'
    <2>1. w \in Labels /\ w \notin Looking /\ w # <<"check">> /\ w # <<"accepted">>
      BY <1>6, SectionsAreLabels, LabelFacts
    <2> QED BY <1>1, <1>6, <2>1, OthersWait
  <1>11. Numbers'
    BY <1>1 DEF OInv, Numbers
  <1> QED BY <1>4, <1>9, <1>10, <1>11, Goal

LEMMA StorePieceOrder ==
    ASSUME OInv, IInv', NEW t \in Threads, StorePiece(t)
    PROVE  OInv'
  <1>1. PICK p \in Pieces :
            /\ pc[t] = <<"store", p>> /\ Store(t, p, (CurEpoch(t) + 1) \div 2, "relaxed")
            /\ Goto(t, IF p < NumPieces THEN <<"store", p + 1>> ELSE <<"publish">>)
            /\ UNCHANGED <<op, seen, copy, calls>>
    BY DEF StorePiece
  <1>e. PICK e : e = CurEpoch(t)
    OBVIOUS
  <1>n. PICK n : n = (e + 1) \div 2
    OBVIOUS
  <1> DEFINE i == Len(mem[p]) + 1
             new == [val |-> n, view |-> [rel[t] EXCEPT ![p] = i]]
  <1>2. /\ mem' = [mem EXCEPT ![p] = Append(mem[p], new)]
        /\ cur' = [cur EXCEPT ![t][p] = i] /\ acq' = [acq EXCEPT ![t][p] = i] /\ rel' = rel
    BY <1>1, <1>e, <1>n DEF Store
  <1>3. /\ Holding(t) /\ op[t] # "miss" /\ rel[t][Epoch] = Len(mem[Epoch]) /\ Room(t) = 1
        /\ p \in Locations \ {Flag} /\ p # Epoch /\ Epoch \in Locations
    <2>1. Holding(t)
      BY <1>1, Inside DEF Holding
    <2>2. op[t] # "miss" /\ rel[t][Epoch] = Len(mem[Epoch])
      BY <1>1 DEF OInv, Fenced
    <2>3. Room(t) = 1
      BY <1>1, <2>2, StoreLabels DEF Room
    <2>4. p # Epoch
      BY DEF Pieces, Epoch
    <2> QED BY <2>1, <2>2, <2>3, <2>4, LocationFacts
  <1>4. /\ e \in Int /\ Below(e + 1) /\ Newest(Epoch).val = e /\ n \in Int /\ 2 * n <= e + 1
    <2>1. Below(Newest(Epoch).val + Room(t)) /\ Newest(Epoch).val = e /\ e \in Int
      BY <1>e, <1>3, HolderRoom
    <2>2. Newest(Epoch).val + Room(t) = e + 1
      BY <1>3, <2>1
    <2> QED BY <1>n, <2>1, <2>2, HalfBound
  <1>5. /\ new \in Stored /\ mem[p] \in Seq(Stored) /\ i \in Nat \ {0}
        /\ new.val = n /\ new.view[Epoch] = Len(mem[Epoch])
    <2>1. mem[p] \in Seq(Stored) /\ i \in Nat \ {0}
      BY <1>3, Messages DEF OInv, IInv
    <2>2. rel[t] \in View
      BY DEF OInv, IInv, ShapeOK
    <2>3. [rel[t] EXCEPT ![p] = i] \in View
      BY <2>1, <2>2 DEF View
    <2> QED BY <1>3, <1>4, <2>1, <2>2, <2>3 DEF Stored, View
  <1> HIDE DEF new
  <1>6. /\ Len(mem'[p]) = i /\ mem'[p][i] = new
        /\ \A j \in 1 .. Len(mem[p]) : mem'[p][j] = mem[p][j]
        /\ \A k \in Locations \ {p} : mem'[k] = mem[k]
    BY <1>2, <1>3, <1>5 DEF OInv, IInv, ShapeOK
  <1>7. mem'[Epoch] = mem[Epoch] /\ Newest(Epoch)' = Newest(Epoch)
    BY <1>3, <1>6 DEF Newest
  <1>8. \A q \in Pieces : \A j \in 1 .. Len(mem'[q]) :
            \/ q = p /\ j = i /\ mem'[q][j] = new
            \/ j \in 1 .. Len(mem[q]) /\ mem'[q][j] = mem[q][j]
    BY <1>5, <1>6, LocationFacts
  <1>9. Below(e + 1)'
    BY <1>1, <1>4, <1>5, <1>8 DEF Below
  <1>10. After(mem[Epoch], Len(mem[Epoch]), n)
    <2>1. Len(mem[Epoch]) \in Nat /\ mem[Epoch][Len(mem[Epoch])].val = e
      BY <1>4, EpochNumbers DEF OInv
    <2> QED BY <1>4, <2>1 DEF After
  <1>11. PiecesFollow'
    BY <1>5, <1>7, <1>8, <1>10 DEF OInv, PiecesFollow
  <1>12. CopiesFollow'
    <2>1. \A u \in Threads : acq'[u][Epoch] = acq[u][Epoch]
      BY <1>2, <1>3 DEF OInv, IInv, ShapeOK, View
    <2> QED BY <1>1, <1>7, <2>1 DEF OInv, CopiesFollow
  <1>13. PICK w \in Sections :
             /\ pc' = [pc EXCEPT ![t] = w]
             /\ w \in Opened /\ w # <<"fence">> /\ w \notin Looking
             /\ w # <<"check">> /\ w # <<"accepted">>
    <2>1. p < NumPieces => p + 1 \in Pieces
      BY WeakAssumption DEF Pieces
    <2>2. CASE p < NumPieces
      BY <1>1, <2>1, <2>2, Inside, LabelFacts, StoreLabels DEF Goto
    <2>3. CASE ~(p < NumPieces)
      BY <1>1, <2>3, Inside, LabelFacts DEF Goto
    <2> QED BY <2>2, <2>3
  <1>14. pc'[t] = w /\ Room(t)' = 1
    BY <1>1, <1>3, <1>13 DEF OInv, IInv, ShapeOK, Room
  <1>15. Rooms' /\ Fenced'
    <2>n. PICK m : m = e + 1
      OBVIOUS
    <2>1. m = Newest(Epoch)'.val + Room(t)' /\ Below(m)'
      BY <2>n, <1>4, <1>7, <1>9, <1>14
    <2>2. op'[t] # "miss" /\ rel'[t][Epoch] = Len(mem'[Epoch])
      BY <1>1, <1>2, <1>3, <1>7
    <2> QED BY <1>13, <2>1, <2>2, HolderGoesOn
  <1>16. ChecksFollow' /\ SeenIsEven' /\ AcceptedFollow'
    <2>1. \A u \in Threads \ {t} : cur'[u] = cur[u]
      BY <1>2 DEF OInv, IInv, ShapeOK
    <2> QED BY <1>1, <1>7, <1>13, <2>1, SectionsAreLabels, OthersWait
  <1>17. Numbers'
    BY <1>1 DEF OInv, Numbers
  <1> QED BY <1>11, <1>12, <1>15, <1>16, <1>17, Goal

\* What a message on the flag leaves alone.
LEMMA FlagOrder ==
    ASSUME OInv, IInv', NEW t \in Threads, NEW w \in {<<"announce">>, <<"idle">>},
           NEW view, mem' = [mem EXCEPT ![Flag] = view],
           NEW c, cur' = [cur EXCEPT ![t] = c],
           NEW a, acq' = [acq EXCEPT ![t] = a], acq[t][Epoch] <= a[Epoch],
           pc' = [pc EXCEPT ![t] = w], UNCHANGED <<op, seen, copy, calls>>
    PROVE  /\ Numbers' /\ PiecesFollow' /\ CopiesFollow'
           /\ ChecksFollow' /\ SeenIsEven' /\ AcceptedFollow'
           /\ pc'[t] = w
           /\ \A n : Below(n)' <=> Below(n)
           /\ Newest(Epoch)' = Newest(Epoch)
  <1>1. \A l \in Locations \ {Flag} : mem'[l] = mem[l]
    BY DEF OInv, IInv, ShapeOK
  <1>2. \A u \in Threads : /\ acq'[u] = IF u = t THEN a ELSE acq[u]
                           /\ u # t => cur'[u] = cur[u]
    BY DEF OInv, IInv, ShapeOK
  <1>3. \A u \in Threads : acq[u][Epoch] <= acq'[u][Epoch]
    BY <1>2, EpochNumbers DEF OInv
  <1>4. /\ PiecesFollow' /\ CopiesFollow' /\ mem'[Epoch] = mem[Epoch]
        /\ \A n : Below(n)' <=> Below(n)
        /\ Newest(Epoch)' = Newest(Epoch)
    BY <1>1, <1>3, Quiet
  <1>5. ChecksFollow' /\ SeenIsEven' /\ AcceptedFollow'
    <2>1. /\ w \in Labels /\ w \notin Looking /\ w # <<"check">> /\ w # <<"accepted">>
      BY Inside, Outside, SectionsAreLabels, LabelFacts
    <2> QED BY <1>2, <1>4, <2>1, OthersWait
  <1>6. Numbers' /\ pc'[t] = w
    BY DEF OInv, IInv, ShapeOK, Numbers
  <1> QED BY <1>4, <1>5, <1>6

LEMMA TakeFlagOrder ==
    ASSUME OInv, IInv', NEW t \in Threads, TakeFlag(t)
    PROVE  OInv'
  <1> DEFINE m == Newest(Flag).view
             i == Len(mem[Flag]) + 1
             c == [Join(cur[t], m) EXCEPT ![Flag] = i]
             a == [Join(acq[t], m) EXCEPT ![Flag] = i]
             msg == [val |-> 1, view |-> [Join(rel[t], m) EXCEPT ![Flag] = i]]
             view == Append(mem[Flag], msg)
  <1>1. /\ mem' = [mem EXCEPT ![Flag] = view]
        /\ cur' = [cur EXCEPT ![t] = c] /\ acq' = [acq EXCEPT ![t] = a]
        /\ pc' = [pc EXCEPT ![t] = <<"announce">>] /\ Newest(Flag).val = 0
        /\ UNCHANGED <<op, seen, copy, calls>>
    BY DEF TakeFlag, Exchange, Goto
  <1>2. acq[t][Epoch] <= a[Epoch]
    <2>1. acq[t] \in View /\ m \in View
      BY LocationFacts, Messages DEF OInv, IInv, ShapeOK, Newest
    <2>2. Join(acq[t], m) \in View /\ acq[t][Epoch] <= Join(acq[t], m)[Epoch]
      BY <2>1, JoinBounds, LocationFacts
    <2> HIDE DEF m
    <2> QED BY <2>2, LocationFacts DEF View
  <1> HIDE DEF c, a, view
  <1>3. /\ Numbers' /\ PiecesFollow' /\ CopiesFollow'
        /\ ChecksFollow' /\ SeenIsEven' /\ AcceptedFollow'
        /\ pc'[t] = <<"announce">>
        /\ \A n : Below(n)' <=> Below(n)
        /\ Newest(Epoch)' = Newest(Epoch)
    BY <1>1, <1>2, FlagOrder
  <1>4. Below(Newest(Epoch).val)
    BY <1>1 DEF OInv, IInv, ClearFlagIsUpToDate, Rooms
  <1>5. Rooms' /\ Fenced'
    <2>n. PICK n : n = Newest(Epoch).val
      OBVIOUS
    <2>1. Room(t)' = 0
      BY <1>3, LabelFacts DEF Room
    <2>2. n = Newest(Epoch)'.val + Room(t)' /\ Below(n)'
      BY <2>n, <2>1, <1>3, <1>4, EpochNumbers DEF OInv
    <2>3. <<"announce">> \in Sections /\ \A p \in Pieces : <<"announce">> # <<"store", p>>
      BY Inside, StoreLabels
    <2> QED BY <1>1, <2>2, <2>3, HolderGoesOn
  <1> QED BY <1>3, <1>5, Goal

LEMMA ClearOrder ==
    ASSUME OInv, IInv', NEW t \in Threads, Clear(t)
    PROVE  OInv'
  <1> DEFINE i == Len(mem[Flag]) + 1
             c == [cur[t] EXCEPT ![Flag] = i]
             a == [acq[t] EXCEPT ![Flag] = i]
             view == Append(mem[Flag], [val |-> 0, view |-> [cur[t] EXCEPT ![Flag] = i]])
  <1>1. /\ mem' = [mem EXCEPT ![Flag] = view]
        /\ cur' = [cur EXCEPT ![t] = c] /\ acq' = [acq EXCEPT ![t] = a]
        /\ pc' = [pc EXCEPT ![t] = <<"idle">>] /\ pc[t] = <<"clear">>
        /\ UNCHANGED <<op, seen, copy, calls>>
    BY DEF Clear, Store, Goto
  <1>2. acq[t][Epoch] <= a[Epoch]
    BY LocationFacts, EpochNumbers DEF OInv, IInv, ShapeOK, View
  <1> HIDE DEF c, a, view
  <1>3. /\ Numbers' /\ PiecesFollow' /\ CopiesFollow'
        /\ ChecksFollow' /\ SeenIsEven' /\ AcceptedFollow'
        /\ pc'[t] = <<"idle">>
        /\ \A n : Below(n)' <=> Below(n)
        /\ Newest(Epoch)' = Newest(Epoch)
    BY <1>1, <1>2, FlagOrder
  <1>4. Holding(t) /\ Room(t) = 0
    BY <1>1, Inside, LabelFacts DEF Holding, Room
  <1>5. Below(Newest(Epoch).val)
    <2>1. Below(Newest(Epoch).val + Room(t)) /\ Newest(Epoch).val \in Int
      BY <1>4, HolderRoom, EpochNumbers DEF OInv
    <2>2. Newest(Epoch).val + Room(t) = Newest(Epoch).val
      BY <1>4, <2>1
    <2> QED BY <2>1, <2>2
  <1>6. \A u \in Threads : ~Holding(u)'
    <2>1. \A u \in Threads \ {t} : ~Holding(u) /\ pc'[u] = pc[u]
      BY <1>1, <1>4 DEF OInv, IInv, OneHolder, ShapeOK
    <2> QED BY <1>3, <2>1, Outside DEF Holding
  <1>7. Rooms'
    <2>n. PICK n : n = Newest(Epoch).val
      OBVIOUS
    <2>1. Below(n)' /\ n = Newest(Epoch)'.val
      BY <2>n, <1>3, <1>5
    <2> QED BY <2>1, <1>6 DEF Rooms
  <1>8. Fenced'
    BY <1>6, Inside DEF Fenced, Holding
  <1> QED BY <1>3, <1>7, <1>8, Goal

-----------------------------------------------------------------------------
\* A step outside the critical sections that loads no piece.
LEMMA WaitingOrder ==
    ASSUME OInv, IInv', NEW t \in Threads, pc[t] \notin Sections,
           NEW w \in Labels \ Sections, pc' = [pc EXCEPT ![t] = w],
           UNCHANGED <<mem, rel, copy>>, Numbers',
           \A u \in Threads \ {t} : op'[u] = op[u] /\ seen'[u] = seen[u] /\ cur'[u] = cur[u],
           \A u \in Threads : acq[u][Epoch] <= acq'[u][Epoch],
           w \in Looking => seen'[t] % 2 # 1,
           w = <<"check">> => \A p \in Pieces : After(mem[Epoch], cur'[t][Epoch], copy[t][p]),
           w = <<"accepted">> => \A p \in Pieces : 2 * copy[t][p] <= seen'[t] + 1
    PROVE  OInv'
  <1>1. PiecesFollow' /\ CopiesFollow' /\ \A n : Below(n)' <=> Below(n)
    BY Quiet
  <1>2. Rooms' /\ Fenced'
    BY <1>1, OutsideGoesOn
  <1>3. ChecksFollow' /\ SeenIsEven' /\ AcceptedFollow'
    BY OthersWait
  <1> QED BY <1>1, <1>2, <1>3, Goal

\* A load makes the view to come of its thread grow, up to what the message hands on.
LEMMA LoadGrows ==
    ASSUME OInv, NEW t \in Threads, NEW l \in Locations, NEW i \in 1 .. Len(mem[l]), NEW order,
           Load(t, l, i, order)
    PROVE  /\ UNCHANGED <<mem, rel>>
           /\ \A u \in Threads \ {t} : cur'[u] = cur[u] /\ acq'[u] = acq[u]
           /\ \A u \in Threads : acq[u][Epoch] <= acq'[u][Epoch]
           /\ acq'[t][Epoch] \in Nat /\ mem[l][i].view[Epoch] \in Nat
           /\ mem[l][i].view[Epoch] <= acq'[t][Epoch]
  <1> DEFINE m == mem[l][i].view
  <1>1. m \in View /\ acq[t] \in View /\ Epoch \in Locations
    BY LocationFacts, Messages DEF OInv, IInv, ShapeOK
  <1>2. acq'[t] = Join(acq[t], m) /\ \A u \in Threads \ {t} : cur'[u] = cur[u] /\ acq'[u] = acq[u]
    BY DEF Load, OInv, IInv, ShapeOK
  <1> HIDE DEF m
  <1>3. acq'[t] \in View /\ acq[t][Epoch] <= acq'[t][Epoch] /\ m[Epoch] <= acq'[t][Epoch]
    BY <1>1, <1>2, JoinBounds
  <1>4. UNCHANGED <<mem, rel>>
    BY DEF Load
  <1>5. \A u \in Threads : acq[u][Epoch] \in Nat
    BY EpochNumbers DEF OInv
  <1>6. \A u \in Threads : acq[u][Epoch] <= acq'[u][Epoch]
    BY <1>2, <1>3, <1>5
  <1>7. acq'[t][Epoch] \in Nat /\ m[Epoch] \in Nat
    BY <1>1, <1>3 DEF View
  <1> QED BY <1>2, <1>3, <1>4, <1>6, <1>7 DEF m

LEMMA CallOrder ==
    ASSUME OInv, IInv', NEW t \in Threads, Call(t)
    PROVE  OInv'
  <1>1. PICK w \in {<<"spin">>, <<"epoch">>} : pc' = [pc EXCEPT ![t] = w]
    BY DEF Call, Goto
  <1>2. PICK o \in Ops : op' = [op EXCEPT ![t] = o]
    BY DEF Call
  <1>3. UNCHANGED <<mem, cur, acq, rel, seen, copy>> /\ pc[t] = <<"idle">>
    BY DEF Call, views
  <1>4. Numbers' /\ \A u \in Threads \ {t} : op'[u] = op[u]
    BY <1>2, <1>3 DEF OInv, Numbers
  <1>5. \A u \in Threads : acq[u][Epoch] <= acq'[u][Epoch]
    BY <1>3, EpochNumbers DEF OInv
  <1>6. /\ pc[t] \notin Sections /\ w \in Labels \ Sections
        /\ w \notin Looking /\ w # <<"check">> /\ w # <<"accepted">>
    BY <1>3, Outside, LabelFacts
  <1> QED BY <1>1, <1>3, <1>4, <1>5, <1>6, WaitingOrder

LEMMA ReturnOrder ==
    ASSUME OInv, IInv', NEW t \in Threads, Return(t)
    PROVE  OInv'
  <1>1. /\ UNCHANGED <<mem, cur, acq, rel, op, seen, copy>> /\ pc[t] = <<"accepted">>
        /\ pc' = [pc EXCEPT ![t] = <<"idle">>]
    BY DEF Return, Goto, views
  <1>2. Numbers' /\ \A u \in Threads : acq[u][Epoch] <= acq'[u][Epoch]
    BY <1>1, EpochNumbers DEF OInv, Numbers
  <1>3. /\ pc[t] \notin Sections /\ <<"idle">> \in Labels \ Sections /\ <<"idle">> \notin Looking
        /\ <<"idle">> # <<"check">> /\ <<"idle">> # <<"accepted">>
    BY <1>1, Outside, LabelFacts
  <1> QED BY <1>1, <1>2, <1>3, WaitingOrder

LEMMA LoadEpochOrder ==
    ASSUME OInv, IInv', NEW t \in Threads, LoadEpoch(t)
    PROVE  OInv'
  <1>1. PICK i \in 1 .. Len(mem[Epoch]) :
            /\ Load(t, Epoch, i, "acquire") /\ seen' = [seen EXCEPT ![t] = mem[Epoch][i].val]
            /\ Goto(t, IF mem[Epoch][i].val % 2 = 1 THEN <<"epoch">> ELSE <<"load", 1>>)
    BY DEF LoadEpoch
  <1>2. UNCHANGED <<op, copy>> /\ pc[t] = <<"epoch">> /\ 1 \in Pieces
    BY WeakAssumption DEF LoadEpoch, Pieces
  <1>3. seen'[t] = mem[Epoch][i].val /\ \A u \in Threads \ {t} : seen'[u] = seen[u]
    BY <1>1 DEF OInv, Numbers
  <1>4. Numbers'
    BY <1>1, <1>2, EpochNumbers DEF OInv, Numbers
  <1>5. PICK w \in {<<"epoch">>, <<"load", 1>>} :
            /\ pc' = [pc EXCEPT ![t] = w]
            /\ w = <<"load", 1>> => seen'[t] % 2 # 1
    BY <1>1, <1>2, <1>3, LabelFacts, StoreLabels DEF Goto
  <1>6. /\ UNCHANGED <<mem, rel>> /\ \A u \in Threads \ {t} : cur'[u] = cur[u]
        /\ \A u \in Threads : acq[u][Epoch] <= acq'[u][Epoch]
    BY <1>1, LocationFacts, LoadGrows
  <1>7. /\ pc[t] \notin Sections /\ w \in Labels \ Sections
        /\ w # <<"check">> /\ w # <<"accepted">>
    <2>1. /\ <<"load", 1>> \in Labels \ Sections
          /\ <<"load", 1>> # <<"check">> /\ <<"load", 1>> # <<"accepted">>
      BY <1>2, Outside, StoreLabels
    <2> QED BY <1>2, <1>5, <2>1, Outside, LabelFacts
  <1>8. w \in Looking => seen'[t] % 2 # 1
    BY <1>5, LabelFacts
  <1>9. \A u \in Threads \ {t} : op'[u] = op[u] /\ seen'[u] = seen[u] /\ cur'[u] = cur[u]
    BY <1>2, <1>3, <1>6
  <1> QED BY <1>2, <1>4, <1>5, <1>6, <1>7, <1>8, <1>9, WaitingOrder

LEMMA BarrierOrder ==
    ASSUME OInv, IInv', NEW t \in Threads, Barrier(t)
    PROVE  OInv'
  <1>1. /\ UNCHANGED <<mem, acq, rel, op, seen, copy>> /\ pc[t] = <<"barrier">>
        /\ cur' = [cur EXCEPT ![t] = acq[t]] /\ pc' = [pc EXCEPT ![t] = <<"check">>]
    BY DEF Barrier, AcquireFence, Goto
  <1>2. Numbers' /\ \A u \in Threads : acq[u][Epoch] <= acq'[u][Epoch]
    BY <1>1, EpochNumbers DEF OInv, Numbers
  <1>3. cur'[t] = acq[t] /\ \A u \in Threads \ {t} : cur'[u] = cur[u]
    BY <1>1 DEF OInv, IInv, ShapeOK
  <1>4. \A p \in Pieces : After(mem[Epoch], cur'[t][Epoch], copy[t][p])
    BY <1>3 DEF OInv, CopiesFollow
  <1>5. seen'[t] % 2 # 1
    BY <1>1, LabelFacts DEF OInv, SeenIsEven
  <1>6. pc[t] \notin Sections /\ <<"check">> \in Labels \ Sections /\ <<"check">> # <<"accepted">>
    BY <1>1, Outside, LabelFacts
  <1> QED BY <1>1, <1>2, <1>3, <1>4, <1>5, <1>6, WaitingOrder

LEMMA CheckOrder ==
    ASSUME OInv, IInv', NEW t \in Threads, Check(t)
    PROVE  OInv'
  <1>1. PICK i \in 1 .. Len(mem[Epoch]) :
            /\ Load(t, Epoch, i, "relaxed")
            /\ Goto(t, IF mem[Epoch][i].val = seen[t] THEN <<"accepted">> ELSE <<"epoch">>)
    BY DEF Check
  <1>2. UNCHANGED <<op, seen, copy>> /\ pc[t] = <<"check">>
    BY DEF Check
  <1>3. PICK w \in {<<"epoch">>, <<"accepted">>} :
            /\ pc' = [pc EXCEPT ![t] = w]
            /\ w = <<"accepted">> => mem[Epoch][i].val = seen[t]
    BY <1>1, LabelFacts DEF Goto
  <1>4. /\ UNCHANGED <<mem, rel>> /\ \A u \in Threads \ {t} : cur'[u] = cur[u]
        /\ \A u \in Threads : acq[u][Epoch] <= acq'[u][Epoch]
    BY <1>1, LocationFacts, LoadGrows
  <1>5. ASSUME NEW p \in Pieces PROVE 2 * copy[t][p] <= mem[Epoch][i].val + 1
    <2>1. After(mem[Epoch], cur[t][Epoch], copy[t][p])
      BY <1>2 DEF OInv, ChecksFollow
    <2>2. i \in cur[t][Epoch] .. Len(mem[Epoch])
      BY <1>1 DEF Load
    <2> QED BY <2>1, <2>2 DEF After
  <1>6. w = <<"accepted">> => \A p \in Pieces : 2 * copy[t][p] <= seen'[t] + 1
    <2> SUFFICES ASSUME w = <<"accepted">>, NEW p \in Pieces
                 PROVE  2 * copy[t][p] <= seen'[t] + 1
      OBVIOUS
    <2>1. seen'[t] = mem[Epoch][i].val
      BY <1>2, <1>3
    <2> QED BY <1>5, <2>1
  <1>7. seen'[t] % 2 # 1
    BY <1>2, LabelFacts DEF OInv, SeenIsEven
  <1>8. pc[t] \notin Sections /\ w \in Labels \ Sections /\ w # <<"check">>
    BY <1>2, <1>3, Outside, LabelFacts
  <1>9. Numbers' /\ \A u \in Threads \ {t} : op'[u] = op[u] /\ seen'[u] = seen[u] /\ cur'[u] = cur[u]
    BY <1>2, <1>4 DEF OInv, Numbers
  <1> QED BY <1>2, <1>3, <1>4, <1>6, <1>7, <1>8, <1>9, WaitingOrder

LEMMA LoadPieceOrder ==
    ASSUME OInv, IInv', NEW t \in Threads, LoadPiece(t)
    PROVE  OInv'
  <1>1. PICK p \in Pieces :
            /\ pc[t] = <<"load", p>>
            /\ \E i \in 1 .. Len(mem[p]) : /\ Load(t, p, i, "relaxed")
                                           /\ copy' = [copy EXCEPT ![t][p] = mem[p][i].val]
            /\ Goto(t, IF p < NumPieces THEN <<"load", p + 1>> ELSE <<"barrier">>)
            /\ UNCHANGED <<op, seen, calls>>
    BY DEF LoadPiece
  <1>2. PICK i \in 1 .. Len(mem[p]) : /\ Load(t, p, i, "relaxed")
                                      /\ copy' = [copy EXCEPT ![t][p] = mem[p][i].val]
    BY <1>1
  <1>3. /\ UNCHANGED <<mem, rel>> /\ \A u \in Threads \ {t} : cur'[u] = cur[u] /\ acq'[u] = acq[u]
        /\ \A u \in Threads : acq[u][Epoch] <= acq'[u][Epoch]
        /\ acq'[t][Epoch] \in Nat /\ mem[p][i].view[Epoch] \in Nat
        /\ mem[p][i].view[Epoch] <= acq'[t][Epoch]
    BY <1>2, LocationFacts, LoadGrows
  <1>4. /\ \A u \in Threads, q \in Pieces :
              copy'[u][q] = IF u = t /\ q = p THEN mem[p][i].val ELSE copy[u][q]
        /\ \A u \in Threads \ {t} : copy'[u] = copy[u]
    BY <1>2 DEF OInv, Numbers
  <1>5. Numbers'
    BY <1>1, <1>2, EpochNumbers DEF OInv, Numbers
  <1>6. PiecesFollow'
    BY <1>3 DEF OInv, PiecesFollow
  <1>7. CopiesFollow'
    <2> SUFFICES ASSUME NEW u \in Threads, NEW q \in Pieces
                 PROVE  After(mem[Epoch], acq'[u][Epoch], copy'[u][q])
      BY <1>3 DEF CopiesFollow
    <2>l. Len(mem[Epoch]) \in Nat
      BY EpochNumbers DEF OInv
    <2>1. CASE u = t /\ q = p
      <3>1. After(mem[Epoch], mem[p][i].view[Epoch], mem[p][i].val)
        BY DEF OInv, PiecesFollow
      <3>2. PICK k : k = acq'[t][Epoch]
        OBVIOUS
      <3>3. After(mem[Epoch], k, mem[p][i].val)
        BY <1>3, <2>l, <3>1, <3>2, AfterLater
      <3> QED BY <1>4, <2>1, <3>2, <3>3
    <2>2. CASE ~(u = t /\ q = p)
      <3>1. After(mem[Epoch], acq[u][Epoch], copy[u][q])
        BY DEF OInv, CopiesFollow
      <3>2. PICK k : k = acq'[u][Epoch]
        OBVIOUS
      <3>3. acq[u][Epoch] \in Nat /\ k \in Nat /\ acq[u][Epoch] <= k
        BY <1>3, <3>2, EpochNumbers DEF OInv
      <3>4. After(mem[Epoch], k, copy[u][q])
        BY <2>l, <3>1, <3>3, AfterLater
      <3> QED BY <1>4, <2>2, <3>2, <3>4
    <2> QED BY <2>1, <2>2
  <1>8. ASSUME NEW n, Below(n) PROVE Below(n)'
    BY <1>3, <1>4, <1>8 DEF Below
  <1>9. PICK w \in Looking :
            /\ pc' = [pc EXCEPT ![t] = w] /\ w \in Labels \ Sections
            /\ w # <<"check">> /\ w # <<"accepted">>
    <2>1. p < NumPieces => p + 1 \in Pieces
      BY WeakAssumption DEF Pieces
    <2>2. CASE p < NumPieces
      BY <1>1, <2>1, <2>2, Outside, StoreLabels DEF Goto
    <2>3. CASE ~(p < NumPieces)
      BY <1>1, <2>3, Outside, LabelFacts DEF Goto
    <2> QED BY <2>2, <2>3
  <1>10. pc[t] \in Looking /\ pc[t] \notin Sections
    BY <1>1, Outside, StoreLabels
  <1>11. Rooms' /\ Fenced'
    BY <1>1, <1>3, <1>8, <1>9, <1>10, OutsideGoesOn
  <1>12. seen'[t] % 2 # 1
    BY <1>1, <1>10 DEF OInv, SeenIsEven
  <1>13. ChecksFollow' /\ SeenIsEven' /\ AcceptedFollow'
    BY <1>1, <1>3, <1>4, <1>9, <1>12, OthersWait
  <1> QED BY <1>5, <1>6, <1>7, <1>11, <1>13, Goal

-----------------------------------------------------------------------------
LEMMA OrderStep ==
    ASSUME "move" \notin Ops, OInv, [Next]_vars
    PROVE  OInv'
  <1>1. IInv'
    BY StepInv DEF OInv
  <1>2. CASE UNCHANGED vars
    BY <1>2 DEF vars, views, OInv, IInv, ShapeOK, Bounded, Carried, ClearFlagIsUpToDate, OneHolder,
       HolderIsUpToDate, Newest, Holding, Numbers, Rooms, Below, Room, Fenced, PiecesFollow,
       CopiesFollow, ChecksFollow, SeenIsEven, AcceptedFollow
  <1>3. \A t \in Threads : op[t] # "move"
    BY DEF OInv, Numbers
  <1>4. ASSUME NEW t \in Threads,
               \/ Call(t) \/ TakeFlag(t) \/ Announce(t) \/ Fence(t) \/ StorePiece(t)
               \/ Publish(t) \/ Clear(t) \/ LoadEpoch(t) \/ LoadPiece(t) \/ Barrier(t)
               \/ Check(t) \/ Return(t)
        PROVE OInv'
    BY <1>1, <1>3, <1>4, CallOrder, TakeFlagOrder, AnnounceOrder, FenceOrder, StorePieceOrder,
       PublishOrder, ClearOrder, LoadEpochOrder, LoadPieceOrder, BarrierOrder, CheckOrder,
       ReturnOrder
  <1> QED BY <1>2, <1>4 DEF Next

\* A lookup that compares the epochs after its acquire fence
\* (cuckoohash_map.hpp:1106, rhhash_map.hpp:210) has read nothing of an update that
\* is later than the epoch it accepts, if every operation puts the release fence
\* between its locks and its stores (cuckoohash_map.hpp:462, 490, 532, 1702;
\* rhhash_map.hpp:348, 612).  Without it, as in a "move", this is false.
THEOREM NothingAheadIsAccepted ==
    ASSUME "move" \notin Ops
    PROVE  Spec => []AcceptedPiecesAreNotAhead
  <1>1. OInv /\ [Next]_vars => OInv'
    BY OrderStep
  <1>2. Spec => []OInv
    BY OrderInit, <1>1, PTL DEF Spec
  <1>3. OInv => AcceptedPiecesAreNotAhead
    <2> SUFFICES ASSUME OInv, NEW t \in Threads, pc[t] = <<"accepted">>, NEW p \in Pieces
                 PROVE  copy[t][p] <= seen[t] \div 2
      BY DEF AcceptedPiecesAreNotAhead
    <2>1. /\ copy[t][p] \in Int /\ seen[t] \in Int
          /\ 2 * copy[t][p] <= seen[t] + 1 /\ seen[t] % 2 # 1
      BY LabelFacts DEF OInv, Numbers, SeenIsEven, AcceptedFollow
    <2> QED BY <2>1, EvenBound
  <1> QED BY <1>2, <1>3, PTL

-----------------------------------------------------------------------------
(***************************************************************************)
(* Nothing older than the update before.                                   *)
(***************************************************************************)
\* The pieces that a view v leaves to be read, and the newest ones, are those of
\* update n / 2 or later.
Since(v, n) == \A p \in Pieces : \A j \in v[p] .. Len(mem[p]) : 2 * mem[p][j].val >= n
Reached(n) == \A p \in Pieces : 2 * Newest(p).val >= n

\* All even epochs are behind the newest one, and hand on the last update but one.
EpochsHandOn ==
    \A i \in 1 .. Len(mem[Epoch]) : mem[Epoch][i].val % 2 = 0 =>
        /\ mem[Epoch][i].val <= Newest(Epoch).val
        /\ Since(mem[Epoch][i].view, mem[Epoch][i].val - 2)

\* What a critical section has stored.
HolderLow(t) ==
    /\ pc[t] \in Opened => Reached(Newest(Epoch).val - 1)
    /\ pc[t] = <<"publish">> /\ op[t] # "miss" => Reached(Newest(Epoch).val + 1)
    /\ pc[t] \in Opened /\ pc[t] # <<"fence">> => Since(rel[t], Newest(Epoch).val - 1)
    /\ \A q \in Pieces : pc[t] = <<"store", q>> =>
          /\ op[t] # "miss"
          /\ \A p \in 1 .. q - 1 : 2 * Newest(p).val >= Newest(Epoch).val + 1

\* What a lookup has read, and what it may still read.
LookupLow(t) ==
    /\ pc[t] \in Looking =>
          /\ seen[t] % 2 = 0 /\ seen[t] <= Newest(Epoch).val
          /\ Since(cur[t], seen[t] - 2)
    /\ \A q \in Pieces : pc[t] = <<"load", q>> =>
          \A p \in 1 .. q - 1 : 2 * copy[t][p] >= seen[t] - 2
    /\ pc[t] \in {<<"barrier">>, <<"check">>, <<"accepted">>} =>
          \A p \in Pieces : 2 * copy[t][p] >= seen[t] - 2

LowInv ==
    /\ TInv /\ EpochsHandOn
    /\ (\A t \in Threads : pc[t] \notin Opened) => Reached(Newest(Epoch).val)
    /\ \A t \in Threads : HolderLow(t) /\ LookupLow(t)

-----------------------------------------------------------------------------
LEMMA LookingFacts ==
    /\ Looking \cap Opened = {}
    /\ <<"announce">> \notin Looking /\ <<"clear">> \notin Looking /\ <<"fence">> \notin Looking
    /\ <<"publish">> \notin Looking
    /\ \A p \in Pieces : /\ <<"store", p>> \notin Looking
                         /\ <<"load", p>> \notin {<<"barrier">>, <<"check">>, <<"accepted">>}
    /\ <<"barrier">> \in Labels \ Opened /\ <<"check">> \in Labels \ Opened
    /\ <<"accepted">> \in Labels \ Opened /\ <<"epoch">> \in Labels \ Opened
  BY DEF Looking, Opened, Labels

LEMMA LowNumbers ==
    ASSUME TInv
    PROVE  /\ Newest(Epoch).val \in Nat /\ Len(mem[Epoch]) \in Nat \ {0}
           /\ Newest(Epoch) = mem[Epoch][Len(mem[Epoch])]
           /\ \A i \in 1 .. Len(mem[Epoch]) :
                 /\ mem[Epoch][i].val \in Nat /\ mem[Epoch][i].view \in View
                 /\ \A p \in Pieces : mem[Epoch][i].view[p] \in 1 .. Len(mem[p])
           /\ \A p \in Pieces : /\ Len(mem[p]) \in Nat \ {0} /\ Newest(p).val \in Nat
                                /\ Newest(p) = mem[p][Len(mem[p])]
                                /\ \A j \in 1 .. Len(mem[p]) : mem[p][j].val \in Nat
           /\ \A t \in Threads :
                 /\ seen[t] \in Nat /\ cur[t] \in View /\ rel[t] \in View
                 /\ \A p \in Pieces : /\ copy[t][p] \in Nat
                                      /\ cur[t][p] \in 1 .. Len(mem[p]) /\ rel[t][p] \in 1 .. Len(mem[p])
  <1>1. IInv /\ Numbered /\ LocalTypes
    BY DEF TInv
  <1>2. \A l \in Locations :
            /\ Len(mem[l]) \in Nat \ {0} /\ Newest(l) = mem[l][Len(mem[l])] /\ Newest(l).val \in Nat
            /\ \A i \in 1 .. Len(mem[l]) : mem[l][i].val \in Nat /\ mem[l][i].view \in View
    BY <1>1, Messages DEF IInv, Numbered, Newest
  <1> QED BY <1>1, <1>2, LocationFacts DEF IInv, ShapeOK, Bounded, Carried, LocalTypes

\* A later view leaves less to be read.
LEMMA SinceLater ==
    ASSUME NEW v \in View, NEW w \in View, \A p \in Pieces : v[p] <= w[p], NEW n \in Int, NEW m \in Int,
           m <= n, Since(v, n), TInv, \A p \in Pieces : w[p] \in 1 .. Len(mem[p])
    PROVE  Since(w, m)
  <1> SUFFICES ASSUME NEW p \in Pieces, NEW j \in w[p] .. Len(mem[p])
               PROVE  2 * mem[p][j].val >= m
    BY DEF Since
  <1>1. v[p] \in Nat /\ w[p] \in 1 .. Len(mem[p]) /\ v[p] <= w[p] /\ Len(mem[p]) \in Nat
    BY LowNumbers, LocationFacts DEF View
  <1>2. j \in v[p] .. Len(mem[p]) /\ j \in 1 .. Len(mem[p])
    BY <1>1
  <1>3. 2 * mem[p][j].val >= n /\ mem[p][j].val \in Nat
    BY <1>2, LowNumbers DEF Since
  <1> QED BY <1>3

\* Nothing is said of a thread elsewhere.
LEMMA Elsewhere ==
    ASSUME NEW t \in Threads
    PROVE  /\ pc[t] \notin Opened => HolderLow(t)
           /\ pc[t] \notin Looking => LookupLow(t)
  <1>1. pc[t] \notin Opened => HolderLow(t)
    BY LabelFacts, StoreLabels DEF HolderLow
  <1>2. pc[t] \notin Looking => LookupLow(t)
    BY LabelFacts, StoreLabels DEF LookupLow
  <1> QED BY <1>1, <1>2

LEMMA LowInit == Init => LowInv
  <1> SUFFICES ASSUME Init PROVE LowInv
    OBVIOUS
  <1>1. TInv
    BY TypedInit
  <1>2. \A l \in Locations : Len(mem[l]) = 1 /\ mem[l][1].val = 0 /\ Newest(l).val = 0
    BY DEF Init, Newest
  <1>3. \A t \in Threads : pc[t] = <<"idle">>
    BY DEF Init
  <1>4. Reached(0) /\ \A i \in 1 .. Len(mem[Epoch]) : mem[Epoch][i].val = 0
    BY <1>2, LocationFacts DEF Reached
  <1>5. \A i \in 1 .. Len(mem[Epoch]) : Since(mem[Epoch][i].view, -2)
    <2> SUFFICES ASSUME NEW i \in 1 .. Len(mem[Epoch]), NEW p \in Pieces,
                        NEW j \in mem[Epoch][i].view[p] .. Len(mem[p])
                 PROVE  2 * mem[p][j].val >= -2
      BY DEF Since
    <2>1. mem[Epoch][i].view[p] \in 1 .. Len(mem[p])
      BY <1>1, LowNumbers
    <2>l. Len(mem[p]) = 1 /\ mem[p][1].val = 0
      BY <1>2, LocationFacts
    <2>2. j = 1
      BY <2>l, <2>1
    <2> QED BY <2>l, <2>2
  <1>6. Newest(Epoch).val = 0
    BY <1>2, LocationFacts
  <1>7. EpochsHandOn
    <2> SUFFICES ASSUME NEW i \in 1 .. Len(mem[Epoch])
                 PROVE  /\ mem[Epoch][i].val <= Newest(Epoch).val
                        /\ Since(mem[Epoch][i].view, mem[Epoch][i].val - 2)
      BY DEF EpochsHandOn
    <2>1. mem[Epoch][i].val = 0 /\ mem[Epoch][i].val - 2 = -2
      BY <1>4
    <2> QED BY <1>5, <1>6, <2>1
  <1>8. \A t \in Threads : HolderLow(t) /\ LookupLow(t)
    BY <1>3, OpenedFacts, LabelFacts, Elsewhere
  <1> QED BY <1>1, <1>4, <1>6, <1>7, <1>8 DEF LowInv

-----------------------------------------------------------------------------
\* A step which stores no piece and no epoch, and does not open or close a section.
LEMMA QuietLow ==
    ASSUME LowInv, TInv', NEW t \in Threads, NEW w \in Labels, pc' = [pc EXCEPT ![t] = w],
           w \in Opened <=> pc[t] \in Opened,
           \A l \in Locations \ {Flag} : mem'[l] = mem[l],
           \A u \in Threads \ {t} : /\ op'[u] = op[u] /\ seen'[u] = seen[u] /\ copy'[u] = copy[u]
                                    /\ cur'[u] = cur[u] /\ rel'[u] = rel[u],
           HolderLow(t)', LookupLow(t)'
    PROVE  LowInv'
  <1>1. /\ mem'[Epoch] = mem[Epoch] /\ Newest(Epoch)' = Newest(Epoch)
        /\ \A p \in Pieces : mem'[p] = mem[p] /\ Newest(p)' = Newest(p)
    BY LocationFacts DEF Newest
  <1>2. \A v, n : Since(v, n)' <=> Since(v, n)
    BY <1>1 DEF Since
  <1>3. \A u \in Threads : pc'[u] = IF u = t THEN w ELSE pc[u]
    BY DEF LowInv, TInv, IInv, ShapeOK
  <1>4. EpochsHandOn'
    BY <1>1 DEF LowInv, EpochsHandOn, Since
  <1>5. (\A u \in Threads : pc'[u] \notin Opened) => Reached(Newest(Epoch).val)'
    BY <1>1, <1>3 DEF LowInv, Reached
  <1>6. ASSUME NEW u \in Threads \ {t} PROVE HolderLow(u)' /\ LookupLow(u)'
    <2>1. /\ pc'[u] = pc[u] /\ op'[u] = op[u] /\ seen'[u] = seen[u] /\ copy'[u] = copy[u]
          /\ cur'[u] = cur[u] /\ rel'[u] = rel[u]
      BY <1>3
    <2>2. HolderLow(u)'
      <3>1. HolderLow(u)
        BY DEF LowInv
      <3>2. \A q \in Pieces : \A p \in 1 .. q - 1 : p \in Pieces
        BY WeakAssumption DEF Pieces
      <3> QED BY <1>1, <2>1, <3>1, <3>2 DEF HolderLow, Reached, Since
    <2>3. LookupLow(u)'
      BY <1>1, <2>1 DEF LowInv, LookupLow, Since
    <2> QED BY <2>2, <2>3
  <1> QED BY <1>4, <1>5, <1>6 DEF LowInv

\* The holder stores an epoch.
LEMMA EpochLow ==
    ASSUME LowInv, TInv', NEW t \in Threads, Holding(t), NEW w \in Sections, pc' = [pc EXCEPT ![t] = w],
           NEW val \in Nat, Store(t, Epoch, val, "relaxed"), UNCHANGED <<op, seen, copy>>,
           \A n \in Nat : n % 2 = 0 /\ n <= Newest(Epoch).val => n <= val,
           val % 2 = 0 => Since(rel[t], val - 2),
           w \notin Opened => Reached(val),
           w \in Opened => w = <<"fence">> /\ Reached(val - 1)
    PROVE  LowInv'
  <1>0. TInv /\ IInv /\ val \in Int /\ Epoch \in Locations
    BY LocationFacts DEF LowInv, TInv
  <1>1. PICK msg \in Stored :
            /\ mem' = [mem EXCEPT ![Epoch] = Append(mem[Epoch], msg)]
            /\ msg.val = val /\ \A k \in Locations \ {Epoch} : msg.view[k] = rel[t][k]
    BY <1>0, StoreEffect
  <1>2. /\ Len(mem[Epoch]) \in Nat /\ Len(mem'[Epoch]) = Len(mem[Epoch]) + 1
        /\ mem'[Epoch][Len(mem[Epoch]) + 1] = msg
        /\ \A j \in 1 .. Len(mem[Epoch]) : mem'[Epoch][j] = mem[Epoch][j]
        /\ \A k \in Locations \ {Epoch} : mem'[k] = mem[k]
        /\ Newest(Epoch)' = msg
    BY <1>0, <1>1, Appended
  <1>3. \A p \in Pieces : /\ p \in Locations \ {Epoch} /\ mem'[p] = mem[p]
                          /\ Newest(p)' = Newest(p) /\ msg.view[p] = rel[t][p]
    <2>1. \A p \in Pieces : p # Epoch
      BY DEF Pieces, Epoch
    <2> QED BY <1>1, <1>2, <2>1, LocationFacts DEF Newest
  <1>4. /\ rel' = rel /\ \A u \in Threads \ {t} : cur'[u] = cur[u]
    BY <1>0, StoreEffect
  <1>5. \A u \in Threads : pc'[u] = IF u = t THEN w ELSE pc[u]
    BY <1>0 DEF IInv, ShapeOK
  <1>6. \A u \in Threads \ {t} : pc[u] \notin Opened
    BY <1>0, OpenedFacts DEF IInv, OneHolder, Holding
  <1>7. EpochsHandOn'
    <2> SUFFICES ASSUME NEW i \in 1 .. Len(mem'[Epoch]), mem'[Epoch][i].val % 2 = 0
                 PROVE  /\ mem'[Epoch][i].val <= Newest(Epoch)'.val
                        /\ Since(mem[Epoch][i].view, mem[Epoch][i].val - 2)'
      BY DEF EpochsHandOn
    <2>1. CASE i = Len(mem[Epoch]) + 1
      <3>1. mem'[Epoch][i] = msg /\ val % 2 = 0
        BY <1>1, <1>2, <2>1
      <3>2. Since(rel[t], val - 2)
        BY <3>1
      <3>3. Since(msg.view, val - 2)'
        BY <1>3, <3>2 DEF Since
      <3>4. Since(mem[Epoch][i].view, mem[Epoch][i].val - 2)'
        BY <1>1, <3>1, <3>3 DEF Since
      <3> QED BY <1>0, <1>1, <1>2, <3>1, <3>4
    <2>2. CASE i # Len(mem[Epoch]) + 1
      <3>1. i \in 1 .. Len(mem[Epoch]) /\ mem'[Epoch][i] = mem[Epoch][i]
        BY <1>2, <2>2
      <3>2. /\ mem[Epoch][i].val <= Newest(Epoch).val /\ mem[Epoch][i].val \in Nat
            /\ Since(mem[Epoch][i].view, mem[Epoch][i].val - 2)
        BY <1>0, <3>1, LowNumbers DEF LowInv, EpochsHandOn
      <3>3. mem[Epoch][i].val <= val
        BY <3>1, <3>2
      <3> QED BY <1>1, <1>2, <1>3, <3>1, <3>2, <3>3 DEF Since
    <2> QED BY <2>1, <2>2
  <1>8. (\A u \in Threads : pc'[u] \notin Opened) => Reached(Newest(Epoch).val)'
    BY <1>1, <1>2, <1>3, <1>5 DEF Reached
  <1>9. ASSUME NEW u \in Threads \ {t} PROVE HolderLow(u)' /\ LookupLow(u)'
    <2>1. pc'[u] = pc[u] /\ pc'[u] \notin Opened /\ cur'[u] = cur[u]
      BY <1>4, <1>5, <1>6
    <2>2. HolderLow(u)'
      BY <2>1, LabelFacts, StoreLabels DEF HolderLow
    <2>3. LookupLow(u)
      BY DEF LowInv
    <2>4. pc[u] \in Looking => seen[u] <= val
      <3>1. seen[u] \in Nat
        BY <1>0, LowNumbers
      <3> QED BY <2>3, <3>1 DEF LookupLow
    <2>5. LookupLow(u)'
      BY <1>1, <1>2, <1>3, <2>1, <2>3, <2>4 DEF LookupLow, Since
    <2> QED BY <2>2, <2>5
  <1>10. pc'[t] = w
    BY <1>5
  <1>11. HolderLow(t)'
    <2>1. CASE w \notin Opened
      BY <1>10, <2>1, LabelFacts, StoreLabels DEF HolderLow
    <2>2. CASE w \in Opened
      <3>1. pc'[t] = <<"fence">> /\ Reached(val - 1)
        BY <1>10, <2>2
      <3>2. Reached(Newest(Epoch).val - 1)'
        BY <1>1, <1>2, <1>3, <3>1 DEF Reached
      <3> QED BY <3>1, <3>2, LabelFacts, StoreLabels DEF HolderLow
    <2> QED BY <2>1, <2>2
  <1>12. LookupLow(t)'
    <2>1. pc'[t] \notin Looking
      BY <1>10, LabelFacts
    <2> QED BY <2>1, LabelFacts, StoreLabels DEF LookupLow
  <1> QED BY <1>7, <1>8, <1>9, <1>11, <1>12 DEF LowInv

LEMMA AnnounceLow ==
    ASSUME LowInv, TInv', NEW t \in Threads, Announce(t), op[t] # "move"
    PROVE  LowInv'
  <1>0. TInv
    BY DEF LowInv
  <1>e. PICK e : e = CurEpoch(t)
    OBVIOUS
  <1>1. /\ Store(t, Epoch, e + 1, "relaxed") /\ pc' = [pc EXCEPT ![t] = <<"fence">>]
        /\ UNCHANGED <<op, seen, copy>> /\ pc[t] = <<"announce">>
    BY <1>e DEF Announce, Goto
  <1>2. Holding(t) /\ pc[t] \notin Opened
    BY <1>1, Inside, LabelFacts DEF Holding
  <1>3. e \in Nat /\ e % 2 = 0 /\ Newest(Epoch).val = e
    BY <1>0, <1>e, <1>2, HolderCounts
  <1>4. Reached(e)
    <2>1. \A u \in Threads : pc[u] \notin Opened
      BY <1>0, <1>2, OpenedFacts DEF TInv, IInv, OneHolder, Holding
    <2> QED BY <1>3, <2>1 DEF LowInv
  <1>v. PICK val \in Nat : val = e + 1
    BY <1>3
  <1>5. /\ val % 2 # 0 /\ Reached(val - 1)
        /\ \A n \in Nat : n % 2 = 0 /\ n <= Newest(Epoch).val => n <= val
    <2>1. val - 1 = e
      BY <1>3, <1>v
    <2> QED BY <1>3, <1>4, <1>v, <2>1
  <1>6. <<"fence">> \in Sections /\ <<"fence">> \in Opened
    BY Inside, OpenedFacts
  <1> QED BY <1>1, <1>2, <1>v, <1>5, <1>6, EpochLow

LEMMA PublishLow ==
    ASSUME LowInv, TInv', NEW t \in Threads, Publish(t)
    PROVE  LowInv'
  <1>0. TInv
    BY DEF LowInv
  <1>e. PICK e : e = CurEpoch(t)
    OBVIOUS
  <1>v. PICK val : val = e + (IF op[t] = "miss" THEN -1 ELSE 1)
    OBVIOUS
  <1>1. /\ Store(t, Epoch, val, "relaxed") /\ pc' = [pc EXCEPT ![t] = <<"clear">>]
        /\ UNCHANGED <<op, seen, copy>> /\ pc[t] = <<"publish">>
    BY <1>e, <1>v DEF Publish, Goto
  <1>2. Holding(t) /\ pc[t] \in Opened /\ pc[t] # <<"fence">>
    BY <1>1, Inside, LabelFacts DEF Holding
  <1>3. e \in Nat /\ e % 2 = 1 /\ Newest(Epoch).val = e
    BY <1>0, <1>e, <1>2, HolderCounts
  <1>4. val \in Nat /\ val % 2 = 0 /\ \A n \in Nat : n % 2 = 0 /\ n <= e => n <= val
    BY <1>3, <1>v
  <1>5. HolderLow(t)
    BY DEF LowInv
  <1>6. Reached(val)
    <2>1. CASE op[t] = "miss"
      <3>1. val = e - 1
        BY <1>3, <1>v, <2>1
      <3> QED BY <1>2, <1>3, <1>5, <3>1 DEF HolderLow
    <2>2. CASE op[t] # "miss"
      <3>1. val = e + 1
        BY <1>v, <2>2
      <3> QED BY <1>1, <1>3, <1>5, <2>2, <3>1 DEF HolderLow
    <2> QED BY <2>1, <2>2
  <1>7. Since(rel[t], val - 2)
    <2>1. Since(rel[t], e - 1)
      BY <1>2, <1>3, <1>5 DEF HolderLow
    <2>2. /\ rel[t] \in View /\ \A p \in Pieces : rel[t][p] \in 1 .. Len(mem[p]) /\ rel[t][p] <= rel[t][p]
      BY <1>0, LowNumbers
    <2>3. e - 1 \in Int /\ val - 2 \in Int /\ val - 2 <= e - 1
      BY <1>3, <1>v
    <2> QED BY <1>0, <2>1, <2>2, <2>3, SinceLater
  <1>8. <<"clear">> \in Sections /\ <<"clear">> \notin Opened
    BY Inside, OpenedFacts
  <1> QED BY <1>1, <1>2, <1>3, <1>4, <1>6, <1>7, <1>8, EpochLow

LEMMA FenceLow ==
    ASSUME LowInv, TInv', NEW t \in Threads, Fence(t)
    PROVE  LowInv'
  <1>0. TInv
    BY DEF LowInv
  <1>1. /\ UNCHANGED <<mem, cur, acq, op, seen, copy>> /\ rel' = [rel EXCEPT ![t] = cur[t]]
        /\ pc[t] = <<"fence">>
        /\ pc' = [pc EXCEPT ![t] = IF op[t] = "miss" THEN <<"publish">> ELSE <<"store", 1>>]
    BY DEF Fence, ReleaseFence, Goto
  <1>p. 1 \in Pieces
    BY WeakAssumption DEF Pieces
  <1>2. PICK w \in Sections : /\ pc' = [pc EXCEPT ![t] = w] /\ w \in Opened
                              /\ \/ w = <<"publish">> /\ op[t] = "miss"
                                 \/ w = <<"store", 1>> /\ op[t] # "miss"
    BY <1>1, <1>p, Inside, OpenedFacts
  <1>3. /\ pc'[t] = w /\ rel'[t] = cur[t] /\ \A u \in Threads \ {t} : rel'[u] = rel[u]
    BY <1>0, <1>1, <1>2 DEF TInv, IInv, ShapeOK
  <1>4. Holding(t) /\ pc[t] \in Opened
    BY <1>1, Inside, OpenedFacts DEF Holding
  <1>e. PICK e : e = Newest(Epoch).val
    OBVIOUS
  <1>5. Reached(e - 1)
    BY <1>4, <1>e DEF LowInv, HolderLow
  <1>6. Since(cur[t], e - 1)
    <2> SUFFICES ASSUME NEW p \in Pieces, NEW j \in cur[t][p] .. Len(mem[p])
                 PROVE  2 * mem[p][j].val >= e - 1
      BY DEF Since
    <2>1. cur[t][p] = Len(mem[p])
      BY <1>0, <1>4, LocationFacts DEF TInv, IInv, HolderIsUpToDate
    <2>2. j = Len(mem[p]) /\ Newest(p) = mem[p][j]
      BY <1>0, <2>1, LowNumbers
    <2> QED BY <1>5, <2>2 DEF Reached
  <1>7. Newest(Epoch)' = Newest(Epoch) /\ \A p \in Pieces : Newest(p)' = Newest(p)
    BY <1>1 DEF Newest
  <1>8. HolderLow(t)'
    <2>1. Reached(Newest(Epoch).val - 1)'
      BY <1>5, <1>e, <1>7 DEF Reached
    <2>2. Since(rel[t], Newest(Epoch).val - 1)'
      BY <1>1, <1>3, <1>6, <1>e, <1>7 DEF Since
    <2>3. ~(pc'[t] = <<"publish">> /\ op'[t] # "miss")
      BY <1>1, <1>2, <1>3, <1>p, StoreLabels
    <2>4. ASSUME NEW q \in Pieces, pc'[t] = <<"store", q>>
          PROVE  op'[t] # "miss" /\ \A p \in 1 .. q - 1 : 2 * Newest(p)'.val >= Newest(Epoch)'.val + 1
      <3>1. w = <<"store", 1>> /\ op[t] # "miss"
        BY <1>2, <1>3, <2>4, StoreLabels
      <3>a. <<"store", 1>> = <<"store", q>>
        BY <1>3, <2>4, <3>1
      <3>2. q = 1
        BY <3>a
      <3> QED BY <1>1, <3>1, <3>2
    <2> QED BY <2>1, <2>2, <2>3, <2>4 DEF HolderLow
  <1>9. LookupLow(t)'
    <2>1. pc'[t] \notin Looking
      BY <1>3, LabelFacts
    <2> QED BY <2>1, LabelFacts, StoreLabels DEF LookupLow
  <1>10. \A u \in Threads \ {t} : /\ op'[u] = op[u] /\ seen'[u] = seen[u] /\ copy'[u] = copy[u]
                                  /\ cur'[u] = cur[u] /\ rel'[u] = rel[u]
    BY <1>1, <1>3
  <1> QED BY <1>1, <1>2, <1>4, <1>8, <1>9, <1>10, SectionsAreLabels, QuietLow

\* The pieces that are stored are of an update later than all epochs that are seen.
LEMMA StorePieceLow ==
    ASSUME LowInv, TInv', NEW t \in Threads, StorePiece(t)
    PROVE  LowInv'
  <1>0. TInv /\ IInv
    BY DEF LowInv, TInv
  <1>e. PICK e : e = CurEpoch(t)
    OBVIOUS
  <1>1. PICK q \in Pieces :
            /\ pc[t] = <<"store", q>> /\ Store(t, q, (e + 1) \div 2, "relaxed")
            /\ Goto(t, IF q < NumPieces THEN <<"store", q + 1>> ELSE <<"publish">>)
            /\ UNCHANGED <<op, seen, copy, calls>>
    BY <1>e DEF StorePiece
  <1>2. Holding(t) /\ pc[t] \in Opened /\ pc[t] # <<"fence">>
    BY <1>1, Inside, OpenedFacts, StoreLabels DEF Holding
  <1>3. e \in Nat /\ e % 2 = 1 /\ Newest(Epoch).val = e
    BY <1>0, <1>e, <1>2, HolderCounts
  <1>v. PICK val : val = (e + 1) \div 2
    OBVIOUS
  <1>4. val \in Int /\ 2 * val = e + 1
    BY <1>3, <1>v
  <1>5. q \in Locations /\ q # Epoch /\ Epoch \in Locations
    BY LocationFacts DEF Pieces, Epoch
  <1>6. PICK msg \in Stored : mem' = [mem EXCEPT ![q] = Append(mem[q], msg)] /\ msg.val = val
    BY <1>0, <1>1, <1>4, <1>5, <1>v, StoreMessage
  <1>7. /\ Len(mem[q]) \in Nat /\ Len(mem'[q]) = Len(mem[q]) + 1
        /\ mem'[q][Len(mem[q]) + 1] = msg
        /\ \A j \in 1 .. Len(mem[q]) : mem'[q][j] = mem[q][j]
        /\ \A k \in Locations \ {q} : mem'[k] = mem[k]
        /\ Newest(q)' = msg
    BY <1>0, <1>5, <1>6, Appended
  <1>8. /\ mem'[Epoch] = mem[Epoch] /\ Newest(Epoch)' = Newest(Epoch)
        /\ \A p \in Pieces : p # q => mem'[p] = mem[p] /\ Newest(p)' = Newest(p)
    BY <1>5, <1>7, LocationFacts DEF Newest
  <1>9. /\ rel' = rel /\ \A u \in Threads \ {t} : cur'[u] = cur[u]
    BY <1>0, <1>1, <1>4, <1>5, <1>v, StoreEffect
  \* What is ensured up to this update stays so.
  <1>10. ASSUME NEW v \in View, NEW n \in Int, n <= e + 1, Since(v, n),
                \A p \in Pieces : v[p] \in 1 .. Len(mem[p])
         PROVE  \A p \in Pieces : \A j \in v[p] .. Len(mem'[p]) : 2 * mem'[p][j].val >= n
    <2> SUFFICES ASSUME NEW p \in Pieces, NEW j \in v[p] .. Len(mem'[p])
                 PROVE  2 * mem'[p][j].val >= n
      OBVIOUS
    <2>1. CASE p = q /\ j = Len(mem[q]) + 1
      BY <1>4, <1>6, <1>7, <1>10, <2>1
    <2>2. CASE ~(p = q /\ j = Len(mem[q]) + 1)
      <3>1. v[p] \in 1 .. Len(mem[p]) /\ Len(mem[p]) \in Nat
        BY <1>0, <1>10, LowNumbers
      <3>2. j \in v[p] .. Len(mem[p]) /\ j \in 1 .. Len(mem[p])
        BY <1>7, <1>8, <2>2, <3>1
      <3>3. mem'[p][j] = mem[p][j]
        BY <1>7, <1>8, <3>2
      <3> QED BY <1>10, <3>2, <3>3 DEF Since
    <2> QED BY <2>1, <2>2
  <1>11. EpochsHandOn'
    <2> SUFFICES ASSUME NEW i \in 1 .. Len(mem[Epoch]), mem[Epoch][i].val % 2 = 0
                 PROVE  /\ mem[Epoch][i].val <= Newest(Epoch).val
                        /\ \A p \in Pieces : \A j \in mem[Epoch][i].view[p] .. Len(mem'[p]) :
                              2 * mem'[p][j].val >= mem[Epoch][i].val - 2
      BY <1>8 DEF EpochsHandOn, Since
    <2>1. mem[Epoch][i].val <= Newest(Epoch).val /\ Since(mem[Epoch][i].view, mem[Epoch][i].val - 2)
      BY DEF LowInv, EpochsHandOn
    <2>2. /\ mem[Epoch][i].val \in Nat /\ mem[Epoch][i].view \in View
          /\ \A p \in Pieces : mem[Epoch][i].view[p] \in 1 .. Len(mem[p])
      BY <1>0, LowNumbers
    <2>3. mem[Epoch][i].val - 2 \in Int /\ mem[Epoch][i].val - 2 <= e + 1
      BY <1>3, <2>1, <2>2
    <2> QED BY <1>10, <2>1, <2>2, <2>3
  <1>12. PICK w \in Sections : pc' = [pc EXCEPT ![t] = w] /\ w \in Opened /\ w # <<"fence">>
                               /\ \/ q < NumPieces /\ w = <<"store", q + 1>> /\ q + 1 \in Pieces
                                  \/ q = NumPieces /\ w = <<"publish">>
    <2>1. q < NumPieces => q + 1 \in Pieces
      BY WeakAssumption DEF Pieces
    <2>2. ~(q < NumPieces) => q = NumPieces
      BY WeakAssumption DEF Pieces
    <2> QED BY <1>1, <2>1, <2>2, Inside, OpenedFacts, StoreLabels, LabelFacts DEF Goto
  <1>13. \A u \in Threads : pc'[u] = IF u = t THEN w ELSE pc[u]
    BY <1>0, <1>12 DEF IInv, ShapeOK
  <1>14. ~(\A u \in Threads : pc'[u] \notin Opened)
    BY <1>12, <1>13
  <1>15. ASSUME NEW u \in Threads \ {t} PROVE HolderLow(u)' /\ LookupLow(u)'
    <2>1. pc[u] \notin Opened
      BY <1>0, <1>2, OpenedFacts DEF IInv, OneHolder, Holding
    <2>2. pc'[u] = pc[u] /\ cur'[u] = cur[u] /\ seen'[u] = seen[u] /\ copy'[u] = copy[u]
      BY <1>1, <1>9, <1>13
    <2>3. HolderLow(u)'
      BY <2>1, <2>2, LabelFacts, StoreLabels DEF HolderLow
    <2>4. LookupLow(u)
      BY DEF LowInv
    <2>5. ASSUME pc[u] \in Looking
          PROVE  \A p \in Pieces : \A j \in cur[u][p] .. Len(mem'[p]) : 2 * mem'[p][j].val >= seen[u] - 2
      <3>1. /\ seen[u] \in Nat /\ cur[u] \in View /\ \A p \in Pieces : cur[u][p] \in 1 .. Len(mem[p])
        BY <1>0, LowNumbers
      <3>2. seen[u] <= e /\ Since(cur[u], seen[u] - 2)
        BY <1>3, <2>4, <2>5 DEF LookupLow
      <3>3. seen[u] - 2 \in Int /\ seen[u] - 2 <= e + 1
        BY <1>3, <3>1, <3>2
      <3> QED BY <1>10, <3>1, <3>2, <3>3
    <2>6. LookupLow(u)'
      BY <1>8, <2>2, <2>4, <2>5 DEF LookupLow, Since
    <2> QED BY <2>3, <2>6
  <1>16. HolderLow(t)'
    <2>0. HolderLow(t)
      BY DEF LowInv
    <2>n. \A p \in Pieces : Newest(p).val \in Nat
      BY <1>0, LowNumbers
    <2>1. \A p \in Pieces : 2 * Newest(p)'.val >= e - 1
      <3> SUFFICES ASSUME NEW p \in Pieces PROVE 2 * Newest(p)'.val >= e - 1
        OBVIOUS
      <3>1. CASE p = q
        BY <1>3, <1>4, <1>6, <1>7, <3>1
      <3>2. CASE p # q
        BY <1>2, <1>3, <1>8, <2>0, <3>2 DEF HolderLow, Reached
      <3> QED BY <3>1, <3>2
    <2>2. op[t] # "miss" /\ \A p \in 1 .. q : 2 * Newest(p)'.val >= e + 1
      <3>1. op[t] # "miss" /\ \A p \in 1 .. q - 1 : 2 * Newest(p).val >= e + 1
        BY <1>1, <1>3, <2>0 DEF HolderLow
      <3>2. ASSUME NEW p \in 1 .. q PROVE 2 * Newest(p)'.val >= e + 1
        <4>0. p \in Pieces /\ (p # q => p \in 1 .. q - 1)
          BY WeakAssumption DEF Pieces
        <4>1. CASE p = q
          BY <1>3, <1>4, <1>6, <1>7, <4>1
        <4>2. CASE p # q
          BY <1>8, <3>1, <4>0, <4>2
        <4> QED BY <4>1, <4>2
      <3> QED BY <3>1, <3>2
    <2>3. Since(rel[t], e - 1)
      BY <1>2, <1>3, <2>0 DEF HolderLow
    <2>4. \A p \in Pieces : \A j \in rel[t][p] .. Len(mem'[p]) : 2 * mem'[p][j].val >= e - 1
      <3>1. rel[t] \in View /\ \A p \in Pieces : rel[t][p] \in 1 .. Len(mem[p])
        BY <1>0, LowNumbers
      <3>2. e - 1 \in Int /\ e - 1 <= e + 1
        BY <1>3
      <3> QED BY <1>10, <2>3, <3>1, <3>2
    <2>5. Newest(Epoch)'.val = e /\ op'[t] = op[t] /\ rel'[t] = rel[t] /\ pc'[t] = w
      BY <1>1, <1>3, <1>8, <1>9, <1>13
    <2>6. Reached(Newest(Epoch).val - 1)' /\ Since(rel[t], Newest(Epoch).val - 1)'
      BY <2>1, <2>4, <2>5 DEF Reached, Since
    <2>7. ASSUME w = <<"publish">> PROVE Reached(Newest(Epoch).val + 1)'
      <3>1. \A p \in Pieces : p \in 1 .. q
        BY <1>1, <1>12, <2>7, StoreLabels DEF Pieces
      <3> QED BY <2>2, <2>5, <3>1 DEF Reached
    <2>8. ASSUME NEW r \in Pieces, w = <<"store", r>>
          PROVE  \A p \in 1 .. r - 1 : 2 * Newest(p)'.val >= e + 1
      <3>1. w = <<"store", q + 1>>
        BY <1>12, <2>8, StoreLabels
      <3>2. r = q + 1 /\ q \in Nat
        BY <2>8, <3>1 DEF Pieces
      <3> QED BY <2>2, <3>2
    <2> QED BY <2>2, <2>5, <2>6, <2>7, <2>8 DEF HolderLow
  <1>17. LookupLow(t)'
    <2>1. pc'[t] \notin Looking
      BY <1>12, <1>13, LabelFacts
    <2> QED BY <2>1, LabelFacts, StoreLabels DEF LookupLow
  <1> QED BY <1>11, <1>14, <1>15, <1>16, <1>17 DEF LowInv

LEMMA FlagLow ==
    ASSUME LowInv, TInv', NEW t \in Threads, TakeFlag(t) \/ Clear(t)
    PROVE  LowInv'
  <1>0. TInv /\ IInv /\ Flag \in Locations
    BY LocationFacts DEF LowInv, TInv
  <1>1. /\ \A l \in Locations \ {Flag} : mem'[l] = mem[l]
        /\ \A u \in Threads \ {t} : cur'[u] = cur[u]
        /\ UNCHANGED <<rel, op, seen, copy>>
    BY <1>0 DEF TakeFlag, Clear, Exchange, Store, IInv, ShapeOK
  <1>2. PICK w \in {<<"announce">>, <<"idle">>} : pc' = [pc EXCEPT ![t] = w]
    BY DEF TakeFlag, Clear, Goto
  <1>3. /\ pc[t] \notin Opened /\ w \notin Opened /\ w \in Labels /\ w \notin Looking
    BY <1>2, OpenedFacts, LookingFacts, LabelFacts, Inside, Outside, SectionsAreLabels
       DEF TakeFlag, Clear
  <1>4. pc'[t] = w
    BY <1>0, <1>2 DEF IInv, ShapeOK
  <1>5. HolderLow(t)' /\ LookupLow(t)'
    <2>1. pc'[t] \notin Opened /\ pc'[t] \notin Looking
      BY <1>3, <1>4
    <2> QED BY <2>1, LabelFacts, StoreLabels DEF HolderLow, LookupLow
  <1> QED BY <1>1, <1>2, <1>3, <1>5, QuietLow

\* A step outside the critical sections.
LEMMA OutsideLow ==
    ASSUME LowInv, TInv', NEW t \in Threads, pc[t] \notin Opened, mem' = mem,
           NEW w \in Labels \ Opened, pc' = [pc EXCEPT ![t] = w],
           \A u \in Threads \ {t} : /\ op'[u] = op[u] /\ seen'[u] = seen[u] /\ copy'[u] = copy[u]
                                    /\ cur'[u] = cur[u] /\ rel'[u] = rel[u],
           LookupLow(t)'
    PROVE  LowInv'
  <1>1. pc'[t] = w
    BY DEF LowInv, TInv, IInv, ShapeOK
  <1>2. HolderLow(t)'
    BY <1>1, LabelFacts, StoreLabels DEF HolderLow
  <1> QED BY <1>2, QuietLow

\* No lookup: nothing is said.
LEMMA IdleLow ==
    ASSUME LowInv, TInv', NEW t \in Threads, Call(t) \/ Return(t)
    PROVE  LowInv'
  <1>1. UNCHANGED <<mem, cur, acq, rel, seen, copy>> /\ pc[t] \notin Opened
    BY OpenedFacts, LookingFacts DEF Call, Return, views
  <1>2. PICK w \in {<<"idle">>, <<"spin">>, <<"epoch">>} : pc' = [pc EXCEPT ![t] = w]
    BY DEF Call, Return, Goto
  <1>3. w \in Labels \ Opened /\ w \notin Looking
    BY <1>2, OpenedFacts, LookingFacts, LabelFacts, Outside
  <1>4. pc'[t] = w
    BY <1>2 DEF LowInv, TInv, IInv, ShapeOK
  <1>5. LookupLow(t)'
    BY <1>3, <1>4, LabelFacts, StoreLabels DEF LookupLow
  <1>6. \A u \in Threads \ {t} : op'[u] = op[u]
    BY DEF Call, Return, LowInv, TInv, LocalTypes
  <1> QED BY <1>1, <1>2, <1>3, <1>5, <1>6, OutsideLow

\* A view that has grown still leaves nothing older to be read.
LEMMA ViewGrows ==
    ASSUME TInv, TInv', mem' = mem, NEW t \in Threads, NEW n \in Int, Since(cur[t], n),
           \A p \in Pieces : cur[t][p] <= cur'[t][p]
    PROVE  Since(cur[t], n)'
  <1>1. /\ cur[t] \in View /\ cur'[t] \in View
    BY DEF TInv, IInv, ShapeOK
  <1>2. \A p \in Pieces : cur'[t][p] \in 1 .. Len(mem[p])
    BY LocationFacts DEF TInv, IInv, Bounded
  <1>c. PICK c : c = cur'[t]
    OBVIOUS
  <1>3. Since(c, n)
    BY <1>1, <1>2, <1>c, SinceLater
  <1> QED BY <1>c, <1>3 DEF Since

LEMMA LoadEpochLow ==
    ASSUME LowInv, TInv', NEW t \in Threads, LoadEpoch(t)
    PROVE  LowInv'
  <1>0. TInv /\ IInv /\ Numbered /\ Ordered /\ Epoch \in Locations
    BY LocationFacts DEF LowInv, TInv
  <1>1. PICK i \in 1 .. Len(mem[Epoch]) :
            /\ Load(t, Epoch, i, "acquire") /\ seen' = [seen EXCEPT ![t] = mem[Epoch][i].val]
            /\ Goto(t, IF mem[Epoch][i].val % 2 = 1 THEN <<"epoch">> ELSE <<"load", 1>>)
    BY DEF LoadEpoch
  <1>2. UNCHANGED <<op, copy>> /\ pc[t] = <<"epoch">> /\ 1 \in Pieces
    BY WeakAssumption DEF LoadEpoch, Pieces
  <1>3. /\ mem' = mem /\ rel' = rel /\ \A u \in Threads \ {t} : cur'[u] = cur[u]
        /\ \A k \in Locations : mem[Epoch][i].view[k] <= cur'[t][k]
    BY <1>0, <1>1, LoadEffect
  <1>4. seen'[t] = mem[Epoch][i].val /\ \A u \in Threads \ {t} : seen'[u] = seen[u]
    BY <1>0, <1>1 DEF TInv, LocalTypes
  <1>5. mem[Epoch][i].val \in Nat
    BY <1>0, LowNumbers
  <1>6. PICK w \in {<<"epoch">>, <<"load", 1>>} :
            /\ pc' = [pc EXCEPT ![t] = w]
            /\ w = <<"load", 1>> => mem[Epoch][i].val % 2 = 0
    <2>1. CASE mem[Epoch][i].val % 2 = 1
      <3>1. <<"epoch">> # <<"load", 1>>
        BY <1>2, LabelFacts, StoreLabels
      <3> QED BY <1>1, <2>1, <3>1 DEF Goto
    <2>2. CASE mem[Epoch][i].val % 2 # 1
      <3>1. mem[Epoch][i].val % 2 = 0
        BY <1>5, <2>2
      <3> QED BY <1>1, <2>2, <3>1 DEF Goto
    <2> QED BY <2>1, <2>2
  <1>7. pc'[t] = w
    BY <1>0, <1>6 DEF IInv, ShapeOK
  <1>8. w \in Labels \ Opened /\ pc[t] \notin Opened
    BY <1>2, <1>6, LookingFacts, StoreLabels, Outside
  <1>9. LookupLow(t)'
    <2>1. CASE w = <<"epoch">>
      <3>1. pc'[t] \notin Looking
        BY <1>7, <2>1, LabelFacts
      <3> QED BY <3>1, LabelFacts, StoreLabels DEF LookupLow
    <2>2. CASE w = <<"load", 1>>
      <3>1. /\ mem[Epoch][i].val % 2 = 0 /\ mem[Epoch][i].val <= Newest(Epoch).val
            /\ Since(mem[Epoch][i].view, mem[Epoch][i].val - 2)
        BY <1>6, <2>2 DEF LowInv, EpochsHandOn
      <3>2. /\ mem[Epoch][i].view \in View /\ cur'[t] \in View
            /\ \A p \in Pieces : cur'[t][p] \in 1 .. Len(mem[p])
            /\ mem[Epoch][i].val - 2 \in Int
        BY <1>0, <1>3, <1>5, LowNumbers, LocationFacts DEF TInv, IInv, ShapeOK, Bounded
      <3>c. PICK c \in View : c = cur'[t]
        BY <3>2
      <3>3. Since(c, mem[Epoch][i].val - 2)
        <4>1. \A p \in Pieces : mem[Epoch][i].view[p] <= c[p]
          BY <1>3, <3>c, LocationFacts
        <4>v. PICK v \in View, n \in Int : v = mem[Epoch][i].view /\ n = mem[Epoch][i].val - 2
          BY <3>2
        <4>2. n <= n /\ Since(v, n)
          BY <3>1, <4>v
        <4>3. Since(c, n)
          BY <1>0, <3>2, <3>c, <4>1, <4>v, <4>2, SinceLater
        <4> QED BY <4>v, <4>3
      <3>4. Since(cur[t], seen[t] - 2)'
        BY <1>3, <1>4, <3>c, <3>3 DEF Since
      <3>5. Newest(Epoch)' = Newest(Epoch)
        BY <1>3 DEF Newest
      <3>6. ASSUME NEW q \in Pieces, pc'[t] = <<"load", q>>, NEW p \in 1 .. q - 1 PROVE FALSE
        <4>1. <<"load", q>> = <<"load", 1>>
          BY <1>7, <2>2, <3>6
        <4>2. q = 1
          BY <4>1
        <4> QED BY <4>2
      <3>7. pc'[t] \notin {<<"barrier">>, <<"check">>, <<"accepted">>}
        BY <1>2, <1>7, <2>2, LookingFacts
      <3> QED BY <1>4, <3>1, <3>4, <3>5, <3>6, <3>7 DEF LookupLow
    <2> QED BY <1>6, <2>1, <2>2
  <1> QED BY <1>2, <1>3, <1>4, <1>6, <1>8, <1>9, OutsideLow

LEMMA LoadPieceLow ==
    ASSUME LowInv, TInv', NEW t \in Threads, LoadPiece(t)
    PROVE  LowInv'
  <1>0. TInv /\ IInv /\ Numbered /\ Ordered
    BY DEF LowInv, TInv
  <1>1. PICK q \in Pieces :
            /\ pc[t] = <<"load", q>>
            /\ \E i \in 1 .. Len(mem[q]) : /\ Load(t, q, i, "relaxed")
                                           /\ copy' = [copy EXCEPT ![t][q] = mem[q][i].val]
            /\ Goto(t, IF q < NumPieces THEN <<"load", q + 1>> ELSE <<"barrier">>)
            /\ UNCHANGED <<op, seen, calls>>
    BY DEF LoadPiece
  <1>2. PICK i \in 1 .. Len(mem[q]) : /\ Load(t, q, i, "relaxed")
                                      /\ copy' = [copy EXCEPT ![t][q] = mem[q][i].val]
    BY <1>1
  <1>3. /\ mem' = mem /\ rel' = rel /\ \A u \in Threads \ {t} : cur'[u] = cur[u]
        /\ \A k \in Locations : cur[t][k] <= cur'[t][k]
    <2>1. q \in Locations
      BY LocationFacts
    <2> QED BY <1>0, <1>2, <2>1, LoadEffect
  <1>4. /\ \A u \in Threads \ {t} : copy'[u] = copy[u]
        /\ \A p \in Pieces : copy'[t][p] = IF p = q THEN mem[q][i].val ELSE copy[t][p]
    BY <1>0, <1>2 DEF TInv, LocalTypes
  <1>5. /\ seen[t] % 2 = 0 /\ seen[t] <= Newest(Epoch).val /\ Since(cur[t], seen[t] - 2)
        /\ \A p \in 1 .. q - 1 : 2 * copy[t][p] >= seen[t] - 2
    BY <1>1, StoreLabels DEF LowInv, LookupLow
  <1>6. 2 * mem[q][i].val >= seen[t] - 2
    <2>1. i \in cur[t][q] .. Len(mem[q])
      BY <1>2 DEF Load
    <2> QED BY <1>5, <2>1 DEF Since
  <1>7. \A p \in 1 .. q : p \in Pieces /\ 2 * copy'[t][p] >= seen[t] - 2
    <2> SUFFICES ASSUME NEW p \in 1 .. q PROVE p \in Pieces /\ 2 * copy'[t][p] >= seen[t] - 2
      OBVIOUS
    <2>1. p \in Pieces /\ (p # q => p \in 1 .. q - 1)
      BY WeakAssumption DEF Pieces
    <2> QED BY <1>4, <1>5, <1>6, <2>1
  <1>8. PICK w \in Looking :
            /\ pc' = [pc EXCEPT ![t] = w] /\ w \in Labels \ Opened
            /\ \/ q < NumPieces /\ w = <<"load", q + 1>> /\ q + 1 \in Pieces
               \/ q = NumPieces /\ w = <<"barrier">>
    <2>1. q < NumPieces => q + 1 \in Pieces
      BY WeakAssumption DEF Pieces
    <2>2. ~(q < NumPieces) => q = NumPieces
      BY WeakAssumption DEF Pieces
    <2> QED BY <1>1, <2>1, <2>2, Outside, StoreLabels, LabelFacts, LookingFacts DEF Goto
  <1>9. pc'[t] = w /\ seen'[t] = seen[t] /\ Newest(Epoch)' = Newest(Epoch)
    BY <1>0, <1>1, <1>3, <1>8 DEF IInv, ShapeOK, Newest
  <1>10. Since(cur[t], seen[t] - 2)'
    <2>1. PICK n \in Int : n = seen[t] - 2
      BY <1>0, LowNumbers
    <2>2. Since(cur[t], n)'
      BY <1>0, <1>3, <1>5, <2>1, LocationFacts, ViewGrows
    <2> QED BY <1>9, <2>1, <2>2
  <1>11. LookupLow(t)'
    <2>1. ASSUME NEW r \in Pieces, pc'[t] = <<"load", r>>, NEW p \in 1 .. r - 1
          PROVE  2 * copy'[t][p] >= seen[t] - 2
      <3>1. <<"load", r>> = <<"load", q + 1>>
        BY <1>8, <1>9, <2>1, LookingFacts
      <3>2. r = q + 1 /\ q \in Nat
        BY <3>1 DEF Pieces
      <3>3. p \in 1 .. q
        BY <3>2
      <3> QED BY <1>7, <3>3
    <2>2. ASSUME pc'[t] \in {<<"barrier">>, <<"check">>, <<"accepted">>}, NEW p \in Pieces
          PROVE  2 * copy'[t][p] >= seen[t] - 2
      <3>1. q = NumPieces
        BY <1>8, <1>9, <2>2, LookingFacts
      <3> QED BY <1>7, <3>1 DEF Pieces
    <2> QED BY <1>5, <1>9, <1>10, <2>1, <2>2 DEF LookupLow
  <1>12. pc[t] \notin Opened
    BY <1>1, StoreLabels, LookingFacts
  <1> QED BY <1>1, <1>3, <1>4, <1>8, <1>11, <1>12, OutsideLow

LEMMA EndOfLookupLow ==
    ASSUME LowInv, TInv', NEW t \in Threads, Barrier(t) \/ Check(t)
    PROVE  LowInv'
  <1>0. TInv /\ IInv /\ Numbered /\ Ordered /\ Epoch \in Locations
    BY LocationFacts DEF LowInv, TInv
  <1>1. /\ UNCHANGED <<op, seen, copy>> /\ pc[t] \in {<<"barrier">>, <<"check">>}
        /\ pc[t] \in Looking /\ pc[t] \notin Opened
    BY LabelFacts, LookingFacts DEF Barrier, Check
  <1>2. /\ mem' = mem /\ rel' = rel /\ \A u \in Threads \ {t} : cur'[u] = cur[u]
        /\ \A k \in Locations : cur[t][k] <= cur'[t][k]
    <2>1. CASE Barrier(t)
      <3>1. cur' = [cur EXCEPT ![t] = acq[t]] /\ mem' = mem /\ rel' = rel
        BY <2>1 DEF Barrier, AcquireFence
      <3> QED BY <1>0, <3>1 DEF IInv, ShapeOK, Ordered
    <2>2. CASE Check(t)
      <3>1. PICK i \in 1 .. Len(mem[Epoch]) : Load(t, Epoch, i, "relaxed")
        BY <2>2 DEF Check
      <3> QED BY <1>0, <3>1, LoadEffect
    <2> QED BY <2>1, <2>2
  <1>3. PICK w \in {<<"check">>, <<"accepted">>, <<"epoch">>} : pc' = [pc EXCEPT ![t] = w]
    BY DEF Barrier, Check, Goto
  <1>4. w \in Labels \ Opened
    BY <1>3, LookingFacts
  <1>5. pc'[t] = w /\ seen'[t] = seen[t] /\ copy'[t] = copy[t] /\ Newest(Epoch)' = Newest(Epoch)
    BY <1>0, <1>1, <1>2, <1>3 DEF IInv, ShapeOK, Newest
  <1>6. /\ seen[t] % 2 = 0 /\ seen[t] <= Newest(Epoch).val /\ Since(cur[t], seen[t] - 2)
        /\ \A p \in Pieces : 2 * copy[t][p] >= seen[t] - 2
    BY <1>1 DEF LowInv, LookupLow
  <1>7. Since(cur[t], seen[t] - 2)'
    <2>1. PICK n \in Int : n = seen[t] - 2
      BY <1>0, LowNumbers
    <2>2. Since(cur[t], n)'
      BY <1>0, <1>2, <1>6, <2>1, LocationFacts, ViewGrows
    <2> QED BY <1>5, <2>1, <2>2
  <1>8. \A q \in Pieces : pc'[t] # <<"load", q>>
    BY <1>3, <1>5, LookingFacts, LabelFacts, StoreLabels
  <1>9. LookupLow(t)'
    BY <1>5, <1>6, <1>7, <1>8 DEF LookupLow
  <1> QED BY <1>1, <1>2, <1>3, <1>4, <1>9, OutsideLow

LEMMA LowStep ==
    ASSUME "move" \notin Ops, LowInv, [Next]_vars
    PROVE  LowInv'
  <1>1. TInv'
    BY TypedStep DEF LowInv
  <1>2. CASE UNCHANGED vars
    <2>1. /\ UNCHANGED <<mem, cur, rel, pc, op, seen, copy>>
      BY <1>2 DEF vars, views
    <2> QED BY <1>1, <2>1 DEF LowInv, EpochsHandOn, HolderLow, LookupLow, Since, Reached, Newest
  <1>3. \A t \in Threads : op[t] # "move"
    BY DEF LowInv, TInv, LocalTypes
  <1>4. ASSUME NEW t \in Threads,
               \/ Call(t) \/ TakeFlag(t) \/ Announce(t) \/ Fence(t) \/ StorePiece(t)
               \/ Publish(t) \/ Clear(t) \/ LoadEpoch(t) \/ LoadPiece(t) \/ Barrier(t)
               \/ Check(t) \/ Return(t)
        PROVE LowInv'
    BY <1>1, <1>3, <1>4, IdleLow, FlagLow, AnnounceLow, FenceLow, StorePieceLow, PublishLow,
       LoadEpochLow, LoadPieceLow, EndOfLookupLow
  <1> QED BY <1>2, <1>4 DEF Next

\* What a lookup accepts has every update but the one that published the epoch it
\* compares with, of which it may have some pieces (seqlock.hpp:93, a relaxed store
\* of the even epoch), if every operation has the release fence behind its locks:
\* the epoch then hands on at least what its holder saw when it took the lock.
THEOREM OneUpdateIsMissedAtMost ==
    ASSUME "move" \notin Ops
    PROVE  Spec => []AcceptedPiecesMissOneUpdateAtMost
  <1>1. LowInv /\ [Next]_vars => LowInv'
    BY LowStep
  <1>2. Spec => []LowInv
    BY LowInit, <1>1, PTL DEF Spec
  <1>3. LowInv => AcceptedPiecesMissOneUpdateAtMost
    <2> SUFFICES ASSUME LowInv, NEW t \in Threads, pc[t] = <<"accepted">>, NEW p \in Pieces
                 PROVE  copy[t][p] >= (seen[t] \div 2) - 1
      BY DEF AcceptedPiecesMissOneUpdateAtMost
    <2>1. copy[t][p] \in Nat /\ seen[t] \in Nat
      BY LowNumbers DEF LowInv
    <2>2. 2 * copy[t][p] >= seen[t] - 2
      BY DEF LowInv, LookupLow
    <2> QED BY <2>1, <2>2
  <1> QED BY <1>2, <1>3, PTL
=============================================================================
