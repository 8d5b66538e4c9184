--------------------------- MODULE SyncTableProofs ---------------------------
(***************************************************************************)
(* For every set of keys and destinations, every capacity and every number *)
(* of calls, the SyncTable stays well formed and within its capacity, the  *)
(* key that was recorded last is always in it, its counters say what it    *)
(* holds, and that is what a least-recently-used map of this capacity      *)
(* would hold.                                                             *)
(***************************************************************************)
EXTENDS SyncTable, SyncTableLemmas, DataInduction

-----------------------------------------------------------------------------
(***************************************************************************)
(* The state machine.                                                      *)
(***************************************************************************)
\* The inductive invariant: types and consistency.
IInv == TypeOK /\ Consistent(table) /\ LatestFirst

\* The initial table is empty.
LEMMA InitIInv == Init => IInv
<1> SUFFICES ASSUME Init PROVE IInv
  OBVIOUS
<1>1. Consistent(table)
  BY EmptyConsistent DEF Init
<1>2. TypeOK
  BY <1>1, SyncTableAssumption DEF Init, TypeOK, Consistent
<1> QED BY <1>1, <1>2 DEF IInv, LatestFirst, Init

\* Every step keeps the inductive invariant.
LEMMA NextIInv == IInv /\ [Next]_vars => IInv'
<1> SUFFICES ASSUME IInv, [Next]_vars PROVE IInv'
  OBVIOUS
<1>1. CASE UNCHANGED vars
  <2>1. table' = table /\ history' = history
    BY <1>1 DEF vars
  <2>2. LatestFirst' /\ (Consistent(table))'
    BY <2>1 DEF IInv, LatestFirst, Consistent, WellFormed, IsTable, Keys, Members, Distinct
  <2>3. TypeOK'
    BY <1>1 DEF IInv, vars, TypeOK, IsTable, Keys
  <2> QED BY <2>2, <2>3 DEF IInv
<1>2. ASSUME NEW k \in Key, NEW d \in Dest, Record(k, d) PROVE IInv'
  <2>1. Consistent(table') /\ Len(table'.lru) >= 1 /\ table'.lru[1] = k
    BY <1>2, RecordConsistent DEF Record, IInv
  <2>2. AlmostConsistent(Recorded(table, k, d), k)
    BY RecordedAlmostConsistent DEF IInv
  <2>3. EvictCount(Recorded(table, k, d)) \in Nat
    BY <2>2, EvictsAtMostOne
  <2>4. /\ history' \in Seq([key : Key, dest : Dest])
        /\ history'[Len(history')].key = k
    BY <1>2 DEF Record, IInv, TypeOK
  <2>5. updates' \in 0..MaxUpdates /\ duplicates' \in 0..updates' /\ evictedTotal' \in Nat
    BY <1>2, <2>3, SyncTableAssumption DEF Record, EvictedNow, IInv, TypeOK
  <2>6. LatestFirst'
    BY <2>1, <2>4 DEF LatestFirst, Consistent, IsTable
  <2>7. TypeOK'
    BY <2>1, <2>4, <2>5 DEF TypeOK, Consistent, IsTable
  <2>8. (Consistent(table))'
    BY <2>1 DEF Consistent, WellFormed, Keys, Members, Distinct, IsTable
  <2> QED BY <2>6, <2>7, <2>8 DEF IInv
<1> QED BY <1>1, <1>2 DEF Next

\* In every reachable state of the SyncTable the state has its types, the list
\* and the map agree, no key or destination occurs twice, the table holds at
\* most Capacity keys and the key recorded last is the most recently used one.
THEOREM SyncTableCorrect ==
  Spec => [](TypeOK /\ TableWellFormed /\ LatestFirst)
<1>1. IInv => TypeOK /\ TableWellFormed /\ LatestFirst
  BY DEF IInv, TableWellFormed, Consistent
<1> QED BY <1>1, InitIInv, NextIInv, PTL DEF Spec

\* The call that records a key never evicts that key, for every capacity.
THEOREM SyncTableLatestFirst == Spec => []LatestFirst
  BY SyncTableCorrect, PTL
-----------------------------------------------------------------------------
(***************************************************************************)
(* The table is an LRU map.  The argument relates the table t to the calls *)
(* h made so far: a key stands behind exactly the keys used after its      *)
(* latest call (Ranked), a key that is gone has been pushed out by         *)
(* Capacity others (Gone), and so the destinations are those of the calls  *)
(* whose key was never pushed out since (Lists).                           *)
(***************************************************************************)
After(h, i, j) == {h[m].key : m \in (i + 1)..j}

Kept(h, i, j) ==
  \A m \in i..j :
    \E l \in i..m : /\ h[l].key = h[i].key
                    /\ Cardinality(After(h, l, m)) < Capacity

Ranked(t, h) ==
  \A p \in 1..Len(t.lru) :
    \E l \in 1..Len(h) : /\ h[l].key = t.lru[p]
                         /\ After(h, l, Len(h)) = Before(t.lru, p)

Gone(t, h) ==
  \A l \in 1..Len(h) :
    h[l].key \notin Keys(t) => Cardinality(After(h, l, Len(h))) >= Capacity

Lists(t, h) ==
  \A j \in Key, e \in Dest :
    (j \in Keys(t) /\ e \in Members(t.dests[j]))
      <=> \E i \in 1..Len(h) : /\ h[i] = [key |-> j, dest |-> e]
                               /\ Kept(h, i, Len(h))

\* The calls are finitely many, and so are their keys.
LEMMA AfterFinite ==
  ASSUME NEW h, NEW i \in Int, NEW j \in Int
  PROVE  IsFiniteSet(After(h, i, j)) /\ Cardinality(After(h, i, j)) \in Nat
<1> DEFINE S == (i + 1)..j
           f == [m \in S |-> h[m].key]
<1>1. IsFiniteSet(S)
  BY FS_Interval
<1>2. f \in Surjection(S, After(h, i, j))
  BY DEF Surjection, After
<1>3. IsFiniteSet(After(h, i, j))
  <2> HIDE DEF S, f
  <2> QED BY <1>1, <1>2, FS_Surjection
<1> QED BY <1>3, FS_CardinalityType

\* What one more call, for key k, adds to the keys used after an earlier one.
LEMMA AfterAppend ==
  ASSUME NEW C, NEW h \in Seq(C), NEW c \in C
  PROVE  LET g == Append(h, c)
             n == Len(h)
         IN  /\ \A l \in 1..n : After(g, l, n + 1) = After(h, l, n) \cup {c.key}
             /\ After(g, n + 1, n + 1) = {}
             /\ \A l, m \in 1..n : After(g, l, m) = After(h, l, m)
<1> DEFINE g == Append(h, c)
           n == Len(h)
<1>1. /\ n \in Nat /\ Len(g) = n + 1 /\ g[n + 1] = c
      /\ \A i \in 1..n : g[i] = h[i]
  OBVIOUS
<1> HIDE DEF g, n
<1>2. ASSUME NEW l \in 1..n PROVE After(g, l, n + 1) = After(h, l, n) \cup {c.key}
  <2>1. ASSUME NEW m \in (l + 1)..(n + 1)
        PROVE  g[m].key \in After(h, l, n) \cup {c.key}
    <3>1. m = n + 1 \/ m \in (l + 1)..n
      BY <1>1
    <3>2. CASE m = n + 1
      BY <3>2, <1>1
    <3>3. CASE m \in (l + 1)..n
      <4>1. m \in 1..n /\ g[m] = h[m]
        BY <3>3, <1>1
      <4> QED BY <3>3, <4>1 DEF After
    <3> QED BY <3>1, <3>2, <3>3
  <2>2. ASSUME NEW m \in (l + 1)..n PROVE h[m].key \in After(g, l, n + 1)
    <3>1. m \in 1..n /\ g[m] = h[m] /\ m \in (l + 1)..(n + 1)
      BY <1>1
    <3> QED BY <3>1 DEF After
  <2>3. c.key \in After(g, l, n + 1)
    <3>1. n + 1 \in (l + 1)..(n + 1)
      BY <1>1
    <3> QED BY <3>1, <1>1 DEF After
  <2>4. After(g, l, n + 1) \subseteq After(h, l, n) \cup {c.key}
    BY <2>1 DEF After
  <2>5. After(h, l, n) \cup {c.key} \subseteq After(g, l, n + 1)
    BY <2>2, <2>3 DEF After
  <2> QED BY <2>4, <2>5
<1>3. After(g, n + 1, n + 1) = {}
  BY <1>1 DEF After
<1>4. ASSUME NEW l \in 1..n, NEW m \in 1..n PROVE After(g, l, m) = After(h, l, m)
  <2>1. \A i \in (l + 1)..m : g[i] = h[i]
    BY <1>1
  <2> QED BY <2>1 DEF After
<1> QED BY <1>2, <1>3, <1>4 DEF g, n

\* A key is in front of no later use of itself: among the calls for the key at
\* position p, the one of Ranked is the last.
LEMMA RankedIsLatest ==
  ASSUME NEW t, NEW h, Len(h) \in Nat, Consistent(t), NEW p \in 1..Len(t.lru),
         NEW l \in 1..Len(h), After(h, l, Len(h)) = Before(t.lru, p),
         NEW i \in 1..Len(h), h[i].key = t.lru[p]
  PROVE  i <= l
<1> SUFFICES ASSUME ~(i <= l) PROVE FALSE
  OBVIOUS
<1>1. i \in (l + 1)..Len(h)
  OBVIOUS
<1>2. h[i].key \in After(h, l, Len(h))
  BY <1>1 DEF After
<1>3. PICK m \in 1..(p - 1) : t.lru[p] = t.lru[m]
  BY <1>2 DEF Before
<1>4. t.lru \in Seq(Key) /\ Distinct(t.lru)
  BY DEF Consistent, IsTable, WellFormed
<1>5. m \in 1..Len(t.lru) /\ m # p
  BY <1>4
<1> QED BY <1>3, <1>4, <1>5 DEF Distinct

\* Fewer than Capacity keys stand in front of a key of the table.
LEMMA FewBefore ==
  ASSUME NEW t, Consistent(t), NEW p \in 1..Len(t.lru)
  PROVE  Cardinality(Before(t.lru, p)) < Capacity
<1>1. /\ t.lru \in Seq(Key) /\ Distinct(t.lru) /\ Keys(t) = Members(t.lru)
      /\ IsFiniteSet(Keys(t)) /\ Cardinality(Keys(t)) \in Nat
      /\ Cardinality(Keys(t)) <= Capacity
  BY FS_CardinalityType DEF Consistent, IsTable, WellFormed
<1>2. t.lru[p] \in Keys(t)
  BY <1>1 DEF Members
<1>3. Before(t.lru, p) \subseteq Keys(t) \ {t.lru[p]}
  <2> SUFFICES ASSUME NEW m \in 1..(p - 1)
               PROVE  t.lru[m] \in Keys(t) \ {t.lru[p]}
    BY DEF Before
  <2>1. m \in 1..Len(t.lru) /\ m # p
    BY <1>1
  <2> QED BY <2>1, <1>1 DEF Distinct, Members
<1>4. /\ IsFiniteSet(Keys(t) \ {t.lru[p]})
      /\ Cardinality(Keys(t) \ {t.lru[p]}) = Cardinality(Keys(t)) - 1
  BY <1>1, <1>2, FS_RemoveElement
<1>5. /\ IsFiniteSet(Before(t.lru, p))
      /\ Cardinality(Before(t.lru, p)) <= Cardinality(Keys(t) \ {t.lru[p]})
  BY <1>3, <1>4, FS_Subset
<1>6. Cardinality(Before(t.lru, p)) \in Nat
  BY <1>5, FS_CardinalityType
<1> QED BY <1>1, <1>4, <1>5, <1>6, CapacityAssumption

\* A call keeps the order of the list the order of use.
LEMMA RankedStep ==
  ASSUME NEW t, NEW C, NEW h \in Seq(C), NEW c \in C, c.key \in Key, c.dest \in Dest,
         Consistent(t), Ranked(t, h)
  PROVE  Ranked(RecordDestination(t, c.key, c.dest), Append(h, c))
<1> DEFINE u == RecordDestination(t, c.key, c.dest)
           g == Append(h, c)
           n == Len(h)
<1>1. n \in Nat /\ Len(g) = n + 1 /\ g[n + 1] = c /\ \A i \in 1..n : g[i] = h[i]
  OBVIOUS
<1>2. /\ \A l \in 1..n : After(g, l, n + 1) = After(h, l, n) \cup {c.key}
      /\ After(g, n + 1, n + 1) = {}
  BY AfterAppend
<1>3. Consistent(u) /\ Len(u.lru) >= 1 /\ u.lru[1] = c.key
  BY RecordConsistent
<1>4. Follows(u.lru, t.lru, c.key)
  BY RecordMoves
<1> HIDE DEF u, g, n
<1>5. Len(u.lru) \in Nat
  BY <1>3 DEF Consistent, IsTable
<1> SUFFICES ASSUME NEW p \in 1..Len(u.lru)
             PROVE  \E l \in 1..(n + 1) : /\ g[l].key = u.lru[p]
                                          /\ After(g, l, n + 1) = Before(u.lru, p)
  BY <1>1 DEF Ranked, u, g
<1>6. CASE p = 1
  <2>1. Before(u.lru, p) = {}
    BY <1>6 DEF Before
  <2>2. n + 1 \in 1..(n + 1)
    BY <1>1
  <2> QED BY <2>1, <2>2, <1>1, <1>2, <1>3, <1>6
<1>7. CASE p # 1
  <2>1. p \in 2..Len(u.lru)
    BY <1>5, <1>7
  <2>2. PICK q \in 1..Len(t.lru) : /\ u.lru[p] = t.lru[q]
                                   /\ Before(u.lru, p) = Before(t.lru, q) \cup {c.key}
    BY <2>1, <1>4 DEF Follows
  <2>3. PICK l \in 1..n : h[l].key = t.lru[q] /\ After(h, l, n) = Before(t.lru, q)
    BY DEF Ranked, n
  <2>4. l \in 1..(n + 1) /\ g[l] = h[l] /\ After(g, l, n + 1) = After(h, l, n) \cup {c.key}
    BY <1>1, <1>2
  <2> QED BY <2>2, <2>3, <2>4
<1> QED BY <1>6, <1>7

\* A key that leaves the table, or stays out of it, was pushed out by Capacity
\* keys that were used after it.
LEMMA GoneStep ==
  ASSUME NEW t, NEW C, NEW h \in Seq(C), NEW c \in C, c.key \in Key, c.dest \in Dest,
         Consistent(t), Ranked(t, h), Gone(t, h)
  PROVE  Gone(RecordDestination(t, c.key, c.dest), Append(h, c))
<1> DEFINE u == RecordDestination(t, c.key, c.dest)
           g == Append(h, c)
           n == Len(h)
<1>1. n \in Nat /\ Len(g) = n + 1 /\ g[n + 1] = c /\ \A i \in 1..n : g[i] = h[i]
  OBVIOUS
<1>2. \A l \in 1..n : After(g, l, n + 1) = After(h, l, n) \cup {c.key}
  BY AfterAppend
<1>3. /\ c.key \in Keys(u)
      /\ \A j \in Keys(t) \ Keys(u) :
           /\ c.key \notin Keys(t)
           /\ Cardinality(Keys(t)) = Capacity
           /\ Len(t.lru) \in 1..Len(t.lru)
           /\ t.lru[Len(t.lru)] = j
           /\ Before(t.lru, Len(t.lru)) = Keys(t) \ {j}
  BY RecordMoves
<1> HIDE DEF u, g, n
<1> SUFFICES ASSUME NEW l \in 1..(n + 1), g[l].key \notin Keys(u)
             PROVE  Cardinality(After(g, l, n + 1)) >= Capacity
  BY <1>1 DEF Gone, u, g
<1> DEFINE j == h[l].key
<1>4. l \in 1..n /\ g[l] = h[l] /\ j \notin Keys(u) /\ j # c.key
  <2>1. l # n + 1
    BY <1>1, <1>3
  <2>2. l \in 1..n
    BY <2>1, <1>1
  <2> QED BY <2>2, <1>1, <1>3
<1>5. After(g, l, n + 1) = After(h, l, n) \cup {c.key}
  BY <1>2, <1>4
<1>6. /\ IsFiniteSet(After(h, l, n)) /\ Cardinality(After(h, l, n)) \in Nat
      /\ IsFiniteSet(After(g, l, n + 1)) /\ Cardinality(After(g, l, n + 1)) \in Nat
  <2>1. l \in Int /\ n \in Int /\ n + 1 \in Int
    BY <1>1
  <2> QED BY <2>1, AfterFinite
<1>7. CASE j \notin Keys(t)
  <2>1. Cardinality(After(h, l, n)) >= Capacity
    BY <1>4, <1>7 DEF Gone, n
  <2>2. Cardinality(After(h, l, n)) <= Cardinality(After(g, l, n + 1))
    BY <1>5, <1>6, FS_Subset
  <2> QED BY <2>1, <2>2, <1>6, CapacityAssumption
<1>8. CASE j \in Keys(t)
  <2>1. /\ c.key \notin Keys(t)
        /\ Cardinality(Keys(t)) = Capacity
        /\ Len(t.lru) \in 1..Len(t.lru)
        /\ t.lru[Len(t.lru)] = j
        /\ Before(t.lru, Len(t.lru)) = Keys(t) \ {j}
    BY <1>3, <1>4, <1>8
  <2>2. PICK i \in 1..n : /\ h[i].key = t.lru[Len(t.lru)]
                          /\ After(h, i, n) = Before(t.lru, Len(t.lru))
    BY <2>1 DEF Ranked, n
  <2>3. l <= i
    BY <2>1, <2>2, <1>1, <1>4, RankedIsLatest DEF n
  <2>4. After(h, i, n) \subseteq After(h, l, n)
    <3>1. (i + 1)..n \subseteq (l + 1)..n
      BY <2>3, <1>1
    <3> QED BY <3>1 DEF After
  <2> DEFINE S == (Keys(t) \ {j}) \cup {c.key}
  <2>5. S \subseteq After(g, l, n + 1)
    BY <2>1, <2>2, <2>4, <1>5
  <2>6. IsFiniteSet(Keys(t)) /\ Cardinality(Keys(t)) \in Nat
    BY FS_CardinalityType DEF Consistent
  <2>7. IsFiniteSet(Keys(t) \ {j}) /\ Cardinality(Keys(t) \ {j}) = Capacity - 1
    BY <2>1, <2>6, <1>8, FS_RemoveElement
  <2>8. Cardinality(S) = Capacity
    <3>1. c.key \notin Keys(t) \ {j}
      BY <2>1
    <3>2. Cardinality(S) = Cardinality(Keys(t) \ {j}) + 1
      BY <2>7, <3>1, FS_AddElement
    <3> QED BY <3>2, <2>7, CapacityAssumption
  <2> HIDE DEF S
  <2>9. Cardinality(S) <= Cardinality(After(g, l, n + 1))
    BY <2>5, <1>6, FS_Subset
  <2> QED BY <2>8, <2>9, <1>6, CapacityAssumption
<1> QED BY <1>7, <1>8

\* After a call the earlier calls that still count are those that counted
\* before it and whose key is still in the table.
LEMMA KeptStep ==
  ASSUME NEW u, NEW C, NEW h \in Seq(C), NEW c \in C, NEW i \in 1..Len(h),
         Consistent(u), Ranked(u, Append(h, c)), Gone(u, Append(h, c))
  PROVE  Kept(Append(h, c), i, Len(h) + 1)
           <=> Kept(h, i, Len(h)) /\ h[i].key \in Keys(u)
<1> DEFINE g == Append(h, c)
           n == Len(h)
<1>1. n \in Nat /\ Len(g) = n + 1 /\ g[n + 1] = c /\ \A m \in 1..n : g[m] = h[m]
  OBVIOUS
<1>2. \A l, m \in 1..n : After(g, l, m) = After(h, l, m)
  BY AfterAppend
<1> HIDE DEF g, n
<1>3. i \in 1..n /\ i \in 1..(n + 1) /\ g[i] = h[i]
  BY <1>1 DEF n
<1> DEFINE At(f, m) == \E l \in i..m : /\ f[l].key = f[i].key
                                       /\ Cardinality(After(f, l, m)) < Capacity
<1>4. ASSUME NEW m \in i..n PROVE At(g, m) <=> At(h, m)
  <2>1. m \in 1..n /\ \A l \in i..m : l \in 1..n
    BY <1>1, <1>3
  <2>2. \A l \in i..m : g[l] = h[l] /\ After(g, l, m) = After(h, l, m)
    BY <2>1, <1>1, <1>2
  <2> QED BY <2>2, <1>3
<1>5. At(g, n + 1) <=> h[i].key \in Keys(u)
  <2>1. ASSUME At(g, n + 1), h[i].key \notin Keys(u) PROVE FALSE
    <3>1. PICK l \in i..(n + 1) : /\ g[l].key = g[i].key
                                  /\ Cardinality(After(g, l, n + 1)) < Capacity
      BY <2>1
    <3>2. l \in 1..(n + 1)
      BY <1>3
    <3>3. g[l].key \notin Keys(u)
      BY <3>1, <2>1, <1>3
    <3>4. Cardinality(After(g, l, n + 1)) >= Capacity
      BY <3>2, <3>3, <1>1 DEF Gone, g
    <3>5. Cardinality(After(g, l, n + 1)) \in Nat
      <4>1. l \in Int /\ n + 1 \in Int
        BY <1>1
      <4> QED BY <4>1, AfterFinite
    <3> QED BY <3>1, <3>4, <3>5, CapacityAssumption
  <2>2. ASSUME h[i].key \in Keys(u) PROVE At(g, n + 1)
    <3>1. PICK p \in 1..Len(u.lru) : u.lru[p] = h[i].key
      BY <2>2 DEF Consistent, WellFormed, Members
    <3>2. PICK l \in 1..(n + 1) : /\ g[l].key = u.lru[p]
                                  /\ After(g, l, n + 1) = Before(u.lru, p)
      BY <1>1 DEF Ranked, g
    <3>3. i <= l
      <4>1. /\ Len(g) \in Nat /\ l \in 1..Len(g) /\ i \in 1..Len(g)
            /\ After(g, l, Len(g)) = Before(u.lru, p) /\ g[i].key = u.lru[p]
        BY <3>1, <3>2, <1>1, <1>3
      <4> QED BY <4>1, RankedIsLatest
    <3>4. l \in i..(n + 1)
      BY <3>3, <1>3
    <3>5. Cardinality(After(g, l, n + 1)) < Capacity
      BY <3>2, FewBefore
    <3> QED BY <3>1, <3>2, <3>4, <3>5, <1>3
  <2> QED BY <2>1, <2>2
<1>6. Kept(g, i, n + 1) <=> (\A m \in i..(n + 1) : At(g, m))
  BY DEF Kept
<1>7. Kept(h, i, n) <=> (\A m \in i..n : At(h, m))
  BY DEF Kept
<1> HIDE DEF At
<1>8. /\ n + 1 \in i..(n + 1)
      /\ \A m \in i..n : m \in i..(n + 1)
      /\ \A m \in i..(n + 1) : m \in i..n \/ m = n + 1
  BY <1>1, <1>3
<1>9. Kept(g, i, n + 1) <=> Kept(h, i, n) /\ h[i].key \in Keys(u)
  BY <1>4, <1>5, <1>6, <1>7, <1>8
<1> QED BY <1>9 DEF g, n

\* A call keeps the contents those of an LRU map.
LEMMA ListsStep ==
  ASSUME NEW t, NEW k \in Key, NEW d \in Dest, NEW h \in Seq([key : Key, dest : Dest]),
         Consistent(t), Ranked(t, h), Gone(t, h), Lists(t, h)
  PROVE  Lists(RecordDestination(t, k, d), Append(h, [key |-> k, dest |-> d]))
<1> DEFINE c == [key |-> k, dest |-> d]
           u == RecordDestination(t, k, d)
           g == Append(h, c)
           n == Len(h)
<1>1. c \in [key : Key, dest : Dest] /\ c.key = k /\ c.dest = d
  OBVIOUS
<1>2. n \in Nat /\ Len(g) = n + 1 /\ g[n + 1] = c /\ \A i \in 1..n : g[i] = h[i]
  OBVIOUS
<1>3. Consistent(u)
  BY RecordConsistent
<1>4. /\ Keys(u) \subseteq Keys(t) \cup {k}
      /\ k \in Keys(u)
      /\ \A j \in Keys(u) \ {k} : u.dests[j] = t.dests[j]
      /\ u.dests[k] = IF k \in Keys(t) THEN AddNew(t.dests[k], d) ELSE <<d>>
  BY RecordMoves
<1> HIDE DEF c, u
<1>5. Ranked(u, g) /\ Gone(u, g)
  BY <1>1, RankedStep, GoneStep DEF u
<1>6. \A i \in 1..n : Kept(g, i, n + 1) <=> Kept(h, i, n) /\ h[i].key \in Keys(u)
  BY <1>1, <1>3, <1>5, KeptStep
<1>7. Kept(g, n + 1, n + 1)
  <2>1. After(g, n + 1, n + 1) = {}
    BY <1>1, AfterAppend
  <2> HIDE DEF g, n
  <2>2. Cardinality(After(g, n + 1, n + 1)) < Capacity
    <3>1. Cardinality({}) = 0
      BY FS_EmptySet
    <3>2. 0 < Capacity
      BY CapacityAssumption
    <3> QED BY <2>1, <3>1, <3>2
  <2>3. \A m \in (n + 1)..(n + 1) : m = n + 1 /\ n + 1 \in (n + 1)..m
    BY <1>2
  <2> QED BY <2>2, <2>3 DEF Kept
<1> HIDE DEF g, n
<1>8. \A j \in Key, e \in Dest :
        (\E i \in 1..(n + 1) : g[i] = [key |-> j, dest |-> e] /\ Kept(g, i, n + 1))
          <=> \/ j = k /\ e = d
              \/ j \in Keys(u) /\ \E i \in 1..n : h[i] = [key |-> j, dest |-> e] /\ Kept(h, i, n)
  <2> TAKE j \in Key, e \in Dest
  <2> DEFINE b == [key |-> j, dest |-> e]
  <2>1. /\ \A i \in 1..(n + 1) : i \in 1..n \/ i = n + 1
        /\ \A i \in 1..n : i \in 1..(n + 1)
        /\ n + 1 \in 1..(n + 1)
    BY <1>2
  <2>2. c = b <=> j = k /\ e = d
    BY DEF c
  <2>3. b.key = j
    OBVIOUS
  <2> HIDE DEF b
  <2>4. (\E i \in 1..(n + 1) : g[i] = b /\ Kept(g, i, n + 1))
          <=> (c = b \/ \E i \in 1..n : h[i] = b /\ Kept(g, i, n + 1))
    BY <2>1, <1>2, <1>7
  <2>5. (\E i \in 1..n : h[i] = b /\ Kept(g, i, n + 1))
          <=> (j \in Keys(u) /\ \E i \in 1..n : h[i] = b /\ Kept(h, i, n))
    BY <2>3, <1>6
  <2> QED BY <2>2, <2>4, <2>5 DEF b
<1>9. \A j \in Key, e \in Dest :
        (j \in Keys(u) /\ e \in Members(u.dests[j]))
          <=> \/ j = k /\ e = d
              \/ j \in Keys(u) /\ j \in Keys(t) /\ e \in Members(t.dests[j])
  <2> TAKE j \in Key, e \in Dest
  <2>1. CASE j # k
    BY <2>1, <1>4
  <2>2. CASE j = k /\ k \in Keys(t)
    <3>1. t.dests[k] \in Seq(Dest)
      BY <2>2 DEF Consistent, IsTable
    <3>2. Members(u.dests[k]) = Members(t.dests[k]) \cup {d}
      BY <3>1, <2>2, <1>4, AddNewMembers
    <3> QED BY <3>2, <2>2, <1>4
  <2>3. CASE j = k /\ k \notin Keys(t)
    <3>1. Members(u.dests[k]) = {d}
      BY <2>3, <1>4 DEF Members
    <3> QED BY <3>1, <2>3, <1>4
  <2> QED BY <2>1, <2>2, <2>3
<1>10. \A j \in Key, e \in Dest :
         (j \in Keys(t) /\ e \in Members(t.dests[j]))
           <=> \E i \in 1..n : h[i] = [key |-> j, dest |-> e] /\ Kept(h, i, n)
  BY DEF Lists, n
<1>11. \A j \in Key, e \in Dest :
         (j \in Keys(u) /\ e \in Members(u.dests[j]))
           <=> \E i \in 1..(n + 1) : g[i] = [key |-> j, dest |-> e] /\ Kept(g, i, n + 1)
  <2> TAKE j \in Key, e \in Dest
  <2> DEFINE A == \E i \in 1..(n + 1) : g[i] = [key |-> j, dest |-> e] /\ Kept(g, i, n + 1)
             B == \E i \in 1..n : h[i] = [key |-> j, dest |-> e] /\ Kept(h, i, n)
  <2>1. A <=> (\/ j = k /\ e = d
               \/ j \in Keys(u) /\ B)
    BY <1>8
  <2>2. (j \in Keys(t) /\ e \in Members(t.dests[j])) <=> B
    BY <1>10
  <2>3. (j \in Keys(u) /\ e \in Members(u.dests[j]))
          <=> (\/ j = k /\ e = d
               \/ j \in Keys(u) /\ j \in Keys(t) /\ e \in Members(t.dests[j]))
    BY <1>9
  <2> HIDE DEF A, B
  <2>4. (j \in Keys(u) /\ e \in Members(u.dests[j])) <=> A
    BY <2>1, <2>2, <2>3
  <2> QED BY <2>4 DEF A
<1>12. Lists(u, g)
  BY <1>2, <1>11 DEF Lists
<1> QED BY <1>12 DEF u, g, c

\* The inductive invariant for the contents.
LruInv == IInv /\ Ranked(table, history) /\ Gone(table, history) /\ Lists(table, history)

\* At the start there are no calls and no keys.
LEMMA InitLruInv == Init => LruInv
<1> SUFFICES ASSUME Init PROVE LruInv
  OBVIOUS
<1>1. IInv
  BY InitIInv
<1>2. history = <<>> /\ table.lru = <<>> /\ Keys(table) = {}
  BY DEF Init, EmptyTable, Keys
<1> QED BY <1>1, <1>2 DEF LruInv, Ranked, Gone, Lists

\* Every call keeps it.
LEMMA NextLruInv == LruInv /\ [Next]_vars => LruInv'
<1> SUFFICES ASSUME LruInv, [Next]_vars PROVE LruInv'
  OBVIOUS
<1>1. IInv'
  BY NextIInv DEF LruInv
<1>2. CASE UNCHANGED vars
  <2>1. table' = table /\ history' = history
    BY <1>2 DEF vars
  <2>2. /\ Ranked(table', history') /\ Gone(table', history') /\ Lists(table', history')
    BY <2>1 DEF LruInv
  <2> QED BY <1>1, <2>2 DEF LruInv, Ranked, Gone, Lists, Keys, Before, Members, After, Kept
<1>3. ASSUME NEW k \in Key, NEW d \in Dest, Record(k, d) PROVE LruInv'
  <2> DEFINE c == [key |-> k, dest |-> d]
  <2>1. /\ history \in Seq([key : Key, dest : Dest]) /\ Consistent(table)
        /\ Ranked(table, history) /\ Gone(table, history) /\ Lists(table, history)
    BY DEF LruInv, IInv, TypeOK
  <2>2. table' = RecordDestination(table, k, d) /\ history' = Append(history, c)
    BY <1>3 DEF Record
  <2>3. c \in [key : Key, dest : Dest] /\ c.key = k /\ c.dest = d
    OBVIOUS
  <2>4. Lists(table', history')
    BY <2>1, <2>2, ListsStep
  <2> HIDE DEF c
  <2>5. Ranked(table', history') /\ Gone(table', history')
    BY <2>1, <2>2, <2>3, RankedStep, GoneStep
  <2> QED BY <1>1, <2>4, <2>5 DEF LruInv, Ranked, Gone, Lists, Keys, Before, Members, After, Kept
<1> QED BY <1>2, <1>3 DEF Next

\* In every reachable state the SyncTable lists a destination under a key exactly
\* when an LRU map of this capacity would: it was recorded, and since then fewer
\* than Capacity other keys were ever recorded after the latest call for its key.
THEOREM SyncTableIsLru == Spec => []TableIsLru
<1>1. LruInv => TableIsLru
  <2> SUFFICES ASSUME LruInv, NEW k \in Key, NEW d \in Dest
               PROVE  (\E i \in 1..Len(Destinations(table, k)) : table.dests[k][i] = d)
                        <=> \E i \in 1..Len(history) :
                              /\ history[i] = [key |-> k, dest |-> d]
                              /\ KeptSince(i, Len(history))
    BY DEF TableIsLru
  <2>1. \A i, j : KeysAfter(i, j) = After(history, i, j)
    BY DEF KeysAfter, After
  <2>2. \A i, j : KeptSince(i, j) <=> Kept(history, i, j)
    BY <2>1 DEF KeptSince, Kept
  <2>3. (\E i \in 1..Len(Destinations(table, k)) : table.dests[k][i] = d)
          <=> k \in Keys(table) /\ d \in Members(table.dests[k])
    BY DEF Destinations, Members
  <2>4. (k \in Keys(table) /\ d \in Members(table.dests[k]))
          <=> \E i \in 1..Len(history) : /\ history[i] = [key |-> k, dest |-> d]
                                         /\ Kept(history, i, Len(history))
    BY DEF LruInv, Lists
  <2> QED BY <2>2, <2>3, <2>4
<1> QED BY <1>1, InitLruInv, NextLruInv, PTL DEF Spec

-----------------------------------------------------------------------------
(***************************************************************************)
(* The counters.                                                           *)
(***************************************************************************)

\* The number of destinations under a set of keys is a sum.
LEMMA DestinationCountSum ==
  ASSUME NEW t, NEW S, IsFiniteSet(S), \A k \in S : Len(t.dests[k]) \in Nat
  PROVE  \E g \in [SUBSET S -> Nat] :
           /\ IsSum(g, S, [k \in S |-> Len(t.dests[k])])
           /\ DestinationCount(t, S) = g[S]
<1> DEFINE w == [k \in S |-> Len(t.dests[k])]
           body(g, s) == IF s = {} THEN 0
                         ELSE Len(t.dests[CHOOSE x \in s : TRUE]) + g[s \ {CHOOSE x \in s : TRUE}]
           iter == CHOOSE iter : iter = [s \in SUBSET S |-> body(iter, s)]
<1>1. DestinationCount(t, S) = iter[S]
  BY DEF DestinationCount, MapThenSumSet, MapThenFoldSet
<1>2. PICK g \in [SUBSET S -> Nat] : IsSum(g, S, w)
  <2>1. w \in [S -> Nat]
    OBVIOUS
  <2> HIDE DEF w
  <2> QED BY <2>1, SumExists
<1>3. g = [s \in SUBSET S |-> body(g, s)]
  <2>1. ASSUME NEW s \in SUBSET S PROVE g[s] = body(g, s)
    <3>1. CASE s = {}
      BY <1>2, <3>1 DEF IsSum
    <3>2. CASE s # {}
      <4>1. (CHOOSE x \in s : TRUE) \in S
        BY <3>2
      <4>2. g[s] = w[CHOOSE x \in s : TRUE] + g[s \ {CHOOSE x \in s : TRUE}]
        BY <1>2, <3>2 DEF IsSum
      <4> QED BY <3>2, <4>1, <4>2
    <3> QED BY <3>1, <3>2
  <2> HIDE DEF body
  <2> QED BY <1>2, <2>1
<1>4. iter = [s \in SUBSET S |-> body(iter, s)]
  BY <1>3
<1>5. IsSum(iter, S, w)
  <2> HIDE DEF iter
  <2>1. iter[{}] = 0
    BY <1>4
  <2>2. ASSUME NEW s \in SUBSET S, s # {}
        PROVE  iter[s] = w[CHOOSE x \in s : TRUE] + iter[s \ {CHOOSE x \in s : TRUE}]
    <3>1. (CHOOSE x \in s : TRUE) \in S
      BY <2>2
    <3> QED BY <1>4, <2>2, <3>1
  <2> QED BY <2>1, <2>2 DEF IsSum
<1>6. g[S] = iter[S]
  <2> HIDE DEF iter, w
  <2>1. S \in SUBSET (S \cap S) /\ \A x \in S : w[x] = w[x]
    OBVIOUS
  <2> QED BY <1>2, <1>5, <2>1, SumOfSame
<1> QED BY <1>1, <1>2, <1>6

\* It depends only on the vectors of these keys.
LEMMA DestinationCountSame ==
  ASSUME NEW t, NEW u, NEW S, IsFiniteSet(S),
         \A k \in S : Len(t.dests[k]) \in Nat /\ u.dests[k] = t.dests[k]
  PROVE  DestinationCount(u, S) = DestinationCount(t, S)
<1> DEFINE v == [k \in S |-> Len(t.dests[k])]
           w == [k \in S |-> Len(u.dests[k])]
<1>1. PICK g \in [SUBSET S -> Nat] : IsSum(g, S, v) /\ DestinationCount(t, S) = g[S]
  BY DestinationCountSum
<1>2. PICK h \in [SUBSET S -> Nat] : IsSum(h, S, w) /\ DestinationCount(u, S) = h[S]
  BY DestinationCountSum
<1>3. \A k \in S : v[k] = w[k]
  OBVIOUS
<1> HIDE DEF v, w
<1> QED BY <1>1, <1>2, <1>3, SumOfSame

\* One key contributes its vector.
LEMMA DestinationCountRemove ==
  ASSUME NEW t, NEW S, IsFiniteSet(S), \A k \in S : Len(t.dests[k]) \in Nat
  PROVE  /\ DestinationCount(t, S) \in Nat
         /\ S = {} => DestinationCount(t, S) = 0
         /\ \A x \in S :
              DestinationCount(t, S) = Len(t.dests[x]) + DestinationCount(t, S \ {x})
<1>0. PICK w : w = [k \in S |-> Len(t.dests[k])]
  OBVIOUS
<1>1. PICK g \in [SUBSET S -> Nat] : IsSum(g, S, w) /\ DestinationCount(t, S) = g[S]
  BY <1>0, DestinationCountSum
<1>2. DestinationCount(t, S) \in Nat
  BY <1>1
<1>3. S = {} => DestinationCount(t, S) = 0
  BY <1>1 DEF IsSum
<1>4. ASSUME NEW x \in S
      PROVE  DestinationCount(t, S) = Len(t.dests[x]) + DestinationCount(t, S \ {x})
  <2> DEFINE R == S \ {x}
             v == [k \in R |-> Len(t.dests[k])]
  <2>1. IsFiniteSet(R) /\ \A k \in R : Len(t.dests[k]) \in Nat
    BY FS_RemoveElement
  <2>2. PICK h \in [SUBSET R -> Nat] : IsSum(h, R, v) /\ DestinationCount(t, R) = h[R]
    BY <2>1, DestinationCountSum
  <2>3. w \in [S -> Nat] /\ \A k \in R : w[k] = v[k]
    BY <1>0
  <2>4. w[x] = Len(t.dests[x])
    BY <1>0
  <2> HIDE DEF v
  <2>5. g[S] = w[x] + g[R]
    <3>1. IsSum(g, S, w) /\ w \in [S -> Nat]
      BY <1>1, <2>3
    <3>2. TakesAny(g, S, w)
      BY <3>1, SumOfAny
    <3>3. S \in SUBSET S
      OBVIOUS
    <3> QED BY <3>2, <3>3 DEF TakesAny
  <2>6. g[R] = h[R]
    <3>1. R \in SUBSET (S \cap R)
      OBVIOUS
    <3> HIDE DEF R
    <3> QED BY <1>1, <2>1, <2>2, <2>3, <3>1, SumOfSame
  <2> QED BY <1>1, <2>2, <2>4, <2>5, <2>6
<1> QED BY <1>2, <1>3, <1>4

\* One for a call that adds a destination, nothing for a duplicate.
Added(t, k, d) == IF IsDuplicate(t, k, d) THEN 0 ELSE 1

\* All destinations of a table.
AllDestinations(t) == DestinationCount(t, Keys(t))

\* A table has as many destinations as a number says.
LEMMA TableCounts ==
  ASSUME NEW t, IsTable(t), IsFiniteSet(Keys(t))
  PROVE  /\ \A k \in Keys(t) : t.dests[k] \in Seq(Dest) /\ Len(t.dests[k]) \in Nat
         /\ AllDestinations(t) \in Nat
<1>1. \A k \in Keys(t) : t.dests[k] \in Seq(Dest) /\ Len(t.dests[k]) \in Nat
  BY DEF IsTable
<1> QED BY <1>1, DestinationCountRemove DEF AllDestinations

\* Before eviction a call has added its destination, unless it is a duplicate.
LEMMA RecordedCounts ==
  ASSUME NEW t, NEW k \in Key, NEW d \in Dest, Consistent(t)
  PROVE  /\ AllDestinations(Recorded(t, k, d)) = AllDestinations(t) + Added(t, k, d)
         /\ Cardinality(Keys(Recorded(t, k, d))) <= Cardinality(Keys(t)) + Added(t, k, d)
<1> DEFINE r == Recorded(t, k, d)
           K == Keys(t)
<1>0. /\ t.dests \in [K -> Seq(Dest)] /\ IsFiniteSet(K) /\ Cardinality(K) \in Nat
      /\ \A j \in K : t.dests[j] \in Seq(Dest) /\ Len(t.dests[j]) \in Nat
      /\ AllDestinations(t) \in Nat
  BY FS_CardinalityType, TableCounts DEF Consistent, IsTable
<1>1. CASE k \in K
  <2>1. r.dests = [t.dests EXCEPT ![k] = AddNew(@, d)]
    BY <1>1 DEF Recorded
  <2>2. Keys(r) = K
    BY <1>0, <2>1 DEF Keys
  <2>3. r.dests[k] = AddNew(t.dests[k], d) /\ \A j \in K \ {k} : r.dests[j] = t.dests[j]
    BY <1>0, <1>1, <2>1
  <2> HIDE DEF r
  <2>4. Len(r.dests[k]) = Len(t.dests[k]) + Added(t, k, d)
    <3>1. \A s \in Seq(Dest) : Len(AddNew(s, d)) =
            Len(s) + (IF \E i \in 1..Len(s) : s[i] = d THEN 0 ELSE 1)
      BY DEF AddNew
    <3>2. Added(t, k, d) = IF \E i \in 1..Len(t.dests[k]) : t.dests[k][i] = d THEN 0 ELSE 1
      BY <1>1 DEF Added, IsDuplicate, Destinations
    <3> QED BY <1>0, <1>1, <2>3, <3>1, <3>2
  <2>5. Added(t, k, d) \in Nat
    BY DEF Added
  <2>6. \A j \in K : Len(r.dests[j]) \in Nat
    BY <1>0, <1>1, <2>3, <2>4, <2>5
  <2>7. DestinationCount(t, K) = Len(t.dests[k]) + DestinationCount(t, K \ {k})
    BY <1>0, <1>1, DestinationCountRemove
  <2>8. DestinationCount(r, K) = Len(r.dests[k]) + DestinationCount(r, K \ {k})
    BY <1>0, <1>1, <2>6, DestinationCountRemove, ZenonT(40)
  <2>9. DestinationCount(r, K \ {k}) = DestinationCount(t, K \ {k})
    <3>1. IsFiniteSet(K \ {k})
      BY <1>0, FS_RemoveElement
    <3> QED BY <1>0, <2>3, <3>1, DestinationCountSame
  <2>10. DestinationCount(t, K \ {k}) \in Nat
    <3>1. IsFiniteSet(K \ {k})
      BY <1>0, FS_RemoveElement
    <3> QED BY <1>0, <3>1, DestinationCountRemove
  <2>11. AllDestinations(r) = AllDestinations(t) + Added(t, k, d)
    BY <1>0, <1>1, <2>2, <2>4, <2>5, <2>7, <2>8, <2>9, <2>10 DEF AllDestinations
  <2>12. Cardinality(Keys(r)) <= Cardinality(K) + Added(t, k, d)
    BY <1>0, <2>2, <2>5
  <2> QED BY <2>11, <2>12 DEF r
<1>2. CASE k \notin K
  <2>1. r.dests = [j \in K \cup {k} |-> IF j = k THEN <<d>> ELSE t.dests[j]]
    BY <1>2 DEF Recorded
  <2>2. Keys(r) = K \cup {k}
    BY <2>1 DEF Keys
  <2>3. Len(r.dests[k]) = 1 /\ \A j \in K : r.dests[j] = t.dests[j]
    BY <1>2, <2>1
  <2> HIDE DEF r
  <2>4. Added(t, k, d) = 1
    BY <1>2 DEF Added, IsDuplicate, Destinations
  <2>5. IsFiniteSet(K \cup {k}) /\ Cardinality(K \cup {k}) = Cardinality(K) + 1
    BY <1>0, <1>2, FS_AddElement
  <2>6. \A j \in K \cup {k} : Len(r.dests[j]) \in Nat
    BY <1>0, <2>3
  <2>7. DestinationCount(r, K \cup {k})
          = Len(r.dests[k]) + DestinationCount(r, (K \cup {k}) \ {k})
    BY <2>5, <2>6, DestinationCountRemove
  <2>8. (K \cup {k}) \ {k} = K
    BY <1>2
  <2>9. DestinationCount(r, K) = DestinationCount(t, K)
    BY <1>0, <2>3, DestinationCountSame
  <2>10. AllDestinations(r) = AllDestinations(t) + Added(t, k, d)
    <3>1. AllDestinations(r) = Len(r.dests[k]) + DestinationCount(r, K)
      BY <2>2, <2>7, <2>8 DEF AllDestinations
    <3>2. DestinationCount(r, K) = AllDestinations(t)
      BY <2>9 DEF AllDestinations
    <3> QED BY <1>0, <2>3, <2>4, <3>1, <3>2
  <2>11. Cardinality(Keys(r)) <= Cardinality(K) + Added(t, k, d)
    BY <1>0, <2>2, <2>4, <2>5
  <2> QED BY <2>10, <2>11 DEF r
<1> QED BY <1>1, <1>2

\* Eviction removes as many destinations and keys as it counts.
LEMMA EvictCounts ==
  ASSUME NEW t, NEW k \in Key, AlmostConsistent(t, k)
  PROVE  /\ AllDestinations(t) = AllDestinations(EvictIfNeeded(t)) + DestinationsRemoved(t)
         /\ Cardinality(Keys(t)) = Cardinality(Keys(EvictIfNeeded(t))) + EvictCount(t)
         /\ DestinationsRemoved(t) \in Nat /\ EvictCount(t) \in Nat
<1> DEFINE u == EvictIfNeeded(t)
           K == Keys(t)
           n == Len(t.lru)
<1>0. /\ IsFiniteSet(K) /\ Cardinality(K) \in Nat /\ n \in Nat /\ n >= 1
      /\ \A j \in K : Len(t.dests[j]) \in Nat
      /\ K = Members(t.lru) /\ AllDestinations(t) \in Nat
  BY FS_CardinalityType, TableCounts DEF AlmostConsistent, IsTable
<1>1. DestinationCount(t, {}) = 0
  BY FS_EmptySet, DestinationCountRemove
<1>2. /\ Keys(u) = K \ Popped(t, EvictCount(t))
      /\ \A j \in Keys(u) : u.dests[j] = t.dests[j]
  BY DEF EvictIfNeeded, Keys
<1> HIDE DEF u
<1>3. CASE Cardinality(K) <= Capacity
  <2>1. EvictCount(t) = 0
    BY <1>3, EvictsAtMostOne
  <2>2. Popped(t, 0) = {}
    BY <1>0 DEF Popped
  <2>3. Keys(u) = K /\ Popped(t, EvictCount(t)) \cap K = {}
    BY <1>2, <2>1, <2>2
  <2>4. DestinationCount(u, K) = DestinationCount(t, K)
    BY <1>0, <1>2, <2>3, DestinationCountSame
  <2>5. DestinationsRemoved(t) = 0
    BY <1>1, <2>3 DEF DestinationsRemoved
  <2>6. AllDestinations(u) = AllDestinations(t)
    BY <2>3, <2>4 DEF AllDestinations
  <2> QED BY <1>0, <2>1, <2>3, <2>5, <2>6 DEF u
<1>4. CASE ~(Cardinality(K) <= Capacity)
  <2> DEFINE x == t.lru[n]
  <2>1. EvictCount(t) = 1
    BY <1>4, EvictsAtMostOne
  <2>2. Popped(t, 1) = {x} /\ x \in K
    BY <1>0 DEF Popped, Members
  <2> HIDE DEF x
  <2>3. Keys(u) = K \ {x} /\ Popped(t, EvictCount(t)) \cap K = {x}
    BY <1>2, <2>1, <2>2
  <2>4. IsFiniteSet(K \ {x}) /\ Cardinality(K \ {x}) = Cardinality(K) - 1
    BY <1>0, <2>2, FS_RemoveElement
  <2>5. DestinationCount(u, K \ {x}) = DestinationCount(t, K \ {x})
    BY <1>0, <1>2, <2>3, <2>4, DestinationCountSame
  <2>6. DestinationCount(t, K) = Len(t.dests[x]) + DestinationCount(t, K \ {x})
    BY <1>0, <2>2, DestinationCountRemove
  <2>7. DestinationCount(t, K \ {x}) \in Nat /\ Len(t.dests[x]) \in Nat
    BY <1>0, <2>2, <2>4, DestinationCountRemove
  <2>8. DestinationsRemoved(t) = Len(t.dests[x])
    <3>1. DestinationCount(t, {x}) = Len(t.dests[x]) + DestinationCount(t, {x} \ {x})
      BY <2>7, FS_Singleton, DestinationCountRemove
    <3>2. {x} \ {x} = {}
      OBVIOUS
    <3>3. DestinationsRemoved(t) = DestinationCount(t, {x})
      BY <2>3 DEF DestinationsRemoved
    <3>4. DestinationCount(t, {x} \ {x}) = 0
      BY <1>1, <3>2
    <3> QED BY <2>7, <3>1, <3>3, <3>4
  <2>9. AllDestinations(t) = AllDestinations(u) + DestinationsRemoved(t)
    BY <2>3, <2>5, <2>6, <2>7, <2>8 DEF AllDestinations
  <2>10. Cardinality(K) = Cardinality(Keys(u)) + EvictCount(t)
    BY <1>0, <2>1, <2>3, <2>4
  <2> QED BY <2>1, <2>7, <2>8, <2>9, <2>10 DEF u
<1> QED BY <1>3, <1>4

\* A call keeps the counters in step with the table.
LEMMA NextCounters == IInv /\ CountersAgree /\ [Next]_vars => CountersAgree'
<1> SUFFICES ASSUME IInv, CountersAgree, [Next]_vars PROVE CountersAgree'
  OBVIOUS
<1>1. CASE UNCHANGED vars
  <2>1. table' = table /\ destinationTotal' = destinationTotal /\ updates' = updates
        /\ duplicates' = duplicates /\ evictedTotal' = evictedTotal
    BY <1>1 DEF vars
  <2>2. AllDestinations(table)' = AllDestinations(table) /\ Keys(table)' = Keys(table)
    BY <2>1 DEF AllDestinations, DestinationCount, MapThenSumSet, MapThenFoldSet, Keys
  <2> QED BY <2>1, <2>2 DEF CountersAgree, AllDestinations
<1>2. ASSUME NEW k \in Key, NEW d \in Dest, Record(k, d) PROVE CountersAgree'
  <2> DEFINE r == Recorded(table, k, d)
             a == Added(table, k, d)
             m == DestinationsRemoved(r)
             c == EvictCount(r)
  <2>1. /\ Consistent(table) /\ updates \in Nat /\ duplicates \in Nat /\ evictedTotal \in Nat
    BY SyncTableAssumption DEF IInv, TypeOK
  <2>2. AlmostConsistent(r, k)
    BY <2>1, RecordedAlmostConsistent
  <2>3. table' = EvictIfNeeded(r) /\ Consistent(table')
    BY <1>2, <2>1, RecordConsistent DEF Record, RecordDestination
  <2>4. a \in {0, 1}
    BY DEF Added
  <2>5. /\ AllDestinations(r) = AllDestinations(table) + a
        /\ Cardinality(Keys(r)) <= Cardinality(Keys(table)) + a
    BY <2>1, RecordedCounts
  <2>6. /\ AllDestinations(r) = AllDestinations(table') + m
        /\ Cardinality(Keys(r)) = Cardinality(Keys(table')) + c
        /\ m \in Nat /\ c \in Nat
    BY <2>2, <2>3, EvictCounts
  <2>7. /\ updates' = updates + 1 /\ duplicates' = duplicates + (1 - a)
        /\ evictedTotal' = evictedTotal + c
        /\ destinationTotal' = Minus(destinationTotal + a, m)
    BY <1>2 DEF Record, Added, EvictedNow, TotalAfter
  <2>8. /\ AllDestinations(table') \in Nat /\ Cardinality(Keys(table')) \in Nat
        /\ Cardinality(Keys(table)) \in Nat
    <3>1. IsTable(table') /\ IsFiniteSet(Keys(table'))
      BY <2>3 DEF Consistent
    <3>2. IsFiniteSet(Keys(table))
      BY <2>1 DEF Consistent
    <3> QED BY <3>1, <3>2, TableCounts, FS_CardinalityType
  <2>9. /\ destinationTotal \in Nat /\ destinationTotal = AllDestinations(table)
        /\ destinationTotal <= updates - duplicates
        /\ Cardinality(Keys(table)) + evictedTotal <= updates - duplicates
    BY DEF CountersAgree, AllDestinations
  <2> HIDE DEF r, a, m, c
  <2>10. destinationTotal' = AllDestinations(table')
    BY <2>4, <2>5, <2>6, <2>7, <2>8, <2>9 DEF Minus
  <2>11. destinationTotal' <= updates' - duplicates'
    BY <2>1, <2>4, <2>5, <2>6, <2>7, <2>8, <2>9, <2>10
  <2>12. Cardinality(Keys(table')) + evictedTotal' <= updates' - duplicates'
    BY <2>1, <2>4, <2>5, <2>6, <2>7, <2>8, <2>9
  <2>13. AllDestinations(table)' = AllDestinations(table') /\ Keys(table)' = Keys(table')
    BY DEF AllDestinations, DestinationCount, MapThenSumSet, MapThenFoldSet, Keys
  <2> QED BY <2>8, <2>10, <2>11, <2>12, <2>13 DEF CountersAgree, AllDestinations
<1> QED BY <1>1, <1>2 DEF Next

\* The counters that stats() shows never drift from the table: the running total
\* is the sum of the destinations that are listed, although evict_if_needed
\* adjusts it key by key and stops at zero (it never has to), and every
\* destination and every key, listed or evicted, is accounted for by a call that
\* was not a duplicate.
THEOREM SyncTableCountersAgree == Spec => []CountersAgree
<1>1. Init => CountersAgree
  <2> SUFFICES ASSUME Init PROVE CountersAgree
    OBVIOUS
  <2>1. Keys(table) = {}
    BY DEF Init, EmptyTable, Keys
  <2>2. DestinationCount(table, {}) = 0
    <3>1. PICK t : t = table
      OBVIOUS
    <3>2. DestinationCount(t, {}) = 0
      BY FS_EmptySet, DestinationCountRemove
    <3> QED BY <3>1, <3>2
  <2>3. Cardinality({}) = 0
    BY FS_EmptySet
  <2> QED BY <2>1, <2>2, <2>3 DEF Init, CountersAgree
<1> QED BY <1>1, InitIInv, NextIInv, NextCounters, PTL DEF Spec
=============================================================================
