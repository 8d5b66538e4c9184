--------------------------- MODULE SyncTableLemmas ---------------------------
(***************************************************************************)
(* What record_destination does to a table, for every capacity and all     *)
(* sets of keys and destinations.                                          *)
(***************************************************************************)
EXTENDS SyncTableOps, Integers, FiniteSetTheorems, TLAPS

\* What holds between two calls.
Consistent(t) ==
  /\ IsTable(t)
  /\ IsFiniteSet(Keys(t))
  /\ WellFormed(t)

\* What holds inside a call, before evict_if_needed.
AlmostConsistent(t, k) ==
  /\ IsTable(t)
  /\ IsFiniteSet(Keys(t))
  /\ Keys(t) = Members(t.lru)
  /\ Distinct(t.lru)
  /\ Cardinality(Keys(t)) \in 0..(Capacity + 1)
  /\ \A j \in Keys(t) : t.dests[j] # <<>> /\ Distinct(t.dests[j])
  /\ Len(t.lru) >= 1 /\ t.lru[1] = k

\* A vector of destinations stays free of duplicates when record_destination
\* appends to it.
LEMMA AddNewDistinct ==
  ASSUME NEW D, NEW s \in Seq(D), NEW d \in D, Distinct(s)
  PROVE  /\ AddNew(s, d) \in Seq(D)
         /\ AddNew(s, d) # <<>>
         /\ Distinct(AddNew(s, d))
  BY DEF AddNew, Distinct

\* List r is list s with the key at p moved to the front: the keys before p move
\* back by one.
Shifted(r, s, p) ==
  /\ Len(r) = Len(s)
  /\ \A i \in 1..Len(s) :
       r[i] = IF i = 1 THEN s[p] ELSE IF i <= p THEN s[i - 1] ELSE s[i]

\* Where the keys are after touch erased the node at p and pushed its key at the
\* front.
LEMMA TouchShape ==
  ASSUME NEW K, NEW s \in Seq(K), NEW p \in 1..Len(s)
  PROVE  /\ <<s[p]>> \o EraseAt(s, p) \in Seq(K)
         /\ Shifted(<<s[p]>> \o EraseAt(s, p), s, p)
<1> DEFINE r == <<s[p]>> \o EraseAt(s, p)
<1>1. /\ r \in Seq(K)
      /\ Len(r) = Len(s)
      /\ \A i \in 1..Len(s) :
           r[i] = IF i = 1 THEN s[p] ELSE IF i <= p THEN s[i - 1] ELSE s[i]
  <2> DEFINE a == SubSeq(s, 1, p - 1)
             b == SubSeq(s, p + 1, Len(s))
  <2>1. a \in Seq(K) /\ Len(a) = p - 1 /\ \A i \in 1..(p - 1) : a[i] = s[i]
    OBVIOUS
  <2>2. b \in Seq(K) /\ Len(b) = Len(s) - p /\ \A i \in 1..(Len(s) - p) : b[i] = s[i + p]
    OBVIOUS
  <2>3. r = <<s[p]>> \o (a \o b) /\ s[p] \in K
    BY DEF EraseAt
  <2> HIDE DEF a, b, r
  <2>4. /\ a \o b \in Seq(K) /\ Len(a \o b) = Len(s) - 1
        /\ \A i \in 1..(Len(s) - 1) : (a \o b)[i] = IF i < p THEN s[i] ELSE s[i + 1]
    <3>1. a \o b \in Seq(K) /\ Len(a \o b) = Len(s) - 1
      <4>1. a \o b \in Seq(K) /\ Len(a \o b) = Len(a) + Len(b)
        <5>1. a \in Seq(K) /\ b \in Seq(K)
          BY <2>1, <2>2
        <5> QED BY ONLY <5>1
      <4>2. (p - 1) + (Len(s) - p) = Len(s) - 1
        OBVIOUS
      <4> QED BY <4>1, <4>2, <2>1, <2>2
    <3>2. ASSUME NEW i \in 1..(Len(s) - 1)
          PROVE  (a \o b)[i] = IF i < p THEN s[i] ELSE s[i + 1]
      <4>1. CASE i < p
        <5>1. i \in 1..Len(a) BY <4>1, <2>1
        <5>2. (a \o b)[i] = a[i] BY <5>1, <2>1, <2>2
        <5> QED BY <5>1, <5>2, <4>1, <2>1
      <4>2. CASE ~(i < p)
        <5>1. i \in (Len(a) + 1)..(Len(a) + Len(b)) /\ i - Len(a) \in 1..(Len(s) - p)
          BY <4>2, <2>1, <2>2
        <5>2. (a \o b)[i] = b[i - Len(a)] BY <5>1, <2>1, <2>2
        <5>3. (i - Len(a)) + p = i + 1 BY <2>1
        <5> QED BY <5>1, <5>2, <5>3, <4>2, <2>2
      <4> QED BY <4>1, <4>2
    <3> QED BY <3>1, <3>2
  <2>5. r \in Seq(K) /\ Len(r) = Len(s)
    BY <2>3, <2>4
  <2>6. ASSUME NEW i \in 1..Len(s)
        PROVE  r[i] = IF i = 1 THEN s[p] ELSE IF i <= p THEN s[i - 1] ELSE s[i]
    <3>1. CASE i = 1 BY <3>1, <2>3, <2>4
    <3>2. CASE i # 1
      <4>1. i - 1 \in 1..(Len(s) - 1) /\ r[i] = (a \o b)[i - 1]
        BY <3>2, <2>3, <2>4
      <4>2. (i - 1) + 1 = i /\ (i - 1 < p <=> i <= p)
        OBVIOUS
      <4> QED BY <4>1, <4>2, <2>4, <3>2
    <3> QED BY <3>1, <3>2
  <2> QED BY <2>5, <2>6
<1> QED BY <1>1 DEF Shifted

\* Erasing the node of a key and pushing the key at the front keeps the list
\* duplicate-free and with the same members (touch).
LEMMA TouchMoves ==
  ASSUME NEW K, NEW s \in Seq(K), NEW p \in 1..Len(s), Distinct(s)
  PROVE  /\ <<s[p]>> \o EraseAt(s, p) \in Seq(K)
         /\ Distinct(<<s[p]>> \o EraseAt(s, p))
         /\ Members(<<s[p]>> \o EraseAt(s, p)) = Members(s)
         /\ Len(<<s[p]>> \o EraseAt(s, p)) = Len(s)
         /\ (<<s[p]>> \o EraseAt(s, p))[1] = s[p]
<1> DEFINE r == <<s[p]>> \o EraseAt(s, p)
<1>1. /\ r \in Seq(K)
      /\ Len(r) = Len(s)
      /\ \A i \in 1..Len(s) :
           r[i] = IF i = 1 THEN s[p] ELSE IF i <= p THEN s[i - 1] ELSE s[i]
  BY TouchShape DEF r, Shifted
<1> HIDE DEF r
<1>2. Distinct(r)
  BY <1>1 DEF Distinct
<1>3. Members(r) = Members(s)
  <2>1. ASSUME NEW i \in 1..Len(s)
        PROVE  \E j \in 1..Len(s) : r[j] = s[i]
    <3>1. CASE i = p  BY <1>1, <3>1
    <3>2. CASE i < p  
      <4>1. i + 1 \in 1..Len(s) /\ r[i + 1] = s[i] BY <1>1, <3>2
      <4> QED BY <4>1
    <3>3. CASE i > p  BY <1>1, <3>3
    <3> QED BY <3>1, <3>2, <3>3
  <2>2. ASSUME NEW i \in 1..Len(s)
        PROVE  \E j \in 1..Len(s) : s[j] = r[i]
    BY <1>1
  <2>3. Members(s) \subseteq Members(r)
    <3> SUFFICES ASSUME NEW i \in 1..Len(s) PROVE s[i] \in Members(r)
      BY DEF Members
    <3>1. PICK j \in 1..Len(s) : r[j] = s[i]
      BY <2>1
    <3>2. j \in 1..Len(r)
      BY <1>1
    <3> QED BY <3>1, <3>2 DEF Members
  <2>4. Members(r) \subseteq Members(s)
    BY <2>2, <1>1, SMTT(40) DEF Members
  <2> QED BY <2>3, <2>4
<1> QED BY <1>1, <1>2, <1>3 DEF r

\* Before eviction the table is consistent but may hold one key too many.
LEMMA RecordedAlmostConsistent ==
  ASSUME NEW t, Consistent(t), NEW k \in Key, NEW d \in Dest
  PROVE  AlmostConsistent(Recorded(t, k, d), k)
<1> DEFINE u == Recorded(t, k, d)
<1>0. /\ t.lru \in Seq(Key)
      /\ t.dests \in [Keys(t) -> Seq(Dest)]
      /\ Keys(t) \subseteq Key
      /\ IsFiniteSet(Keys(t))
      /\ Cardinality(Keys(t)) \in Nat
  BY FS_CardinalityType DEF Consistent, IsTable, Keys
<1>1. CASE k \in Keys(t)
  <2> DEFINE p == LruIt(t, k)
  <2>1. \E i \in 1..Len(t.lru) : t.lru[i] = k
    BY <1>1 DEF Consistent, WellFormed, Members
  <2>2. p \in 1..Len(t.lru) /\ t.lru[p] = k
    BY <2>1 DEF LruIt
  <2>3. /\ u.lru = <<t.lru[p]>> \o EraseAt(t.lru, p)
        /\ u.dests = [t.dests EXCEPT ![k] = AddNew(@, d)]
        /\ u = [lru |-> u.lru, dests |-> u.dests]
    BY <1>1, <2>2 DEF Recorded, Touch
  <2>4. /\ u.lru \in Seq(Key) /\ Distinct(u.lru) /\ Members(u.lru) = Members(t.lru)
        /\ Len(u.lru) = Len(t.lru) /\ u.lru[1] = k
    <3> HIDE DEF p, u
    <3>1. Distinct(t.lru) /\ t.lru \in Seq(Key)
      BY <1>0 DEF Consistent, WellFormed
    <3> QED BY <3>1, <2>2, <2>3, TouchMoves
  <2>5. Keys(u) = Keys(t)
    BY <2>3, <1>0 DEF Keys
  <2>6. u.dests \in [Keys(t) -> Seq(Dest)]
    <3>1. AddNew(t.dests[k], d) \in Seq(Dest)
      BY <1>0, <1>1, AddNewDistinct DEF Consistent, WellFormed
    <3> QED BY <3>1, <2>3, <1>0, <1>1
  <2>7. \A j \in Keys(t) : u.dests[j] # <<>> /\ Distinct(u.dests[j])
    <3>1. AddNew(t.dests[k], d) # <<>> /\ Distinct(AddNew(t.dests[k], d))
      BY <1>0, <1>1, AddNewDistinct DEF Consistent, WellFormed
    <3>2. ASSUME NEW j \in Keys(t)
          PROVE  u.dests[j] = IF j = k THEN AddNew(t.dests[k], d) ELSE t.dests[j]
      BY <2>3, <1>0
    <3> QED BY <3>1, <3>2 DEF Consistent, WellFormed
  <2>8. IsTable(u)
    <3> HIDE DEF u
    <3> QED BY <2>3, <2>4, <2>5, <2>6, <1>0 DEF IsTable
  <2>9. Cardinality(Keys(u)) \in 0..(Capacity + 1)
    BY <2>5, <1>0, CapacityAssumption DEF Consistent, WellFormed
  <2> QED
    <3> HIDE DEF u, p
    <3>1. Len(u.lru) >= 1
      BY <2>2, <2>4, <1>0
    <3>2. Keys(u) = Members(u.lru)
      BY <2>4, <2>5 DEF Consistent, WellFormed
    <3>3. IsFiniteSet(Keys(u))
      BY <2>5, <1>0
    <3>4. AlmostConsistent(u, k)
      BY <2>4, <2>5, <2>7, <2>8, <2>9, <3>1, <3>2, <3>3 DEF AlmostConsistent
    <3> QED BY <3>4 DEF u
<1>2. CASE k \notin Keys(t)
  <2>1. /\ u.lru = <<k>> \o t.lru
        /\ u.dests = [j \in Keys(t) \cup {k} |-> IF j = k THEN <<d>> ELSE t.dests[j]]
        /\ u = [lru |-> u.lru, dests |-> u.dests]
    BY <1>2 DEF Recorded
  <2> HIDE DEF u
  <2>2. Keys(u) = Keys(t) \cup {k}
    BY <2>1 DEF Keys
  <2>3. /\ u.lru \in Seq(Key) /\ Len(u.lru) = Len(t.lru) + 1 /\ u.lru[1] = k
        /\ \A i \in 1..Len(t.lru) : u.lru[i + 1] = t.lru[i]
        /\ \A i \in 2..Len(u.lru) : u.lru[i] = t.lru[i - 1]
    BY <2>1, <1>0
  <2>4. \A i \in 1..Len(t.lru) : t.lru[i] # k
    BY <1>2 DEF Consistent, WellFormed, Members
  <2>5. Distinct(u.lru)
    <3> SUFFICES ASSUME NEW i \in 1..Len(u.lru), NEW j \in 1..Len(u.lru),
                        u.lru[i] = u.lru[j]
                 PROVE  i = j
      BY DEF Distinct
    <3>1. \A l \in 2..Len(u.lru) : l - 1 \in 1..Len(t.lru)
      BY <2>3, <1>0
    <3>2. \A l, m \in 1..Len(t.lru) : t.lru[l] = t.lru[m] => l = m
      BY DEF Consistent, WellFormed, Distinct
    <3>3. CASE i = 1
      BY <3>1, <3>3, <2>3, <2>4
    <3>4. CASE j = 1
      BY <3>1, <3>4, <2>3, <2>4
    <3>5. CASE i # 1 /\ j # 1
      <4>1. i \in 2..Len(u.lru) /\ j \in 2..Len(u.lru)
        BY <3>5, <2>3, <1>0
      <4>2. i - 1 = j - 1
        BY <4>1, <3>1, <3>2, <2>3
      <4> QED BY <4>2
    <3> QED BY <3>3, <3>4, <3>5
  <2>6. Members(u.lru) = Members(t.lru) \cup {k}
    <3>1. ASSUME NEW i \in 1..Len(u.lru)
          PROVE  u.lru[i] \in Members(t.lru) \cup {k}
      <4>1. CASE i = 1 BY <4>1, <2>3
      <4>2. CASE i # 1
        <5>1. i - 1 \in 1..Len(t.lru) /\ u.lru[i] = t.lru[i - 1]
          BY <4>2, <2>3, <1>0
        <5> QED BY <5>1 DEF Members
      <4> QED BY <4>1, <4>2
    <3>2. ASSUME NEW i \in 1..Len(t.lru)
          PROVE  t.lru[i] \in Members(u.lru)
      <4>1. i + 1 \in 1..Len(u.lru) BY <2>3, <1>0
      <4> QED BY <2>3, <4>1 DEF Members
    <3>3. k \in Members(u.lru)
      BY <2>3, <1>0 DEF Members
    <3> QED BY <3>1, <3>2, <3>3 DEF Members
  <2>7. /\ u.dests \in [Keys(t) \cup {k} -> Seq(Dest)]
        /\ \A j \in Keys(t) \cup {k} : u.dests[j] # <<>> /\ Distinct(u.dests[j])
    <3>1. <<d>> \in Seq(Dest) /\ <<d>> # <<>> /\ Distinct(<<d>>)
      BY DEF Distinct
    <3> QED BY <3>1, <2>1, <1>0 DEF Consistent, WellFormed
  <2>8. IsTable(u)
    <3>1. Keys(t) \cup {k} \in SUBSET Key
      BY <1>0
    <3> QED BY <3>1, <2>1, <2>2, <2>3, <2>7 DEF IsTable
  <2>9. IsFiniteSet(Keys(u)) /\ Cardinality(Keys(u)) = Cardinality(Keys(t)) + 1
    BY <2>2, <1>0, <1>2, FS_AddElement
  <2>10. Cardinality(Keys(u)) \in 0..(Capacity + 1)
    BY <2>9, <1>0, CapacityAssumption DEF Consistent, WellFormed
  <2>11. Len(u.lru) >= 1
    BY <2>3, <1>0
  <2>12. Keys(u) = Members(u.lru)
    BY <2>2, <2>6 DEF Consistent, WellFormed
  <2>13. AlmostConsistent(u, k)
    BY <2>2, <2>3, <2>5, <2>7, <2>8, <2>9, <2>10, <2>11, <2>12 DEF AlmostConsistent
  <2> QED BY <2>13 DEF u
<1> QED BY <1>1, <1>2

\* The eviction loop runs exactly once when the table holds one key too many
\* and not at all otherwise.
LEMMA EvictsAtMostOne ==
  ASSUME NEW t, NEW k \in Key, AlmostConsistent(t, k)
  PROVE  EvictCount(t) = IF Cardinality(Keys(t)) <= Capacity THEN 0 ELSE 1
<1> DEFINE n == Len(t.lru)
<1>0. t.lru \in Seq(Key) /\ n \in Nat /\ n >= 1 /\ IsFiniteSet(Keys(t))
  BY DEF AlmostConsistent, IsTable
<1>00. Cardinality(Keys(t)) \in Nat /\ Cardinality(Keys(t)) <= Capacity + 1
  BY CapacityAssumption DEF AlmostConsistent
<1>1. Popped(t, 0) = {}
  BY <1>0 DEF Popped
<1>2. Popped(t, 1) = {t.lru[n]} /\ t.lru[n] \in Keys(t)
  BY <1>0 DEF Popped, AlmostConsistent, Members
<1>3. Cardinality(Keys(t) \ {t.lru[n]}) = Cardinality(Keys(t)) - 1
  BY <1>2, <1>0, FS_RemoveElement
<1>4. CASE Cardinality(Keys(t)) <= Capacity
  <2>1. LoopEnds(t, 0)
    BY <1>4, <1>1 DEF LoopEnds
  <2>2. \A m \in 0..n : (LoopEnds(t, m) /\ \A j \in 0..n : j < m => ~LoopEnds(t, j)) <=> m = 0
    BY <2>1, <1>0
  <2> QED BY <2>2, <1>4, <1>0 DEF EvictCount
<1>5. CASE ~(Cardinality(Keys(t)) <= Capacity)
  <2>1. ~LoopEnds(t, 0)
    <3>1. Keys(t) \ Popped(t, 0) = Keys(t) BY <1>1
    <3>2. Len(t.lru) # 0 BY <1>0
    <3>3. ~(Cardinality(Keys(t) \ Popped(t, 0)) <= Capacity) BY <3>1, <1>5
    <3> QED BY <3>2, <3>3 DEF LoopEnds
  <2>2. LoopEnds(t, 1)
    <3>1. Cardinality(Keys(t) \ Popped(t, 1)) = Cardinality(Keys(t)) - 1
      BY <1>2, <1>3
    <3>2. Cardinality(Keys(t)) - 1 <= Capacity
      BY <1>00, CapacityAssumption
    <3> QED BY <3>1, <3>2 DEF LoopEnds
  <2>3. \A m \in 0..n : (LoopEnds(t, m) /\ \A j \in 0..n : j < m => ~LoopEnds(t, j)) <=> m = 1
    BY <2>1, <2>2, <1>0
  <2> QED BY <2>3, <1>5, <1>0 DEF EvictCount
<1> QED BY <1>4, <1>5

\* evict_if_needed restores consistency and never evicts the key at the front
\* of the list, the one just recorded.
LEMMA EvictRestores ==
  ASSUME NEW t, NEW k \in Key, AlmostConsistent(t, k)
  PROVE  /\ Consistent(EvictIfNeeded(t))
         /\ Len(EvictIfNeeded(t).lru) >= 1 /\ EvictIfNeeded(t).lru[1] = k
<1> DEFINE u == EvictIfNeeded(t)
           c == EvictCount(t)
           n == Len(t.lru)
<1>0. /\ t.lru \in Seq(Key) /\ n \in Nat /\ n >= 1 /\ IsFiniteSet(Keys(t))
      /\ t.dests \in [Keys(t) -> Seq(Dest)] /\ Keys(t) \subseteq Key
      /\ k = t.lru[1] /\ k \in Keys(t)
  <2>1. t.lru \in Seq(Key) /\ n \in Nat /\ n >= 1 /\ IsFiniteSet(Keys(t)) /\ k = t.lru[1]
    BY DEF AlmostConsistent, IsTable
  <2>2. t.dests \in [Keys(t) -> Seq(Dest)] /\ Keys(t) \subseteq Key
    BY DEF AlmostConsistent, IsTable, Keys
  <2>3. k \in Keys(t)
    BY <2>1 DEF AlmostConsistent, Members
  <2> QED BY <2>1, <2>2, <2>3
<1>00. /\ Cardinality(Keys(t)) \in Nat
       /\ Keys(t) = Members(t.lru)
       /\ \A i, j \in 1..n : t.lru[i] = t.lru[j] => i = j
  BY FS_CardinalityType DEF AlmostConsistent, Distinct
<1>1. /\ u.lru = SubSeq(t.lru, 1, n - c)
      /\ u.dests = [j \in Keys(t) \ Popped(t, c) |-> t.dests[j]]
      /\ u = [lru |-> u.lru, dests |-> u.dests]
  BY DEF EvictIfNeeded
<1>2. c = IF Cardinality(Keys(t)) <= Capacity THEN 0 ELSE 1
  BY EvictsAtMostOne
<1>2a. c \in 0..1 /\ c <= n
  BY <1>0, <1>2
<1> HIDE DEF u, c
<1>3. Keys(u) = Keys(t) \ Popped(t, c)
  BY <1>1 DEF Keys
<1>4. /\ u.lru \in Seq(Key) /\ Len(u.lru) = n - c
      /\ \A i \in 1..(n - c) : u.lru[i] = t.lru[i]
  BY <1>0, <1>1, <1>2a
<1>5. Distinct(u.lru)
  <2>1. \A i \in 1..(n - c) : i \in 1..n
    BY <1>0, <1>2a
  <2> QED BY <1>00, <1>4, <2>1 DEF Distinct
<1>6. Members(u.lru) = Members(t.lru) \ Popped(t, c)
  <2>1. ASSUME NEW i \in 1..n, NEW j \in (n - c + 1)..n, i <= n - c
        PROVE  t.lru[i] # t.lru[j]
    <3>1. j \in 1..n /\ i # j  BY <2>1, <1>0, <1>2a
    <3> QED BY <3>1, <1>00
  <2>2. Members(u.lru) = {t.lru[i] : i \in 1..(n - c)}
    BY <1>4 DEF Members
  <2>3. ASSUME NEW i \in 1..n
        PROVE  i \in 1..(n - c) \/ i \in (n - c + 1)..n
    BY <1>0, <1>2a
  <2>4. 1..(n - c) \subseteq 1..n /\ \A i \in 1..(n - c) : i <= n - c
    BY <1>0, <1>2a
  <2>5. Popped(t, c) = {t.lru[i] : i \in (n - c + 1)..n}
    BY DEF Popped
  <2>6. Members(t.lru) = {t.lru[i] : i \in 1..n}
    BY DEF Members
  <2> QED BY <2>1, <2>2, <2>3, <2>4, <2>5, <2>6
<1>7. /\ u.dests \in [Keys(u) -> Seq(Dest)]
      /\ \A j \in Keys(u) : u.dests[j] # <<>> /\ Distinct(u.dests[j])
  BY <1>1, <1>3, <1>0 DEF AlmostConsistent
<1>8. IsTable(u)
  BY <1>0, <1>1, <1>3, <1>4, <1>7 DEF IsTable
<1>9. IsFiniteSet(Keys(u)) /\ Cardinality(Keys(u)) <= Capacity
  <2>1. CASE c = 0
    <3>1. Popped(t, c) = {}  BY <2>1, <1>0 DEF Popped
    <3>2. Keys(u) = Keys(t)  BY <3>1, <1>3
    <3> QED BY <3>2, <2>1, <1>0, <1>2
  <2>2. CASE c = 1
    <3>1. Popped(t, c) = {t.lru[n]} /\ t.lru[n] \in Keys(t)
      BY <2>2, <1>0 DEF Popped, AlmostConsistent, Members
    <3>2. IsFiniteSet(Keys(u)) /\ Cardinality(Keys(u)) = Cardinality(Keys(t)) - 1
      <4>1. Keys(u) = Keys(t) \ {t.lru[n]}  BY <3>1, <1>3
      <4>2. /\ IsFiniteSet(Keys(t) \ {t.lru[n]})
            /\ Cardinality(Keys(t) \ {t.lru[n]}) = Cardinality(Keys(t)) - 1
        BY <3>1, <1>0, FS_RemoveElement
      <4> QED BY <4>1, <4>2
    <3> QED BY <3>2, CapacityAssumption DEF AlmostConsistent
  <2> QED BY <2>1, <2>2, <1>2
<1>10. Len(u.lru) >= 1 /\ u.lru[1] = k
  <2>1. n - c >= 1
    <3>1. CASE c = 0
      BY <3>1, <1>0
    <3>2. CASE c = 1
      <4>1. ASSUME n = 1 PROVE Keys(t) = {k}
        BY <4>1, <1>0 DEF AlmostConsistent, Members
      <4>2. Cardinality({k}) = 1
        BY FS_Singleton
      <4>3. n # 1
        BY <4>1, <4>2, <3>2, <1>2, CapacityAssumption
      <4>4. n >= 2
        <5>1. n \in Nat /\ n >= 1  BY <1>0
        <5> HIDE DEF n
        <5> QED BY <4>3, <5>1
      <4> QED BY <4>4, <3>2, <1>0
    <3> QED BY <3>1, <3>2, <1>2
  <2> QED BY <2>1, <1>0, <1>2a, <1>4
<1>11. Keys(u) = Members(u.lru)
  BY <1>00, <1>3, <1>6
<1>12. Consistent(u)
  BY <1>5, <1>7, <1>8, <1>9, <1>11 DEF Consistent, WellFormed
<1> QED BY <1>10, <1>12 DEF u

\* The empty table is consistent.
LEMMA EmptyConsistent == Consistent(EmptyTable)
<1>1. /\ EmptyTable.lru = <<>> /\ EmptyTable.dests = [k \in {} |-> <<>>]
      /\ Keys(EmptyTable) = {}
  BY DEF EmptyTable, Keys
<1>2. IsTable(EmptyTable)
  <2>1. [k \in {} |-> <<>>] \in [{} -> Seq(Dest)]
    OBVIOUS
  <2> QED BY <1>1, <2>1 DEF IsTable, EmptyTable
<1> QED
  BY <1>1, <1>2, FS_EmptySet, CapacityAssumption DEF Consistent, WellFormed, Members, Distinct

\* A call of record_destination keeps the table consistent, with the recorded
\* key in front.
LEMMA RecordConsistent ==
  ASSUME NEW t, NEW k \in Key, NEW d \in Dest, Consistent(t)
  PROVE  LET u == RecordDestination(t, k, d)
         IN  Consistent(u) /\ Len(u.lru) >= 1 /\ u.lru[1] = k
<1>1. AlmostConsistent(Recorded(t, k, d), k)
  BY RecordedAlmostConsistent
<1> QED BY <1>1, EvictRestores DEF RecordDestination

\* record_destination adds nothing but the destination under its key.
LEMMA RecordAddsOnly ==
  ASSUME NEW t, NEW k \in Key, NEW d \in Dest, Consistent(t)
  PROVE  LET u == RecordDestination(t, k, d)
         IN  /\ Keys(u) \subseteq Keys(t) \cup {k}
             /\ \A j \in Keys(u) : \A o \in Members(u.dests[j]) :
                  (j \in Keys(t) /\ o \in Members(t.dests[j])) \/ (j = k /\ o = d)
<1> DEFINE r == Recorded(t, k, d)
           u == RecordDestination(t, k, d)
<1>0. t.dests \in [Keys(t) -> Seq(Dest)] /\ DOMAIN t.dests = Keys(t)
  BY DEF Consistent, IsTable, Keys
<1>1. Keys(r) = Keys(t) \cup {k}
  <2>1. CASE k \in Keys(t)
    <3>1. r.dests = [t.dests EXCEPT ![k] = AddNew(@, d)]
      BY <2>1 DEF Recorded
    <3> QED BY <3>1, <1>0, <2>1 DEF Keys
  <2>2. CASE k \notin Keys(t)
    <3>1. r.dests = [j \in Keys(t) \cup {k} |-> IF j = k THEN <<d>> ELSE t.dests[j]]
      BY <2>2 DEF Recorded
    <3> QED BY <3>1 DEF Keys
  <2> QED BY <2>1, <2>2
<1>2. \A j \in Keys(r) : \A o \in Members(r.dests[j]) :
        (j \in Keys(t) /\ o \in Members(t.dests[j])) \/ (j = k /\ o = d)
  <2> SUFFICES ASSUME NEW j \in Keys(r), NEW o \in Members(r.dests[j])
               PROVE  (j \in Keys(t) /\ o \in Members(t.dests[j])) \/ (j = k /\ o = d)
    OBVIOUS
  <2>1. CASE k \in Keys(t)
    <3>1. r.dests = [t.dests EXCEPT ![k] = AddNew(@, d)]
      BY <2>1 DEF Recorded
    <3>2. CASE j = k
      <4>1. r.dests[k] = AddNew(t.dests[k], d) /\ t.dests[k] \in Seq(Dest)
        BY <3>1, <2>1, <1>0
      <4>2. \A s \in Seq(Dest) : \A x \in Members(AddNew(s, d)) : x \in Members(s) \/ x = d
        BY DEF Members, AddNew
      <4> QED BY <4>1, <4>2, <3>2, <2>1
    <3>3. CASE j # k
      BY <3>1, <3>3, <2>1, <1>0, <1>1
    <3> QED BY <3>2, <3>3
  <2>2. CASE k \notin Keys(t)
    <3>1. r.dests = [i \in Keys(t) \cup {k} |-> IF i = k THEN <<d>> ELSE t.dests[i]]
      BY <2>2 DEF Recorded
    <3>2. CASE j = k
      <4>1. r.dests[j] = <<d>>
        BY <3>1, <3>2
      <4> QED BY <4>1, <3>2 DEF Members
    <3>3. CASE j # k
      BY <3>1, <3>3, <2>2, <1>1
    <3> QED BY <3>2, <3>3
  <2> QED BY <2>1, <2>2
<1>3. u.dests = [j \in Keys(r) \ Popped(r, EvictCount(r)) |-> r.dests[j]]
  BY DEF RecordDestination, EvictIfNeeded
<1>4. /\ Keys(u) \subseteq Keys(r)
      /\ \A j \in Keys(u) : u.dests[j] = r.dests[j]
  BY <1>3 DEF Keys
<1> HIDE DEF r, u
<1>5. Keys(u) \subseteq Keys(t) \cup {k}
  BY <1>1, <1>4
<1>6. \A j \in Keys(u) : \A o \in Members(u.dests[j]) :
        (j \in Keys(t) /\ o \in Members(t.dests[j])) \/ (j = k /\ o = d)
  BY <1>2, <1>4
<1> QED BY <1>5, <1>6 DEF u
\* The keys in front of position p of the list: those used more recently.
Before(s, p) == {s[m] : m \in 1..(p - 1)}

\* Behind its first key, k, list s has the order of list r.
Follows(s, r, k) ==
  \A p \in 2..Len(s) :
    \E q \in 1..Len(r) : /\ s[p] = r[q]
                         /\ Before(s, p) = Before(r, q) \cup {k}

\* Inside a call, every key but the recorded one has in front of it the keys it
\* had before the call and the recorded key.
LEMMA RecordedMoves ==
  ASSUME NEW t, NEW k \in Key, NEW d \in Dest, Consistent(t)
  PROVE  Follows(Recorded(t, k, d).lru, t.lru, k)
<1> DEFINE s == t.lru
           r == Recorded(t, k, d).lru
<1> SUFFICES ASSUME NEW p \in 2..Len(r)
             PROVE  \E q \in 1..Len(s) : /\ r[p] = s[q]
                                         /\ Before(r, p) = Before(s, q) \cup {k}
  BY DEF Follows
<1>0. /\ s \in Seq(Key) /\ Keys(t) = Members(s)
      /\ \A i, j \in 1..Len(s) : s[i] = s[j] => i = j
      /\ p \in Nat /\ p >= 2 /\ p <= Len(r)
  BY DEF Consistent, IsTable, WellFormed, Distinct
<1>1. CASE k \in Keys(t)
  <2> DEFINE v == LruIt(t, k)
  <2>1. v \in 1..Len(s) /\ s[v] = k
    <3>1. \E i \in 1..Len(t.lru) : t.lru[i] = k
      BY <1>0, <1>1 DEF Members
    <3> QED BY <3>1 DEF LruIt
  <2>2. r = <<s[v]>> \o EraseAt(s, v)
    BY <1>1, <2>1 DEF Recorded, Touch
  <2> HIDE DEF v, s, r
  <2>3. /\ Len(r) = Len(s)
        /\ \A i \in 1..Len(s) :
             r[i] = IF i = 1 THEN s[v] ELSE IF i <= v THEN s[i - 1] ELSE s[i]
    <3>1. s \in Seq(Key) /\ v \in 1..Len(s)
      BY <1>0, <2>1
    <3>2. Shifted(r, s, v)
      BY <3>1, <2>2, TouchShape
    <3> QED BY <3>2 DEF Shifted
  <2>4. CASE p <= v
    <3>1. p - 1 \in 1..Len(s) /\ r[p] = s[p - 1] /\ p - 1 # v
      BY <1>0, <2>1, <2>3, <2>4
    <3>3. \A m \in 2..(p - 1) : r[m] = s[m - 1]
      BY <1>0, <2>1, <2>3, <2>4
    <3>4. r[1] = k
      BY <1>0, <2>1, <2>3
    <3>5. ASSUME NEW x \in Before(r, p) PROVE x \in Before(s, p - 1) \cup {k}
      <4>1. PICK m \in 1..(p - 1) : x = r[m]
        BY DEF Before
      <4>2. CASE m = 1
        BY <4>1, <4>2, <3>4
      <4>3. CASE m # 1
        <5>1. m \in 2..(p - 1) /\ m - 1 \in 1..((p - 1) - 1)
          BY <4>3, <1>0
        <5>2. x = s[m - 1]
          BY <5>1, <4>1, <3>3
        <5> QED BY <5>1, <5>2 DEF Before
      <4> QED BY <4>2, <4>3
    <3>6. ASSUME NEW x \in Before(s, p - 1) PROVE x \in Before(r, p)
      <4>1. PICK m \in 1..((p - 1) - 1) : x = s[m]
        BY DEF Before
      <4>2. m + 1 \in 2..(p - 1) /\ m + 1 \in 1..(p - 1) /\ (m + 1) - 1 = m
        BY <1>0
      <4>3. x = r[m + 1]
        BY <4>1, <4>2, <3>3
      <4> QED BY <4>2, <4>3 DEF Before
    <3>7. k \in Before(r, p)
      <4>1. 1 \in 1..(p - 1)  BY <1>0
      <4> QED BY <4>1, <3>4 DEF Before
    <3>8. Before(r, p) = Before(s, p - 1) \cup {k}
      BY <3>5, <3>6, <3>7
    <3> QED BY <3>1, <3>8
  <2>5. CASE p > v
    <3>1. p \in 1..Len(s) /\ r[p] = s[p] /\ p # v
      BY <1>0, <2>1, <2>3, <2>5
    <3>3. ASSUME NEW x \in Before(r, p) PROVE x \in Before(s, p) \cup {k}
      <4>1. PICK m \in 1..(p - 1) : x = r[m]
        BY DEF Before
      <4>2. m \in 1..Len(s)
        BY <3>1, <1>0
      <4>3. CASE m = 1
        BY <4>1, <4>2, <4>3, <2>1, <2>3
      <4>4. CASE m # 1 /\ m <= v
        <5>1. m - 1 \in 1..(p - 1) /\ x = s[m - 1]
          BY <4>1, <4>2, <4>4, <2>3, <1>0
        <5> QED BY <5>1 DEF Before
      <4>5. CASE m # 1 /\ ~(m <= v)
        <5>1. x = s[m]
          BY <4>1, <4>2, <4>5, <2>3
        <5> QED BY <5>1 DEF Before
      <4> QED BY <4>3, <4>4, <4>5
    <3>4. ASSUME NEW x \in Before(s, p) PROVE x \in Before(r, p)
      <4>1. PICK m \in 1..(p - 1) : x = s[m]
        BY DEF Before
      <4>2. m \in 1..Len(s) /\ m + 1 \in 1..Len(s) /\ 1 \in 1..(p - 1) /\ 1 \in 1..Len(s)
        BY <3>1, <1>0
      <4>3. CASE m = v
        <5>1. x = r[1]
          BY <4>1, <4>2, <4>3, <2>3
        <5> QED BY <5>1, <4>2 DEF Before
      <4>4. CASE m < v
        <5>1. m + 1 \in 1..(p - 1) /\ m + 1 # 1 /\ m + 1 <= v /\ (m + 1) - 1 = m
          BY <4>4, <2>5, <2>1, <1>0
        <5>2. x = r[m + 1]
          BY <5>1, <4>1, <4>2, <2>3
        <5> QED BY <5>1, <5>2 DEF Before
      <4>5. CASE m > v
        <5>1. m # 1 /\ ~(m <= v)
          BY <4>5, <2>1
        <5>2. x = r[m]
          BY <5>1, <4>1, <4>2, <2>3
        <5> QED BY <5>2 DEF Before
      <4> QED BY <4>3, <4>4, <4>5, <2>1
    <3>5. k \in Before(s, p)
      <4>1. v \in 1..(p - 1)  BY <2>1, <2>5, <1>0
      <4> QED BY <4>1, <2>1 DEF Before
    <3>6. Before(r, p) = Before(s, p) \cup {k}
      BY <3>3, <3>4, <3>5
    <3> QED BY <3>1, <3>6
  <2> QED BY <2>4, <2>5, <2>1, <1>0
<1>2. CASE k \notin Keys(t)
  <2>1. r = <<k>> \o s
    BY <1>2 DEF Recorded
  <2> HIDE DEF s, r
  <2>2. /\ Len(r) = Len(s) + 1 /\ r[1] = k
        /\ \A i \in 2..Len(r) : r[i] = s[i - 1]
    BY <2>1, <1>0
  <2>3. p - 1 \in 1..Len(s) /\ r[p] = s[p - 1]
    BY <1>0, <2>2
  <2>5. ASSUME NEW x \in Before(r, p) PROVE x \in Before(s, p - 1) \cup {k}
    <3>1. PICK m \in 1..(p - 1) : x = r[m]
      BY DEF Before
    <3>2. CASE m = 1
      BY <3>1, <3>2, <2>2
    <3>3. CASE m # 1
      <4>1. m \in 2..Len(r) /\ m - 1 \in 1..((p - 1) - 1)
        BY <3>3, <1>0
      <4>2. x = s[m - 1]
        BY <4>1, <3>1, <2>2
      <4> QED BY <4>1, <4>2 DEF Before
    <3> QED BY <3>2, <3>3
  <2>6. ASSUME NEW x \in Before(s, p - 1) PROVE x \in Before(r, p)
    <3>1. PICK m \in 1..((p - 1) - 1) : x = s[m]
      BY DEF Before
    <3>2. m + 1 \in 2..Len(r) /\ m + 1 \in 1..(p - 1) /\ (m + 1) - 1 = m
      BY <1>0
    <3>3. x = r[m + 1]
      BY <3>1, <3>2, <2>2
    <3> QED BY <3>2, <3>3 DEF Before
  <2>7. k \in Before(r, p)
    <3>1. 1 \in 1..(p - 1)  BY <1>0
    <3> QED BY <3>1, <2>2 DEF Before
  <2>8. Before(r, p) = Before(s, p - 1) \cup {k}
    BY <2>5, <2>6, <2>7
  <2> QED BY <2>3, <2>8
<1> QED BY <1>1, <1>2

\* How a call of record_destination changes the order of use and the contents:
\* the other keys keep their order behind the recorded one; only the last key of a
\* full table is evicted, and only for a new key; the other entries are untouched.
LEMMA RecordMoves ==
  ASSUME NEW t, NEW k \in Key, NEW d \in Dest, Consistent(t)
  PROVE  LET u == RecordDestination(t, k, d)
         IN  /\ Follows(u.lru, t.lru, k)
             /\ \A j \in Keys(t) \ Keys(u) :
                  /\ k \notin Keys(t)
                  /\ Cardinality(Keys(t)) = Capacity
                  /\ Len(t.lru) \in 1..Len(t.lru)
                  /\ t.lru[Len(t.lru)] = j
                  /\ Before(t.lru, Len(t.lru)) = Keys(t) \ {j}
             /\ Keys(u) \subseteq Keys(t) \cup {k}
             /\ k \in Keys(u)
             /\ \A j \in Keys(u) \ {k} : u.dests[j] = t.dests[j]
             /\ u.dests[k] = IF k \in Keys(t) THEN AddNew(t.dests[k], d) ELSE <<d>>
<1> DEFINE r == Recorded(t, k, d)
           u == RecordDestination(t, k, d)
           c == EvictCount(r)
           n == Len(r.lru)
<1>0. /\ t.lru \in Seq(Key) /\ Keys(t) = Members(t.lru) /\ Distinct(t.lru)
      /\ IsFiniteSet(Keys(t)) /\ Cardinality(Keys(t)) \in Nat
      /\ Cardinality(Keys(t)) <= Capacity
      /\ t.dests \in [Keys(t) -> Seq(Dest)] /\ DOMAIN t.dests = Keys(t)
  BY FS_CardinalityType DEF Consistent, IsTable, WellFormed, Keys
<1>1. AlmostConsistent(r, k)
  BY RecordedAlmostConsistent
<1>2. c = IF Cardinality(Keys(r)) <= Capacity THEN 0 ELSE 1
  BY <1>1, EvictsAtMostOne
<1>3. u.lru = SubSeq(r.lru, 1, n - c) /\ u.dests = [j \in Keys(r) \ Popped(r, c) |-> r.dests[j]]
  BY DEF RecordDestination, EvictIfNeeded
<1>4. k \in Keys(u)
  <2>1. Consistent(u) /\ Len(u.lru) >= 1 /\ u.lru[1] = k
    BY RecordConsistent
  <2> HIDE DEF u
  <2>2. Keys(u) = Members(u.lru) /\ 1 \in 1..Len(u.lru)
    BY <2>1 DEF Consistent, WellFormed, IsTable
  <2> QED BY <2>1, <2>2 DEF Members
<1>5. /\ Keys(r) = Keys(t) \cup {k}
      /\ \A j \in Keys(t) \ {k} : r.dests[j] = t.dests[j]
      /\ r.dests[k] = IF k \in Keys(t) THEN AddNew(t.dests[k], d) ELSE <<d>>
  <2>1. CASE k \in Keys(t)
    <3>1. r.dests = [t.dests EXCEPT ![k] = AddNew(@, d)]
      BY <2>1 DEF Recorded
    <3>2. Keys(r) = Keys(t)
      BY <3>1, <1>0 DEF Keys
    <3> QED BY <3>1, <3>2, <1>0, <2>1
  <2>2. CASE k \notin Keys(t)
    <3>1. r.dests = [j \in Keys(t) \cup {k} |-> IF j = k THEN <<d>> ELSE t.dests[j]]
      BY <2>2 DEF Recorded
    <3>2. Keys(r) = Keys(t) \cup {k}
      BY <3>1 DEF Keys
    <3> QED BY <3>1, <3>2, <2>2
  <2> QED BY <2>1, <2>2
<1>6. /\ r.lru \in Seq(Key) /\ n \in Nat /\ n >= 1 /\ r.lru[1] = k
      /\ Distinct(r.lru) /\ Keys(r) = Members(r.lru)
      /\ Cardinality(Keys(r)) \in Nat
  BY <1>1, CapacityAssumption DEF AlmostConsistent, IsTable
<1> HIDE DEF c, r, u
<1>7. c \in 0..1 /\ c <= n /\ Len(u.lru) = n - c /\ \A i \in 1..(n - c) : u.lru[i] = r.lru[i]
  <2>1. c \in 0..1 /\ c <= n
    BY <1>2, <1>6
  <2> QED BY <2>1, <1>3, <1>6
<1>7a. Follows(r.lru, t.lru, k)
  BY RecordedMoves DEF r
<1>8. ASSUME NEW p \in 2..Len(u.lru)
      PROVE  \E q \in 1..Len(t.lru) :
               /\ u.lru[p] = t.lru[q]
               /\ Before(u.lru, p) = Before(t.lru, q) \cup {k}
  <2>1. p \in 2..Len(r.lru) /\ p \in 1..(n - c) /\ \A m \in 1..(p - 1) : m \in 1..(n - c)
    BY <1>6, <1>7
  <2>2. u.lru[p] = r.lru[p] /\ Before(u.lru, p) = Before(r.lru, p)
    BY <2>1, <1>7 DEF Before
  <2>3. PICK q \in 1..Len(t.lru) : /\ r.lru[p] = t.lru[q]
                                   /\ Before(r.lru, p) = Before(t.lru, q) \cup {k}
    BY <2>1, <1>7a DEF Follows
  <2> QED BY <2>2, <2>3
<1>9. Keys(u) = Keys(r) \ Popped(r, c) /\ \A j \in Keys(u) : u.dests[j] = r.dests[j]
  BY <1>3 DEF Keys
<1>10. ASSUME NEW j \in Keys(t) \ Keys(u)
       PROVE  /\ k \notin Keys(t)
              /\ Cardinality(Keys(t)) = Capacity
              /\ Len(t.lru) \in 1..Len(t.lru)
              /\ t.lru[Len(t.lru)] = j
              /\ Before(t.lru, Len(t.lru)) = Keys(t) \ {j}
  <2>1. j \in Popped(r, c)
    BY <1>5, <1>9
  <2>2. c # 0
    <3>1. c = 0 => Popped(r, c) = {}
      BY <1>6 DEF Popped
    <3> QED BY <3>1, <2>1
  <2>3. c = 1 /\ ~(Cardinality(Keys(r)) <= Capacity)
    BY <2>2, <1>2
  <2>4. k \notin Keys(t)
    <3>1. k \in Keys(t) => Keys(r) = Keys(t)
      BY <1>5
    <3> QED BY <3>1, <2>3, <1>0
  <2>5. Cardinality(Keys(r)) = Cardinality(Keys(t)) + 1
    <3>1. Cardinality(Keys(t) \cup {k}) = Cardinality(Keys(t)) + 1
      BY <1>0, <2>4, FS_AddElement
    <3> QED BY <3>1, <1>5
  <2>6. Cardinality(Keys(t)) = Capacity
    BY <2>3, <2>5, <1>0, <1>6, CapacityAssumption
  <2>7. Popped(r, c) = {r.lru[n]}
    BY <2>3, <1>6 DEF Popped
  <2>8. r.lru = <<k>> \o t.lru
    BY <2>4 DEF Recorded, r
  <2>9. n = Len(t.lru) + 1 /\ \A i \in 2..n : r.lru[i] = t.lru[i - 1]
    BY <2>8, <1>0
  <2>10. PICK v \in 1..Len(t.lru) : t.lru[v] = j
    BY <1>0 DEF Members
  <2>11. Len(t.lru) \in 1..Len(t.lru) /\ n \in 2..n /\ n - 1 = Len(t.lru)
    BY <2>9, <2>10, <1>0
  <2>12. t.lru[Len(t.lru)] = j
    BY <2>1, <2>7, <2>9, <2>11
  <2>13. ASSUME NEW x \in Before(t.lru, Len(t.lru)) PROVE x \in Keys(t) \ {j}
    <3>1. PICK m \in 1..(Len(t.lru) - 1) : x = t.lru[m]
      BY DEF Before
    <3>2. m \in 1..Len(t.lru) /\ m # Len(t.lru)
      BY <1>0
    <3>3. x # j
      BY <3>1, <3>2, <2>11, <2>12, <1>0 DEF Distinct
    <3> QED BY <3>1, <3>2, <3>3, <1>0 DEF Members
  <2>14. ASSUME NEW x \in Keys(t) \ {j} PROVE x \in Before(t.lru, Len(t.lru))
    <3>1. PICK m \in 1..Len(t.lru) : x = t.lru[m]
      BY <1>0 DEF Members
    <3>2. m # Len(t.lru)
      BY <3>1, <2>12
    <3>3. m \in 1..(Len(t.lru) - 1)
      BY <3>2, <1>0
    <3> QED BY <3>1, <3>3 DEF Before
  <2>15. Before(t.lru, Len(t.lru)) = Keys(t) \ {j}
    BY <2>13, <2>14
  <2> QED BY <2>4, <2>6, <2>11, <2>12, <2>15
<1>11. /\ Keys(u) \subseteq Keys(t) \cup {k}
       /\ \A j \in Keys(u) \ {k} : u.dests[j] = t.dests[j]
       /\ u.dests[k] = IF k \in Keys(t) THEN AddNew(t.dests[k], d) ELSE <<d>>
  <2>1. Keys(u) \subseteq Keys(t) \cup {k}
    BY <1>5, <1>9
  <2>2. ASSUME NEW j \in Keys(u) \ {k} PROVE u.dests[j] = t.dests[j]
    <3>1. j \in Keys(t) \ {k}
      BY <2>1
    <3> QED BY <3>1, <1>5, <1>9
  <2>3. u.dests[k] = r.dests[k]
    BY <1>4, <1>9
  <2> QED BY <2>1, <2>2, <2>3, <1>5
<1>12. Follows(u.lru, t.lru, k)
  BY <1>8 DEF Follows
<1> QED BY <1>4, <1>10, <1>11, <1>12 DEF u

\* A destination is in the vector after it was added, and nothing else is new.
LEMMA AddNewMembers ==
  ASSUME NEW D, NEW s \in Seq(D), NEW d \in D
  PROVE  Members(AddNew(s, d)) = Members(s) \cup {d}
<1>1. CASE \E i \in 1..Len(s) : s[i] = d
  BY <1>1 DEF AddNew, Members
<1>2. CASE ~\E i \in 1..Len(s) : s[i] = d
  <2>1. /\ AddNew(s, d) = Append(s, d) /\ Len(Append(s, d)) = Len(s) + 1
        /\ Append(s, d)[Len(s) + 1] = d
        /\ \A i \in 1..Len(s) : Append(s, d)[i] = s[i]
    BY <1>2 DEF AddNew
  <2>2. \A i \in 1..(Len(s) + 1) : i \in 1..Len(s) \/ i = Len(s) + 1
    OBVIOUS
  <2>3. \A i \in 1..Len(s) : i \in 1..(Len(s) + 1)
    OBVIOUS
  <2>4. Len(s) + 1 \in 1..(Len(s) + 1)
    OBVIOUS
  <2>5. Members(AddNew(s, d)) = {Append(s, d)[i] : i \in 1..(Len(s) + 1)}
    BY <2>1 DEF Members
  <2>6. Members(AddNew(s, d)) \subseteq Members(s) \cup {d}
    BY <2>1, <2>2, <2>5 DEF Members
  <2>7. Members(s) \cup {d} \subseteq Members(AddNew(s, d))
    BY <2>1, <2>3, <2>4, <2>5 DEF Members
  <2> QED BY <2>6, <2>7
<1> QED BY <1>1, <1>2
=============================================================================
