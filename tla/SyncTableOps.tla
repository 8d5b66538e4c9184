---------------------------- MODULE SyncTableOps ----------------------------
(***************************************************************************)
(* The data structure of src/netos/tables/sync_table.cpp: a bounded LRU    *)
(* map from keys to the origins that were sent the key.  A table is        *)
(*   lru    the keys, most recently recorded first (lru_);                 *)
(*   dests  for each key in the table its destinations in the order they   *)
(*          were first recorded (table_, the vector of an Entry).          *)
(* An Entry's lru_it is the position of the key in lru.                    *)
(***************************************************************************)
EXTENDS Naturals, Sequences, FiniteSets

CONSTANTS Capacity, Key, Dest

\* validate_config rejects a capacity that is not positive.
ASSUME CapacityAssumption == Capacity \in Nat \ {0}

EmptyTable == [lru |-> <<>>, dests |-> [k \in {} |-> <<>>]]

Keys(t) == DOMAIN t.dests

\* The types of lru_ and table_.
IsTable(t) ==
  /\ t = [lru |-> t.lru, dests |-> t.dests]
  /\ t.lru \in Seq(Key)
  /\ Keys(t) \subseteq Key
  /\ t.dests \in [Keys(t) -> Seq(Dest)]

\* Mutant: only the latest destination is kept.
MutAddNew(s, d) == <<d>>

\* push_back of a destination that std::find does not see in the vector.
AddNew(s, d) ==
  IF \E i \in 1..Len(s) : s[i] = d THEN s ELSE Append(s, d)

LruIt(t, k) == CHOOSE i \in 1..Len(t.lru) : t.lru[i] = k

EraseAt(s, i) == SubSeq(s, 1, i - 1) \o SubSeq(s, i + 1, Len(s))

\* Mutant: a known key keeps its place.
MutTouch(t, k) == t.lru

\* The key moves to the front of the list.
Touch(t, k) == <<k>> \o EraseAt(t.lru, LruIt(t, k))

\* The table before eviction: a new key enters at the front, a known key
\* gains the destination and is touched.
Recorded(t, k, d) ==
  IF k \in Keys(t)
  THEN [lru   |-> Touch(t, k),
        dests |-> [t.dests EXCEPT ![k] = AddNew(@, d)]]
  ELSE [lru   |-> <<k>> \o t.lru,
        dests |-> [j \in Keys(t) \cup {k} |->
                     IF j = k THEN <<d>> ELSE t.dests[j]]]

\* The keys popped by n iterations of the eviction loop.
Popped(t, n) == {t.lru[i] : i \in (Len(t.lru) - n + 1)..Len(t.lru)}

\* Mutant: eviction starts one key too late.
MutLoopEnds(t, n) ==
  \/ Cardinality(Keys(t) \ Popped(t, n)) <= Capacity + 1
  \/ n = Len(t.lru)

\* The loop condition of evict_if_needed is false after n iterations.
LoopEnds(t, n) ==
  \/ Cardinality(Keys(t) \ Popped(t, n)) <= Capacity
  \/ n = Len(t.lru)

EvictCount(t) ==
  CHOOSE n \in 0..Len(t.lru) :
    LoopEnds(t, n) /\ \A m \in 0..Len(t.lru) : m < n => ~LoopEnds(t, m)

EvictIfNeeded(t) ==
  [lru   |-> SubSeq(t.lru, 1, Len(t.lru) - EvictCount(t)),
   dests |-> [k \in Keys(t) \ Popped(t, EvictCount(t)) |-> t.dests[k]]]

\* record_destination, without its counters.
RecordDestination(t, k, d) == EvictIfNeeded(Recorded(t, k, d))

\* destinations(key): empty for a key that is not in the table.
Destinations(t, k) == IF k \in Keys(t) THEN t.dests[k] ELSE <<>>

(***************************************************************************)
(* The list and the map agree, nothing occurs twice, and the table is      *)
(* within its capacity.                                                    *)
(***************************************************************************)
Distinct(s) == \A i, j \in 1..Len(s) : s[i] = s[j] => i = j

Members(s) == {s[i] : i \in 1..Len(s)}

WellFormed(t) ==
  /\ Keys(t) = Members(t.lru)
  /\ Distinct(t.lru)
  /\ Cardinality(Keys(t)) <= Capacity
  /\ \A k \in Keys(t) : t.dests[k] # <<>> /\ Distinct(t.dests[k])
=============================================================================
