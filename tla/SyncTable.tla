------------------------------ MODULE SyncTable ------------------------------
(***************************************************************************)
(* The SyncTable of one node as a state machine: calls of                  *)
(* record_destination, in any order, from the success callbacks of the     *)
(* forwarding queue (serialised by sync_table_mutex_).                     *)
(***************************************************************************)
EXTENDS Integers, SyncTableOps, FiniteSetsExt

CONSTANT MaxUpdates

ASSUME SyncTableAssumption == MaxUpdates \in Nat

VARIABLES
  table,                 \* lru_ and table_
  destinationTotal,      \* destination_total_
  updates,               \* updates_
  duplicates,            \* duplicate_destinations_
  evictedTotal,          \* evicted_total_
  history                \* ghost: the calls made so far

vars == <<table, destinationTotal, updates, duplicates, evictedTotal, history>>

Init ==
  /\ table = EmptyTable
  /\ destinationTotal = 0
  /\ updates = 0
  /\ duplicates = 0
  /\ evictedTotal = 0
  /\ history = <<>>

\* The destinations listed under a set of keys.
DestinationCount(t, keys) == MapThenSumSet(LAMBDA k : Len(t.dests[k]), keys)

\* Destinations that leave the table with the keys that are evicted.
DestinationsRemoved(t) == DestinationCount(t, Popped(t, EvictCount(t)) \cap Keys(t))

IsDuplicate(t, k, d) == \E i \in 1..Len(Destinations(t, k)) : t.dests[k][i] = d

\* Subtraction that stops at zero, as evict_if_needed guards size_t.
Minus(a, b) == IF a >= b THEN a - b ELSE 0

\* Mutant: the destinations of evicted keys stay in the total.
MutTotalAfter(k, d) ==
  destinationTotal + (IF IsDuplicate(table, k, d) THEN 0 ELSE 1)

\* destination_total_ after a call: one more unless a duplicate, less the
\* destinations of the evicted keys.
TotalAfter(k, d) ==
  Minus(destinationTotal + (IF IsDuplicate(table, k, d) THEN 0 ELSE 1),
        DestinationsRemoved(Recorded(table, k, d)))

\* Mutant: the difference is taken below capacity too.
MutEvictedNow(t) == Cardinality(Keys(t)) - Capacity

EvictedNow(t) == EvictCount(t)

Record(k, d) ==
  /\ updates < MaxUpdates
  /\ table' = RecordDestination(table, k, d)
  /\ destinationTotal' = TotalAfter(k, d)
  /\ updates' = updates + 1
  /\ duplicates' = duplicates + (IF IsDuplicate(table, k, d) THEN 1 ELSE 0)
  /\ evictedTotal' = evictedTotal + EvictedNow(Recorded(table, k, d))
  /\ history' = Append(history, [key |-> k, dest |-> d])

Next == \E k \in Key, d \in Dest : Record(k, d)

Spec == Init /\ [][Next]_vars

-----------------------------------------------------------------------------
TypeOK ==
  /\ IsTable(table)
  /\ updates \in 0..MaxUpdates
  /\ duplicates \in 0..updates
  /\ evictedTotal \in Nat
  /\ history \in Seq([key : Key, dest : Dest])

(***************************************************************************)
(* The list lru_ is a duplicate-free ordering of exactly the keys of       *)
(* table_, the table never exceeds its capacity after a call, and no       *)
(* destination is listed twice for a key.                                  *)
(***************************************************************************)
TableWellFormed == WellFormed(table)

(***************************************************************************)
(* The key recorded last is at the front of lru_: eviction, which runs     *)
(* inside the same call, never removes the key the call is about.          *)
(***************************************************************************)
LatestFirst ==
  history # <<>> =>
    table.lru # <<>> /\ table.lru[1] = history[Len(history)].key

\* The keys recorded after position i of the history.
KeysAfter(i, j) == {history[m].key : m \in (i + 1)..j}

\* After j calls, the key of call i has not been pushed out since call i.
KeptSince(i, j) ==
  \A m \in i..j :
    \E l \in i..m : /\ history[l].key = history[i].key
                    /\ Cardinality(KeysAfter(l, m)) < Capacity

(***************************************************************************)
(* What the table holds is what a least-recently-used map of this capacity *)
(* holds: destination d is listed under k exactly when some call recorded  *)
(* it and ever since fewer than Capacity other keys were recorded after    *)
(* the latest call for k ("LRU eviction is by key/file name").             *)
(***************************************************************************)
TableIsLru ==
  \A k \in Key, d \in Dest :
    (\E i \in 1..Len(Destinations(table, k)) : table.dests[k][i] = d)
      <=> \E i \in 1..Len(history) : /\ history[i] = [key |-> k, dest |-> d]
                                     /\ KeptSince(i, Len(history))

(***************************************************************************)
(* The counters shown by stats() agree with the table: the running total   *)
(* of destinations never drifts from the sum over the entries although it  *)
(* is adjusted call by call, and every call added a destination or counted *)
(* a duplicate.                                                            *)
(***************************************************************************)
CountersAgree ==
  /\ destinationTotal \in Nat
  /\ destinationTotal = DestinationCount(table, Keys(table))
  /\ destinationTotal <= updates - duplicates
  /\ Cardinality(Keys(table)) + evictedTotal <= updates - duplicates
=============================================================================
