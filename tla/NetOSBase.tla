------------------------------ MODULE NetOSBase ------------------------------
(***************************************************************************)
(* The configuration of a NetOS deployment and the data its nodes handle:  *)
(* Bloom filters, messages, and the items of the forwarding queue.         *)
(***************************************************************************)
EXTENDS Integers, Sequences, FiniteSets, FiniteSetsExt

CONSTANTS
  Node, Key, Value,
  None,            \* an absent value: an empty field, no summary, no address
  Garbage,         \* a field that does not parse
  Stamp,           \* a decimal created_ms in the value field of a Query-BF
  Bit,             \* the bit positions of a filter
  ContentBits,     \* the positions that the hashes of a key set in a Content-BF
  QueryBits,       \* the same for a Query-BF
  WireValue,       \* what from_wire reads back of a value: up to its first '|'
  Neighbors,       \* config_.neighbors
  ReloadOptions,   \* neighbor lists that a topology reload may find
  SeedKeys,        \* config_.seed_keys, a sequence of [key, value]
  RequestKeys,     \* config_.request_keys, a sequence of keys
  RequestTtl,      \* config_.request_ttl
  QueueMax,        \* config_.forward_queue_max
  Async,           \* config_.async_forward_enable
  SyncCapacity,    \* config_.sync_table_capacity
  MaxKeys,         \* config_.query_bf_max_keys, 0 for no limit
  MaxFill,         \* the bits set at query_bf_max_fill_ratio, 0 for no limit
  AttemptLimit,    \* config_.broadcast_attempt_limit
  Faults,          \* what may go wrong in an instance
  MaxCrashes,      \* bound: how many crashes there may be
  Injected,        \* messages that arrive from outside the deployment
  Distance         \* how far apart nodes are at least, in hops (for the properties)

FaultKind == {
  "duplicate",     \* the network delivers a datagram again
  "send",          \* resolve_address or sendto fails
  "redis",         \* a Redis command fails
  "expire",        \* TTLs and windows end at any moment
  "late_query" }   \* a Query-BF is older than query_bf_ttl_ms on arrival

Threads == {"transport", "flush"}

Seeds(n) == {SeedKeys[n][i] : i \in 1..Len(SeedKeys[n])}

Requested(n) == {RequestKeys[n][i] : i \in 1..Len(RequestKeys[n])}

\* Nodes that n may send a broadcast to, now or after a reload.
Links(n) == Neighbors[n] \cup UNION ReloadOptions[n]

\* Nodes that n may send a message to: its neighbors, and the senders of the
\* messages it receives.
Adjacent(n) == Links(n) \cup {m \in Node : n \in Links(m)}

ASSUME NetOSAssumption ==
  /\ IsFiniteSet(Node) /\ IsFiniteSet(Key) /\ IsFiniteSet(Bit)
  /\ None \notin Node \cup Key \cup Value \cup {Garbage, Stamp}
  /\ \A f \in SUBSET Bit : f # None /\ f # Garbage
  /\ Stamp # Garbage
  /\ ContentBits \in [Key -> (SUBSET Bit) \ {{}}]
  /\ QueryBits \in [Key -> (SUBSET Bit) \ {{}}]
  /\ WireValue \in [Value -> Value]
  /\ \A v \in Value : WireValue[WireValue[v]] = WireValue[v]
  /\ Neighbors \in [Node -> SUBSET Node]
  /\ ReloadOptions \in [Node -> SUBSET SUBSET Node]
  /\ SeedKeys \in [Node -> Seq([key : Key, value : Value])]
  /\ RequestKeys \in [Node -> Seq(Key)]
  /\ RequestTtl \in Nat \ {0} /\ QueueMax \in Nat \ {0}
  /\ SyncCapacity \in Nat \ {0} /\ AttemptLimit \in Nat \ {0}
  /\ MaxKeys \in Nat /\ MaxFill \in Nat
  /\ Async \in BOOLEAN
  /\ Faults \subseteq FaultKind
  /\ MaxCrashes \in Nat
  /\ Distance \in [Node -> [Node -> Nat]]
  /\ \A o \in Node : Distance[o][o] = 0
  /\ \A o, n \in Node : \A m \in Adjacent(n) : Distance[o][m] <= Distance[o][n] + 1

-----------------------------------------------------------------------------
(* Bloom filters are sets of bit positions.                                *)

\* BloomFilter::maybe_contains: all positions of the key are set.
MaybeContains(filter, positions) == positions \subseteq filter

\* BloomFilter::add
Add(filter, positions) == filter \cup positions

\* BloomFilter::from_hex succeeds.
IsFilter(text) == text # Garbage

-----------------------------------------------------------------------------
(* Messages: struct Message.  The key field carries a key or a filter.     *)

\* Request ids are unique per node (make_request_id); the i-th request of n,
\* over all its runs, has id <<n, i>>.  No code compares the ids of DATA and Query-BF messages,
\* which share <<n, 0>>.
RequestId(n, i) == <<n, i>>
FreshId(n) == <<n, 0>>

Ids == Node \X Nat

Request(n, i, k) ==
  [type |-> "REQ", id |-> RequestId(n, i), origin |-> n, ttl |-> RequestTtl,
   key |-> k, value |-> None]

Data(i, o, k, v) ==
  [type |-> "DATA", id |-> i, origin |-> o, ttl |-> RequestTtl, key |-> k, value |-> v]

\* The ttl field of a Content-BF holds content_bf_ttl_ms, which nobody reads.
ContentBloom(n, filter) ==
  [type |-> "CBF", id |-> None, origin |-> n, ttl |-> 1, key |-> filter, value |-> None]

QueryBloom(n, filter) ==
  [type |-> "QBF", id |-> FreshId(n), origin |-> n, ttl |-> RequestTtl,
   key |-> filter, value |-> Stamp]

\* What the receiver parses from the text the sender wrote: from_wire(to_wire).
OnWire(m) == IF m.type = "DATA" THEN [m EXCEPT !.value = WireValue[@]] ELSE m

\* Mutant: the ttl is not decremented.
MutForwardTtl(ttl) == ttl

\* The ttl one hop further.
ForwardTtl(ttl) == ttl - 1

Hop(m) == [m EXCEPT !.ttl = ForwardTtl(@)]

\* validate_request_fields and validate_ttl of the request pipeline.
RequestIsValid(m) == m.id # None /\ m.origin # None /\ m.key # None /\ m.ttl > 0

\* Mutant: the ttl of DATA is not checked.
MutDataIsValid(m) == m.id # None /\ m.origin # None /\ m.key # None

\* validate_data_fields of the data pipeline.
DataIsValid(m) == m.id # None /\ m.origin # None /\ m.key # None /\ m.ttl > 0

\* The checks at the head of handle_content_bloom.
ContentBloomIsValid(m) == m.origin # None /\ m.key # None /\ IsFilter(m.key)

\* The checks at the head of handle_query_bloom, except for the age.
QueryBloomIsValid(m) ==
  m.origin # None /\ m.ttl > 0 /\ m.key # None /\ m.value = Stamp /\ IsFilter(m.key)

\* A message with a missing or unreadable field that its handler needs.
IsNoise(m) ==
  \/ m.type = "UNKNOWN"
  \/ m.type \in {"REQ", "DATA", "CBF", "QBF"} /\ (m.origin = None \/ m.key = None)
  \/ m.type \in {"REQ", "DATA"} /\ m.id = None
  \/ m.type \in {"REQ", "DATA", "QBF"} /\ ~(m.ttl > 0)
  \/ m.type \in {"CBF", "QBF"} /\ m.key = Garbage
  \/ m.type = "QBF" /\ m.value # Stamp

\* What comes from outside the deployment is noise: nobody forges messages.
ASSUME InjectedAssumption == \A m \in Injected : IsNoise(m)

-----------------------------------------------------------------------------
(* Items of the forwarding queue: ForwardQueue::Item.                      *)

DirectItem(to, m) == [kind |-> "direct", addr |-> to, exclude |-> None, msg |-> m]

BroadcastItem(m, exclude) ==
  [kind |-> "broadcast", addr |-> None, exclude |-> exclude, msg |-> m]

Datagram(from, to, m) == [from |-> from, to |-> to, msg |-> OnWire(m)]

\* All the orders in which the elements of a finite set can be visited.
Orderings(S) ==
  {s \in [1..Cardinality(S) -> S] : \A x \in S : \E i \in 1..Cardinality(S) : s[i] = x}
=============================================================================
