---------------------------- MODULE RequestTimers ----------------------------
(***************************************************************************)
(* The way of a requested key into a Query-BF, with a clock: the scheduler *)
(* asks a neighbor and arms a fallback (content_bf_fallback.cpp), or adds  *)
(* the key to the buffer of its origin (query_bf_aggregator.cpp); the      *)
(* fallback thread moves due keys into the buffer; the flush thread        *)
(* broadcasts the buffer when its window is over.  Both threads sleep a    *)
(* fixed period between rounds and may oversleep by MaxJitter.             *)
(***************************************************************************)
EXTENDS TableConfig, Sequences, FiniteSets

CONSTANTS Key

VARIABLES
  now,           \* steady_clock and system_clock
  asked,         \* ghost: per key the scheduler has asked for, when
  entries,       \* content_bf_fallback_.entries_: deadlines
  taken,         \* keys the fallback thread took and has yet to add
  buffer,        \* buffers_[node_id]: created_ms and the keys added
  pending,       \* pending_batches_
  fallbackWake,  \* when the fallback thread returns from sleep_for
  flushWake,     \* when the flush thread does
  answered,      \* keys whose DATA was stored in time to cancel the fallback
  sent,          \* ghost: the batches that were broadcast, and when
  discarded      \* ghost: what add_key threw away

tables == <<entries, taken, buffer, pending>>
ghosts == <<asked, answered, sent, discarded>>
vars == <<now, tables, fallbackWake, flushWake, ghosts>>

Larger(a, b) == IF a >= b THEN a ELSE b

FlushEvery == Larger(AggregationWindow \div 2, MinFlushEvery)
FallbackEvery == Larger(FallbackWindow \div 2, MinFallbackEvery)

\* A buffer that add_key has not used yet (created_ms = 0).
NoBuffer == [created |-> -1, adds |-> {}]

Init ==
  /\ now = 0
  /\ asked = [k \in {} |-> 0]
  /\ entries = [k \in {} |-> 0]
  /\ taken = {}
  /\ buffer = NoBuffer
  /\ pending = <<>>
  /\ fallbackWake = 0 /\ flushWake = 0
  /\ answered = {} /\ sent = {} /\ discarded = {}

\* The threads run within MaxJitter of their time, and their work takes none.
Tick ==
  /\ now < Horizon
  /\ taken = {}
  /\ now < fallbackWake + MaxJitter /\ now < flushWake + MaxJitter
  /\ now' = now + 1
  /\ UNCHANGED <<tables, fallbackWake, flushWake, ghosts>>

-----------------------------------------------------------------------------
(* The aggregator.                                                         *)

\* reset_buffer
Reset == [created |-> now, adds |-> {}]

\* Mutant: query_bf_ttl_ms is mixed up with the window.
MutTooOld == buffer.created >= 0 /\ now - buffer.created > AggregationWindow

TooOld == buffer.created >= 0 /\ now - buffer.created > QueryBfTtl

\* The buffer that add_key adds to.
Usable == IF buffer = NoBuffer \/ TooOld THEN Reset ELSE buffer

\* The buffer with k, added now; idle is how old the buffer was by then.
WithKey(k) ==
  [Usable EXCEPT !.adds = @ \cup
     {[key |-> k, added |-> now, idle |-> now - Usable.created]}]

Splits(b) == MaxKeys > 0 /\ Cardinality(b.adds) >= MaxKeys

\* add_key
AddKey(k) ==
  /\ discarded' = IF TooOld THEN discarded \cup buffer.adds ELSE discarded
  /\ \/ /\ Splits(WithKey(k))
        /\ pending' = Append(pending, WithKey(k))
        /\ buffer' = Reset
     \/ /\ ~Splits(WithKey(k))
        /\ buffer' = WithKey(k)
        /\ UNCHANGED pending

\* Mutant: the window is mixed up with query_bf_ttl_ms.
MutDue == buffer.adds # {} /\ now - buffer.created > QueryBfTtl

\* has_data and the window is over
Due == buffer.adds # {} /\ now - buffer.created >= AggregationWindow

Batches ==
  {pending[i] : i \in 1..Len(pending)} \cup (IF Due THEN {buffer} ELSE {})

\* One round of the flush thread: flush_due, and every batch is broadcast.
FlushRound ==
  /\ now >= flushWake
  /\ sent' = sent \cup {[batch |-> b, at |-> now] : b \in Batches}
  /\ pending' = <<>>
  /\ buffer' = IF Due THEN Reset ELSE buffer
  /\ flushWake' = now + FlushEvery
  /\ UNCHANGED <<now, entries, taken, fallbackWake, asked, answered, discarded>>

-----------------------------------------------------------------------------
(* The scheduler, the answers and the fallback thread.                     *)

Ask(k) == k \notin DOMAIN asked
  /\ asked' = [j \in DOMAIN asked \cup {k} |-> IF j = k THEN now ELSE asked[j]]

\* No summary matches the key.
AskByQuery(k) ==
  /\ Ask(k)
  /\ AddKey(k)
  /\ UNCHANGED <<now, entries, taken, fallbackWake, flushWake, answered, sent>>

\* A direct request, then ContentBfFallbackTable::schedule.
AskDirectly(k) ==
  /\ Ask(k)
  /\ entries' = [j \in DOMAIN entries \cup {k} |->
                   IF j = k THEN now + FallbackWindow ELSE entries[j]]
  /\ UNCHANGED <<now, taken, buffer, pending, fallbackWake, flushWake,
                 answered, sent, discarded>>

\* DATA for k is stored: ContentBfFallbackTable::cancel.
Cancel(k) ==
  /\ k \in DOMAIN entries
  /\ entries' = [j \in DOMAIN entries \ {k} |-> entries[j]]
  /\ answered' = answered \cup {k}
  /\ UNCHANGED <<now, taken, buffer, pending, fallbackWake, flushWake,
                 asked, sent, discarded>>

\* Mutant: an entry is taken and kept.
MutRemaining(due) == entries

\* The entries that take_due leaves.
Remaining(due) == [k \in DOMAIN entries \ due |-> entries[k]]

\* The fallback thread begins a round: take_due.
TakeDue ==
  /\ now >= fallbackWake /\ taken = {}
  /\ LET due == {k \in DOMAIN entries : now >= entries[k]}
     IN  /\ taken' = due
         /\ entries' = Remaining(due)
         /\ fallbackWake' = now + FallbackEvery
  /\ UNCHANGED <<now, buffer, pending, flushWake, ghosts>>

\* It adds the keys it took.
AddDue(k) ==
  /\ k \in taken
  /\ AddKey(k)
  /\ taken' = taken \ {k}
  /\ UNCHANGED <<now, entries, fallbackWake, flushWake, asked, answered, sent>>

Next ==
  \/ Tick
  \/ FlushRound
  \/ TakeDue
  \/ \E k \in Key : AskByQuery(k) \/ AskDirectly(k) \/ Cancel(k) \/ AddDue(k)

Spec == Init /\ [][Next]_vars

-----------------------------------------------------------------------------
Adds == [key : Key, added : Nat, idle : Nat]
Batch == [created : Nat, adds : SUBSET Adds]

TypeOK ==
  /\ now \in Nat
  /\ DOMAIN asked \subseteq Key /\ \A k \in DOMAIN asked : asked[k] \in Nat
  /\ DOMAIN entries \subseteq DOMAIN asked
  /\ \A k \in DOMAIN entries : entries[k] \in Nat
  /\ taken \subseteq DOMAIN asked
  /\ buffer = NoBuffer \/ (buffer.created \in Nat /\ buffer.adds \subseteq Adds)
  /\ \A i \in 1..Len(pending) : pending[i].adds \subseteq Adds
  /\ fallbackWake \in Nat /\ flushWake \in Nat
  /\ answered \subseteq DOMAIN asked
  /\ discarded \subseteq Adds

\* The additions of keys that have not been broadcast.
Waiting == buffer.adds \cup UNION {pending[i].adds : i \in 1..Len(pending)}

Broadcast == UNION {s.batch.adds : s \in sent}

\* Where a key can be.
Places(k) ==
  <<k \in DOMAIN entries, k \in taken, k \in answered,
    \E x \in Waiting : x.key = k,
    \E x \in Broadcast : x.key = k,
    \E x \in discarded : x.key = k>>

(***************************************************************************)
(* A key that was asked for is in one place: it waits for its fallback, is *)
(* taken, was answered, waits in the aggregator, was broadcast, or was     *)
(* discarded; the hand-overs between the three threads neither lose nor    *)
(* duplicate it.                                                           *)
(***************************************************************************)
OnePlace ==
  \A k \in DOMAIN asked :
    Cardinality({p \in 1..6 : Places(k)[p]}) = 1

\* The longest time between add_key and the broadcast.
FlushDelay == AggregationWindow + FlushEvery + MaxJitter

\* The longest time between a direct request and add_key.
FallbackDelay == FallbackWindow + FallbackEvery + MaxJitter

(***************************************************************************)
(* "Content-BF direct queries that do not yield data within                *)
(* NETOS_CONTENT_BF_FALLBACK_MS schedule the key into Query-BF             *)
(* aggregation", and keys are aggregated within                            *)
(* NETOS_QUERY_BF_AGGREGATION_MS: a key never waits longer for its         *)
(* broadcast than the two windows and one period of each thread.           *)
(***************************************************************************)
BroadcastInTime ==
  /\ \A x \in Waiting : now - x.added <= FlushDelay
  /\ \A k \in DOMAIN asked :
       (k \in DOMAIN entries \cup taken \/ \E x \in Waiting : x.key = k)
         => now - asked[k] <= FallbackDelay + FlushDelay

\* Batches that are older than query_bf_ttl_ms when they are broadcast:
\* every receiver drops them (bf_expired).
BornExpired == {s \in sent : s.at - s.batch.created > QueryBfTtl}

(***************************************************************************)
(* When a key is lost (discarded by add_key, or broadcast in a Query-BF    *)
(* that every receiver drops as bf_expired), the buffer had been idle when *)
(* the key was added, for nearly query_bf_ttl_ms: with keys that follow    *)
(* closely after a flush, the aggregator loses none.                       *)
(***************************************************************************)
LossNeedsIdleBuffer ==
  \A x \in discarded \cup UNION {s.batch.adds : s \in BornExpired} :
    x.idle + FlushDelay > QueryBfTtl

(***************************************************************************)
(* "keys are aggregated into a per-origin Query-BF within                  *)
(* NETOS_QUERY_BF_AGGREGATION_MS" and "bf_age_ms reports the age of the    *)
(* Query-BF": when query_bf_ttl_ms exceeds the longest time a key waits in *)
(* the aggregator, no Query-BF is already expired when it is broadcast.    *)
(***************************************************************************)
BroadcastIsFresh == QueryBfTtl > FlushDelay => BornExpired = {}
=============================================================================
