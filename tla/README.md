# NetOS verification

TLA+ models of the NetOS prototype (`src/netos/`), model-checked with TLC, and
theorems about them checked by TLAPS. Paths below are relative to the root of
the repository; `PROJECT.json` maps every definition to the lines it models.

1. [The system](#1-the-system)
2. [Modules](#2-modules)
3. [Runs](#3-runs)
4. [Fairness](#4-fairness)
5. [Proofs](#5-proofs)
6. [Disagreements with the documents](#6-disagreements-with-the-documents)
7. [Abstractions and limits](#7-abstractions-and-limits)
8. [Plan](#8-plan)

## 1. The system

A NetOS node is one process next to one Redis server. Nodes exchange text
datagrams over UDP to find the holder of a key: `REQ` asks for a key, `DATA`
answers, `CBF` (Content-BF) advertises the keys of a node as a Bloom filter, and
`QBF` (Query-BF) asks for many keys at once.

### Components, their state and operations

| component | state | operations | correct when |
|---|---|---|---|
| `Node` (`node/node.cpp`) | `local_keys_`, the tables below, background threads | `run`, `handle_wire_message` and its four handlers, `seed_cache`, `schedule_requests`, the fallback, flush, exchange and reload loops | values are genuine, only what was asked for is stored, no request is forgotten, requests are answered, floods end |
| `RequestPipeline`, `DataPipeline` (`node/`) | none (contexts per message) | a chain of checks and lookups that may stop with a state | malformed, expired, duplicate and foreign messages change nothing they should not |
| `ForwardQueue` (`node/forward_queue.cpp`) | `queue_`, `started_`, worker threads, condition variable | `start`, `send_direct`, `send_broadcast`, `enqueue`, `worker_loop` | every message is attempted once or dropped at a full queue, callbacks run once, nothing waits forever |
| `SyncTable` (`tables/sync_table.cpp`) | `lru_`, `table_`, counters | `record_destination`, `destinations`, `stats` | an LRU map within capacity whose list, map and counters agree |
| `QueryTable` | request id -> expiry | `record_if_new`, `prune` | a request is handled once per TTL |
| `ContentBloomTable` | local filter, one summary per sender address with expiry | `add_local_key`, `update_neighbor`, `select_neighbor` | a summary never promises a key its sender lacks |
| `ContentBfFallbackTable` | key -> deadline | `schedule`, `cancel`, `take_due` | a direct request that is not answered is retried as a Query-BF |
| `QueryBloomAggregator` | buffer per origin, pending batches | `add_key`, `flush_due` | a key leaves only with a flushed batch, or with a buffer that `add_key` finds too old |
| `QueryBloomLimiter` | attempts per origin and filter digest | `allow` | a node forwards one filter a bounded number of times per window |
| `BloomFilter` (`tables/bloom_filter.cpp`) | bit vector | `add`, `maybe_contains`, `fill_ratio`, hex codec | no false negatives |
| `Message` codec (`core/message.cpp`) | none | `to_wire`, `from_wire` | what is parsed is what was sent, up to a separator in a value |
| `UdpNetwork`, `UdpTransport`, `address` (`network/`) | topology with lazily resolved addresses, socket | `send_direct`, `send_broadcast`, `set_topology`, receive loop | a broadcast reaches every neighbor but the excluded one |
| `RedisClient` (`cache/`) | one socket, opened once | `connect`, `set`, `get` | a reply belongs to its command |
| configuration (`core/config*.cpp`) | `Config` | load, parse, validate, reload | unusable settings are reported; only a changed file brings in what was not validated |

`Logger`, the smoke tests, the scripts, the containers and the ns-3 topology
generator carry no protocol logic and are not modelled.

### How they interact

`main` loads and validates a `Config` and calls `Node::run`. `run` starts the
transport thread **first**, then the forwarding queue, then writes the seeds to
Redis, then starts the exchange, flush, fallback and reload threads and the
scheduler. The transport thread calls the handlers; the handlers call Redis,
the tables and `ForwardQueue::send_*`; workers call `UdpNetwork::send_*` and then
the success or failure callback, which for `DATA` records the origin in the
`SyncTable`. The scheduler asks a neighbor directly if a summary matches and
then arms the fallback, or adds the key to the aggregator; the fallback thread
moves due keys into the aggregator; the flush thread broadcasts the batches.

### What is hard

- up to eight kinds of threads share the tables of one node; a handler and the
  scheduler read state that the other changes between two of their steps;
- UDP loses, duplicates, reorders and cuts off datagrams; sends and Redis
  commands fail; a node that restarts has lost all but (perhaps) its Redis;
- threads share the Redis socket and the `QueryTable` without a lock;
- several TTLs, windows and deadlines race with messages;
- Query-BFs are not deduplicated, so only the ttl ends a flood in a cycle;
- addresses are resolved lazily and forgotten on reload;
- Bloom filters give false positives;
- bounded structures (queue depth, table capacity, keys and fill of a batch,
  attempts) drop, evict, split or refuse at their limit.

`PROJECT.json` lists each of these as a hazard with its line and the properties
that would catch it going wrong.

## 2. Modules

| module | models | extends / uses |
|---|---|---|
| `SyncTableOps` | the operations of `SyncTable` on a record `[lru, dests]` | |
| `SyncTable` | the table as a state machine with its counters | `SyncTableOps` |
| `DataInduction` | induction over numbers, sets and sequences, and what sums and folds compute, proved | |
| `SyncTableLemmas` | what `record_destination` does to a table, proved | `SyncTableOps` |
| `SyncTableProofs` | theorems `SyncTableCorrect`, `SyncTableIsLru`, `SyncTableCountersAgree` | `SyncTable`, `SyncTableLemmas`, `DataInduction` |
| `ForwardService` | what the forwarding queue promises, abstractly | |
| `ForwardQueue` | `forward_queue.cpp` at the level of critical sections | `ForwardService` by refinement |
| `ForwardQueueProofs` | theorems `ForwardQueueSafe`, `QueueImplementsService` | `ForwardQueue` |
| `NetOSBase` | configuration, filters, messages, queue items | |
| `NetOS` | a deployment: every thread of every node, Redis, the network | `NetOSBase`, `SyncTableOps` |
| `NetOSProperties` | invariants, action and liveness properties | `NetOS` |
| `NetOSTypeProofs` | theorem `NetOSTypes` | `NetOSProperties`, `SyncTableLemmas` |
| `NetOSSafetyProofs` | the six safety theorems of a deployment | `NetOSTypeProofs` |
| `MCNetOS` | topologies, seeds, requests, hash positions for TLC | `NetOSProperties` |
| `TableConfig` | the settings of the timed tables, with what `validate_config` guarantees | |
| `QueryTable` | `query_table.cpp` with a clock and two unlocked callers | `TableConfig` |
| `QueryBloomLimiter` | `query_bf_limiter.cpp` with a clock | `TableConfig` |
| `ContentExchange` | `content_bf_table.cpp` and the exchange with one peer, timed | `TableConfig` |
| `RequestTimers` | `content_bf_fallback.cpp`, `query_bf_aggregator.cpp` and their threads, timed | `TableConfig` |
| `RedisClient` | `redis_client.cpp` on its socket, and the server | |
| `Wire` | `message.cpp`, the hex codec, the receive buffer | |
| `Configuration` | `config.cpp`, `config_validation.cpp`, `main.cpp`, the topology reload | |
| `Parts` | the parts of a node, each alone, with the properties of all | `SyncTable` and the eight above |
| `MCParts` | one of them at a time, for TLC | `Parts` |
| `TableProofs` | theorems about `QueryTable`, `QueryBloomLimiter`, `ContentExchange`, `RequestTimers` | `Parts` |
| `BoundaryProofs` | theorems about `RedisClient`, `Configuration`, `Wire`, and all parts together | `MCParts`, `SyncTableProofs`, `TableProofs`, `DataInduction` |

### SyncTable

A table is the list `lru` (most recent first) and the map `dests`; the iterator
an `Entry` keeps is the position of its key in the list (`LruIt`).
`RecordDestination` is `record_destination`: insert or touch (`Recorded`), then
`EvictIfNeeded`, whose loop is described by the least number of iterations after
which its condition is false (`LoopEnds`, `EvictCount`). `SyncTable` adds the
counters and a ghost `history` of calls, against which `TableIsLru` states what
an LRU map of the capacity would hold.

### ForwardQueue

`ppc`/`pitem` and `wpc`/`witem` are where a producer or worker is and which item it
holds. One action is one critical section or one call outside the lock:

| code | action |
|---|---|
| `start` | `Start` |
| `send_direct`, `send_broadcast` up to the choice of path | `Call` |
| the synchronous path | `SendNow` |
| `enqueue`, room / full | `EnqueueAccept` / `EnqueueDrop` |
| `notify_one` after unlock | `Notify` |
| `cv_.wait` with a false / true predicate | `WorkerWait` / `WorkerTake` |
| the send and callbacks outside the lock | `WorkerSend` |
| a spurious return of `cv_.wait` | `SpuriousWakeup` |

No code clears `running_`, so the exit of `worker_loop` is unreachable and has no
action. `ForwardService` knows only a status and a callback per message;
`ServiceStatus` and `ServiceCallback` map the queue's state to it.

### NetOS

Each variable is a function of the node. An action is what a thread does between
two points where another thread of the node can change what it reads:

| thread | actions |
|---|---|
| main (`run`, `seed_cache`) | `StartQueue`, `Seed` |
| transport | `Reject`, `DropDuplicate`, `ServeRequest`, `ForwardRequest`, `DropNotOrigin`, `StoreFailed`, `StoreData`, `HandleContentBloom`, `DropLateQuery`, `HandleQueryBloom`; then `Submit` for each send of the handler |
| scheduler | `ScheduleLocal`, `ScheduleMiss`, `ScheduleDirect`, `ScheduleFallback`, `ScheduleAggregate` |
| fallback | `TakeDue`, `AddDue` |
| flush | `Flush`, then `Submit` |
| exchange, reload | `Exchange`, `Reload` |
| queue worker | `WorkerSend` |
| the whole process | `Crash` |

`outbox` holds the sends a handler or the flush thread still has to make: they
are separate steps because other threads fill the bounded queue in between. The
scheduler has three program points per key: the Redis lookup, the direct request
(or aggregation), and the arming of the fallback after the send.

`sync` uses the operators of `SyncTableOps`, the same ones that are checked and
proved about on their own. The queue is the bounded list of `ForwardQueue` with
the steps of a worker joined (section 7).

`Crash(n)` ends the process of a node and starts it again: everything in memory
is gone, the topology is the one of the start, Redis has kept its keys or is empty
(`RedisAfterCrash`: `infra/entrypoint.sh` starts it without persistence, in the
same container), and datagrams and the summaries of the neighbors live on.
`MaxCrashes` bounds the number of crashes. Request ids carry the time of day in
the code; `RequestNumber` keeps them fresh over a restart.

Time is abstracted: an entry with a TTL may be gone, and a window may be over,
at any moment. `Faults` says which of these and of the failures an instance has.

The modules below model the same tables with a clock.

### The timed tables

Time is a number of ticks, `Horizon` of them. A thread that sleeps returns
within `MaxJitter` of its time, a datagram travels at most `MaxDelay`, and `Tick`
waits for what is overdue.

- **QueryTable.** `record_if_new` is three steps, `Enter` (count and prune),
  `FindHit` or `FindMiss`, and `Insert`, of the transport or the scheduler thread.
  The threads share the table without a lock, so they interleave between the
  steps, and an increment of both at once may be lost (`Incremented`). Only the
  scheduler makes an own id new, and only afterwards can it come back
  (`published`).
- **QueryBloomLimiter.** `Allow` prunes, opens a window (`Current`) and grants or
  refuses. `granted` is a ghost of all grants, over any window of time.
- **ContentExchange.** The peer adds keys (`AddLocalKey`), sends rounds of
  summaries that may be lost (`ExchangeRound`), crashes and restarts; this node
  keeps the last summary that arrived (`UpdateNeighbor`) and asks it
  (`SelectNeighbor`).
- **RequestTimers.** A key goes from the scheduler (`AskDirectly`, `AskByQuery`)
  through `schedule`, `cancel` (`Cancel`) and `take_due` (`TakeDue`, `AddDue`) or
  directly into `add_key` (`AddKey`: reset of an old buffer, split at `MaxKeys`)
  and out through `flush_due` (`FlushRound`).

### RedisClient

Commands go to the server in order, replies come back as a stream of units (a
type, a length, the units of a value, `nl`). A call is at a program point of
`read_resp`: `ReadLine` consumes up to a line ending that may belong to a value,
`Parse` decides, `ReadExact` consumes a bulk value. The server may refuse a
command (`Replies`) and may close the connection (`Close`): a call that reads
fails (`ReadFails`), one that sends ends the process (`SendOnClosed`, SIGPIPE).
Callers overlap freely; `overlapped` remembers that they did.

### Wire

`ToWire` joins the fields of a message with separators, `Receive` cuts the text to
the receive buffer (`Cut`), splits it and lets the handler (`Handled`) check and
decode the fields. Keys, values and stamps may contain separators, and filters
are half bytes in hex, so a cut can fall anywhere.

### Configuration

One setting at a time is set in the environment, in the file, or in both, to a
readable number (in and out of range), an unreadable text or `nan`. `LoadConfig`
gives the `Config`: `GetSetting` prefers the environment, `ToInt` narrows to an
`int`. `Boot` is `main`: load, construct the node (`Constructs` allocates the
filter), validate, connect, bind, run. `Rewrite` changes the file or removes it,
and `Reload` is a round of the reload thread, which does not validate.

## 3. Runs

| run | instance | checks |
|---|---|---|
| `parts` | each part alone: a `SyncTable` of capacity 2; 4 calls of `record_if_new`; limit 2 per window; a peer with losses, delays and crashes; 3 keys through the timers; 2 callers of Redis; messages cut at every length; every setting wrong in every way | below |
| `forward_queue` | 2 producers, 2 workers, 4 messages (of every kind), depth 1, start at any moment | `TypeOK`, `ExactlyOnePlace`, `CallbackOnce`, `DepthBounded`, `NoLostWakeup`, refinement `ImplementsService` with fairness |
| `netos_faults` | requester and holder; duplicates, losses, failed sends and Redis commands, expiry, late queries | `TypeOK`, `NotForgotten` |
| `netos_batches` | 2 keys whose filters overlap, split at the fill limit, buffers discarded by `add_key`, queue depth 1, table capacity 1 | `ValueIntegrity`, `NotForgotten` |
| `netos_ring` | 3 nodes in a cycle, Bloom collision, reload turns a link | `StoredWasAskedFor`, `SyncTableTruthful`, `TtlBoundsReach` |
| `netos_sync` | synchronous forwarding, failing Redis, malformed messages, a crash of either node that keeps or loses its Redis | `SummariesTruthful`, `NotForgotten`, `StoredWasAskedFor` |
| `netos_live` | 2 nodes, fair scheduling and delivery, expiry and reloads at any moment | `RequestsAreAnswered`, `FloodsDieOut` |
| `v_echo` | pair with a reload | `NoEchoToSender`, violated |
| `v_query_answer` | line of three | `QueryAnsweredToOrigin`, violated |
| `v_fallback` | pair | `NoFallbackForStored`, violated |
| `v_query_age` | `RequestTimers` alone | `BroadcastIsFresh`, violated |
| `v_redis_race` | `RedisClient` alone, two callers | `RefusedSetFails`, violated |

The parts share nothing, so `parts` picks one of them in the initial state
(`focus`) and runs it alone:

| part | properties |
|---|---|
| all | `PartsTypeOK` |
| `SyncTable` | `TableWellFormed`, `LatestFirst`, `TableIsLru`, `CountersAgree` |
| `QueryTable` | `AcceptedApart`, `DroppedWasRecent` |
| `QueryBloomLimiter` | `ForwardsCapped`, `RefusedOnlyAtLimit` |
| `ContentExchange` | `HeldKeyIsFound`, `DeadNeighborIsForgotten` |
| `RequestTimers` | `OnePlace`, `BroadcastInTime`, `LossNeedsIdleBuffer` |
| `RedisClient` | `ResultIsOwn`, `NeverStuck` |
| `Wire` | `DataIsPrefix`, `FiltersAreIntact` |
| `Configuration` | `EnvironmentDecides`, `InvalidIsReported`, `TopologyWasGiven`, `UncheckedNeedsRewrite` |

What they show:

- **SyncTable.** Six calls are enough for an eviction followed by a re-insertion
  of the evicted key, a touch that saves a key from eviction, and a duplicate
  after a re-insertion. The counters never drift; the contents are those of an
  LRU map, counted by keys.
- **Timed tables.** An id is accepted once per TTL and refused only for a recent
  one, although two threads interleave in the table. The limiter's fixed windows
  allow at most twice the limit in any stretch as long as a window, and old
  attempts never count. When `content_bf_ttl_ms` covers the rounds that may be
  lost, a key the peer has had for long enough is found; a summary that overtakes
  a newer one hides it for one delay; a dead peer is forgotten with the TTL. A key
  is handed over between the three threads without loss or duplication, within the
  two windows and a period of each thread; it is only lost in a buffer that had
  been idle for nearly `query_bf_ttl_ms` (`v_query_age` shows that this happens).
- **Redis.** A call that does not overlap another gets its own reply, for empty,
  missing and refused values and values with line endings, and never waits for a
  reply that cannot come. With overlapping calls neither holds (`v_redis_race`).
- **Wire.** If the key has no separator and fits into the buffer, `DATA` gives that
  key with a prefix of its value, or nothing; a longer key is stored shortened, with
  an empty value. A filter arrives whole or not at all; a cut stamp only
  makes a Query-BF look older.
- **Configuration.** Every setting out of range is reported, except that `nan`
  passes as fill ratio (`add_key` then never splits by fill, as with 0) and that a
  `content_bf_bits` of -8 or less ends the process in the constructor of `Node`.
  What counts is the number after its narrowing to `int` (`EnvironmentDecides`). A
  file that is missing at a reload changes nothing. A reload does not validate: a
  neighbor with a port above 65535 can enter by it, but only from a file that was
  changed after the start, and only if the environment gives no neighbors
  (`UncheckedNeedsRewrite`).
- **ForwardQueue.** With depth 1 and two producers every call can meet a full
  queue, and with two workers every notification can meet zero, one or two
  waiters. The notification after the unlock loses no wakeup, and a direct send
  always reports once, a broadcast never.
- **A node and its neighbors.** A stored value was seeded under the same key
  (`ValueIntegrity`; a value with a separator is cut, by `WireValue`); only asked
  or colliding keys are stored; summaries are truthful although late and
  reordered, and after a crash a node promises no more than it holds; a key the
  scheduler is done with is stored, on its way into a flushed Query-BF, or was in a
  buffer that a later `add_key` discarded as too old; the `SyncTable` names only origins that asked; the ttl bounds
  the reach of a message through loops and echoes.
- **Liveness.** A requested key that a neighbor was seeded with is eventually
  stored, and floods die out.

**Bounds.** Two or three nodes, one or two keys, queue depth 1 to 3, table
capacity 1, one forward per filter, ttl 1 to 3: the smallest values at which
queues fill, batches split, entries are evicted, limits are reached, a message
takes more than one hop, and an answer races its fallback. `MaxUpdates` bounds
the calls of `SyncTable`. `NoSummaryQueued` bounds `Exchange`, so that a node does
not fill its queue with copies of its own summary; other items still fill it.
`net` is a set: two identical datagrams in flight are one, which duplication
covers. One crash per run (`MaxCrashes`) of any node at any moment.

In `parts`, `Horizon` (7 ticks, `ShortHorizon` 6 for the `QueryTable` and the
limiter) is longer than every TTL, two windows and the longest way of a key;
`MaxCalls` 4 is an insertion, a duplicate, an expiry and a re-insertion;
`MaxJitter`, `MaxDelay` and `MaxLosses` are 1, one late wakeup, one reordering and
one lost round; `MaxCommands` 3 and values up to `MaxLength` 1 let a reply out of
step meet two later calls; `Limits` cuts messages from before the id to beyond the
end, with filters of 1 and 2 bytes (`FilterSizes`) and texts up to `MaxText` 2; an
`int` has 20 bits and a `size_t` 26 (`IntBits`, `SizeBits`), and the numbers lie at
their boundaries; `MaxRewrites` 2 is a file that disappears and returns. The
bounded clocks and calls may be used up, so this run does not check for deadlock.

The keys of `SyncTable` and of `RequestTimers` are interchangeable in `parts`
(`KeySymmetry`). The `netos` runs use no symmetry: the nodes and keys of an
instance have different roles.

## 4. Fairness

`ForwardQueue`: weak fairness of `Start`, of the steps of every producer that is
inside a call, and of every worker. It says that a runnable thread eventually
runs, which the operating system's scheduler gives; callers are not fair, and
neither are spurious wakeups. A mutex that is never held across a wait needs no
stronger fairness: each critical section is one action.

`netos_live` (`FairSpec`): weak fairness of the threads of each node, except
`Exchange` and `Reload`, on which nothing depends, and of reading a datagram of
each sender and type: the transport thread loops on one socket that is read in
order, so it never passes over one sender forever. The instance has no `send` or
`redis` fault and a queue that does not overflow: UDP promises no delivery, and a
lost Query-BF is not repeated by the code, so with losses the property does not
hold. For the same reason it has no crash: a holder that restarts loses the
requests it had queued. Summaries and tables may still expire, and reloads happen, at any moment.
`TakeDue` and `Flush` are fair because their loops wake at a fixed interval and
every deadline passes.

## 5. Proofs

| module | theorem | statement |
|---|---|---|
| `SyncTableProofs` | `SyncTableCorrect` | `Spec => [](TypeOK /\ TableWellFormed /\ LatestFirst)` |
| | `SyncTableLatestFirst` | `Spec => []LatestFirst` |
| | `SyncTableIsLru` | `Spec => []TableIsLru` |
| | `SyncTableCountersAgree` | `Spec => []CountersAgree` |
| `ForwardQueueProofs` | `ForwardQueueSafe` | `Spec => [](TypeOK /\ ExactlyOnePlace /\ CallbackOnce /\ DepthBounded /\ NoLostWakeup)` |
| | `ForwardQueueTypes`, `...CallbackOnce`, `...DepthBounded`, `...NoLostWakeup` | its parts, one by one |
| | `QueueImplementsService` | `Spec => Service!SInit /\ [][Service!SNext]_(Service!svars)` |
| `NetOSTypeProofs` | `NetOSTypes` | `Spec => []TypeOK` |
| `NetOSSafetyProofs` | `NetOSValueIntegrity` | `Spec => []ValueIntegrity` |
| | `NetOSStoredWasAskedFor` | `Spec => []StoredWasAskedFor` |
| | `NetOSTtlBoundsReach` | `Spec => []TtlBoundsReach` |
| | `NetOSSummariesTruthful` | `Spec => []SummariesTruthful` |
| | `NetOSSyncTableTruthful` | `Spec => []SyncTableTruthful` |
| | `NetOSNotForgotten` | `Spec => []NotForgotten`, with the flush thread on time or late |
| `TableProofs` | `QueryTableAcceptedApart`, `QueryTableDroppedWasRecent` | `Query!Spec => []AcceptedApart`, `[]DroppedWasRecent` |
| | `LimiterForwardsCapped`, `LimiterRefusedOnlyAtLimit` | `Limiter!Spec => []ForwardsCapped`, `[]RefusedOnlyAtLimit` |
| | `ContentHeldKeyIsFound`, `ContentDeadNeighborIsForgotten` | `Content!Spec => []HeldKeyIsFound`, `[]DeadNeighborIsForgotten` |
| | `TimersOnePlace`, `TimersBroadcastInTime`, `TimersLossNeedsIdleBuffer` | `Timers!Spec => []OnePlace`, `[]BroadcastInTime`, `[]LossNeedsIdleBuffer` |
| `BoundaryProofs` | `RedisResultIsOwn`, `RedisCallNeverStuck` | `Redis!Spec => []ResultIsOwn`, `[]NeverStuck` |
| | `SettingsInvalidIsReported`, `SettingsEnvironmentDecides`, `SettingsTopologyWasGiven`, `SettingsUncheckedNeedsRewrite` | `Settings!Spec => []InvalidIsReported`, `[]EnvironmentDecides`, `[]TopologyWasGiven`, `[]UncheckedNeedsRewrite` |
| | `WireDataIsPrefix`, `WireFiltersAreIntact` | `Codec!Spec => []DataIsPrefix`, `[]FiltersAreIntact` |
| | `RedisClientTypes`, `SettingsTypes`, `WireTypes` | the type invariants of the three |
| | `PartsTypes` | `AllSpec => []PartsTypeOK`, for the specification of the run `parts` |

### Assumptions

Every assumption is an `ASSUME` that TLC evaluates in a run. They say what
`validate_config` guarantees (positive capacities, depths, windows and TTLs), that
sets of things a program holds at a time are finite, and:

- `NetOSAssumption`: the topology, the seeds, the requests and the positions a key
  has in a filter are arbitrary, except that every key has a position; cutting a
  value at its separator twice is cutting it once; `Distance` is any function that
  grows by at most one per link, so `TtlBoundsReach` holds for the distance in hops
  in particular.
- `InjectedAssumption`: what reaches a node from outside the deployment lacks a field
  its handler needs, or has an unreadable one (`IsNoise`); that the handlers reject
  all of it is proved (`IncomingIsReal`). A forged `DATA` would of course be stored.
- `PartsAssumption`: ids made by this node differ from those of other nodes, as an
  id begins with the `node_id` of its maker; an `int` has at least 16 bits, as C++
  guarantees, and a `size_t` more than an `int`; a vector of as many bytes as an `int`
  can count can be allocated (`MaxBytes`); and a value in Redis has at most three
  units (`MaxLength`), as its length is one unit of the reply.
- `ContentHeldKeyIsFound` carries its condition, that `content_bf_ttl_ms` covers
  the rounds that may be lost, in the property.

### Arguments

**SyncTable**, for every positive capacity and all sets of keys and destinations.
Types, consistency and `LatestFirst` are inductive together. The argument goes
through the operators (`SyncTableLemmas`): touching keeps the list duplicate-free
with the same members; after `Recorded` there is at most one key too many, so the
loop of `evict_if_needed` runs at most once and removes the last key, which is not
the front one because the capacity is positive.

`TableIsLru` speaks of the whole history of calls and is not inductive. `LruInv`
adds what relates the list to the history: `Ranked`, a key stands behind exactly the
keys recorded after its latest call (`Follows` says that a call keeps this order),
and `Gone`, at least `Capacity` keys were recorded after every call for a key that
is not in the table. The key that leaves is the last of a full list, so `Ranked`
gives the `Capacity` keys that pushed it out; and among the calls for a key that
stays, the one of `Ranked` is the latest (`RankedIsLatest`) and has fewer than
`Capacity` keys after it (`FewBefore`). Hence a call counts after one more call
exactly if it counted before and its key is still in the table (`KeptStep`).

`CountersAgree` speaks of a sum over the keys of the table. `DataInduction` shows
that the library's sum over a finite set takes its elements in any order
(`SumOfAny`), so a call changes the sum by the term of one key: `Recorded` adds one
unless it met a duplicate (`RecordedCounts`), and the key that is evicted takes its
destinations along (`EvictCounts`), which are never more than the total.

**ForwardQueue**, for any numbers of producers and workers (at least one worker),
a finite set of messages and every positive depth. The five invariants need two
more facts to be inductive: `HoldsItem` (a thread holds an item exactly at the
program points where the code does; otherwise an idle thread could own an item
it never sends) and `Paths` (workers are off exactly while calls are synchronous,
and nobody is on the queued path then; otherwise `Start` could find items and no
notification). For each action that moves an item a lemma (`CallMoves`,
`SendNowMoves`, `EnqueueAcceptMoves`, `EnqueueDropMoves`, `WorkerTakeMoves`,
`WorkerSendMoves`) says how the places of **every** item change, and
`ExactlyOnePlace` follows item by item. `NoLostWakeup` rests on the order of the
code: an item is pushed before its producer leaves the point where it notifies,
a worker waits only after it saw the queue empty under the mutex, and a
notification that finds no waiter finds every worker awake.

**Refinement.** The same lemmas give the step mapping: `Call` is `Submit`,
`EnqueueAccept` is `Accept`, `EnqueueDrop` is `Drop`, `SendNow` and `WorkerSend` are
`Attempt`, everything else a stutter. `Drop` requires that `Capacity` messages wait:
a full queue is an injection from its positions into the waiting messages
(`FullMeansWaiting`), which is where the finiteness of the set of messages is
used.

**NetOS**, for any set of nodes, topology, reload options, seeds, requests, hash
positions and limits, all faults and any number of crashes. Four layers, each
inductive relative to the one below, with one lemma per action:

1. `TypeInv`: the types, and that the `SyncTable` of every node is consistent.
   It uses the lemmas of `SyncTableLemmas` through an instance with `SyncCapacity`.
2. `ProvInv`, provenance. Values and keys travel through outboxes, queues and the
   network before they are stored, so a property of Redis alone is not inductive:
   every message, wherever it is, is `Grounded` (it names what its origin asked for,
   and a value was seeded under its key) and `InReach` (it has spent a unit of ttl
   per hop), queued items go to adjacent nodes, and fallbacks, buffers and batches
   hold only requested keys. Adjacency covers the links before and after reloads,
   which is why echoes and turned links change nothing.
3. `TruthInv`, truthfulness: what a node claims in its key set, in summaries that are
   queued, in flight or kept by neighbors, in `DATA` it is about to send and in its
   `SyncTable` is covered by its Redis. Redis only grows until a crash
   (`StoredGrows`), so claims that are late stay true; the count of crashes
   guards those that a crash may falsify.
4. `RequestsRemembered`: every step that takes a key from one place (scheduler,
   fallback, taken, buffer, pending) puts it into the next. `AddKeyCollects` and the
   lemmas on `Flush` say what the aggregator does with the filters: a step of
   `add_key` either keeps the buffer or moves its filter to `discarded`, and what is
   flushed or discarded stays on record until a crash.

**QueryTable.** `QueryInv`: the threads never work on the same id at a time
(`QueryIdsApart`; the transport thread sees an own id only after the scheduler sent
it), the table holds the latest acceptance and what it lacks is older than the TTL
(`QueryLatest`), and a call between two steps still knows what prune and find
established (`QueryCallKnows`). Without the first, two inserts of one id would be
possible.

**QueryBloomLimiter.** `WindowHolds` relates an entry to all grants ever made to its
flow: the last `attempts` of them fall into its window, the others before it, and
all but `AttemptLimit` of those more than a window before it. It bounds any
stretch by two windows' grants. Opening a window later than the old one and
pruning after two windows keep it; `FlowKnown` says that a flow without entry has
only old grants.

**ContentExchange.** `ContentRenewed`, needed for `HeldKeyIsFound`: since a key was
added or the entry updated, either a summary within the rounds that may be lost is
on its way, or those rounds are not over yet. `ContentComplete` says which
summaries have the key, given that older ones may overtake newer ones for one
delay; `ContentAfterEnd` bounds what a dead peer left behind.

**RequestTimers.** `TimersInv`: seven places of a key, the buffer and the pending
batches told apart (`TimersPlaces`); for every key in a place the latest time of the
round that takes it out (`TimersTiming`, `GoodAdd`), from which the bound of
`BroadcastInTime` is the sum; and for every addition how long its buffer had
been idle (`TimersLoss`).

**RedisClient.** `RedisInv`: as long as calls have not overlapped, at most one call is
under way, and it is in step with the connection (`RedisInStep`): its command waits
and the stream is empty, or the stream is exactly the rest of the reply to it, with
what the call has read being the beginning (`RedisReceived`), or the connection is
closed and the call was cut off. Without the middle part `ResultIsOwn` is not
inductive: a line ending inside a value would be taken for the end of the reply if
the call were one unit out of step.

**Configuration.** `SettingsInv`: the settings of a node are what `LoadConfig` makes of
the environment and some file that was there, the phase it is in is the one its
settings lead to, and the topology comes from a file seen; until the file is rewritten, and always if the
environment names neighbors, it is the one that was validated (`EnvironmentNeighbors`,
which gives `UncheckedNeedsRewrite`). The rest is about
`LoadConfig`: a number that is narrowed is in the range of an `int` (`ToIntRange`, with
the powers of two of `DataInduction`), the loop over the neighbor list keeps only
entries with a host and a positive port (`ParsedNeighbors`, by induction over the
list).
That `InvalidIsReported` names the only exception needs that a filter of more than
-8 bits can be allocated (`SmallFilterFits`).

**Wire.** The state machine has two steps; the argument is about its operators, by
induction over texts. `SplitSteps` says what the loop of `split` does with one more
unit, `SplitJoined` that a part without separator is split off in front, and
`SplitCut` what is left of it behind a cut. Four applications give the fields of a
message that is cut off anywhere (`FourCut`): it has fewer than five parts and is
dropped, or type, id, origin and ttl are as they were sent and the key, if it has
no separator, is a prefix without value, or whole with a prefix of the value
(`WireRead`, `Arrives`). A prefix of a filter has the wrong length for `from_hex`
(`FilterKey`), all of it is read back as it was written (`ToHexShape`, `HexUnique`,
`HexReadBack`), and a prefix of a stamp is not a larger number (`StampOrder`).

**The parts together.** `PartsInv` says that the part which is exercised satisfies
its inductive invariant; every step is a step of that part or leaves it alone.

**Induction over data.** The library's induction theorems take an operator as a
parameter, which the provers cannot instantiate. `DataInduction` derives induction
over numbers, subsets and sequences from the well-foundedness of the order on
numbers, stated with sets instead (`AllNumbers`, `AllSequences`): a fact is proved for
all values by showing that the set of values it holds for is closed. The sums and
folds of the community modules choose a function that satisfies a recursion
equation; such a function exists (`FoldExists`, `FoldLeftExists`), and its values
along the prefixes of a sequence follow step by step (`FoldLeftSteps`).

### Only model-checked

- Liveness (`RequestsAreAnswered`, `FloodsDieOut`) and the fairness part of the
  refinement (`ImplementsService`): the prover has no fairness.
- What the five runs with a violation show: they are counterexamples.

Every invariant that a passing run checks is stated by a theorem.

## 6. Disagreements with the documents

- `v_echo`. `docs/CONTRACTS.md` says that requests go to all neighbors except the
  immediate sender. `send_broadcast` compares the sender with an address that is
  zero until the first send to that neighbor and after every reload, so the first
  broadcast afterwards echoes. Floods still end (`FloodsDieOut`).
- `v_query_answer`. `design/ARCHITECTURE.md` says that a Query-BF match responds to
  the origin. The answer goes to the address the datagram came from, a forwarding
  node, which drops it as `drop_not_origin`. This is why `RequestsAreAnswered` is
  stated for direct neighbors.
- `v_fallback`. `docs/CONTRACTS.md` says that the fallback is canceled if data is
  stored before the window expires. The fallback is armed after the request is
  sent; an answer handled in between cancels nothing and leaves a fallback for a
  stored key, which ends in a superfluous Query-BF.
- `v_query_age`. `docs/CONTRACTS.md` says that keys are aggregated within the
  window, and `docs/OBSERVABILITY.md` that `bf_age_ms` is the age of the Query-BF.
  `flush_due` stamps the empty buffer it leaves (`reset_buffer`), and the next key
  inherits the stamp however long the buffer was idle. A key added shortly before
  `query_bf_ttl_ms` is over is broadcast in a Query-BF that every receiver drops
  as expired.
- `v_redis_race`. `docs/CONTRACTS.md` says that `SET` errors are logged as
  `store_failed`. The threads of a node use one socket without a lock; a second
  call can read the error reply of a `SET`, which then reads the other call's reply
  and reports success.

## 7. Abstractions and limits

- **Redis** starts empty. In `NetOS` the calls of different threads on its one
  socket are taken to be serialised; `RedisClient` has the socket without a lock,
  and shows what a call returns while calls do not overlap and how it goes wrong
  when they do. An error of `get` is a miss, as every caller treats it. A
  successful `set`, the cancellation of the fallback and `record_local_key` are one
  action: between them only `ContentBloomTable` and `local_keys_` lag behind, which
  delays an advertisement or an answer; the equality in `SummariesTruthful` holds
  between handlers, not in the middle of one. Redis ends only together with its node
  in `NetOS`. `ResultIsOwn` and `NeverStuck` claim nothing once two calls have
  overlapped; `RefusedSetFails` is the property about that. A `send` on a closed
  connection ends the process (`SendOnClosed`). In `RedisClient` a line ending is one unit,
  and a command is written by one `send`.
- **QueryTable** is used by two threads without a lock; in `QueryTable` they
  interleave between prune, find and insert. That the hash map itself survives
  simultaneous changes is assumed: its corruption has no finite set of outcomes.
- **Clocks.** The steady and the system clock of a node are one, and so are those
  of different nodes; a Query-BF may be late at any moment in `NetOS`
  (`late_query`).
- **Crashes** happen between two actions, and a node is back at once: until then
  it would only be silent, like a node whose datagrams are lost.
- **Wire.** The ttl field is not varied; numbers have the digits of `Digits`.
- **Configuration.** Any given text for the drop policy stands for a policy other
  than the supported one. The ports of the neighbors are numbers.
- **The worker of NetOS** pops and sends in one action. Several workers may reorder
  sends; `net` is a set, so the receiver sees every order anyway.
- **Loss** is a datagram that is never received; there is no action for it.
- **Ids.** The id of the i-th request of a node is `<<n, i>>`; no code compares the
  ids of `DATA` and Query-BFs, which share one.
- **The limiter** keys its entries by a digest of the filter text; the model uses
  the filter itself, i.e. no digest collisions.
- **Filters** are sets of positions; the hash functions are parameters, and
  collisions are chosen in the instances (`Same`, `Within`, `Around`).
- **Flushes**: `flushed` and `discarded` are ghosts, the filters that left the
  aggregator to the forwarding queue or were dropped by `add_key`, so that
  `NotForgotten` can account for every key. `NetOS` has no clock: `add_key` may find
  any buffer older than `query_bf_ttl_ms`, which includes the buffer that was idle
  before its first key while the flush thread is on time. That is more than the code
  can do; when exactly it happens is said by `LossNeedsIdleBuffer` in `RequestTimers`,
  and `NotForgotten` says that keys are lost in no other way.
- **Not modelled**: logging and what is computed for logs; batch ids, which nothing
  compares; the hash functions of the Bloom filter, which are parameters, and its
  `merge` and `clear`, which nothing calls; the line syntax of the configuration
  file, boolean settings, the parsing of seeds and requested keys; `stop` and the
  end of `run`, which no code reaches, because none clears `running_`; the smoke
  tests, the scripts, the ns-3 generator and the deployment, which hold no logic of
  the protocol.

## 8. Plan

Order of work, most important behaviour first. Done: 1 to 12.

1. `SyncTable` with its proof.
2. `ForwardQueue` against `ForwardService`, with its safety and refinement proofs.
3. `NetOS`: the deployment, its properties and instances, with crashes.
4. Timed models of the tables: `QueryTable`, `QueryBloomLimiter`,
   `ContentExchange`, `RequestTimers`.
5. `RedisClient`: the connection with concurrent callers and errors.
6. `Wire`: the codecs and the receive buffer.
7. `Configuration`: load, validate, start, reload.
8. Proofs about `NetOS` for any deployment, and of `TableIsLru`.
9. Proofs of the timed tables.
10. Proofs about `RedisClient`: in a connection without overlapping calls, the
    stream is exactly the reply to the command of the one call.
11. Proofs about `Configuration` and `Wire`, for every width of the integers and
    every length of texts and filters.
12. Induction over data, and with it the counters of `SyncTable`.
13. Left: the tables of `NetOS`, whose entries may expire at any moment, as
    abstractions that the timed tables refine.
