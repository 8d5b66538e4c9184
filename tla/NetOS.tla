-------------------------------- MODULE NetOS --------------------------------
(***************************************************************************)
(* A deployment of NetOS nodes (src/netos/node/node.cpp) that gossip over  *)
(* UDP.  Each node runs                                                    *)
(*   - the main thread, which starts the queue and seeds Redis (boot);     *)
(*   - the transport thread, which handles one datagram at a time;         *)
(*   - the scheduler thread, which requests the configured keys (sched);   *)
(*   - the fallback, flush, exchange and reload threads;                   *)
(*   - the workers of the forwarding queue.                                *)
(* One action is what a thread does between two points where another       *)
(* thread of the node can change what it reads.  Sends that a handler or   *)
(* the flush thread still has to make are in outbox.                       *)
(*                                                                         *)
(* Time is abstracted: an entry with a TTL, a window or a deadline may     *)
(* reach it at any moment ("expire", "late_query" in Faults; the fallback  *)
(* and aggregation windows and the age of a buffer always).  Redis calls   *)
(* of different threads are taken to be serialised.                        *)
(***************************************************************************)
EXTENDS NetOSBase

VARIABLES
  redis,       \* the node's Redis: a value or None per key
  localKeys,   \* local_keys_
  localFilter, \* content_bloom_.local_filter_
  summaries,   \* content_bloom_.neighbors_: the last filter from each sender
  seen,        \* query_table_: request ids
  attempts,    \* query_bloom_limiter_: forwards per origin and filter
  fallback,    \* content_bf_fallback_: keys of direct requests
  taken,       \* keys returned by take_due and not yet aggregated
  buffer,      \* query_bloom_aggregator_.buffers_[node_id]: filter and key_count
  pending,     \* query_bloom_aggregator_.pending_batches_
  sync,        \* sync_table_
  boot,        \* 0: queue not started; then 1 + number of seeds written
  crashes,     \* bound: how often the node has ended and started again
  sched,       \* the scheduler: index of the key and program point
  outbox,      \* sends a thread has still to make, in order
  queue,       \* forward_queue_.queue_
  topology,    \* network_.topology_
  resolved,    \* the neighbors whose addr has been looked up
  net,         \* datagrams in flight
  flushed,     \* ghost: the filters handed to the queue by the flush thread
  discarded    \* ghost: the filters that add_key discarded

stores == <<redis, localKeys, localFilter>>
asking == <<fallback, taken, buffer, pending, flushed, discarded>>
links == <<queue, topology, resolved, net, sync>>
tables == <<summaries, seen, attempts>>
vars == <<stores, tables, asking, boot, crashes, sched, outbox, links>>

ST == INSTANCE SyncTableOps WITH Capacity <- SyncCapacity, Dest <- Node

EmptyBuffer == [filter |-> {}, count |-> 0]

Init ==
  /\ redis = [n \in Node |-> [k \in Key |-> None]]
  /\ localKeys = [n \in Node |-> {}]
  /\ localFilter = [n \in Node |-> {}]
  /\ summaries = [n \in Node |-> [m \in Node |-> None]]
  /\ seen = [n \in Node |-> {}]
  /\ attempts = [n \in Node |-> [e \in Node \X SUBSET Bit |-> 0]]
  /\ fallback = [n \in Node |-> {}]
  /\ taken = [n \in Node |-> {}]
  /\ buffer = [n \in Node |-> EmptyBuffer]
  /\ pending = [n \in Node |-> <<>>]
  /\ sync = [n \in Node |-> ST!EmptyTable]
  /\ boot = [n \in Node |-> 0]
  /\ crashes = [n \in Node |-> 0]
  /\ sched = [n \in Node |-> [next |-> 1, pc |-> "lookup"]]
  /\ outbox = [n \in Node |-> [t \in Threads |-> <<>>]]
  /\ queue = [n \in Node |-> <<>>]
  /\ topology = Neighbors
  /\ resolved = [n \in Node |-> {}]
  /\ net = {}
  /\ flushed = [n \in Node |-> {}]
  /\ discarded = [n \in Node |-> {}]

Stored(n) == {k \in Key : redis[n][k] # None}

\* The background threads and the scheduler run once seeding is over.
Up(n) == boot[n] = Len(SeedKeys[n]) + 1

-----------------------------------------------------------------------------
(* Sending.                                                                *)

Outcomes == IF "send" \in Faults THEN BOOLEAN ELSE {TRUE}

\* Mutant: the node the DATA is sent to is recorded.
MutServedTo(item) == item.addr

\* The destination that the success callback of a DATA item records.
ServedTo(item) == item.msg.origin

\* UdpNetwork::send_direct and the success callback of a DATA item.
TransmitDirect(n, item) ==
  \E ok \in Outcomes :
    /\ net' = IF ok THEN net \cup {Datagram(n, item.addr, item.msg)} ELSE net
    /\ sync' = IF ok /\ item.msg.type = "DATA"
               THEN [sync EXCEPT ![n] =
                       ST!RecordDestination(@, item.msg.key, ServedTo(item))]
               ELSE sync
    /\ UNCHANGED resolved

\* The neighbors a broadcast goes to: same_address compares the address of a
\* neighbor that has been looked up; one not yet looked up differs from any.
Targets(n, exclude) == topology[n] \ ({exclude} \cap resolved[n])

\* UdpNetwork::send_broadcast: each target is looked up on its first send,
\* and a failed lookup or send only skips that target.
TransmitBroadcast(n, item) ==
  \E found \in SUBSET Targets(n, item.exclude) :
    \E reached \in SUBSET found :
      /\ "send" \notin Faults => reached = Targets(n, item.exclude)
      /\ Targets(n, item.exclude) \cap resolved[n] \subseteq found
      /\ resolved' = [resolved EXCEPT ![n] = @ \cup found]
      /\ net' = net \cup {Datagram(n, m, item.msg) : m \in reached}
      /\ UNCHANGED sync

Transmit(n, item) ==
  \/ item.kind = "direct" /\ TransmitDirect(n, item)
  \/ item.kind = "broadcast" /\ TransmitBroadcast(n, item)

\* ForwardQueue::enqueue: the newest item is dropped when the queue is full.
Enqueue(q, item) == IF Len(q) >= QueueMax THEN q ELSE Append(q, item)

\* ForwardQueue::send_direct and send_broadcast: through the queue once it is
\* enabled and started, otherwise in the calling thread.
Send(n, item) ==
  \/ /\ Async /\ boot[n] > 0
     /\ queue' = [queue EXCEPT ![n] = Enqueue(@, item)]
     /\ UNCHANGED <<net, resolved, sync>>
  \/ /\ ~(Async /\ boot[n] > 0)
     /\ Transmit(n, item)
     /\ UNCHANGED queue

\* The next send of a handler or of the flush thread.
Submit(n, t) ==
  /\ outbox[n][t] # <<>>
  /\ Send(n, Head(outbox[n][t]))
  /\ outbox' = [outbox EXCEPT ![n][t] = Tail(@)]
  /\ UNCHANGED <<stores, tables, asking, boot, crashes, sched, topology>>

\* One iteration of worker_loop.
WorkerSend(n) ==
  /\ queue[n] # <<>>
  /\ Transmit(n, Head(queue[n]))
  /\ queue' = [queue EXCEPT ![n] = Tail(@)]
  /\ UNCHANGED <<stores, tables, asking, boot, crashes, sched, outbox, topology>>

-----------------------------------------------------------------------------
(* Redis and the local key set.                                            *)

\* RedisClient::get: an error is a miss for every caller.
RedisGet(n, k) == {redis[n][k]} \cup (IF "redis" \in Faults THEN {None} ELSE {})

\* RedisClient::set may fail.
SetOutcomes == IF "redis" \in Faults THEN BOOLEAN ELSE {TRUE}

RecordLocalKey(n, k) ==
  /\ localKeys' = [localKeys EXCEPT ![n] = @ \cup {k}]
  /\ localFilter' = [localFilter EXCEPT ![n] = Add(@, ContentBits[k])]

\* redis_.set followed by record_local_key.
Store(n, k, v) ==
  /\ redis' = [redis EXCEPT ![n][k] = v]
  /\ RecordLocalKey(n, k)

-----------------------------------------------------------------------------
(* Start of a node: the transport is already receiving.                    *)

StartQueue(n) ==
  /\ boot[n] = 0
  /\ boot' = [boot EXCEPT ![n] = 1]
  /\ UNCHANGED <<stores, tables, asking, crashes, sched, outbox, links>>

\* Mutant: a key is recorded although SET failed.
MutSeedFailed(n) ==
  UNCHANGED redis /\ RecordLocalKey(n, SeedKeys[n][boot[n]].key)

SeedFailed(n) == UNCHANGED stores

\* One iteration of seed_cache.
Seed(n) ==
  /\ boot[n] \in 1..Len(SeedKeys[n])
  /\ \E ok \in SetOutcomes :
       \/ ok /\ Store(n, SeedKeys[n][boot[n]].key, SeedKeys[n][boot[n]].value)
       \/ ~ok /\ SeedFailed(n)
  /\ boot' = [boot EXCEPT ![n] = @ + 1]
  /\ UNCHANGED <<tables, asking, crashes, sched, outbox, links>>

-----------------------------------------------------------------------------
(* The transport thread: handle_wire_message.                              *)

\* Datagrams that n may read next.
Incoming(n) ==
  {d \in net : d.to = n} \cup {[from |-> None, to |-> n, msg |-> m] : m \in Injected}

\* The transport thread reads d; the network may deliver it once more.
Receive(n, d) ==
  /\ outbox[n]["transport"] = <<>>
  /\ net' = net \ {d} \/ ("duplicate" \in Faults /\ net' = net)
  /\ UNCHANGED <<boot, crashes, sched, sync, queue, topology, resolved>>

Reply(n, items) == outbox' = [outbox EXCEPT ![n]["transport"] = items]

\* Entries that a prune may leave in a table.
Pruned(S) == IF "expire" \in Faults THEN SUBSET S ELSE {S}

\* A datagram that its handler rejects.
RejectsMessage(m) ==
  \/ m.type = "UNKNOWN"
  \/ m.type = "REQ" /\ ~RequestIsValid(m)
  \/ m.type = "DATA" /\ ~DataIsValid(m)
  \/ m.type = "CBF" /\ ~ContentBloomIsValid(m)
  \/ m.type = "QBF" /\ ~QueryBloomIsValid(m)

Reject(n, d) ==
  /\ RejectsMessage(d.msg)
  /\ Receive(n, d)
  /\ UNCHANGED <<stores, tables, asking, outbox>>

IsRequest(d) == d.msg.type = "REQ" /\ RequestIsValid(d.msg)

\* handle_request: record_if_new prunes and finds the id.
DropDuplicate(n, d) ==
  /\ IsRequest(d)
  /\ Receive(n, d)
  /\ \E kept \in Pruned(seen[n]) :
       /\ d.msg.id \in kept
       /\ seen' = [seen EXCEPT ![n] = kept]
  /\ UNCHANGED <<stores, summaries, attempts, asking, outbox>>

\* record_if_new for an id that is not in the table after the prune.
RecordNew(n, id) ==
  \E kept \in Pruned(seen[n]) :
    /\ id \notin kept
    /\ seen' = [seen EXCEPT ![n] = kept \cup {id}]

\* handle_request, cache hit: DATA goes back to the sender.
ServeRequest(n, d) ==
  /\ IsRequest(d)
  /\ Receive(n, d)
  /\ RecordNew(n, d.msg.id)
  /\ \E v \in RedisGet(n, d.msg.key) \ {None} :
       Reply(n, <<DirectItem(d.from, Data(d.msg.id, d.msg.origin, d.msg.key, v))>>)
  /\ RecordLocalKey(n, d.msg.key)
  /\ UNCHANGED <<redis, summaries, attempts, asking>>

\* handle_request, cache miss: the request goes to the other neighbors.
ForwardRequest(n, d) ==
  /\ IsRequest(d)
  /\ Receive(n, d)
  /\ RecordNew(n, d.msg.id)
  /\ None \in RedisGet(n, d.msg.key)
  /\ Reply(n, <<BroadcastItem(Hop(d.msg), d.from)>>)
  /\ UNCHANGED <<stores, summaries, attempts, asking>>

\* Mutant: every DATA message is taken as one's own.
MutIsForOrigin(n, m) == TRUE

\* check_origin of the data pipeline.
IsForOrigin(n, m) == m.origin = n

IsData(d) == d.msg.type = "DATA" /\ DataIsValid(d.msg)

\* handle_data at a node that is not the origin.
DropNotOrigin(n, d) ==
  /\ IsData(d)
  /\ ~IsForOrigin(n, d.msg)
  /\ Receive(n, d)
  /\ UNCHANGED <<stores, tables, asking, outbox>>

\* ContentBfFallbackTable::cancel
Cancel(n, k) == fallback' = [fallback EXCEPT ![n] = @ \ {k}]

\* Mutant: the fallback is canceled although SET failed.
MutStoreFailed(n, d) ==
  /\ IsData(d)
  /\ IsForOrigin(n, d.msg)
  /\ FALSE \in SetOutcomes
  /\ Receive(n, d)
  /\ Cancel(n, d.msg.key)
  /\ UNCHANGED <<stores, tables, taken, buffer, pending, flushed, discarded, outbox>>

\* handle_data at the origin when redis_.set fails.
StoreFailed(n, d) ==
  /\ IsData(d)
  /\ IsForOrigin(n, d.msg)
  /\ FALSE \in SetOutcomes
  /\ Receive(n, d)
  /\ UNCHANGED <<stores, tables, asking, outbox>>

\* handle_data at the origin.
StoreData(n, d) ==
  /\ IsData(d)
  /\ IsForOrigin(n, d.msg)
  /\ Receive(n, d)
  /\ Store(n, d.msg.key, d.msg.value)
  /\ Cancel(n, d.msg.key)
  /\ UNCHANGED <<tables, taken, buffer, pending, flushed, discarded, outbox>>

\* handle_content_bloom: the summary is kept under the sender's address.
HandleContentBloom(n, d) ==
  /\ d.msg.type = "CBF" /\ ContentBloomIsValid(d.msg)
  /\ Receive(n, d)
  /\ summaries' = [summaries EXCEPT ![n][d.from] = d.msg.key]
  /\ UNCHANGED <<stores, seen, attempts, asking, outbox>>

IsQueryBloom(d) == d.msg.type = "QBF" /\ QueryBloomIsValid(d.msg)

\* handle_query_bloom: the age test.
DropLateQuery(n, d) ==
  /\ IsQueryBloom(d)
  /\ "late_query" \in Faults
  /\ Receive(n, d)
  /\ UNCHANGED <<stores, tables, asking, outbox>>

\* The local keys that a Query-BF asks for, as far as n can tell.
Matches(n, filter) == {k \in localKeys[n] : MaybeContains(filter, QueryBits[k])}

\* Mutant: every answer carries the value of the first match.
MutQueryReplies(n, d, ks) ==
  [i \in 1..Len(ks) |->
     DirectItem(d.from, Data(FreshId(n), d.msg.origin, ks[i], redis[n][ks[1]]))]

\* DATA for each of the keys ks, to the node the Query-BF came from.
QueryReplies(n, d, ks) ==
  [i \in 1..Len(ks) |->
     DirectItem(d.from, Data(FreshId(n), d.msg.origin, ks[i], redis[n][ks[i]]))]

\* The matches for which redis_.get returns a value.
Answered(n, filter) ==
  {S \in SUBSET (Matches(n, filter) \cap Stored(n)) :
     \A k \in Matches(n, filter) \ S : None \in RedisGet(n, k)}

\* QueryBloomLimiter::allow counts the attempts of the current window.
AttemptsNow(n, m) ==
  {attempts[n][<<m.origin, m.key>>]} \cup (IF "expire" \in Faults THEN {0} ELSE {})

\* Mutant: one attempt too many.
MutAllowed(attempt) == attempt <= AttemptLimit

Allowed(attempt) == attempt < AttemptLimit

\* handle_query_bloom: answer every match, then forward if the ttl and the
\* limiter allow.
HandleQueryBloom(n, d) ==
  /\ IsQueryBloom(d)
  /\ Receive(n, d)
  /\ \E S \in Answered(n, d.msg.key) : \E ks \in Orderings(S) :
       \E a \in AttemptsNow(n, d.msg) :
         \/ /\ ForwardTtl(d.msg.ttl) <= 0
            /\ Reply(n, QueryReplies(n, d, ks))
            /\ UNCHANGED attempts
         \/ /\ ForwardTtl(d.msg.ttl) > 0 /\ ~Allowed(a)
            /\ Reply(n, QueryReplies(n, d, ks))
            /\ UNCHANGED attempts
         \/ /\ ForwardTtl(d.msg.ttl) > 0 /\ Allowed(a)
            /\ Reply(n, Append(QueryReplies(n, d, ks), BroadcastItem(Hop(d.msg), d.from)))
            /\ attempts' = [attempts EXCEPT ![n][<<d.msg.origin, d.msg.key>>] = a + 1]
  /\ UNCHANGED <<stores, summaries, seen, asking>>

Transport(n) ==
  \E d \in Incoming(n) :
    \/ Reject(n, d)
    \/ DropDuplicate(n, d) \/ ServeRequest(n, d) \/ ForwardRequest(n, d)
    \/ DropNotOrigin(n, d) \/ StoreFailed(n, d) \/ StoreData(n, d)
    \/ HandleContentBloom(n, d)
    \/ DropLateQuery(n, d) \/ HandleQueryBloom(n, d)

-----------------------------------------------------------------------------
(* The aggregation of keys into Query-BFs.                                 *)

\* add_key resets a buffer that is older than query_bf_ttl_ms, with its keys.
\* Its age counts from the last reset, so it may be due to be discarded at any
\* moment, also with the flush thread on time (RequestTimers says when).
BufferNow(n) == {buffer[n], EmptyBuffer}

\* The filter that is lost when add_key goes on with b.
Lost(n, b) == {buffer[n].filter} \ {b.filter}

\* Mutant: the key is counted and not hashed into the filter.
MutWithKey(b, k) == [filter |-> b.filter, count |-> b.count + 1]

WithKey(b, k) == [filter |-> Add(b.filter, QueryBits[k]), count |-> b.count + 1]

Splits(b) ==
  \/ MaxKeys > 0 /\ b.count >= MaxKeys
  \/ MaxFill > 0 /\ Cardinality(b.filter) >= MaxFill

\* QueryBloomAggregator::add_key
AddKey(n, k) ==
  \E b \in BufferNow(n) :
    /\ discarded' = [discarded EXCEPT ![n] = @ \cup Lost(n, b)]
    /\ \/ /\ Splits(WithKey(b, k))
          /\ pending' = [pending EXCEPT ![n] = Append(@, WithKey(b, k).filter)]
          /\ buffer' = [buffer EXCEPT ![n] = EmptyBuffer]
       \/ /\ ~Splits(WithKey(b, k))
          /\ buffer' = [buffer EXCEPT ![n] = WithKey(b, k)]
          /\ UNCHANGED pending

\* Mutant: a due buffer displaces the pending batches.
MutBatches(n, due) == IF due THEN <<buffer[n].filter>> ELSE pending[n]

Batches(n, due) == pending[n] \o (IF due THEN <<buffer[n].filter>> ELSE <<>>)

\* The flush thread: flush_due returns the pending batches and, when its
\* window is over, the buffer; then every batch is broadcast.
Flush(n) ==
  /\ Up(n)
  /\ outbox[n]["flush"] = <<>>
  /\ \E due \in {FALSE, buffer[n].count > 0} :
       LET batches == Batches(n, due)
       IN  /\ batches # <<>>
           /\ buffer' = IF due THEN [buffer EXCEPT ![n] = EmptyBuffer] ELSE buffer
           /\ outbox' = [outbox EXCEPT ![n]["flush"] =
                [i \in 1..Len(batches) |-> BroadcastItem(QueryBloom(n, batches[i]), None)]]
           /\ flushed' = [flushed EXCEPT ![n] =
                            @ \cup {batches[i] : i \in 1..Len(batches)}]
  /\ pending' = [pending EXCEPT ![n] = <<>>]
  /\ UNCHANGED <<stores, tables, fallback, taken, discarded, boot, crashes, sched, links>>

\* The fallback thread: take_due removes the keys whose deadline has passed.
TakeDue(n) ==
  /\ Up(n)
  /\ taken[n] = {}
  /\ \E due \in (SUBSET fallback[n]) \ {{}} :
       /\ taken' = [taken EXCEPT ![n] = due]
       /\ fallback' = [fallback EXCEPT ![n] = @ \ due]
  /\ UNCHANGED <<stores, tables, buffer, pending, flushed, discarded, boot, crashes,
                 sched, outbox, links>>

\* The fallback thread adds the keys one by one, in any order.
AddDue(n) ==
  /\ \E k \in taken[n] :
       /\ AddKey(n, k)
       /\ taken' = [taken EXCEPT ![n] = @ \ {k}]
  /\ UNCHANGED <<stores, tables, fallback, flushed, boot, crashes, sched, outbox, links>>

-----------------------------------------------------------------------------
(* The exchange and reload threads.                                        *)

\* Bound: a summary is queued only when no own summary is in the queue.
NoSummaryQueued(n) == \A i \in 1..Len(queue[n]) : queue[n][i].msg.type # "CBF"

Exchange(n) ==
  /\ Up(n)
  /\ NoSummaryQueued(n)
  /\ Send(n, BroadcastItem(ContentBloom(n, localFilter[n]), None))
  /\ UNCHANGED <<stores, tables, asking, boot, crashes, sched, outbox, topology>>

\* A reload installs a topology whose addresses are not looked up yet.
Reload(n) ==
  /\ Up(n)
  /\ \E neighbors \in ReloadOptions[n] :
       topology' = [topology EXCEPT ![n] = neighbors]
  /\ resolved' = [resolved EXCEPT ![n] = {}]
  /\ UNCHANGED <<stores, tables, asking, boot, crashes, sched, outbox, queue, net, sync>>

-----------------------------------------------------------------------------
(* The scheduler thread: schedule_requests.                                *)

SchedAt(n, pc) == Up(n) /\ sched[n].next <= Len(RequestKeys[n]) /\ sched[n].pc = pc

CurrentKey(n) == RequestKeys[n][sched[n].next]

\* make_request_id: the milliseconds in it tell the runs of a node apart.
RequestNumber(n) == crashes[n] * Len(RequestKeys[n]) + sched[n].next

GoTo(n, pc) == sched' = [sched EXCEPT ![n].pc = pc]

NextKey(n) == sched' = [sched EXCEPT ![n] = [next |-> @.next + 1, pc |-> "lookup"]]

\* redis_.get finds the key: it is served locally.
ScheduleLocal(n) ==
  /\ SchedAt(n, "lookup")
  /\ RedisGet(n, CurrentKey(n)) \ {None} # {}
  /\ RecordLocalKey(n, CurrentKey(n))
  /\ NextKey(n)
  /\ UNCHANGED <<redis, tables, asking, boot, crashes, outbox, links>>

ScheduleMiss(n) ==
  /\ SchedAt(n, "lookup")
  /\ None \in RedisGet(n, CurrentKey(n))
  /\ GoTo(n, "ask")
  /\ UNCHANGED <<stores, tables, asking, boot, crashes, outbox, links>>

\* select_neighbor prunes the summaries and returns one that may hold the key.
Candidates(s, k) ==
  {m \in Node : s[m] # None /\ MaybeContains(s[m], ContentBits[k])}

KeptSummaries(n) ==
  {[m \in Node |-> IF m \in kept THEN summaries[n][m] ELSE None] : kept \in Pruned(Node)}

\* The miss is recorded and a neighbor is asked directly ...
ScheduleDirect(n) ==
  /\ SchedAt(n, "ask")
  /\ RecordNew(n, RequestId(n, RequestNumber(n)))
  /\ \E s \in KeptSummaries(n) :
       /\ summaries' = [summaries EXCEPT ![n] = s]
       /\ \E m \in Candidates(s, CurrentKey(n)) :
            Send(n, DirectItem(m, Request(n, RequestNumber(n), CurrentKey(n))))
  /\ GoTo(n, "arm")
  /\ UNCHANGED <<stores, attempts, asking, boot, crashes, outbox, topology>>

\* Mutant: the fallback is not scheduled.
MutScheduleFallback(n) ==
  /\ SchedAt(n, "arm")
  /\ NextKey(n)
  /\ UNCHANGED <<stores, tables, asking, boot, crashes, outbox, links>>

\* ... and only after the send the fallback is scheduled; or,
ScheduleFallback(n) ==
  /\ SchedAt(n, "arm")
  /\ fallback' = [fallback EXCEPT ![n] = @ \cup {CurrentKey(n)}]
  /\ NextKey(n)
  /\ UNCHANGED <<stores, tables, taken, buffer, pending, flushed, discarded, boot, crashes,
                 outbox, links>>

\* with no candidate, the key is aggregated.
ScheduleAggregate(n) ==
  /\ SchedAt(n, "ask")
  /\ RecordNew(n, RequestId(n, RequestNumber(n)))
  /\ \E s \in KeptSummaries(n) :
       /\ summaries' = [summaries EXCEPT ![n] = s]
       /\ Candidates(s, CurrentKey(n)) = {}
  /\ AddKey(n, CurrentKey(n))
  /\ NextKey(n)
  /\ UNCHANGED <<stores, attempts, fallback, taken, flushed, boot, crashes, outbox, links>>

Scheduler(n) ==
  \/ ScheduleLocal(n) \/ ScheduleMiss(n)
  \/ ScheduleDirect(n) \/ ScheduleFallback(n) \/ ScheduleAggregate(n)

-----------------------------------------------------------------------------
(* Faults of a node.                                                       *)

\* Redis lives in the node's container without persistence (infra/
\* entrypoint.sh), but a restart of the process alone finds it as it was.
RedisAfterCrash(n) == {redis[n], [k \in Key |-> None]}

CrashTotal == MapThenSumSet(LAMBDA m : crashes[m], Node)

\* The process ends and is started again: Node::Node, Node::init, Node::run.
\* What is on the network stays there, and so does what others hold.
Crash(n) ==
  /\ CrashTotal < MaxCrashes
  /\ crashes' = [crashes EXCEPT ![n] = @ + 1]
  /\ \E kept \in RedisAfterCrash(n) : redis' = [redis EXCEPT ![n] = kept]
  /\ localKeys' = [localKeys EXCEPT ![n] = {}]
  /\ localFilter' = [localFilter EXCEPT ![n] = {}]
  /\ summaries' = [summaries EXCEPT ![n] = [m \in Node |-> None]]
  /\ seen' = [seen EXCEPT ![n] = {}]
  /\ attempts' = [attempts EXCEPT ![n] = [e \in Node \X SUBSET Bit |-> 0]]
  /\ fallback' = [fallback EXCEPT ![n] = {}]
  /\ taken' = [taken EXCEPT ![n] = {}]
  /\ buffer' = [buffer EXCEPT ![n] = EmptyBuffer]
  /\ pending' = [pending EXCEPT ![n] = <<>>]
  /\ sync' = [sync EXCEPT ![n] = ST!EmptyTable]
  /\ boot' = [boot EXCEPT ![n] = 0]
  /\ sched' = [sched EXCEPT ![n] = [next |-> 1, pc |-> "lookup"]]
  /\ outbox' = [outbox EXCEPT ![n] = [t \in Threads |-> <<>>]]
  /\ queue' = [queue EXCEPT ![n] = <<>>]
  /\ topology' = [topology EXCEPT ![n] = Neighbors[n]]
  /\ resolved' = [resolved EXCEPT ![n] = {}]
  /\ flushed' = [flushed EXCEPT ![n] = {}]
  /\ discarded' = [discarded EXCEPT ![n] = {}]
  /\ UNCHANGED net

-----------------------------------------------------------------------------
Step(n) ==
  \/ StartQueue(n) \/ Seed(n)
  \/ Transport(n)
  \/ \E t \in Threads : Submit(n, t)
  \/ WorkerSend(n)
  \/ Flush(n)
  \/ TakeDue(n) \/ AddDue(n)
  \/ Exchange(n) \/ Reload(n)
  \/ Scheduler(n)
  \/ Crash(n)

Next == \E n \in Node : Step(n)

Spec == Init /\ [][Next]_vars
=============================================================================
