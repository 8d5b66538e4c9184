-------------------------- MODULE NetOSProperties --------------------------
(***************************************************************************)
(* What a deployment of NetOS nodes must and must not do.                  *)
(***************************************************************************)
EXTENDS NetOS

\* Values that can stand for a key: the seeded ones, as written or as read
\* back from the wire.
Genuine(k) ==
  LET seeded == {s.value : s \in {s \in UNION {Seeds(n) : n \in Node} : s.key = k}}
  IN  seeded \cup {WireValue[v] : v \in seeded}

\* The bits that the Query-BFs of n can have set.
RequestedBits(n) == UNION {QueryBits[k] : k \in Requested(n)}

\* n requested k, or the Query-BFs of n match k by a false positive.
AskedFor(n, k) == QueryBits[k] \subseteq RequestedBits(n)

Message ==
  [type : {"REQ"}, id : Ids, origin : Node, ttl : 0..RequestTtl,
   key : Key, value : {None}]
  \cup
  [type : {"DATA"}, id : Ids, origin : Node, ttl : 0..RequestTtl,
   key : Key, value : Value]
  \cup
  [type : {"CBF", "QBF"}, id : Ids \cup {None}, origin : Node, ttl : 0..RequestTtl,
   key : SUBSET Bit, value : {None, Stamp}]

Item ==
  [kind : {"direct"}, addr : Node, exclude : {None}, msg : Message]
  \cup
  [kind : {"broadcast"}, addr : {None}, exclude : Node \cup {None}, msg : Message]

TypeOK ==
  /\ redis \in [Node -> [Key -> Value \cup {None}]]
  /\ localKeys \in [Node -> SUBSET Key]
  /\ localFilter \in [Node -> SUBSET Bit]
  /\ summaries \in [Node -> [Node -> {None} \cup SUBSET Bit]]
  /\ seen \in [Node -> SUBSET Ids]
  /\ attempts \in [Node -> [Node \X SUBSET Bit -> 0..AttemptLimit]]
  /\ fallback \in [Node -> SUBSET Key]
  /\ taken \in [Node -> SUBSET Key]
  /\ buffer \in [Node -> [filter : SUBSET Bit, count : Nat]]
  /\ pending \in [Node -> Seq(SUBSET Bit)]
  /\ sync = [n \in Node |-> sync[n]] /\ \A n \in Node : ST!IsTable(sync[n])
  /\ boot \in [Node -> Nat]
  /\ crashes \in [Node -> Nat]
  /\ sched \in [Node -> [next : Nat \ {0}, pc : {"lookup", "ask", "arm"}]]
  /\ outbox \in [Node -> [Threads -> Seq(Item)]]
  /\ queue \in [Node -> Seq(Item)]
  /\ topology \in [Node -> SUBSET Node]
  /\ resolved \in [Node -> SUBSET Node]
  /\ net \subseteq [from : Node, to : Node, msg : Message]
  /\ flushed \in [Node -> SUBSET SUBSET Bit]
  /\ discarded \in [Node -> SUBSET SUBSET Bit]

(***************************************************************************)
(* A value stored under a key was seeded under that key somewhere, through *)
(* any number of hops, retries and duplicates: replies of different keys   *)
(* or batches are never mixed up.                                          *)
(***************************************************************************)
ValueIntegrity ==
  \A n \in Node : \A k \in Stored(n) : redis[n][k] \in Genuine(k)

(***************************************************************************)
(* A node stores only keys it was seeded with or asked for; the one        *)
(* exception is a key that its own Query-BFs match by a false positive.    *)
(* In particular no DATA meant for another origin is stored on the way     *)
(* ("Data delivered to a node that did not originate the request logs      *)
(* data_state=drop_not_origin").                                           *)
(***************************************************************************)
StoredWasAskedFor ==
  \A n \in Node : \A k \in Stored(n) :
    (\E s \in Seeds(n) : s.key = k) \/ AskedFor(n, k)

(***************************************************************************)
(* A neighbor's summary never advertises more than the keys that are in    *)
(* the neighbor's Redis, even when it arrives late or out of order, and    *)
(* the local key set names only stored keys and every one of them.  After  *)
(* a crash a node may hold stored keys that it does not know of (until it  *)
(* is asked for one), and its neighbors keep the summaries of the run      *)
(* before; but it never claims a key that is not in its Redis.             *)
(***************************************************************************)
SummariesTruthful ==
  /\ \A n \in Node :
       /\ localKeys[n] \subseteq Stored(n)
       /\ localFilter[n] = UNION {ContentBits[k] : k \in localKeys[n]}
       /\ crashes[n] = 0 => localKeys[n] = Stored(n)
  /\ \A n, m \in Node :
       crashes[m] = 0 /\ summaries[n][m] # None =>
         summaries[n][m] \subseteq UNION {ContentBits[k] : k \in Stored(m)}

(***************************************************************************)
(* A REQ or Query-BF that leaves node m has spent at least one unit of ttl *)
(* per hop from its origin to m, whatever loops, echoes and duplicates it  *)
(* took part in; so it never travels further than RequestTtl hops.         *)
(***************************************************************************)
TtlBoundsReach ==
  \A d \in net :
    d.msg.type \in {"REQ", "QBF"} =>
      d.msg.ttl + Distance[d.msg.origin][d.from] <= RequestTtl

\* The key is on its way into a Query-BF, or a Query-BF with it was flushed.
InAggregation(n, k) ==
  \/ k \in fallback[n] \/ k \in taken[n]
  \/ MaybeContains(buffer[n].filter, QueryBits[k])
  \/ \E i \in 1..Len(pending[n]) : MaybeContains(pending[n][i], QueryBits[k])
  \/ \E f \in flushed[n] : MaybeContains(f, QueryBits[k])

\* A buffer with the key was discarded by a later add_key.
WasDiscarded(n, k) == \E f \in discarded[n] : MaybeContains(f, QueryBits[k])

(***************************************************************************)
(* No request is forgotten between the scheduler, the fallback thread and  *)
(* the flush thread, except by the reset in add_key: a key the scheduler   *)
(* is done with is stored, or waits for its fallback, or is in a Query-BF  *)
(* that is being built or was handed to the forwarding queue, or it was in *)
(* a buffer that add_key found older than query_bf_ttl_ms and discarded.   *)
(***************************************************************************)
NotForgotten ==
  \A n \in Node : \A i \in 1..(sched[n].next - 1) :
    LET k == RequestKeys[n][i]
    IN  k \in Stored(n) \/ InAggregation(n, k) \/ WasDiscarded(n, k)

(***************************************************************************)
(* "SyncTable records which request origins asked for keys this node       *)
(* served": an origin is listed under a key only if this node stores the   *)
(* key and the origin asked for it (or matched it by a false positive),    *)
(* and the table keeps its own invariant under concurrent sends.           *)
(***************************************************************************)
SyncTableTruthful ==
  \A n \in Node :
    /\ ST!WellFormed(sync[n])
    /\ \A k \in ST!Keys(sync[n]) :
         k \in Stored(n) /\ \A o \in ST!Members(sync[n].dests[k]) : AskedFor(o, k)

-----------------------------------------------------------------------------
(* Liveness, in instances without faults.                                  *)

\* Datagrams of one sender and type; a socket buffer is read in order.
TransportClass(n, from, type) ==
  Transport(n) /\ \E d \in net \ net' : d.from = from /\ d.msg.type = type

Fairness ==
  \A n \in Node :
    /\ WF_vars(StartQueue(n)) /\ WF_vars(Seed(n))
    /\ \A t \in Threads : WF_vars(Submit(n, t))
    /\ WF_vars(WorkerSend(n))
    /\ WF_vars(Flush(n)) /\ WF_vars(TakeDue(n)) /\ WF_vars(AddDue(n))
    /\ WF_vars(Scheduler(n))
    /\ \A m \in Node, t \in {"REQ", "DATA", "CBF", "QBF"} :
         WF_vars(TransportClass(n, m, t))

FairSpec == Spec /\ Fairness

AllUp == \A n \in Node : Up(n)

(***************************************************************************)
(* When every node is up before n starts to ask, n ends up with each of    *)
(* its request keys that a node it is linked with was seeded with.         *)
(***************************************************************************)
RequestsAreAnswered ==
  \A n \in Node : \A k \in Requested(n) :
    (\E m \in Neighbors[n] : \E s \in Seeds(m) : s.key = k) =>
      ((AllUp /\ sched[n].next = 1) ~> (k \in Stored(n)))

(***************************************************************************)
(* Floods die out: eventually no request or Query-BF is in flight, also    *)
(* in a topology with cycles and although Query-BFs are not deduplicated.  *)
(***************************************************************************)
FloodsDieOut == <>[](\A d \in net : d.msg.type \notin {"REQ", "QBF"})

-----------------------------------------------------------------------------
(* What the repository's documents say and the code does not do.           *)

(***************************************************************************)
(* "Requests are broadcast to all neighbors except the immediate sender":  *)
(* when a worker sends a forwarded REQ, no copy goes to the node the REQ   *)
(* came from.                                                              *)
(***************************************************************************)
NoEchoToSender ==
  [][\A n \in Node :
       LET item == Head(queue[n])
       IN  queue[n] # <<>> /\ queue'[n] = Tail(queue[n])
             /\ item.msg.type = "REQ" /\ item.exclude # None
           => \A d \in net' \ net : ~(d.from = n /\ d.to = item.exclude)]_vars

(***************************************************************************)
(* "When handling a Query-BF, a local match responds to the origin": the   *)
(* DATA that answers a Query-BF is addressed to the origin.                *)
(***************************************************************************)
QueryAnsweredToOrigin ==
  \A d \in net :
    d.msg.type = "DATA" /\ d.msg.id[2] = 0 => d.to = d.msg.origin

(***************************************************************************)
(* "The fallback is canceled if data is stored before the window expires": *)
(* no fallback is pending for a key that is stored.                        *)
(***************************************************************************)
NoFallbackForStored ==
  \A n \in Node : fallback[n] \cap Stored(n) = {}
=============================================================================
