--------------------------- MODULE NetOSTypeProofs ---------------------------
(***************************************************************************)
(* Type correctness of a deployment of NetOS nodes, for every topology,    *)
(* any seeds, requests, hash functions and limits, and all faults; and     *)
(* what a send, a receipt and add_key do, on which the proofs of           *)
(* NetOSSafetyProofs rest.                                                 *)
(***************************************************************************)
EXTENDS NetOSProperties, FiniteSetTheorems, TLAPS

STL == INSTANCE SyncTableLemmas WITH Capacity <- SyncCapacity, Dest <- Node

-----------------------------------------------------------------------------
(* Types of the messages and items that the handlers make.                 *)

\* The elements of a sequence.
ItemsOf(s) == {s[i] : i \in 1..Len(s)}

\* The message of the i-th request of a node.
LEMMA RequestTyped ==
  ASSUME NEW n \in Node, NEW i \in Nat, NEW k \in Key
  PROVE  Request(n, i, k) \in Message
  BY NetOSAssumption DEF Request, RequestId, Message, Ids

\* An answer with a value.
LEMMA DataTyped ==
  ASSUME NEW i \in Ids, NEW o \in Node, NEW k \in Key, NEW v \in Value
  PROVE  Data(i, o, k, v) \in Message
  BY NetOSAssumption DEF Data, Message

\* A summary.
LEMMA ContentBloomTyped ==
  ASSUME NEW n \in Node, NEW f \in SUBSET Bit
  PROVE  ContentBloom(n, f) \in Message
  BY NetOSAssumption DEF ContentBloom, Message

\* A batch of keys.
LEMMA QueryBloomTyped ==
  ASSUME NEW n \in Node, NEW f \in SUBSET Bit
  PROVE  QueryBloom(n, f) \in Message
  BY NetOSAssumption DEF QueryBloom, FreshId, Message, Ids

\* A message one hop further has the same fields and one unit of ttl less.
LEMMA HopTyped ==
  ASSUME NEW m \in Message, m.ttl > 0
  PROVE  /\ Hop(m) \in Message
         /\ Hop(m).type = m.type /\ Hop(m).id = m.id /\ Hop(m).origin = m.origin
         /\ Hop(m).key = m.key /\ Hop(m).value = m.value /\ Hop(m).ttl = m.ttl - 1
<1>1. m.ttl \in Nat /\ m.ttl - 1 \in 0..RequestTtl
  BY NetOSAssumption DEF Message
<1>2. Hop(m) = [m EXCEPT !.ttl = m.ttl - 1]
  BY DEF Hop, ForwardTtl
<1> QED BY <1>1, <1>2 DEF Message

\* What the fields of a message are, by its type.
LEMMA MessageFields ==
  ASSUME NEW m \in Message
  PROVE  /\ m.type \in {"REQ", "DATA", "CBF", "QBF"}
         /\ m.origin \in Node /\ m.ttl \in 0..RequestTtl
         /\ m.type \in {"REQ", "DATA"} => m.id \in Ids /\ m.key \in Key
         /\ m.type = "DATA" => m.value \in Value
         /\ m.type \in {"CBF", "QBF"} => m.key \in SUBSET Bit
  BY DEF Message

\* What a receiver reads: only the value of DATA may differ.
LEMMA OnWireTyped ==
  ASSUME NEW m \in Message
  PROVE  /\ OnWire(m) \in Message
         /\ OnWire(m).type = m.type /\ OnWire(m).origin = m.origin
         /\ OnWire(m).key = m.key /\ OnWire(m).ttl = m.ttl
         /\ m.type = "DATA" => OnWire(m).value = WireValue[m.value]
<1>1. CASE m.type = "DATA"
  <2>1. m \in [type : {"DATA"}, id : Ids, origin : Node, ttl : 0..RequestTtl,
               key : Key, value : Value]
    BY <1>1 DEF Message
  <2>2. WireValue[m.value] \in Value
    BY <2>1, NetOSAssumption
  <2>3. OnWire(m) = [m EXCEPT !.value = WireValue[m.value]]
    BY <1>1 DEF OnWire
  <2> QED BY <2>1, <2>2, <2>3 DEF Message
<1>2. CASE m.type # "DATA"
  BY <1>2 DEF OnWire
<1> QED BY <1>1, <1>2

\* Items of the queue.
LEMMA ItemsTyped ==
  ASSUME NEW m \in Message, NEW to \in Node
  PROVE  /\ DirectItem(to, m) \in Item
         /\ BroadcastItem(m, to) \in Item
         /\ BroadcastItem(m, None) \in Item
  BY DEF DirectItem, BroadcastItem, Item

\* What the fields of an item are.
LEMMA ItemFields ==
  ASSUME NEW it \in Item
  PROVE  /\ it.msg \in Message
         /\ it.kind \in {"direct", "broadcast"}
         /\ it.kind = "direct" => it.addr \in Node
         /\ it.kind = "broadcast" => it.exclude \in Node \cup {None}
  BY DEF Item

-----------------------------------------------------------------------------
(* The shape of a send and of a receipt.                                   *)

\* Every send puts datagrams of the item's message on the network, to the
\* address of a direct item or to neighbors, and at most records a
\* destination for DATA.
LEMMA TransmitShape ==
  ASSUME TypeOK, NEW n \in Node, NEW it \in Item, Transmit(n, it)
  PROVE  /\ net \subseteq net'
         /\ \A d \in net' \ net : \E to \in Node :
              /\ d = Datagram(n, to, it.msg)
              /\ it.kind = "direct" => to = it.addr
              /\ it.kind = "broadcast" => to \in topology[n]
         /\ \/ sync' = sync
            \/ /\ it.kind = "direct" /\ it.msg.type = "DATA"
               /\ sync' = [sync EXCEPT ![n] =
                             ST!RecordDestination(@, it.msg.key, it.msg.origin)]
         /\ resolved' \in [Node -> SUBSET Node]
<1>1. CASE it.kind = "direct" /\ TransmitDirect(n, it)
  <2>1. PICK ok \in Outcomes :
           /\ net' = IF ok THEN net \cup {Datagram(n, it.addr, it.msg)} ELSE net
           /\ sync' = IF ok /\ it.msg.type = "DATA"
                      THEN [sync EXCEPT ![n] =
                              ST!RecordDestination(@, it.msg.key, it.msg.origin)]
                      ELSE sync
           /\ resolved' = resolved
    BY <1>1 DEF TransmitDirect, ServedTo
  <2> QED BY <2>1, <1>1, ItemFields DEF TypeOK
<1>2. CASE it.kind = "broadcast" /\ TransmitBroadcast(n, it)
  <2>1. PICK found \in SUBSET Targets(n, it.exclude) : \E reached \in SUBSET found :
           /\ resolved' = [resolved EXCEPT ![n] = @ \cup found]
           /\ net' = net \cup {Datagram(n, m, it.msg) : m \in reached}
           /\ sync' = sync
    BY <1>2 DEF TransmitBroadcast
  <2>2. PICK reached \in SUBSET found : net' = net \cup {Datagram(n, m, it.msg) : m \in reached}
    BY <2>1
  <2>3. found \subseteq topology[n] /\ topology[n] \subseteq Node
    BY <2>1 DEF Targets, TypeOK
  <2> QED BY <2>1, <2>2, <2>3, <1>2 DEF TypeOK
<1> QED BY <1>1, <1>2 DEF Transmit

\* A send queues the item, drops it, or transmits it.
LEMMA SendShape ==
  ASSUME TypeOK, NEW n \in Node, NEW it \in Item, Send(n, it)
  PROVE  /\ net \subseteq net'
         /\ \A d \in net' \ net : \E to \in Node :
              /\ d = Datagram(n, to, it.msg)
              /\ it.kind = "direct" => to = it.addr
              /\ it.kind = "broadcast" => to \in topology[n]
         /\ \/ sync' = sync
            \/ /\ it.kind = "direct" /\ it.msg.type = "DATA"
               /\ sync' = [sync EXCEPT ![n] =
                             ST!RecordDestination(@, it.msg.key, it.msg.origin)]
         /\ resolved' \in [Node -> SUBSET Node]
         /\ queue' = queue \/ queue' = [queue EXCEPT ![n] = Append(@, it)]
<1>1. CASE /\ queue' = [queue EXCEPT ![n] = Enqueue(@, it)]
           /\ UNCHANGED <<net, resolved, sync>>
  <2>1. queue' = queue \/ queue' = [queue EXCEPT ![n] = Append(@, it)]
    BY <1>1 DEF Enqueue, TypeOK
  <2> QED BY <1>1, <2>1 DEF TypeOK
<1>2. CASE Transmit(n, it) /\ UNCHANGED queue
  BY <1>2, TransmitShape
<1> QED BY <1>1, <1>2 DEF Send

\* A datagram that a handler does not reject comes from a node.
LEMMA IncomingIsReal ==
  ASSUME TypeOK, NEW n \in Node, NEW d \in Incoming(n), ~RejectsMessage(d.msg)
  PROVE  /\ d \in net /\ d.to = n /\ d.from \in Node /\ d.msg \in Message
<1>1. \A m \in Injected : RejectsMessage(m)
  BY InjectedAssumption DEF IsNoise, RejectsMessage, RequestIsValid, DataIsValid,
     ContentBloomIsValid, QueryBloomIsValid, IsFilter
<1>2. d \in net /\ d.to = n
  BY <1>1 DEF Incoming
<1> QED BY <1>2 DEF TypeOK

\* Receiving only takes datagrams away.
LEMMA ReceiveShape ==
  ASSUME NEW n, NEW d, Receive(n, d)
  PROVE  net' \subseteq net
  BY DEF Receive

\* The operators of the two instances of SyncTableOps are the same.
LEMMA SameOperators ==
  /\ \A t : STL!Keys(t) = ST!Keys(t)
  /\ \A s : STL!Members(s) = ST!Members(s) /\ (STL!Distinct(s) <=> ST!Distinct(s))
  /\ \A t : STL!WellFormed(t) <=> ST!WellFormed(t)
  /\ \A t : STL!IsTable(t) <=> ST!IsTable(t)
  /\ \A t, k, o : STL!RecordDestination(t, k, o) = ST!RecordDestination(t, k, o)
  /\ STL!EmptyTable = ST!EmptyTable
<1>1. \A t : STL!Keys(t) = ST!Keys(t)
  BY DEF STL!Keys, ST!Keys
<1>2. \A s : STL!Members(s) = ST!Members(s) /\ (STL!Distinct(s) <=> ST!Distinct(s))
  BY DEF STL!Members, ST!Members, STL!Distinct, ST!Distinct
<1>0. \A S : STL!Cardinality(S) = ST!Cardinality(S)
  BY DEF STL!Cardinality, ST!Cardinality, STL!IsFiniteSet, ST!IsFiniteSet
<1>3. \A t : STL!WellFormed(t) <=> ST!WellFormed(t)
  BY <1>0, <1>1, <1>2 DEF STL!WellFormed, ST!WellFormed
<1>4. \A t : STL!IsTable(t) <=> ST!IsTable(t)
  BY <1>1 DEF STL!IsTable, ST!IsTable
<1>5. \A t, k : STL!LruIt(t, k) = ST!LruIt(t, k)
  BY DEF STL!LruIt, ST!LruIt
<1>6. \A s, i : STL!EraseAt(s, i) = ST!EraseAt(s, i)
  BY DEF STL!EraseAt, ST!EraseAt
<1>7. \A t, k : STL!Touch(t, k) = ST!Touch(t, k)
  BY <1>5, <1>6 DEF STL!Touch, ST!Touch
<1>8. \A s, o : STL!AddNew(s, o) = ST!AddNew(s, o)
  BY DEF STL!AddNew, ST!AddNew
<1>9. \A t, k, o : STL!Recorded(t, k, o) = ST!Recorded(t, k, o)
  BY <1>1, <1>7, <1>8 DEF STL!Recorded, ST!Recorded
<1>10. \A t, i : STL!Popped(t, i) = ST!Popped(t, i)
  BY DEF STL!Popped, ST!Popped
<1>11. \A t, i : STL!LoopEnds(t, i) <=> ST!LoopEnds(t, i)
  BY <1>0, <1>1, <1>10 DEF STL!LoopEnds, ST!LoopEnds
<1>12. \A t : STL!EvictCount(t) = ST!EvictCount(t)
  BY <1>11 DEF STL!EvictCount, ST!EvictCount
<1>13. \A t : STL!EvictIfNeeded(t) = ST!EvictIfNeeded(t)
  BY <1>1, <1>10, <1>12 DEF STL!EvictIfNeeded, ST!EvictIfNeeded
<1>14. \A t, k, o : STL!RecordDestination(t, k, o) = ST!RecordDestination(t, k, o)
  BY <1>9, <1>13 DEF STL!RecordDestination, ST!RecordDestination
<1>15. STL!EmptyTable = ST!EmptyTable
  BY DEF STL!EmptyTable, ST!EmptyTable
<1> QED BY <1>1, <1>2, <1>3, <1>4, <1>14, <1>15

-----------------------------------------------------------------------------
(* Type correctness.  It needs that every SyncTable is consistent, because *)
(* evict_if_needed is only defined for such a table.                       *)

SyncConsistent == \A n \in Node : STL!Consistent(sync[n])

TypeInv == TypeOK /\ SyncConsistent

\* A destination recorded by a send keeps the tables consistent.
LEMMA RecordTyped ==
  ASSUME TypeInv, NEW n \in Node, NEW it \in Item,
         \/ sync' = sync
         \/ /\ it.kind = "direct" /\ it.msg.type = "DATA"
            /\ sync' = [sync EXCEPT ![n] =
                          ST!RecordDestination(@, it.msg.key, it.msg.origin)]
  PROVE  /\ SyncConsistent'
         /\ sync' = [m \in Node |-> sync'[m]] /\ \A m \in Node : ST!IsTable(sync'[m])
<1>0. sync = [m \in Node |-> sync[m]] /\ \A m \in Node : STL!Consistent(sync[m])
  BY DEF TypeInv, TypeOK, SyncConsistent
<1>1. \A m \in Node : STL!Consistent(sync'[m])
  <2>1. CASE sync' = sync
    BY <2>1, <1>0
  <2>2. CASE /\ it.kind = "direct" /\ it.msg.type = "DATA"
             /\ sync' = [sync EXCEPT ![n] =
                           ST!RecordDestination(@, it.msg.key, it.msg.origin)]
    <3>1. it.msg.key \in Key /\ it.msg.origin \in Node
      BY <2>2, ItemFields, MessageFields
    <3>2. STL!Consistent(STL!RecordDestination(sync[n], it.msg.key, it.msg.origin))
      BY <3>1, <1>0, STL!RecordConsistent, NetOSAssumption
    <3>3. STL!Consistent(ST!RecordDestination(sync[n], it.msg.key, it.msg.origin))
      BY <3>2, SameOperators
    <3> QED BY <3>3, <2>2, <1>0
  <2> QED BY <2>1, <2>2
<1>2. \A m \in Node : ST!IsTable(sync'[m])
  BY <1>1, SameOperators DEF STL!Consistent
<1>3. sync' = [m \in Node |-> sync'[m]]
  BY <1>0
<1>4. SyncConsistent'
  BY <1>1 DEF SyncConsistent
<1> QED BY <1>2, <1>3, <1>4

\* A step that does not touch the SyncTables.
LEMMA SyncUnchanged ==
  ASSUME TypeInv, UNCHANGED sync
  PROVE  /\ SyncConsistent'
         /\ sync' = [m \in Node |-> sync'[m]] /\ \A m \in Node : ST!IsTable(sync'[m])
  BY DEF TypeInv, TypeOK, SyncConsistent

\* A datagram of a typed message is typed.
LEMMA DatagramTyped ==
  ASSUME NEW n \in Node, NEW to \in Node, NEW m \in Message
  PROVE  Datagram(n, to, m) \in [from : Node, to : Node, msg : Message]
  BY OnWireTyped DEF Datagram

\* What a send changes keeps its type.
LEMMA SendTyped ==
  ASSUME TypeInv, NEW n \in Node, NEW it \in Item, Send(n, it)
  PROVE  /\ net' \subseteq [from : Node, to : Node, msg : Message]
         /\ resolved' \in [Node -> SUBSET Node]
         /\ queue' \in [Node -> Seq(Item)]
         /\ SyncConsistent'
         /\ sync' = [m \in Node |-> sync'[m]] /\ \A m \in Node : ST!IsTable(sync'[m])
<1>0. TypeOK BY DEF TypeInv
<1>00. /\ net \subseteq [from : Node, to : Node, msg : Message]
       /\ queue \in [Node -> Seq(Item)]
  BY <1>0 DEF TypeOK
<1>1. it.msg \in Message BY ItemFields
<1>2. net' \subseteq [from : Node, to : Node, msg : Message]
  <2>1. \A d \in net' \ net : d \in [from : Node, to : Node, msg : Message]
    BY <1>0, <1>1, SendShape, DatagramTyped
  <2> QED BY <2>1, <1>00
<1>3. queue' \in [Node -> Seq(Item)]
  <2>1. queue' = queue \/ queue' = [queue EXCEPT ![n] = Append(@, it)]
    BY <1>0, SendShape
  <2>2. Append(queue[n], it) \in Seq(Item)
    BY <1>00
  <2> QED BY <2>1, <2>2, <1>00
<1>4. /\ SyncConsistent'
      /\ sync' = [m \in Node |-> sync'[m]] /\ \A m \in Node : ST!IsTable(sync'[m])
  BY <1>0, SendShape, RecordTyped
<1> QED BY <1>0, <1>2, <1>3, <1>4, SendShape

\* The same for a transmission by a worker.
LEMMA TransmitTyped ==
  ASSUME TypeInv, NEW n \in Node, NEW it \in Item, Transmit(n, it)
  PROVE  /\ net' \subseteq [from : Node, to : Node, msg : Message]
         /\ resolved' \in [Node -> SUBSET Node]
         /\ SyncConsistent'
         /\ sync' = [m \in Node |-> sync'[m]] /\ \A m \in Node : ST!IsTable(sync'[m])
<1>0. TypeOK BY DEF TypeInv
<1>00. /\ net \subseteq [from : Node, to : Node, msg : Message]
       /\ queue \in [Node -> Seq(Item)]
  BY <1>0 DEF TypeOK
<1>1. it.msg \in Message BY ItemFields
<1>2. net' \subseteq [from : Node, to : Node, msg : Message]
  <2>1. \A d \in net' \ net : d \in [from : Node, to : Node, msg : Message]
    BY <1>0, <1>1, TransmitShape, DatagramTyped
  <2> QED BY <2>1, <1>00
<1>4. /\ SyncConsistent'
      /\ sync' = [m \in Node |-> sync'[m]] /\ \A m \in Node : ST!IsTable(sync'[m])
  BY <1>0, TransmitShape, RecordTyped
<1> QED BY <1>0, <1>2, <1>4, TransmitShape

\* A configured seed.
LEMMA SeedTyped ==
  ASSUME NEW n \in Node, NEW i \in 1..Len(SeedKeys[n])
  PROVE  SeedKeys[n][i].key \in Key /\ SeedKeys[n][i].value \in Value
<1> DEFINE seeds == SeedKeys[n]
           pairs == [key : Key, value : Value]
<1>1. seeds \in Seq(pairs) /\ i \in 1..Len(seeds)
  BY NetOSAssumption
<1> HIDE DEF seeds, pairs
<1>2. seeds[i] \in pairs
  BY <1>1
<1> QED BY <1>2 DEF seeds, pairs

\* Sequences of items.
LEMMA QueryRepliesTyped ==
  ASSUME TypeOK, NEW n \in Node, NEW d, d.from \in Node, d.msg \in Message,
         d.msg.type = "QBF",
         NEW S \in Answered(n, d.msg.key), NEW ks \in Orderings(S)
  PROVE  /\ S \subseteq Matches(n, d.msg.key) \cap Stored(n)
         /\ QueryReplies(n, d, ks) \in Seq(Item)
         /\ \A x \in ItemsOf(QueryReplies(n, d, ks)) : \E k \in S :
              x = DirectItem(d.from, Data(FreshId(n), d.msg.origin, k, redis[n][k]))
<1>1. S \subseteq Matches(n, d.msg.key) \cap Stored(n)
  BY DEF Answered
<1>2. S \subseteq Key /\ IsFiniteSet(S)
  BY <1>1, NetOSAssumption, FS_Subset DEF Stored
<1>3. Cardinality(S) \in Nat
  BY <1>2, FS_CardinalityType
<1>4. ks \in [1..Cardinality(S) -> S] /\ Len(ks) = Cardinality(S)
  BY <1>3 DEF Orderings
<1>5. \A k \in S : DirectItem(d.from, Data(FreshId(n), d.msg.origin, k, redis[n][k])) \in Item
  <2> SUFFICES ASSUME NEW k \in S
               PROVE  DirectItem(d.from, Data(FreshId(n), d.msg.origin, k, redis[n][k])) \in Item
    OBVIOUS
  <2>1. redis[n][k] \in Value
    BY <1>1, <1>2 DEF Stored, TypeOK
  <2>2. FreshId(n) \in Ids /\ d.msg.origin \in Node
    BY MessageFields DEF FreshId, Ids
  <2> QED BY <2>1, <2>2, <1>2, DataTyped, ItemsTyped
<1>6. \A i \in 1..Len(ks) : ks[i] \in S
  BY <1>4
<1>7. QueryReplies(n, d, ks) =
        [i \in 1..Len(ks) |->
           DirectItem(d.from, Data(FreshId(n), d.msg.origin, ks[i], redis[n][ks[i]]))]
  BY DEF QueryReplies
<1>8. QueryReplies(n, d, ks) \in [1..Cardinality(S) -> Item]
  BY <1>4, <1>5, <1>6, <1>7
<1>9. QueryReplies(n, d, ks) \in Seq(Item) /\ Len(QueryReplies(n, d, ks)) = Len(ks)
  BY <1>3, <1>4, <1>8
<1>10. \A x \in ItemsOf(QueryReplies(n, d, ks)) : \E k \in S :
         x = DirectItem(d.from, Data(FreshId(n), d.msg.origin, k, redis[n][k]))
  BY <1>6, <1>7, <1>9 DEF ItemsOf
<1> QED BY <1>1, <1>9, <1>10

\* The batches that flush_due returns.
LEMMA BatchesTyped ==
  ASSUME TypeOK, NEW n \in Node, NEW due \in BOOLEAN
  PROVE  /\ Batches(n, due) \in Seq(SUBSET Bit)
         /\ \A i \in 1..Len(Batches(n, due)) :
              \/ \E j \in 1..Len(pending[n]) : Batches(n, due)[i] = pending[n][j]
              \/ due /\ Batches(n, due)[i] = buffer[n].filter
         /\ \A j \in 1..Len(pending[n]) : \E i \in 1..Len(Batches(n, due)) :
              Batches(n, due)[i] = pending[n][j]
         /\ due => \E i \in 1..Len(Batches(n, due)) : Batches(n, due)[i] = buffer[n].filter
<1>1. pending[n] \in Seq(SUBSET Bit) /\ buffer[n].filter \in SUBSET Bit
  BY DEF TypeOK
<1>2. CASE due
  <2>1. Batches(n, due) = pending[n] \o <<buffer[n].filter>>
    BY <1>2 DEF Batches
  <2>2. /\ Batches(n, due) \in Seq(SUBSET Bit)
        /\ Len(Batches(n, due)) = Len(pending[n]) + 1
        /\ \A j \in 1..Len(pending[n]) : Batches(n, due)[j] = pending[n][j]
        /\ Batches(n, due)[Len(pending[n]) + 1] = buffer[n].filter
    BY <2>1, <1>1
  <2>3. Len(pending[n]) \in Nat
    BY <1>1
  <2>4. \A i \in 1..(Len(pending[n]) + 1) : i \in 1..Len(pending[n]) \/ i = Len(pending[n]) + 1
    BY <2>3
  <2>5. \A i \in 1..Len(Batches(n, due)) :
          \/ \E j \in 1..Len(pending[n]) : Batches(n, due)[i] = pending[n][j]
          \/ due /\ Batches(n, due)[i] = buffer[n].filter
    <3> SUFFICES ASSUME NEW i \in 1..Len(Batches(n, due)), i # Len(pending[n]) + 1
                 PROVE  \E j \in 1..Len(pending[n]) : Batches(n, due)[i] = pending[n][j]
      BY <1>2, <2>2
    <3>1. i \in 1..Len(pending[n])
      BY <2>2, <2>4
    <3> QED BY <2>2, <3>1
  <2>6. \A j \in 1..Len(pending[n]) : j \in 1..Len(Batches(n, due))
    BY <2>2, <2>3
  <2>7. Len(pending[n]) + 1 \in 1..Len(Batches(n, due))
    BY <2>2, <2>3
  <2> QED BY <2>2, <2>5, <2>6, <2>7
<1>3. CASE ~due
  <2>1. Batches(n, due) = pending[n] \o << >>
    BY <1>3 DEF Batches
  <2>2. Batches(n, due) = pending[n]
    BY <2>1, <1>1
  <2> QED BY <1>1, <1>3, <2>2
<1> QED BY <1>2, <1>3

\* add_key leaves the buffer with the key, or moves it to the pending batches.
LEMMA AddKeyShape ==
  ASSUME TypeOK, NEW n \in Node, NEW k \in Key, AddKey(n, k)
  PROVE  \E b \in {buffer[n], EmptyBuffer} :
           /\ discarded' = [discarded EXCEPT ![n] = @ \cup Lost(n, b)]
           /\ b.filter \in SUBSET Bit /\ WithKey(b, k).filter = b.filter \cup QueryBits[k]
           /\ WithKey(b, k) \in [filter : SUBSET Bit, count : Nat]
           /\ \/ /\ pending' = [pending EXCEPT ![n] = Append(@, WithKey(b, k).filter)]
                 /\ buffer' = [buffer EXCEPT ![n] = EmptyBuffer]
              \/ /\ buffer' = [buffer EXCEPT ![n] = WithKey(b, k)]
                 /\ pending' = pending
<1>1. PICK b \in BufferNow(n) :
        /\ discarded' = [discarded EXCEPT ![n] = @ \cup Lost(n, b)]
        /\ \/ /\ pending' = [pending EXCEPT ![n] = Append(@, WithKey(b, k).filter)]
              /\ buffer' = [buffer EXCEPT ![n] = EmptyBuffer]
           \/ /\ buffer' = [buffer EXCEPT ![n] = WithKey(b, k)]
              /\ pending' = pending
  BY DEF AddKey
<1>2. b \in {buffer[n], EmptyBuffer}
  BY DEF BufferNow
<1>3. b \in [filter : SUBSET Bit, count : Nat]
  BY <1>2 DEF TypeOK, EmptyBuffer
<1>4. QueryBits[k] \in SUBSET Bit
  BY NetOSAssumption
<1>5. /\ WithKey(b, k).filter = b.filter \cup QueryBits[k]
      /\ WithKey(b, k) \in [filter : SUBSET Bit, count : Nat]
  BY <1>3, <1>4 DEF WithKey, Add
<1> QED BY <1>1, <1>2, <1>3, <1>5

\* It keeps the types of what it changes.
LEMMA AddKeyTyped ==
  ASSUME TypeOK, NEW n \in Node, NEW k \in Key, AddKey(n, k)
  PROVE  /\ buffer' \in [Node -> [filter : SUBSET Bit, count : Nat]]
         /\ pending' \in [Node -> Seq(SUBSET Bit)]
         /\ discarded' \in [Node -> SUBSET SUBSET Bit]
<1>1. /\ buffer \in [Node -> [filter : SUBSET Bit, count : Nat]]
      /\ pending \in [Node -> Seq(SUBSET Bit)]
      /\ discarded \in [Node -> SUBSET SUBSET Bit]
  BY DEF TypeOK
<1>2. PICK b \in {buffer[n], EmptyBuffer} :
           /\ discarded' = [discarded EXCEPT ![n] = @ \cup Lost(n, b)]
           /\ WithKey(b, k) \in [filter : SUBSET Bit, count : Nat]
           /\ \/ /\ pending' = [pending EXCEPT ![n] = Append(@, WithKey(b, k).filter)]
                 /\ buffer' = [buffer EXCEPT ![n] = EmptyBuffer]
              \/ /\ buffer' = [buffer EXCEPT ![n] = WithKey(b, k)]
                 /\ pending' = pending
  BY AddKeyShape
<1>3. EmptyBuffer \in [filter : SUBSET Bit, count : Nat]
  BY DEF EmptyBuffer
<1>4. Append(pending[n], WithKey(b, k).filter) \in Seq(SUBSET Bit)
  BY <1>1, <1>2
<1>5. discarded' \in [Node -> SUBSET SUBSET Bit]
  <2>1. Lost(n, b) \in SUBSET SUBSET Bit
    BY <1>1 DEF Lost
  <2> QED BY <1>1, <1>2, <2>1
<1> QED BY <1>1, <1>2, <1>3, <1>4, <1>5

\* Initially everything is empty.
LEMMA TypeInit == Init => TypeInv
<1> SUFFICES ASSUME Init PROVE TypeInv
  OBVIOUS
<1>1. STL!Consistent(ST!EmptyTable) /\ ST!IsTable(ST!EmptyTable)
  BY STL!EmptyConsistent, SameOperators, NetOSAssumption DEF STL!Consistent
<1>2. SyncConsistent /\ sync = [m \in Node |-> sync[m]] /\ \A m \in Node : ST!IsTable(sync[m])
  BY <1>1 DEF Init, SyncConsistent
<1>3. TypeOK
  BY <1>2, NetOSAssumption DEF Init, TypeOK, EmptyBuffer, Threads
<1> QED BY <1>2, <1>3 DEF TypeInv

\* The sends of a node.
LEMMA TypeSends ==
  ASSUME TypeInv, NEW n \in Node,
         \/ \E t \in Threads : Submit(n, t)
         \/ WorkerSend(n) \/ Exchange(n) \/ Reload(n)
  PROVE  TypeInv'
<1>0. TypeOK BY DEF TypeInv
<1>1. ASSUME NEW t \in Threads, Submit(n, t) PROVE TypeInv'
  <2>1. outbox[n][t] \in Seq(Item) /\ outbox[n][t] # <<>>
    BY <1>0, <1>1 DEF TypeOK, Submit
  <2>2. Head(outbox[n][t]) \in Item /\ Tail(outbox[n][t]) \in Seq(Item)
    BY <2>1
  <2>3. outbox' \in [Node -> [Threads -> Seq(Item)]]
    BY <1>0, <1>1, <2>2 DEF TypeOK, Submit
  <2>4. Send(n, Head(outbox[n][t]))
    BY <1>1 DEF Submit
  <2>5. /\ net' \subseteq [from : Node, to : Node, msg : Message]
        /\ resolved' \in [Node -> SUBSET Node]
        /\ queue' \in [Node -> Seq(Item)]
        /\ SyncConsistent'
        /\ sync' = [m \in Node |-> sync'[m]] /\ \A m \in Node : ST!IsTable(sync'[m])
    BY <2>2, <2>4, SendTyped
  <2>6. UNCHANGED <<stores, tables, asking, boot, crashes, sched, topology>>
    BY <1>1 DEF Submit
  <2> QED BY <1>0, <2>3, <2>5, <2>6 DEF TypeInv, TypeOK, stores, tables, asking
<1>2. CASE WorkerSend(n)
  <2>1. queue[n] \in Seq(Item) /\ queue[n] # <<>>
    BY <1>0, <1>2 DEF TypeOK, WorkerSend
  <2>2. Head(queue[n]) \in Item /\ Tail(queue[n]) \in Seq(Item)
    BY <2>1
  <2>3. queue' \in [Node -> Seq(Item)]
    BY <1>0, <1>2, <2>2 DEF TypeOK, WorkerSend
  <2>4. Transmit(n, Head(queue[n]))
    BY <1>2 DEF WorkerSend
  <2>5. /\ net' \subseteq [from : Node, to : Node, msg : Message]
        /\ resolved' \in [Node -> SUBSET Node]
        /\ SyncConsistent'
        /\ sync' = [m \in Node |-> sync'[m]] /\ \A m \in Node : ST!IsTable(sync'[m])
    BY <2>2, <2>4, TransmitTyped
  <2>6. UNCHANGED <<stores, tables, asking, boot, crashes, sched, outbox, topology>>
    BY <1>2 DEF WorkerSend
  <2> QED BY <1>0, <2>3, <2>5, <2>6 DEF TypeInv, TypeOK, stores, tables, asking
<1>3. CASE Exchange(n)
  <2>1. BroadcastItem(ContentBloom(n, localFilter[n]), None) \in Item
    BY <1>0, ContentBloomTyped, ItemsTyped DEF TypeOK
  <2>2. Send(n, BroadcastItem(ContentBloom(n, localFilter[n]), None))
    BY <1>3 DEF Exchange
  <2>3. /\ net' \subseteq [from : Node, to : Node, msg : Message]
        /\ resolved' \in [Node -> SUBSET Node]
        /\ queue' \in [Node -> Seq(Item)]
        /\ SyncConsistent'
        /\ sync' = [m \in Node |-> sync'[m]] /\ \A m \in Node : ST!IsTable(sync'[m])
    BY <2>1, <2>2, SendTyped
  <2>4. UNCHANGED <<stores, tables, asking, boot, crashes, sched, outbox, topology>>
    BY <1>3 DEF Exchange
  <2> QED BY <1>0, <2>3, <2>4 DEF TypeInv, TypeOK, stores, tables, asking
<1>4. CASE Reload(n)
  <2>1. /\ UNCHANGED <<stores, tables, asking, boot, crashes, sched, outbox, queue, net, sync>>
        /\ resolved' \in [Node -> SUBSET Node]
        /\ topology' \in [Node -> SUBSET Node]
    <3>1. topology \in [Node -> SUBSET Node] /\ resolved \in [Node -> SUBSET Node]
      BY <1>0 DEF TypeOK
    <3>2. \A neighbors \in ReloadOptions[n] : neighbors \in SUBSET Node
      BY NetOSAssumption
    <3> QED BY <1>4, <3>1, <3>2 DEF Reload
  <2> QED BY <1>0, <2>1, SyncUnchanged DEF TypeInv, TypeOK, stores, tables, asking
<1> QED BY <1>1, <1>2, <1>3, <1>4

\* The handlers of the transport thread.
LEMMA TypeTransport ==
  ASSUME TypeInv, NEW n \in Node, Transport(n)
  PROVE  TypeInv'
<1>0. TypeOK BY DEF TypeInv
<1>1. PICK d \in Incoming(n) :
        \/ Reject(n, d)
        \/ DropDuplicate(n, d) \/ ServeRequest(n, d) \/ ForwardRequest(n, d)
        \/ DropNotOrigin(n, d) \/ StoreFailed(n, d) \/ StoreData(n, d)
        \/ HandleContentBloom(n, d)
        \/ DropLateQuery(n, d) \/ HandleQueryBloom(n, d)
  BY DEF Transport
<1>2. Receive(n, d)
  BY <1>1 DEF Reject, DropDuplicate, ServeRequest, ForwardRequest, DropNotOrigin,
    StoreFailed, StoreData, HandleContentBloom, DropLateQuery, HandleQueryBloom
<1>3. /\ net' \subseteq [from : Node, to : Node, msg : Message]
      /\ UNCHANGED <<boot, crashes, sched, sync, queue, topology, resolved>>
  BY <1>0, <1>2, ReceiveShape DEF TypeOK, Receive
<1>4. /\ SyncConsistent'
      /\ sync' = [m \in Node |-> sync'[m]] /\ \A m \in Node : ST!IsTable(sync'[m])
  BY <1>3, SyncUnchanged
<1>5. CASE \/ Reject(n, d) \/ DropNotOrigin(n, d) \/ StoreFailed(n, d) \/ DropLateQuery(n, d)
  <2>1. UNCHANGED <<stores, tables, asking, outbox>>
    BY <1>5 DEF Reject, DropNotOrigin, StoreFailed, DropLateQuery
  <2> QED BY <1>0, <1>3, <1>4, <2>1 DEF TypeInv, TypeOK, stores, tables, asking
<1>6. CASE DropDuplicate(n, d)
  <2>1. seen' \in [Node -> SUBSET Ids] /\ UNCHANGED <<stores, summaries, attempts, asking, outbox>>
    BY <1>0, <1>6 DEF DropDuplicate, Pruned, TypeOK
  <2> QED BY <1>0, <1>3, <1>4, <2>1 DEF TypeInv, TypeOK, stores, asking
<1>7. ASSUME d.msg.type = "REQ", RequestIsValid(d.msg), RecordNew(n, d.msg.id)
      PROVE  /\ d.from \in Node /\ d.msg \in Message
             /\ d.msg.id \in Ids /\ d.msg.origin \in Node /\ d.msg.key \in Key
             /\ d.msg.ttl > 0
             /\ seen' \in [Node -> SUBSET Ids]
  <2>1. d.from \in Node /\ d.msg \in Message
    BY <1>0, <1>7, IncomingIsReal DEF RejectsMessage
  <2>2. d.msg.id \in Ids /\ d.msg.origin \in Node /\ d.msg.key \in Key
    BY <2>1, <1>7, MessageFields
  <2>3. seen' \in [Node -> SUBSET Ids]
    BY <1>0, <1>7, <2>2, SMTT(40) DEF RecordNew, Pruned, TypeOK
  <2> QED BY <2>1, <2>2, <2>3, <1>7 DEF RequestIsValid
<1>8. CASE ServeRequest(n, d)
  <2>1. d.msg.type = "REQ" /\ RequestIsValid(d.msg) /\ RecordNew(n, d.msg.id)
    BY <1>8 DEF ServeRequest, IsRequest
  <2>2. PICK v \in RedisGet(n, d.msg.key) \ {None} :
          Reply(n, <<DirectItem(d.from, Data(d.msg.id, d.msg.origin, d.msg.key, v))>>)
    BY <1>8 DEF ServeRequest
  <2>3. v \in Value
    <3>1. redis[n][d.msg.key] \in Value \cup {None}
      BY <1>0, <1>7, <2>1 DEF TypeOK
    <3> QED BY <2>2, <3>1 DEF RedisGet
  <2>4. DirectItem(d.from, Data(d.msg.id, d.msg.origin, d.msg.key, v)) \in Item
    BY <1>7, <2>1, <2>3, DataTyped, ItemsTyped
  <2>5. outbox' \in [Node -> [Threads -> Seq(Item)]]
    BY <1>0, <2>2, <2>4 DEF Reply, TypeOK, Threads
  <2>6. ContentBits[d.msg.key] \in SUBSET Bit
    BY <1>7, <2>1, NetOSAssumption
  <2>7. localKeys' \in [Node -> SUBSET Key] /\ localFilter' \in [Node -> SUBSET Bit]
    BY <1>0, <1>7, <1>8, <2>1, <2>6 DEF ServeRequest, RecordLocalKey, Add, TypeOK
  <2>8. UNCHANGED <<redis, summaries, attempts, asking>>
    BY <1>8 DEF ServeRequest
  <2> QED BY <1>0, <1>3, <1>4, <1>7, <2>1, <2>5, <2>7, <2>8 DEF TypeInv, TypeOK, asking
<1>9. CASE ForwardRequest(n, d)
  <2>1. d.msg.type = "REQ" /\ RequestIsValid(d.msg) /\ RecordNew(n, d.msg.id)
    BY <1>9 DEF ForwardRequest, IsRequest
  <2>2. BroadcastItem(Hop(d.msg), d.from) \in Item
    BY <1>7, <2>1, HopTyped, ItemsTyped
  <2>3. outbox' \in [Node -> [Threads -> Seq(Item)]]
    BY <1>0, <1>9, <2>2 DEF ForwardRequest, Reply, TypeOK, Threads
  <2>4. UNCHANGED <<stores, summaries, attempts, asking>>
    BY <1>9 DEF ForwardRequest
  <2> QED BY <1>0, <1>3, <1>4, <1>7, <2>1, <2>3, <2>4 DEF TypeInv, TypeOK, stores, asking
<1>10. CASE StoreData(n, d)
  <2>1. d.msg.type = "DATA" /\ DataIsValid(d.msg)
    BY <1>10 DEF StoreData, IsData
  <2>2. d.msg \in Message
    BY <1>0, <2>1, IncomingIsReal DEF RejectsMessage
  <2>3. d.msg.key \in Key /\ d.msg.value \in Value
    BY <2>1, <2>2, MessageFields
  <2>4. ContentBits[d.msg.key] \in SUBSET Bit
    BY <2>3, NetOSAssumption
  <2>5. /\ redis' = [redis EXCEPT ![n][d.msg.key] = d.msg.value]
        /\ localKeys' = [localKeys EXCEPT ![n] = @ \cup {d.msg.key}]
        /\ localFilter' = [localFilter EXCEPT ![n] = @ \cup ContentBits[d.msg.key]]
        /\ fallback' = [fallback EXCEPT ![n] = @ \ {d.msg.key}]
        /\ UNCHANGED <<tables, taken, buffer, pending, flushed, discarded, outbox>>
    BY <1>10 DEF StoreData, Store, RecordLocalKey, Cancel, Add
  <2>6. redis' \in [Node -> [Key -> Value \cup {None}]]
    BY <1>0, <2>3, <2>5 DEF TypeOK
  <2>7. localKeys' \in [Node -> SUBSET Key] /\ localFilter' \in [Node -> SUBSET Bit]
    BY <1>0, <2>3, <2>4, <2>5 DEF TypeOK
  <2>8. fallback' \in [Node -> SUBSET Key]
    BY <1>0, <2>5 DEF TypeOK
  <2> QED BY <1>0, <1>3, <1>4, <2>5, <2>6, <2>7, <2>8 DEF TypeInv, TypeOK, tables
<1>11. CASE HandleContentBloom(n, d)
  <2>1. d.msg.type = "CBF" /\ ContentBloomIsValid(d.msg)
    BY <1>11 DEF HandleContentBloom
  <2>2. d.from \in Node /\ d.msg \in Message
    BY <1>0, <2>1, IncomingIsReal DEF RejectsMessage
  <2>3. d.msg.key \in SUBSET Bit
    BY <2>1, <2>2, MessageFields
  <2>4. /\ summaries' = [summaries EXCEPT ![n][d.from] = d.msg.key]
        /\ UNCHANGED <<stores, seen, attempts, asking, outbox>>
    BY <1>11 DEF HandleContentBloom
  <2>5. summaries' \in [Node -> [Node -> {None} \cup SUBSET Bit]]
    BY <1>0, <2>2, <2>3, <2>4 DEF TypeOK
  <2> QED BY <1>0, <1>3, <1>4, <2>4, <2>5 DEF TypeInv, TypeOK, stores, asking
<1>12. CASE HandleQueryBloom(n, d)
  <2>1. d.msg.type = "QBF" /\ QueryBloomIsValid(d.msg)
    BY <1>12 DEF HandleQueryBloom, IsQueryBloom
  <2>2. d.from \in Node /\ d.msg \in Message
    BY <1>0, <2>1, IncomingIsReal DEF RejectsMessage
  <2>3. d.msg.key \in SUBSET Bit /\ d.msg.origin \in Node /\ d.msg.ttl > 0
    BY <2>1, <2>2, MessageFields DEF QueryBloomIsValid
  <2>4. PICK S \in Answered(n, d.msg.key) : \E ks \in Orderings(S) :
          \E a \in AttemptsNow(n, d.msg) :
            \/ Reply(n, QueryReplies(n, d, ks)) /\ UNCHANGED attempts
            \/ /\ Allowed(a)
               /\ Reply(n, Append(QueryReplies(n, d, ks), BroadcastItem(Hop(d.msg), d.from)))
               /\ attempts' = [attempts EXCEPT ![n][<<d.msg.origin, d.msg.key>>] = a + 1]
    BY <1>12 DEF HandleQueryBloom
  <2>5. PICK ks \in Orderings(S), a \in AttemptsNow(n, d.msg) :
            \/ Reply(n, QueryReplies(n, d, ks)) /\ UNCHANGED attempts
            \/ /\ Allowed(a)
               /\ Reply(n, Append(QueryReplies(n, d, ks), BroadcastItem(Hop(d.msg), d.from)))
               /\ attempts' = [attempts EXCEPT ![n][<<d.msg.origin, d.msg.key>>] = a + 1]
    BY <2>4
  <2>6. QueryReplies(n, d, ks) \in Seq(Item)
    BY <1>0, <2>1, <2>2, QueryRepliesTyped
  <2>7. BroadcastItem(Hop(d.msg), d.from) \in Item
    BY <2>2, <2>3, HopTyped, ItemsTyped
  <2>8. Append(QueryReplies(n, d, ks), BroadcastItem(Hop(d.msg), d.from)) \in Seq(Item)
    BY <2>6, <2>7
  <2>9. outbox' \in [Node -> [Threads -> Seq(Item)]]
    <3>1. PICK items \in Seq(Item) : outbox' = [outbox EXCEPT ![n]["transport"] = items]
      BY <2>5, <2>6, <2>8 DEF Reply
    <3> QED BY <1>0, <3>1 DEF TypeOK, Threads
  <2>10. attempts' \in [Node -> [Node \X SUBSET Bit -> 0..AttemptLimit]]
    <3>0. attempts \in [Node -> [Node \X SUBSET Bit -> 0..AttemptLimit]]
      BY <1>0 DEF TypeOK
    <3>00. <<d.msg.origin, d.msg.key>> \in Node \X SUBSET Bit
      BY <2>3
    <3>1. a \in 0..AttemptLimit
      BY <3>0, <3>00, NetOSAssumption, SMTT(40) DEF AttemptsNow
    <3>2. Allowed(a) => a + 1 \in 0..AttemptLimit
      BY <3>1, NetOSAssumption DEF Allowed
    <3>3. CASE UNCHANGED attempts
      BY <3>0, <3>3
    <3>4. CASE /\ Allowed(a)
               /\ attempts' = [attempts EXCEPT ![n][<<d.msg.origin, d.msg.key>>] = a + 1]
      <4> DEFINE e == <<d.msg.origin, d.msg.key>>
                 E == Node \X SUBSET Bit
      <4>1. e \in E /\ attempts \in [Node -> [E -> 0..AttemptLimit]] /\ a + 1 \in 0..AttemptLimit
        BY <3>0, <3>00, <3>2, <3>4
      <4>2. attempts' = [attempts EXCEPT ![n][e] = a + 1]
        BY <3>4
      <4> HIDE DEF e, E
      <4>3. attempts' \in [Node -> [E -> 0..AttemptLimit]]
        BY <4>1, <4>2
      <4> QED BY <4>3 DEF E
    <3> QED BY <2>5, <3>3, <3>4
  <2>11. UNCHANGED <<stores, summaries, seen, asking>>
    BY <1>12 DEF HandleQueryBloom
  <2> QED BY <1>0, <1>3, <1>4, <2>9, <2>10, <2>11 DEF TypeInv, TypeOK, stores, asking
<1> QED BY <1>1, <1>5, <1>6, <1>8, <1>9, <1>10, <1>11, <1>12

\* The main, flush and fallback threads.
LEMMA TypeThreads ==
  ASSUME TypeInv, NEW n \in Node,
         StartQueue(n) \/ Seed(n) \/ Flush(n) \/ TakeDue(n) \/ AddDue(n)
  PROVE  TypeInv'
<1>0. TypeOK BY DEF TypeInv
<1>1. UNCHANGED links
  BY DEF StartQueue, Seed, Flush, TakeDue, AddDue
<1>2. /\ SyncConsistent'
      /\ sync' = [m \in Node |-> sync'[m]] /\ \A m \in Node : ST!IsTable(sync'[m])
  BY <1>1, SyncUnchanged DEF links
<1>3. CASE StartQueue(n)
  <2>1. /\ boot' \in [Node -> Nat]
        /\ UNCHANGED <<stores, tables, asking, crashes, sched, outbox>>
    BY <1>0, <1>3 DEF StartQueue, TypeOK
  <2> QED BY <1>0, <1>1, <1>2, <2>1 DEF TypeInv, TypeOK, links, stores, tables, asking
<1>4. CASE Seed(n)
  <2>1. /\ boot' \in [Node -> Nat]
        /\ UNCHANGED <<tables, asking, crashes, sched, outbox>>
    BY <1>0, <1>4 DEF Seed, TypeOK
  <2>2. SeedKeys[n][boot[n]].key \in Key /\ SeedKeys[n][boot[n]].value \in Value
    BY <1>4, SeedTyped DEF Seed
  <2>3. ContentBits[SeedKeys[n][boot[n]].key] \in SUBSET Bit
    BY <2>2, NetOSAssumption
  <2>4. \/ UNCHANGED stores
        \/ /\ redis' = [redis EXCEPT ![n][SeedKeys[n][boot[n]].key] =
                          SeedKeys[n][boot[n]].value]
           /\ localKeys' = [localKeys EXCEPT ![n] = @ \cup {SeedKeys[n][boot[n]].key}]
           /\ localFilter' = [localFilter EXCEPT ![n] =
                                @ \cup ContentBits[SeedKeys[n][boot[n]].key]]
    BY <1>4 DEF Seed, SeedFailed, Store, RecordLocalKey, Add
  <2>5. /\ redis' \in [Node -> [Key -> Value \cup {None}]]
        /\ localKeys' \in [Node -> SUBSET Key]
        /\ localFilter' \in [Node -> SUBSET Bit]
    <3> DEFINE k == SeedKeys[n][boot[n]].key
               v == SeedKeys[n][boot[n]].value
    <3>0. /\ redis \in [Node -> [Key -> Value \cup {None}]]
          /\ localKeys \in [Node -> SUBSET Key]
          /\ localFilter \in [Node -> SUBSET Bit]
      BY <1>0 DEF TypeOK
    <3>1. k \in Key /\ v \in Value /\ ContentBits[k] \in SUBSET Bit
      BY <2>2, <2>3
    <3>2. \/ UNCHANGED <<redis, localKeys, localFilter>>
          \/ /\ redis' = [redis EXCEPT ![n][k] = v]
             /\ localKeys' = [localKeys EXCEPT ![n] = @ \cup {k}]
             /\ localFilter' = [localFilter EXCEPT ![n] = @ \cup ContentBits[k]]
      BY <2>4 DEF stores
    <3> HIDE DEF k, v
    <3>3. redis' \in [Node -> [Key -> Value \cup {None}]]
      <4>1. \/ redis' = redis
            \/ redis' = [redis EXCEPT ![n] = [redis[n] EXCEPT ![k] = v]]
        BY <3>2
      <4>2. [redis[n] EXCEPT ![k] = v] \in [Key -> Value \cup {None}]
        BY <3>0, <3>1
      <4> QED BY <3>0, <4>1, <4>2
    <3>4. localKeys' \in [Node -> SUBSET Key]
      BY <3>0, <3>1, <3>2, SMTT(30)
    <3>5. localFilter' \in [Node -> SUBSET Bit]
      <4> DEFINE bits == ContentBits[k]
      <4>1. \/ localFilter' = localFilter
            \/ localFilter' = [localFilter EXCEPT ![n] = @ \cup bits]
        BY <3>2
      <4>2. bits \in SUBSET Bit
        BY <3>1
      <4> HIDE DEF bits
      <4> QED BY <3>0, <4>1, <4>2
    <3> QED BY <3>3, <3>4, <3>5
  <2> QED BY <1>0, <1>1, <1>2, <2>1, <2>5 DEF TypeInv, TypeOK, links, tables, asking
<1>5. CASE Flush(n)
  <2>1. PICK due \in {FALSE, buffer[n].count > 0} :
          /\ buffer' = IF due THEN [buffer EXCEPT ![n] = EmptyBuffer] ELSE buffer
          /\ outbox' = [outbox EXCEPT ![n]["flush"] =
               [i \in 1..Len(Batches(n, due)) |->
                  BroadcastItem(QueryBloom(n, Batches(n, due)[i]), None)]]
          /\ flushed' = [flushed EXCEPT ![n] =
               @ \cup {Batches(n, due)[i] : i \in 1..Len(Batches(n, due))}]
    BY <1>5 DEF Flush
  <2>2. due \in BOOLEAN
    <3>1. (buffer[n].count > 0) \in BOOLEAN
      OBVIOUS
    <3> QED BY <2>1, <3>1
  <2>3. Batches(n, due) \in Seq(SUBSET Bit)
    BY <1>0, <2>2, BatchesTyped
  <2>4. \A i \in 1..Len(Batches(n, due)) : Batches(n, due)[i] \in SUBSET Bit
    BY <2>3
  <2>5. \A i \in 1..Len(Batches(n, due)) :
          BroadcastItem(QueryBloom(n, Batches(n, due)[i]), None) \in Item
    BY <2>4, QueryBloomTyped, ItemsTyped
  <2>6. [i \in 1..Len(Batches(n, due)) |->
          BroadcastItem(QueryBloom(n, Batches(n, due)[i]), None)] \in Seq(Item)
    BY <2>3, <2>5
  <2>7. outbox' \in [Node -> [Threads -> Seq(Item)]]
    <3> DEFINE items == [i \in 1..Len(Batches(n, due)) |->
                           BroadcastItem(QueryBloom(n, Batches(n, due)[i]), None)]
    <3>1. items \in Seq(Item) /\ outbox' = [outbox EXCEPT ![n]["flush"] = items]
      BY <2>1, <2>6
    <3> HIDE DEF items
    <3> QED BY <1>0, <3>1 DEF TypeOK, Threads
  <2>8. flushed' \in [Node -> SUBSET SUBSET Bit]
    <3>1. {Batches(n, due)[i] : i \in 1..Len(Batches(n, due))} \in SUBSET SUBSET Bit
      BY <2>4
    <3> QED BY <1>0, <2>1, <3>1 DEF TypeOK
  <2>9. buffer' \in [Node -> [filter : SUBSET Bit, count : Nat]]
    BY <1>0, <2>1 DEF TypeOK, EmptyBuffer
  <2>10. /\ pending' \in [Node -> Seq(SUBSET Bit)]
         /\ UNCHANGED <<stores, tables, fallback, taken, discarded, boot, crashes, sched>>
    BY <1>0, <1>5 DEF Flush, TypeOK
  <2> QED BY <1>0, <1>1, <1>2, <2>7, <2>8, <2>9, <2>10
        DEF TypeInv, TypeOK, links, stores, tables
<1>6. CASE TakeDue(n)
  <2>1. /\ taken' \in [Node -> SUBSET Key] /\ fallback' \in [Node -> SUBSET Key]
        /\ UNCHANGED <<stores, tables, buffer, pending, flushed, discarded, boot, crashes,
                       sched, outbox>>
    BY <1>0, <1>6 DEF TakeDue, TypeOK
  <2> QED BY <1>0, <1>1, <1>2, <2>1 DEF TypeInv, TypeOK, links, stores, tables
<1>7. CASE AddDue(n)
  <2>1. PICK k \in taken[n] : AddKey(n, k) /\ taken' = [taken EXCEPT ![n] = @ \ {k}]
    BY <1>7 DEF AddDue
  <2>2. k \in Key /\ taken' \in [Node -> SUBSET Key]
    BY <1>0, <2>1 DEF TypeOK
  <2>3. /\ buffer' \in [Node -> [filter : SUBSET Bit, count : Nat]]
        /\ pending' \in [Node -> Seq(SUBSET Bit)]
        /\ discarded' \in [Node -> SUBSET SUBSET Bit]
    BY <1>0, <2>1, <2>2, AddKeyTyped
  <2>4. UNCHANGED <<stores, tables, fallback, flushed, boot, crashes, sched, outbox>>
    BY <1>7 DEF AddDue
  <2> QED BY <1>0, <1>1, <1>2, <2>2, <2>3, <2>4 DEF TypeInv, TypeOK, links, stores, tables
<1> QED BY <1>3, <1>4, <1>5, <1>6, <1>7

\* The key and the id of the current request.
LEMMA CurrentTyped ==
  ASSUME TypeOK, NEW n \in Node, sched[n].next <= Len(RequestKeys[n])
  PROVE  /\ CurrentKey(n) \in Requested(n) /\ CurrentKey(n) \in Key
         /\ RequestNumber(n) \in Nat /\ RequestId(n, RequestNumber(n)) \in Ids
<1>1. sched[n].next \in Nat \ {0} /\ crashes[n] \in Nat
  BY DEF TypeOK
<1>2. RequestKeys[n] \in Seq(Key) /\ Len(RequestKeys[n]) \in Nat
  BY NetOSAssumption
<1>3. sched[n].next \in 1..Len(RequestKeys[n])
  BY <1>1, <1>2
<1>4. CurrentKey(n) \in Requested(n) /\ CurrentKey(n) \in Key
  BY <1>2, <1>3 DEF CurrentKey, Requested
<1>5. RequestNumber(n) \in Nat
  <2>1. crashes[n] * Len(RequestKeys[n]) \in Nat
    BY <1>1, <1>2
  <2> QED BY <1>1, <2>1 DEF RequestNumber
<1> QED BY <1>4, <1>5 DEF RequestId, Ids

\* A summary table after a prune.
LEMMA KeptTyped ==
  ASSUME TypeOK, NEW n \in Node, NEW s \in KeptSummaries(n)
  PROVE  /\ s \in [Node -> {None} \cup SUBSET Bit]
         /\ \A m \in Node : s[m] \in {None, summaries[n][m]}
  BY DEF KeptSummaries, Pruned, TypeOK

\* The scheduler.
LEMMA TypeScheduler ==
  ASSUME TypeInv, NEW n \in Node, Scheduler(n)
  PROVE  TypeInv'
<1>0. TypeOK BY DEF TypeInv
<1>1. sched[n].next <= Len(RequestKeys[n])
  BY DEF Scheduler, ScheduleLocal, ScheduleMiss, ScheduleDirect, ScheduleFallback,
    ScheduleAggregate, SchedAt
<1>2. CurrentKey(n) \in Key /\ RequestNumber(n) \in Nat /\ RequestId(n, RequestNumber(n)) \in Ids
  BY <1>0, <1>1, CurrentTyped
<1>3. sched \in [Node -> [next : Nat \ {0}, pc : {"lookup", "ask", "arm"}]]
  BY <1>0 DEF TypeOK
<1>4. sched' \in [Node -> [next : Nat \ {0}, pc : {"lookup", "ask", "arm"}]]
  <2>1. ASSUME NextKey(n) PROVE sched' \in [Node -> [next : Nat \ {0}, pc : {"lookup", "ask", "arm"}]]
    BY <1>3, <2>1 DEF NextKey
  <2>2. ASSUME NEW pc \in {"lookup", "ask", "arm"}, GoTo(n, pc)
        PROVE  sched' \in [Node -> [next : Nat \ {0}, pc : {"lookup", "ask", "arm"}]]
    BY <1>3, <2>2 DEF GoTo
  <2> QED BY <2>1, <2>2 DEF Scheduler, ScheduleLocal, ScheduleMiss, ScheduleDirect,
        ScheduleFallback, ScheduleAggregate
<1>5. ASSUME RecordNew(n, RequestId(n, RequestNumber(n)))
      PROVE  seen' \in [Node -> SUBSET Ids]
  BY <1>0, <1>2, <1>5 DEF RecordNew, Pruned, TypeOK
<1>6. ASSUME NEW s \in KeptSummaries(n), summaries' = [summaries EXCEPT ![n] = s]
      PROVE  summaries' \in [Node -> [Node -> {None} \cup SUBSET Bit]]
  BY <1>0, <1>6, KeptTyped DEF TypeOK
<1>7. CASE ScheduleLocal(n)
  <2>1. ContentBits[CurrentKey(n)] \in SUBSET Bit
    BY <1>2, NetOSAssumption
  <2>2. localKeys' \in [Node -> SUBSET Key] /\ localFilter' \in [Node -> SUBSET Bit]
    BY <1>0, <1>2, <1>7, <2>1 DEF ScheduleLocal, RecordLocalKey, Add, TypeOK
  <2>3. UNCHANGED <<redis, tables, asking, boot, crashes, outbox, links>>
    BY <1>7 DEF ScheduleLocal
  <2>4. /\ SyncConsistent'
        /\ sync' = [m \in Node |-> sync'[m]] /\ \A m \in Node : ST!IsTable(sync'[m])
    BY <2>3, SyncUnchanged DEF links
  <2> QED BY <1>0, <1>4, <2>2, <2>3, <2>4 DEF TypeInv, TypeOK, links, tables, asking
<1>8. CASE ScheduleMiss(n)
  <2>1. UNCHANGED <<stores, tables, asking, boot, crashes, outbox, links>>
    BY <1>8 DEF ScheduleMiss
  <2>2. /\ SyncConsistent'
        /\ sync' = [m \in Node |-> sync'[m]] /\ \A m \in Node : ST!IsTable(sync'[m])
    BY <2>1, SyncUnchanged DEF links
  <2> QED BY <1>0, <1>4, <2>1, <2>2 DEF TypeInv, TypeOK, links, stores, tables, asking
<1>9. CASE ScheduleDirect(n)
  <2>1. PICK s \in KeptSummaries(n) :
          /\ summaries' = [summaries EXCEPT ![n] = s]
          /\ \E m \in Candidates(s, CurrentKey(n)) :
               Send(n, DirectItem(m, Request(n, RequestNumber(n), CurrentKey(n))))
    BY <1>9 DEF ScheduleDirect
  <2>2. PICK m \in Candidates(s, CurrentKey(n)) :
          Send(n, DirectItem(m, Request(n, RequestNumber(n), CurrentKey(n))))
    BY <2>1
  <2>3. DirectItem(m, Request(n, RequestNumber(n), CurrentKey(n))) \in Item
    BY <1>2, RequestTyped, ItemsTyped DEF Candidates
  <2>4. /\ net' \subseteq [from : Node, to : Node, msg : Message]
        /\ resolved' \in [Node -> SUBSET Node]
        /\ queue' \in [Node -> Seq(Item)]
        /\ SyncConsistent'
        /\ sync' = [l \in Node |-> sync'[l]] /\ \A l \in Node : ST!IsTable(sync'[l])
    BY <2>2, <2>3, SendTyped
  <2>5. seen' \in [Node -> SUBSET Ids]
    BY <1>5, <1>9 DEF ScheduleDirect
  <2>6. UNCHANGED <<stores, attempts, asking, boot, crashes, outbox, topology>>
    BY <1>9 DEF ScheduleDirect
  <2> QED BY <1>0, <1>4, <1>6, <2>1, <2>4, <2>5, <2>6 DEF TypeInv, TypeOK, stores, asking
<1>10. CASE ScheduleFallback(n)
  <2>1. fallback' \in [Node -> SUBSET Key]
    BY <1>0, <1>2, <1>10 DEF ScheduleFallback, TypeOK
  <2>2. UNCHANGED <<stores, tables, taken, buffer, pending, flushed, discarded, boot, crashes,
                    outbox, links>>
    BY <1>10 DEF ScheduleFallback
  <2>3. /\ SyncConsistent'
        /\ sync' = [m \in Node |-> sync'[m]] /\ \A m \in Node : ST!IsTable(sync'[m])
    BY <2>2, SyncUnchanged DEF links
  <2> QED BY <1>0, <1>4, <2>1, <2>2, <2>3 DEF TypeInv, TypeOK, links, stores, tables
<1>11. CASE ScheduleAggregate(n)
  <2>1. /\ buffer' \in [Node -> [filter : SUBSET Bit, count : Nat]]
        /\ pending' \in [Node -> Seq(SUBSET Bit)]
        /\ discarded' \in [Node -> SUBSET SUBSET Bit]
    BY <1>0, <1>2, <1>11, AddKeyTyped DEF ScheduleAggregate
  <2>2. seen' \in [Node -> SUBSET Ids]
    BY <1>5, <1>11 DEF ScheduleAggregate
  <2>3. summaries' \in [Node -> [Node -> {None} \cup SUBSET Bit]]
    BY <1>6, <1>11 DEF ScheduleAggregate
  <2>4. UNCHANGED <<stores, attempts, fallback, taken, flushed, boot, crashes, outbox, links>>
    BY <1>11 DEF ScheduleAggregate
  <2>5. /\ SyncConsistent'
        /\ sync' = [m \in Node |-> sync'[m]] /\ \A m \in Node : ST!IsTable(sync'[m])
    BY <2>4, SyncUnchanged DEF links
  <2> QED BY <1>0, <1>4, <2>1, <2>2, <2>3, <2>4, <2>5 DEF TypeInv, TypeOK, links, stores
<1> QED BY <1>7, <1>8, <1>9, <1>10, <1>11 DEF Scheduler

\* A crash.
LEMMA TypeCrash ==
  ASSUME TypeInv, NEW n \in Node, Crash(n)
  PROVE  TypeInv'
<1>0. TypeOK BY DEF TypeInv
<1>1. STL!Consistent(ST!EmptyTable) /\ ST!IsTable(ST!EmptyTable)
  BY STL!EmptyConsistent, SameOperators, NetOSAssumption DEF STL!Consistent
<1>2. /\ sync = [m \in Node |-> sync[m]]
      /\ \A m \in Node : STL!Consistent(sync[m]) /\ ST!IsTable(sync[m])
      /\ sync' = [sync EXCEPT ![n] = ST!EmptyTable]
  BY DEF TypeInv, TypeOK, SyncConsistent, Crash
<1>3. /\ SyncConsistent'
      /\ sync' = [m \in Node |-> sync'[m]] /\ \A m \in Node : ST!IsTable(sync'[m])
  BY <1>1, <1>2 DEF SyncConsistent
<1>4. /\ redis' \in [Node -> [Key -> Value \cup {None}]]
      /\ localKeys' \in [Node -> SUBSET Key]
      /\ localFilter' \in [Node -> SUBSET Bit]
      /\ summaries' \in [Node -> [Node -> {None} \cup SUBSET Bit]]
  BY <1>0 DEF Crash, RedisAfterCrash, TypeOK
<1>5. /\ seen' \in [Node -> SUBSET Ids]
      /\ fallback' \in [Node -> SUBSET Key]
      /\ taken' \in [Node -> SUBSET Key]
      /\ buffer' \in [Node -> [filter : SUBSET Bit, count : Nat]]
      /\ pending' \in [Node -> Seq(SUBSET Bit)]
  <2>1. /\ seen' \in [Node -> SUBSET Ids]
        /\ fallback' \in [Node -> SUBSET Key]
        /\ taken' \in [Node -> SUBSET Key]
    BY <1>0 DEF Crash, TypeOK
  <2>2. buffer' \in [Node -> [filter : SUBSET Bit, count : Nat]]
    BY <1>0 DEF Crash, EmptyBuffer, TypeOK
  <2>3. pending' \in [Node -> Seq(SUBSET Bit)]
    BY <1>0 DEF Crash, TypeOK
  <2> QED BY <2>1, <2>2, <2>3
<1>6. /\ boot' \in [Node -> Nat]
      /\ crashes' \in [Node -> Nat]
      /\ sched' \in [Node -> [next : Nat \ {0}, pc : {"lookup", "ask", "arm"}]]
      /\ outbox' \in [Node -> [Threads -> Seq(Item)]]
      /\ queue' \in [Node -> Seq(Item)]
  BY <1>0 DEF Crash, TypeOK
<1>7. /\ topology' \in [Node -> SUBSET Node]
      /\ resolved' \in [Node -> SUBSET Node]
      /\ net' = net
      /\ flushed' \in [Node -> SUBSET SUBSET Bit]
      /\ discarded' \in [Node -> SUBSET SUBSET Bit]
  BY <1>0, NetOSAssumption DEF Crash, TypeOK
<1>8. attempts' \in [Node -> [Node \X SUBSET Bit -> 0..AttemptLimit]]
  <2>1. [e \in Node \X SUBSET Bit |-> 0] \in [Node \X SUBSET Bit -> 0..AttemptLimit]
    BY NetOSAssumption
  <2>2. /\ attempts \in [Node -> [Node \X SUBSET Bit -> 0..AttemptLimit]]
        /\ attempts' = [attempts EXCEPT ![n] = [e \in Node \X SUBSET Bit |-> 0]]
    BY <1>0 DEF TypeOK, Crash
  <2> QED BY <2>1, <2>2
<1> QED BY <1>0, <1>3, <1>4, <1>5, <1>6, <1>7, <1>8 DEF TypeInv, TypeOK

\* Every step keeps the types.
LEMMA TypeStep ==
  ASSUME TypeInv, [Next]_vars
  PROVE  TypeInv'
<1>1. CASE UNCHANGED vars
  <2>1. UNCHANGED sync
    BY <1>1 DEF vars, links
  <2> QED BY <1>1, <2>1, SyncUnchanged
        DEF vars, stores, tables, asking, links, TypeInv, TypeOK
<1>2. ASSUME NEW n \in Node, Step(n) PROVE TypeInv'
  BY <1>2, TypeSends, TypeTransport, TypeThreads, TypeScheduler, TypeCrash DEF Step
<1> QED BY <1>1, <1>2 DEF Next

(***************************************************************************)
(* Every table, queue, message and datagram of a deployment keeps its      *)
(* type: no handler files a filter as a key, no ttl leaves its range, no   *)
(* limiter counts past broadcast_attempt_limit, and the SyncTable's list,  *)
(* index and destinations fit together after concurrent sends.             *)
(***************************************************************************)
THEOREM NetOSTypes == Spec => []TypeOK
<1>1. Spec => []TypeInv
  BY TypeInit, TypeStep, PTL DEF Spec
<1>2. TypeInv => TypeOK
  BY DEF TypeInv
<1> QED BY <1>1, <1>2, PTL
=============================================================================
