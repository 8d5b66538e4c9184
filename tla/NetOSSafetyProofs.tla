-------------------------- MODULE NetOSSafetyProofs --------------------------
(***************************************************************************)
(* The safety of a deployment of NetOS nodes, for every topology, any      *)
(* seeds, requests, hash functions and limits, and all faults: where       *)
(* stored values come from, how far requests travel, what the summaries    *)
(* and the SyncTable claim, and that no request is forgotten.              *)
(***************************************************************************)
EXTENDS NetOSTypeProofs

-----------------------------------------------------------------------------
(* Sequences of items.                                                     *)

\* Head and Tail of a sequence that is not empty.
LEMMA HeadTail ==
  ASSUME NEW S, NEW s \in Seq(S), s # <<>>
  PROVE  Head(s) \in ItemsOf(s) /\ ItemsOf(Tail(s)) \subseteq ItemsOf(s)
<1>1. Len(s) \in Nat \ {0} /\ Head(s) = s[1]
  OBVIOUS
<1>2. Head(s) \in ItemsOf(s)
  BY <1>1 DEF ItemsOf
<1>3. Len(Tail(s)) = Len(s) - 1 /\ \A i \in 1..Len(Tail(s)) : Tail(s)[i] = s[i + 1]
  BY <1>1
<1>4. \A i \in 1..Len(Tail(s)) : i + 1 \in 1..Len(s)
  BY <1>1, <1>3
<1> QED BY <1>2, <1>3, <1>4 DEF ItemsOf

\* Append adds one element.
LEMMA AppendItems ==
  ASSUME NEW S, NEW s \in Seq(S), NEW x \in S
  PROVE  ItemsOf(Append(s, x)) = ItemsOf(s) \cup {x}
<1>1. /\ Len(s) \in Nat /\ Len(Append(s, x)) = Len(s) + 1
      /\ \A i \in 1..Len(s) : Append(s, x)[i] = s[i]
      /\ Append(s, x)[Len(s) + 1] = x
  OBVIOUS
<1>2. 1..(Len(s) + 1) = 1..Len(s) \cup {Len(s) + 1}
  BY <1>1
<1> QED BY <1>1, <1>2 DEF ItemsOf

\* The empty sequence and a sequence of one.
LEMMA SmallItems ==
  ItemsOf(<<>>) = {} /\ \A x : ItemsOf(<<x>>) = {x}
  BY DEF ItemsOf

-----------------------------------------------------------------------------
(* Provenance: every message names what its origin asked for, every value  *)
(* was seeded, and a message has lost a unit of ttl per hop.               *)

Grounded(m) ==
  /\ m.type = "REQ" => m.key \in Requested(m.origin)
  /\ m.type = "QBF" => m.key \subseteq RequestedBits(m.origin)
  /\ m.type = "DATA" => m.value \in Genuine(m.key) /\ AskedFor(m.origin, m.key)

InReach(m, n) ==
  m.type \in {"REQ", "QBF"} => m.ttl + Distance[m.origin][n] <= RequestTtl

ItemOK(n, it) ==
  /\ Grounded(it.msg)
  /\ InReach(it.msg, n)
  /\ it.kind = "direct" => it.addr \in Adjacent(n)

LinksKnown ==
  /\ \A n \in Node : topology[n] \subseteq Links(n)
  /\ \A n, m \in Node : summaries[n][m] # None => m \in Adjacent(n)

AsksOwn ==
  \A n \in Node :
    /\ fallback[n] \subseteq Requested(n) /\ taken[n] \subseteq Requested(n)
    /\ buffer[n].filter \subseteq RequestedBits(n)
    /\ \A i \in 1..Len(pending[n]) : pending[n][i] \subseteq RequestedBits(n)

StoresOwn == ValueIntegrity /\ StoredWasAskedFor

OutboxSound ==
  \A n \in Node : \A t \in Threads : \A it \in ItemsOf(outbox[n][t]) : ItemOK(n, it)

QueueSound == \A n \in Node : \A it \in ItemsOf(queue[n]) : ItemOK(n, it)

NetSound ==
  \A d \in net : Grounded(d.msg) /\ InReach(d.msg, d.from) /\ d.to \in Adjacent(d.from)

Provenance ==
  LinksKnown /\ AsksOwn /\ StoresOwn /\ OutboxSound /\ QueueSound /\ NetSound

ProvInv == TypeInv /\ Provenance

\* Whom a node may answer may answer it.
LEMMA AdjacentSymmetric ==
  ASSUME NEW n \in Node, NEW m \in Node, n \in Adjacent(m)
  PROVE  m \in Adjacent(n)
  BY DEF Adjacent

\* A value that is genuine when it is sent is genuine when it is read.
LEMMA GenuineOnWire ==
  ASSUME NEW k \in Key, NEW v \in Genuine(k)
  PROVE  WireValue[v] \in Genuine(k)
<1> DEFINE seeded == {s.value : s \in {s \in UNION {Seeds(n) : n \in Node} : s.key = k}}
<1>1. Genuine(k) = seeded \cup {WireValue[w] : w \in seeded}
  BY DEF Genuine
<1>2. \A n \in Node : Seeds(n) \subseteq [key : Key, value : Value]
  <2> SUFFICES ASSUME NEW n \in Node PROVE Seeds(n) \subseteq [key : Key, value : Value]
    OBVIOUS
  <2> DEFINE pairs == [key : Key, value : Value]
  <2>1. SeedKeys[n] \in Seq(pairs)
    BY NetOSAssumption
  <2> HIDE DEF pairs
  <2>2. Seeds(n) \subseteq pairs
    BY <2>1 DEF Seeds
  <2> QED BY <2>2 DEF pairs
<1>3. seeded \subseteq Value
  BY <1>2
<1> HIDE DEF seeded
<1>4. CASE v \in seeded
  BY <1>1, <1>4
<1>5. CASE \E w \in seeded : v = WireValue[w]
  BY <1>1, <1>3, <1>5, NetOSAssumption
<1> QED BY <1>1, <1>4, <1>5

\* What a receiver reads is grounded and in reach when what was sent was.
LEMMA WireSound ==
  ASSUME NEW m \in Message, NEW n \in Node, Grounded(m), InReach(m, n)
  PROVE  Grounded(OnWire(m)) /\ InReach(OnWire(m), n)
<1>1. CASE m.type = "DATA"
  <2>1. m.key \in Key /\ m.value \in Genuine(m.key)
    BY <1>1, MessageFields DEF Grounded
  <2> QED BY <1>1, <2>1, OnWireTyped, GenuineOnWire DEF Grounded, InReach
<1>2. CASE m.type # "DATA"
  BY <1>2 DEF OnWire
<1> QED BY <1>1, <1>2

\* A key that a node requests has its bits among the requested ones.
LEMMA RequestedIsAsked ==
  ASSUME NEW n \in Node, NEW k \in Requested(n)
  PROVE  AskedFor(n, k)
  BY DEF AskedFor, RequestedBits

\* A message that a node forwards.
LEMMA HopSound ==
  ASSUME NEW m \in Message, NEW f \in Node, NEW n \in Node, m.ttl > 0,
         Grounded(m), InReach(m, f), n \in Adjacent(f)
  PROVE  Grounded(Hop(m)) /\ InReach(Hop(m), n)
<1>1. /\ Hop(m).type = m.type /\ Hop(m).origin = m.origin /\ Hop(m).key = m.key
      /\ Hop(m).value = m.value /\ Hop(m).ttl = m.ttl - 1
  BY HopTyped
<1>2. Grounded(Hop(m))
  BY <1>1 DEF Grounded
<1>3. /\ m.origin \in Node /\ m.ttl \in Nat
      /\ Distance[m.origin][n] \in Nat /\ Distance[m.origin][f] \in Nat
      /\ Distance[m.origin][n] <= Distance[m.origin][f] + 1
      /\ RequestTtl \in Nat
  <2>1. m.origin \in Node /\ m.ttl \in 0..RequestTtl /\ RequestTtl \in Nat
    BY MessageFields, NetOSAssumption
  <2>2. Distance \in [Node -> [Node -> Nat]]
    BY NetOSAssumption
  <2>3. \A o, l \in Node : \A k \in Adjacent(l) : Distance[o][k] <= Distance[o][l] + 1
    BY NetOSAssumption
  <2> QED BY <2>1, <2>2, <2>3
<1>4. InReach(Hop(m), n)
  BY <1>1, <1>3 DEF InReach
<1> QED BY <1>2, <1>4

\* A transmission puts sound datagrams on the network.
LEMMA TransmitSound ==
  ASSUME ProvInv, NEW n \in Node, NEW it \in Item, ItemOK(n, it), Transmit(n, it)
  PROVE  NetSound'
<1>0. TypeOK BY DEF ProvInv, TypeInv
<1>1. it.msg \in Message /\ it.kind \in {"direct", "broadcast"}
  BY ItemFields
<1>2. Grounded(OnWire(it.msg)) /\ InReach(OnWire(it.msg), n)
  BY <1>1, WireSound DEF ItemOK
<1>3. topology[n] \subseteq Adjacent(n)
  BY DEF ProvInv, Provenance, LinksKnown, Adjacent
<1>4. \A d \in net' \ net : \E to \in Node :
        /\ d = Datagram(n, to, it.msg)
        /\ it.kind = "direct" => to = it.addr
        /\ it.kind = "broadcast" => to \in topology[n]
  BY <1>0, TransmitShape
<1>5. \A d \in net' \ net :
        Grounded(d.msg) /\ InReach(d.msg, d.from) /\ d.to \in Adjacent(d.from)
  BY <1>1, <1>2, <1>3, <1>4 DEF Datagram, ItemOK
<1> QED BY <1>5 DEF ProvInv, Provenance, NetSound

\* A send queues or transmits a sound item.
LEMMA SendSound ==
  ASSUME ProvInv, NEW n \in Node, NEW it \in Item, ItemOK(n, it), Send(n, it)
  PROVE  NetSound' /\ QueueSound'
<1>0. TypeOK /\ QueueSound /\ NetSound BY DEF ProvInv, TypeInv, Provenance
<1>00. queue \in [Node -> Seq(Item)] BY <1>0 DEF TypeOK
<1>1. NetSound'
  <2>1. CASE Transmit(n, it)
    BY <2>1, TransmitSound
  <2>2. CASE UNCHANGED net
    BY <2>2, <1>0 DEF NetSound
  <2> QED BY <2>1, <2>2 DEF Send
<1>2. QueueSound'
  <2>1. queue' = queue \/ queue' = [queue EXCEPT ![n] = Append(@, it)]
    BY <1>0, SendShape
  <2>2. ItemsOf(Append(queue[n], it)) = ItemsOf(queue[n]) \cup {it}
    BY <1>00, AppendItems
  <2> QED BY <1>0, <1>00, <2>1, <2>2 DEF QueueSound
<1> QED BY <1>1, <1>2

\* A message that a handler does not reject is sound.
LEMMA IncomingSound ==
  ASSUME ProvInv, NEW n \in Node, NEW d \in Incoming(n), ~RejectsMessage(d.msg)
  PROVE  /\ d.from \in Node /\ d.msg \in Message
         /\ Grounded(d.msg) /\ InReach(d.msg, d.from)
         /\ n \in Adjacent(d.from) /\ d.from \in Adjacent(n)
<1>0. TypeOK /\ NetSound BY DEF ProvInv, TypeInv, Provenance
<1>1. d \in net /\ d.to = n /\ d.from \in Node /\ d.msg \in Message
  BY <1>0, IncomingIsReal
<1>2. Grounded(d.msg) /\ InReach(d.msg, d.from) /\ n \in Adjacent(d.from)
  BY <1>0, <1>1 DEF NetSound
<1> QED BY <1>1, <1>2, AdjacentSymmetric

\* Initially nothing is stored, asked or sent.
LEMMA ProvInit == Init => ProvInv
<1> SUFFICES ASSUME Init PROVE ProvInv
  OBVIOUS
<1>1. TypeInv BY TypeInit
<1>2. LinksKnown
  BY NetOSAssumption DEF Init, LinksKnown, Links
<1>3. AsksOwn
  BY DEF Init, AsksOwn, EmptyBuffer
<1>4. StoresOwn
  BY DEF Init, StoresOwn, ValueIntegrity, StoredWasAskedFor, Stored
<1>5. OutboxSound /\ QueueSound /\ NetSound
  BY SmallItems DEF Init, OutboxSound, QueueSound, NetSound
<1> QED BY <1>1, <1>2, <1>3, <1>4, <1>5 DEF ProvInv, Provenance

\* The sends of a node.
LEMMA ProvSends ==
  ASSUME ProvInv, NEW n \in Node,
         \/ \E t \in Threads : Submit(n, t)
         \/ WorkerSend(n) \/ Exchange(n) \/ Reload(n)
  PROVE  Provenance'
<1>0. /\ TypeInv /\ TypeOK /\ LinksKnown /\ AsksOwn /\ StoresOwn
      /\ OutboxSound /\ QueueSound /\ NetSound
  BY DEF ProvInv, TypeInv, Provenance
<1>1. UNCHANGED <<stores, tables, asking>>
  BY DEF Submit, WorkerSend, Exchange, Reload
<1>2. AsksOwn' /\ StoresOwn'
  BY <1>0, <1>1 DEF AsksOwn, StoresOwn, ValueIntegrity, StoredWasAskedFor, Stored,
    stores, asking
<1>3. ASSUME UNCHANGED topology PROVE LinksKnown'
  BY <1>0, <1>1, <1>3 DEF LinksKnown, tables
<1>4. ASSUME NEW t \in Threads, Submit(n, t) PROVE Provenance'
  <2>1. outbox[n][t] \in Seq(Item) /\ outbox[n][t] # <<>>
    BY <1>0, <1>4 DEF TypeOK, Submit
  <2>2. Head(outbox[n][t]) \in Item
    BY <2>1
  <2>3. /\ Head(outbox[n][t]) \in ItemsOf(outbox[n][t])
        /\ ItemsOf(Tail(outbox[n][t])) \subseteq ItemsOf(outbox[n][t])
    BY <2>1, HeadTail
  <2>4. Send(n, Head(outbox[n][t])) /\ ItemOK(n, Head(outbox[n][t]))
    BY <1>0, <1>4, <2>3 DEF Submit, OutboxSound
  <2>5. NetSound' /\ QueueSound'
    BY <2>2, <2>4, SendSound
  <2>6. OutboxSound'
    <3>1. outbox \in [Node -> [Threads -> Seq(Item)]]
      BY <1>0 DEF TypeOK
    <3>2. outbox' = [outbox EXCEPT ![n][t] = Tail(@)] /\ UNCHANGED topology
      BY <1>4 DEF Submit
    <3> QED BY <1>0, <2>3, <3>1, <3>2 DEF OutboxSound
  <2>7. LinksKnown'
    BY <1>3, <1>4 DEF Submit
  <2> QED BY <1>2, <2>5, <2>6, <2>7 DEF Provenance
<1>5. CASE WorkerSend(n)
  <2>1. queue[n] \in Seq(Item) /\ queue[n] # <<>>
    BY <1>0, <1>5 DEF TypeOK, WorkerSend
  <2>2. Head(queue[n]) \in Item
    BY <2>1
  <2>3. /\ Head(queue[n]) \in ItemsOf(queue[n])
        /\ ItemsOf(Tail(queue[n])) \subseteq ItemsOf(queue[n])
    BY <2>1, HeadTail
  <2>4. Transmit(n, Head(queue[n])) /\ ItemOK(n, Head(queue[n]))
    BY <1>0, <1>5, <2>3 DEF WorkerSend, QueueSound
  <2>5. NetSound'
    BY <2>2, <2>4, TransmitSound
  <2>6. QueueSound'
    <3>1. queue \in [Node -> Seq(Item)]
      BY <1>0 DEF TypeOK
    <3>2. queue' = [queue EXCEPT ![n] = Tail(@)]
      BY <1>5 DEF WorkerSend
    <3> QED BY <1>0, <2>3, <3>1, <3>2 DEF QueueSound
  <2>7. LinksKnown' /\ OutboxSound'
    BY <1>0, <1>3, <1>5 DEF WorkerSend, OutboxSound
  <2> QED BY <1>2, <2>5, <2>6, <2>7 DEF Provenance
<1>6. CASE Exchange(n)
  <2> DEFINE it == BroadcastItem(ContentBloom(n, localFilter[n]), None)
  <2>1. it \in Item
    BY <1>0, ContentBloomTyped, ItemsTyped DEF TypeOK
  <2>2. ItemOK(n, it)
    BY DEF ItemOK, Grounded, InReach, BroadcastItem, ContentBloom
  <2>3. Send(n, it)
    BY <1>6 DEF Exchange
  <2>4. NetSound' /\ QueueSound'
    BY <2>1, <2>2, <2>3, SendSound
  <2>5. LinksKnown' /\ OutboxSound'
    BY <1>0, <1>3, <1>6 DEF Exchange, OutboxSound
  <2> QED BY <1>2, <2>4, <2>5 DEF Provenance
<1>7. CASE Reload(n)
  <2>1. UNCHANGED <<tables, outbox, queue, net>>
    BY <1>7 DEF Reload
  <2>2. OutboxSound' /\ QueueSound' /\ NetSound'
    BY <1>0, <2>1 DEF OutboxSound, QueueSound, NetSound
  <2>3. PICK neighbors \in ReloadOptions[n] : topology' = [topology EXCEPT ![n] = neighbors]
    BY <1>7 DEF Reload
  <2>4. neighbors \subseteq Links(n)
    BY <2>3 DEF Links
  <2>5. LinksKnown'
    BY <1>0, <2>1, <2>3, <2>4 DEF LinksKnown, tables, TypeOK
  <2> QED BY <1>2, <2>2, <2>5 DEF Provenance
<1> QED BY <1>4, <1>5, <1>6, <1>7

\* A value that is stored under a key it stands for, at a node that was
\* seeded with the key or asked for it.
LEMMA StoreSound ==
  ASSUME TypeOK, StoresOwn, NEW n \in Node, NEW k \in Key, NEW v \in Genuine(k),
         redis' = [redis EXCEPT ![n][k] = v],
         (\E s \in Seeds(n) : s.key = k) \/ AskedFor(n, k)
  PROVE  StoresOwn'
<1>1. redis \in [Node -> [Key -> Value \cup {None}]]
  BY DEF TypeOK
<1>2. \A m \in Node : \A l \in Key :
        redis'[m][l] = IF m = n /\ l = k THEN v ELSE redis[m][l]
  BY <1>1
<1>3. ValueIntegrity'
  BY <1>2 DEF StoresOwn, ValueIntegrity, Stored
<1>4. StoredWasAskedFor'
  BY <1>2 DEF StoresOwn, StoredWasAskedFor, Stored
<1> QED BY <1>3, <1>4 DEF StoresOwn

\* Replies of the transport thread.
LEMMA ReplySound ==
  ASSUME TypeOK, OutboxSound, NEW n \in Node, NEW items, Reply(n, items),
         \A it \in ItemsOf(items) : ItemOK(n, it)
  PROVE  OutboxSound'
<1>1. outbox \in [Node -> [Threads -> Seq(Item)]]
  BY DEF TypeOK
<1>2. outbox' = [outbox EXCEPT ![n]["transport"] = items]
  BY DEF Reply
<1> QED BY <1>1, <1>2 DEF OutboxSound, Threads

\* The handlers of the transport thread.
LEMMA ProvTransport ==
  ASSUME ProvInv, NEW n \in Node, Transport(n)
  PROVE  Provenance'
<1>0. /\ TypeInv /\ TypeOK /\ LinksKnown /\ AsksOwn /\ StoresOwn
      /\ OutboxSound /\ QueueSound /\ NetSound
  BY DEF ProvInv, TypeInv, Provenance
<1>1. PICK d \in Incoming(n) :
        \/ Reject(n, d)
        \/ DropDuplicate(n, d) \/ ServeRequest(n, d) \/ ForwardRequest(n, d)
        \/ DropNotOrigin(n, d) \/ StoreFailed(n, d) \/ StoreData(n, d)
        \/ HandleContentBloom(n, d)
        \/ DropLateQuery(n, d) \/ HandleQueryBloom(n, d)
  BY DEF Transport
<1>2. Receive(n, d)
  BY <1>1 DEF Reject, DropDuplicate, ServeRequest, ForwardRequest, DropNotOrigin,
    StoreFailed, StoreData, HandleContentBloom, DropLateQuery, HandleQueryBloom
<1>3. net' \subseteq net /\ UNCHANGED <<queue, topology>>
  BY <1>2, ReceiveShape DEF Receive
<1>4. NetSound' /\ QueueSound'
  BY <1>0, <1>3 DEF NetSound, QueueSound
<1>5. ASSUME UNCHANGED summaries PROVE LinksKnown'
  BY <1>0, <1>3, <1>5 DEF LinksKnown
<1>6. ASSUME UNCHANGED asking PROVE AsksOwn'
  BY <1>0, <1>6 DEF AsksOwn, asking
<1>7. ASSUME UNCHANGED redis PROVE StoresOwn'
  BY <1>0, <1>7 DEF StoresOwn, ValueIntegrity, StoredWasAskedFor, Stored
<1>8. ASSUME UNCHANGED outbox PROVE OutboxSound'
  BY <1>0, <1>8 DEF OutboxSound
<1>9. CASE \/ Reject(n, d) \/ DropNotOrigin(n, d) \/ StoreFailed(n, d) \/ DropLateQuery(n, d)
           \/ DropDuplicate(n, d)
  <2>1. UNCHANGED <<redis, summaries, asking, outbox>>
    BY <1>9 DEF Reject, DropNotOrigin, StoreFailed, DropLateQuery, DropDuplicate,
      stores, tables
  <2> QED BY <1>4, <1>5, <1>6, <1>7, <1>8, <2>1 DEF Provenance
<1>10. CASE ServeRequest(n, d)
  <2>1. d.msg.type = "REQ" /\ ~RejectsMessage(d.msg)
    BY <1>10 DEF ServeRequest, IsRequest, RejectsMessage
  <2>2. d.from \in Adjacent(n) /\ d.msg \in Message /\ Grounded(d.msg)
    BY <2>1, IncomingSound
  <2>3. d.msg.key \in Key /\ d.msg.origin \in Node /\ d.msg.key \in Requested(d.msg.origin)
    BY <2>1, <2>2, MessageFields DEF Grounded
  <2>4. PICK v \in RedisGet(n, d.msg.key) \ {None} :
          Reply(n, <<DirectItem(d.from, Data(d.msg.id, d.msg.origin, d.msg.key, v))>>)
    BY <1>10 DEF ServeRequest
  <2>5. v \in Genuine(d.msg.key)
    BY <1>0, <2>3, <2>4 DEF RedisGet, StoresOwn, ValueIntegrity, Stored
  <2>6. AskedFor(d.msg.origin, d.msg.key)
    BY <2>3, RequestedIsAsked
  <2>7. ItemOK(n, DirectItem(d.from, Data(d.msg.id, d.msg.origin, d.msg.key, v)))
    BY <2>2, <2>5, <2>6 DEF ItemOK, Grounded, InReach, DirectItem, Data
  <2>8. OutboxSound'
    BY <1>0, <2>4, <2>7, ReplySound, SmallItems
  <2>9. UNCHANGED <<redis, summaries, asking>>
    BY <1>10 DEF ServeRequest
  <2> QED BY <1>4, <1>5, <1>6, <1>7, <2>8, <2>9 DEF Provenance
<1>11. CASE ForwardRequest(n, d)
  <2>1. d.msg.type = "REQ" /\ ~RejectsMessage(d.msg) /\ d.msg.ttl > 0
    BY <1>11 DEF ForwardRequest, IsRequest, RejectsMessage, RequestIsValid
  <2>2. /\ d.from \in Node /\ d.msg \in Message
        /\ Grounded(d.msg) /\ InReach(d.msg, d.from) /\ n \in Adjacent(d.from)
    BY <2>1, IncomingSound
  <2>3. Grounded(Hop(d.msg)) /\ InReach(Hop(d.msg), n)
    BY <2>1, <2>2, HopSound
  <2>4. ItemOK(n, BroadcastItem(Hop(d.msg), d.from))
    BY <2>3 DEF ItemOK, BroadcastItem
  <2>5. Reply(n, <<BroadcastItem(Hop(d.msg), d.from)>>)
    BY <1>11 DEF ForwardRequest
  <2>6. OutboxSound'
    BY <1>0, <2>4, <2>5, ReplySound, SmallItems
  <2>7. UNCHANGED <<redis, summaries, asking>>
    BY <1>11 DEF ForwardRequest, stores
  <2> QED BY <1>4, <1>5, <1>6, <1>7, <2>6, <2>7 DEF Provenance
<1>12. CASE StoreData(n, d)
  <2>1. d.msg.type = "DATA" /\ ~RejectsMessage(d.msg) /\ d.msg.origin = n
    BY <1>12 DEF StoreData, IsData, IsForOrigin, RejectsMessage
  <2>2. d.msg \in Message /\ Grounded(d.msg)
    BY <2>1, IncomingSound
  <2>3. d.msg.key \in Key /\ d.msg.value \in Genuine(d.msg.key) /\ AskedFor(n, d.msg.key)
    BY <2>1, <2>2, MessageFields DEF Grounded
  <2>4. /\ redis' = [redis EXCEPT ![n][d.msg.key] = d.msg.value]
        /\ fallback' = [fallback EXCEPT ![n] = @ \ {d.msg.key}]
        /\ UNCHANGED <<tables, taken, buffer, pending, outbox>>
    BY <1>12 DEF StoreData, Store, Cancel
  <2>5. StoresOwn'
    BY <1>0, <2>3, <2>4, StoreSound
  <2>6. AsksOwn'
    BY <1>0, <2>4 DEF AsksOwn, TypeOK
  <2> QED BY <1>4, <1>5, <1>8, <2>4, <2>5, <2>6 DEF Provenance, tables
<1>13. CASE HandleContentBloom(n, d)
  <2>1. d.msg.type = "CBF" /\ ~RejectsMessage(d.msg)
    BY <1>13 DEF HandleContentBloom, RejectsMessage
  <2>2. d.from \in Node /\ d.from \in Adjacent(n)
    BY <2>1, IncomingSound
  <2>3. /\ summaries' = [summaries EXCEPT ![n][d.from] = d.msg.key]
        /\ UNCHANGED <<redis, asking, outbox>>
    BY <1>13 DEF HandleContentBloom, stores
  <2>4. LinksKnown'
    <3>1. summaries \in [Node -> [Node -> {None} \cup SUBSET Bit]]
      BY <1>0 DEF TypeOK
    <3> QED BY <1>0, <1>3, <2>2, <2>3, <3>1 DEF LinksKnown
  <2> QED BY <1>4, <1>6, <1>7, <1>8, <2>3, <2>4 DEF Provenance
<1>14. CASE HandleQueryBloom(n, d)
  <2>1. d.msg.type = "QBF" /\ ~RejectsMessage(d.msg) /\ d.msg.ttl > 0
    BY <1>14 DEF HandleQueryBloom, IsQueryBloom, RejectsMessage, QueryBloomIsValid
  <2>2. /\ d.from \in Node /\ d.msg \in Message /\ d.from \in Adjacent(n)
        /\ Grounded(d.msg) /\ InReach(d.msg, d.from) /\ n \in Adjacent(d.from)
    BY <2>1, IncomingSound
  <2>3. /\ d.msg.origin \in Node /\ d.msg.key \in SUBSET Bit
        /\ d.msg.key \subseteq RequestedBits(d.msg.origin)
    BY <2>1, <2>2, MessageFields DEF Grounded
  <2>4. PICK S \in Answered(n, d.msg.key) : \E ks \in Orderings(S) :
          \/ Reply(n, QueryReplies(n, d, ks))
          \/ Reply(n, Append(QueryReplies(n, d, ks), BroadcastItem(Hop(d.msg), d.from)))
    BY <1>14 DEF HandleQueryBloom
  <2>5. PICK ks \in Orderings(S) :
          \/ Reply(n, QueryReplies(n, d, ks))
          \/ Reply(n, Append(QueryReplies(n, d, ks), BroadcastItem(Hop(d.msg), d.from)))
    BY <2>4
  <2>6. /\ S \subseteq Matches(n, d.msg.key) \cap Stored(n)
        /\ QueryReplies(n, d, ks) \in Seq(Item)
        /\ \A x \in ItemsOf(QueryReplies(n, d, ks)) : \E k \in S :
             x = DirectItem(d.from, Data(FreshId(n), d.msg.origin, k, redis[n][k]))
    BY <1>0, <2>1, <2>2, QueryRepliesTyped
  <2>7. \A k \in S : ItemOK(n, DirectItem(d.from, Data(FreshId(n), d.msg.origin, k, redis[n][k])))
    <3> SUFFICES ASSUME NEW k \in S
                 PROVE  ItemOK(n, DirectItem(d.from, Data(FreshId(n), d.msg.origin, k, redis[n][k])))
      OBVIOUS
    <3>1. redis[n][k] \in Genuine(k)
      BY <1>0, <2>6 DEF StoresOwn, ValueIntegrity
    <3>2. AskedFor(d.msg.origin, k)
      BY <2>3, <2>6 DEF Matches, MaybeContains, AskedFor
    <3> QED BY <2>2, <3>1, <3>2 DEF ItemOK, Grounded, InReach, DirectItem, Data
  <2>8. Hop(d.msg) \in Message /\ Grounded(Hop(d.msg)) /\ InReach(Hop(d.msg), n)
    BY <2>1, <2>2, HopSound, HopTyped
  <2>9. /\ BroadcastItem(Hop(d.msg), d.from) \in Item
        /\ ItemOK(n, BroadcastItem(Hop(d.msg), d.from))
    BY <2>2, <2>8, ItemsTyped DEF ItemOK, BroadcastItem
  <2>10. ItemsOf(Append(QueryReplies(n, d, ks), BroadcastItem(Hop(d.msg), d.from))) =
           ItemsOf(QueryReplies(n, d, ks)) \cup {BroadcastItem(Hop(d.msg), d.from)}
    BY <2>6, <2>9, AppendItems
  <2>11. \A x \in ItemsOf(QueryReplies(n, d, ks)) : ItemOK(n, x)
    BY <2>6, <2>7
  <2>12. OutboxSound'
    <3>1. CASE Reply(n, QueryReplies(n, d, ks))
      BY <1>0, <2>11, <3>1, ReplySound
    <3>2. CASE Reply(n, Append(QueryReplies(n, d, ks), BroadcastItem(Hop(d.msg), d.from)))
      BY <1>0, <2>9, <2>10, <2>11, <3>2, ReplySound
    <3> QED BY <2>5, <3>1, <3>2
  <2>13. UNCHANGED <<redis, summaries, asking>>
    BY <1>14 DEF HandleQueryBloom, stores
  <2> QED BY <1>4, <1>5, <1>6, <1>7, <2>12, <2>13 DEF Provenance
<1> QED BY <1>1, <1>9, <1>10, <1>11, <1>12, <1>13, <1>14

\* add_key collects bits of requested keys only.
LEMMA AddKeySound ==
  ASSUME TypeOK, NEW n \in Node, NEW k \in Requested(n), k \in Key, AddKey(n, k),
         buffer[n].filter \subseteq RequestedBits(n),
         \A i \in 1..Len(pending[n]) : pending[n][i] \subseteq RequestedBits(n)
  PROVE  /\ \A m \in Node \ {n} : buffer'[m] = buffer[m] /\ pending'[m] = pending[m]
         /\ buffer'[n].filter \subseteq RequestedBits(n)
         /\ \A i \in 1..Len(pending'[n]) : pending'[n][i] \subseteq RequestedBits(n)
<1>0. /\ buffer \in [Node -> [filter : SUBSET Bit, count : Nat]]
      /\ pending \in [Node -> Seq(SUBSET Bit)]
  BY DEF TypeOK
<1>1. PICK b \in {buffer[n], EmptyBuffer} :
           /\ b.filter \in SUBSET Bit /\ WithKey(b, k).filter = b.filter \cup QueryBits[k]
           /\ WithKey(b, k) \in [filter : SUBSET Bit, count : Nat]
           /\ \/ /\ pending' = [pending EXCEPT ![n] = Append(@, WithKey(b, k).filter)]
                 /\ buffer' = [buffer EXCEPT ![n] = EmptyBuffer]
              \/ /\ buffer' = [buffer EXCEPT ![n] = WithKey(b, k)]
                 /\ pending' = pending
  BY AddKeyShape
<1>2. EmptyBuffer.filter = {}
  BY DEF EmptyBuffer
<1>3. WithKey(b, k).filter \subseteq RequestedBits(n)
  BY <1>1, <1>2 DEF RequestedBits
<1>4. ItemsOf(Append(pending[n], WithKey(b, k).filter)) =
        ItemsOf(pending[n]) \cup {WithKey(b, k).filter}
  <2>1. WithKey(b, k).filter \in SUBSET Bit
    BY <1>1
  <2> QED BY <1>0, <2>1, AppendItems
<1>5. \A x \in ItemsOf(Append(pending[n], WithKey(b, k).filter)) : x \subseteq RequestedBits(n)
  BY <1>3, <1>4 DEF ItemsOf
<1>6. CASE /\ pending' = [pending EXCEPT ![n] = Append(@, WithKey(b, k).filter)]
           /\ buffer' = [buffer EXCEPT ![n] = EmptyBuffer]
  <2>1. pending'[n] = Append(pending[n], WithKey(b, k).filter)
    BY <1>0, <1>6
  <2>2. \A i \in 1..Len(pending'[n]) : pending'[n][i] \in ItemsOf(pending'[n])
    BY DEF ItemsOf
  <2> QED BY <1>0, <1>2, <1>5, <1>6, <2>1, <2>2
<1>7. CASE buffer' = [buffer EXCEPT ![n] = WithKey(b, k)] /\ pending' = pending
  BY <1>0, <1>3, <1>7
<1> QED BY <1>1, <1>6, <1>7

\* The main, flush and fallback threads.
LEMMA ProvThreads ==
  ASSUME ProvInv, NEW n \in Node,
         StartQueue(n) \/ Seed(n) \/ Flush(n) \/ TakeDue(n) \/ AddDue(n)
  PROVE  Provenance'
<1>0. /\ TypeInv /\ TypeOK /\ LinksKnown /\ AsksOwn /\ StoresOwn
      /\ OutboxSound /\ QueueSound /\ NetSound
  BY DEF ProvInv, TypeInv, Provenance
<1>1. UNCHANGED <<tables, links>>
  BY DEF StartQueue, Seed, Flush, TakeDue, AddDue
<1>2. LinksKnown' /\ QueueSound' /\ NetSound'
  BY <1>0, <1>1 DEF LinksKnown, QueueSound, NetSound, tables, links
<1>3. ASSUME UNCHANGED asking PROVE AsksOwn'
  BY <1>0, <1>3 DEF AsksOwn, asking
<1>4. ASSUME UNCHANGED redis PROVE StoresOwn'
  BY <1>0, <1>4 DEF StoresOwn, ValueIntegrity, StoredWasAskedFor, Stored
<1>5. ASSUME UNCHANGED outbox PROVE OutboxSound'
  BY <1>0, <1>5 DEF OutboxSound
<1>6. CASE StartQueue(n)
  BY <1>2, <1>3, <1>4, <1>5, <1>6 DEF StartQueue, stores, Provenance
<1>7. CASE Seed(n)
  <2> DEFINE seed == SeedKeys[n][boot[n]]
  <2>1. boot[n] \in 1..Len(SeedKeys[n]) /\ UNCHANGED <<asking, outbox>>
    BY <1>7 DEF Seed
  <2>2. redis' = redis \/ redis' = [redis EXCEPT ![n][seed.key] = seed.value]
    BY <1>7 DEF Seed, SeedFailed, Store, stores
  <2>3. seed \in Seeds(n)
    BY <2>1 DEF Seeds
  <2>4. seed.key \in Key
    BY <2>1, SeedTyped
  <2> HIDE DEF seed
  <2>5. seed.value \in Genuine(seed.key)
    BY <2>3 DEF Genuine
  <2>6. StoresOwn'
    BY <1>0, <1>4, <2>2, <2>3, <2>4, <2>5, StoreSound
  <2> QED BY <1>2, <1>3, <1>5, <2>1, <2>6 DEF Provenance
<1>8. CASE Flush(n)
  <2>1. PICK due \in {FALSE, buffer[n].count > 0} :
          /\ buffer' = IF due THEN [buffer EXCEPT ![n] = EmptyBuffer] ELSE buffer
          /\ outbox' = [outbox EXCEPT ![n]["flush"] =
               [i \in 1..Len(Batches(n, due)) |->
                  BroadcastItem(QueryBloom(n, Batches(n, due)[i]), None)]]
    BY <1>8 DEF Flush
  <2>2. due \in BOOLEAN
    <3>1. (buffer[n].count > 0) \in BOOLEAN
      OBVIOUS
    <3> QED BY <2>1, <3>1
  <2>3. \A i \in 1..Len(Batches(n, due)) :
          /\ Batches(n, due)[i] \in SUBSET Bit
          /\ Batches(n, due)[i] \subseteq RequestedBits(n)
    <3>1. /\ Batches(n, due) \in Seq(SUBSET Bit)
          /\ \A i \in 1..Len(Batches(n, due)) :
              \/ \E j \in 1..Len(pending[n]) : Batches(n, due)[i] = pending[n][j]
              \/ due /\ Batches(n, due)[i] = buffer[n].filter
      BY <1>0, <2>2, BatchesTyped
    <3>2. \A i \in 1..Len(Batches(n, due)) : Batches(n, due)[i] \in SUBSET Bit
      BY <3>1
    <3> QED BY <1>0, <3>1, <3>2 DEF AsksOwn
  <2>4. \A i \in 1..Len(Batches(n, due)) :
          ItemOK(n, BroadcastItem(QueryBloom(n, Batches(n, due)[i]), None))
    <3> SUFFICES ASSUME NEW f \in SUBSET Bit, f \subseteq RequestedBits(n)
                 PROVE  ItemOK(n, BroadcastItem(QueryBloom(n, f), None))
      BY <2>3
    <3>1. Distance[n][n] = 0 /\ RequestTtl \in Nat
      BY NetOSAssumption
    <3> QED BY <3>1 DEF ItemOK, Grounded, InReach, BroadcastItem, QueryBloom
  <2>5. OutboxSound'
    <3> DEFINE items == [i \in 1..Len(Batches(n, due)) |->
                           BroadcastItem(QueryBloom(n, Batches(n, due)[i]), None)]
    <3>0. Len(Batches(n, due)) \in Nat
      BY <1>0, <2>2, BatchesTyped
    <3>1. outbox' = [outbox EXCEPT ![n]["flush"] = items]
      BY <2>1
    <3>2. \A it \in ItemsOf(items) : ItemOK(n, it)
      BY <2>4, <3>0 DEF ItemsOf
    <3>3. outbox \in [Node -> [Threads -> Seq(Item)]]
      BY <1>0 DEF TypeOK
    <3> HIDE DEF items
    <3> QED BY <1>0, <3>1, <3>2, <3>3 DEF OutboxSound, Threads
  <2>6. AsksOwn'
    <3>1. /\ pending' = [pending EXCEPT ![n] = <<>>] /\ UNCHANGED <<fallback, taken>>
          /\ pending \in [Node -> Seq(SUBSET Bit)]
          /\ buffer \in [Node -> [filter : SUBSET Bit, count : Nat]]
      BY <1>0, <1>8 DEF Flush, TypeOK
    <3>2. \A m \in Node : \A i \in 1..Len(pending'[m]) : pending'[m][i] \subseteq RequestedBits(m)
      BY <1>0, <3>1 DEF AsksOwn
    <3>3. \A m \in Node : buffer'[m].filter \subseteq RequestedBits(m)
      BY <1>0, <2>1, <3>1 DEF AsksOwn, EmptyBuffer
    <3> QED BY <1>0, <3>1, <3>2, <3>3 DEF AsksOwn
  <2>7. UNCHANGED redis
    BY <1>8 DEF Flush, stores
  <2> QED BY <1>2, <1>4, <2>5, <2>6, <2>7 DEF Provenance
<1>9. CASE TakeDue(n)
  <2>1. UNCHANGED <<redis, buffer, pending, outbox>>
    BY <1>9 DEF TakeDue, stores
  <2>2. PICK due \in (SUBSET fallback[n]) \ {{}} :
          /\ taken' = [taken EXCEPT ![n] = due]
          /\ fallback' = [fallback EXCEPT ![n] = @ \ due]
    BY <1>9 DEF TakeDue
  <2>3. AsksOwn'
    BY <1>0, <2>1, <2>2 DEF AsksOwn, TypeOK
  <2> QED BY <1>2, <1>4, <1>5, <2>1, <2>3 DEF Provenance
<1>10. CASE AddDue(n)
  <2>1. PICK k \in taken[n] : AddKey(n, k) /\ taken' = [taken EXCEPT ![n] = @ \ {k}]
    BY <1>10 DEF AddDue
  <2>2. k \in Key /\ k \in Requested(n)
    BY <1>0 DEF TypeOK, AsksOwn
  <2>3. /\ \A m \in Node \ {n} : buffer'[m] = buffer[m] /\ pending'[m] = pending[m]
        /\ buffer'[n].filter \subseteq RequestedBits(n)
        /\ \A i \in 1..Len(pending'[n]) : pending'[n][i] \subseteq RequestedBits(n)
    BY <1>0, <2>1, <2>2, AddKeySound DEF AsksOwn
  <2>4. UNCHANGED <<redis, fallback, outbox>>
    BY <1>10 DEF AddDue, stores
  <2>5. \A m \in Node : taken'[m] \subseteq taken[m]
    BY <1>0, <2>1 DEF TypeOK
  <2>6. AsksOwn'
    BY <1>0, <2>3, <2>4, <2>5 DEF AsksOwn
  <2> QED BY <1>2, <1>4, <1>5, <2>4, <2>6 DEF Provenance
<1> QED BY <1>6, <1>7, <1>8, <1>9, <1>10

\* The scheduler.
LEMMA ProvScheduler ==
  ASSUME ProvInv, NEW n \in Node, Scheduler(n)
  PROVE  Provenance'
<1>0. /\ TypeInv /\ TypeOK /\ LinksKnown /\ AsksOwn /\ StoresOwn
      /\ OutboxSound /\ QueueSound /\ NetSound
  BY DEF ProvInv, TypeInv, Provenance
<1>1. sched[n].next <= Len(RequestKeys[n])
  BY DEF Scheduler, ScheduleLocal, ScheduleMiss, ScheduleDirect, ScheduleFallback,
    ScheduleAggregate, SchedAt
<1>2. CurrentKey(n) \in Key /\ CurrentKey(n) \in Requested(n) /\ RequestNumber(n) \in Nat
  BY <1>0, <1>1, CurrentTyped
<1>3. UNCHANGED <<redis, outbox, topology>>
  BY DEF Scheduler, ScheduleLocal, ScheduleMiss, ScheduleDirect, ScheduleFallback,
    ScheduleAggregate, stores, links
<1>4. StoresOwn' /\ OutboxSound'
  BY <1>0, <1>3 DEF StoresOwn, ValueIntegrity, StoredWasAskedFor, Stored, OutboxSound
<1>5. ASSUME UNCHANGED <<queue, net>> PROVE QueueSound' /\ NetSound'
  BY <1>0, <1>5 DEF QueueSound, NetSound
<1>6. ASSUME UNCHANGED asking PROVE AsksOwn'
  BY <1>0, <1>6 DEF AsksOwn, asking
<1>7. ASSUME UNCHANGED summaries PROVE LinksKnown'
  BY <1>0, <1>3, <1>7 DEF LinksKnown
<1>8. ASSUME NEW s \in KeptSummaries(n), summaries' = [summaries EXCEPT ![n] = s]
      PROVE  LinksKnown' /\ \A m \in Node : s[m] # None => m \in Adjacent(n)
  <2>1. \A m \in Node : s[m] \in {None, summaries[n][m]}
    BY <1>0, KeptTyped
  <2>2. summaries \in [Node -> [Node -> {None} \cup SUBSET Bit]]
    BY <1>0 DEF TypeOK
  <2>3. \A m \in Node : s[m] # None => m \in Adjacent(n)
    BY <1>0, <2>1 DEF LinksKnown
  <2>4. LinksKnown'
    BY <1>0, <1>3, <1>8, <2>2, <2>3 DEF LinksKnown
  <2> QED BY <2>3, <2>4
<1>9. CASE ScheduleLocal(n) \/ ScheduleMiss(n)
  <2>1. UNCHANGED <<summaries, asking, queue, net>>
    BY <1>9 DEF ScheduleLocal, ScheduleMiss, tables, links
  <2> QED BY <1>4, <1>5, <1>6, <1>7, <2>1 DEF Provenance
<1>10. CASE ScheduleDirect(n)
  <2>1. PICK s \in KeptSummaries(n) :
          /\ summaries' = [summaries EXCEPT ![n] = s]
          /\ \E m \in Candidates(s, CurrentKey(n)) :
               Send(n, DirectItem(m, Request(n, RequestNumber(n), CurrentKey(n))))
    BY <1>10 DEF ScheduleDirect
  <2>2. PICK m \in Candidates(s, CurrentKey(n)) :
          Send(n, DirectItem(m, Request(n, RequestNumber(n), CurrentKey(n))))
    BY <2>1
  <2>3. m \in Node /\ m \in Adjacent(n) /\ LinksKnown'
    BY <1>8, <2>1, <2>2 DEF Candidates
  <2>4. DirectItem(m, Request(n, RequestNumber(n), CurrentKey(n))) \in Item
    BY <1>2, <2>3, RequestTyped, ItemsTyped
  <2>5. ItemOK(n, DirectItem(m, Request(n, RequestNumber(n), CurrentKey(n))))
    <3>1. Distance[n][n] = 0 /\ RequestTtl \in Nat
      BY NetOSAssumption
    <3> QED BY <1>2, <2>3, <3>1 DEF ItemOK, Grounded, InReach, DirectItem, Request
  <2>6. QueueSound' /\ NetSound'
    BY <2>2, <2>4, <2>5, SendSound
  <2>7. UNCHANGED asking
    BY <1>10 DEF ScheduleDirect
  <2> QED BY <1>4, <1>6, <2>3, <2>6, <2>7 DEF Provenance
<1>11. CASE ScheduleFallback(n)
  <2>1. /\ fallback' = [fallback EXCEPT ![n] = @ \cup {CurrentKey(n)}]
        /\ UNCHANGED <<summaries, taken, buffer, pending, queue, net>>
    BY <1>11 DEF ScheduleFallback, tables, links
  <2>2. AsksOwn'
    BY <1>0, <1>2, <2>1 DEF AsksOwn, TypeOK
  <2> QED BY <1>4, <1>5, <1>7, <2>1, <2>2 DEF Provenance
<1>12. CASE ScheduleAggregate(n)
  <2>1. AddKey(n, CurrentKey(n)) /\ UNCHANGED <<fallback, taken, queue, net>>
    BY <1>12 DEF ScheduleAggregate, links
  <2>2. /\ \A m \in Node \ {n} : buffer'[m] = buffer[m] /\ pending'[m] = pending[m]
        /\ buffer'[n].filter \subseteq RequestedBits(n)
        /\ \A i \in 1..Len(pending'[n]) : pending'[n][i] \subseteq RequestedBits(n)
    BY <1>0, <1>2, <2>1, AddKeySound DEF AsksOwn
  <2>3. AsksOwn'
    BY <1>0, <2>1, <2>2 DEF AsksOwn
  <2>4. LinksKnown'
    BY <1>8, <1>12 DEF ScheduleAggregate
  <2> QED BY <1>4, <1>5, <2>1, <2>3, <2>4 DEF Provenance
<1> QED BY <1>9, <1>10, <1>11, <1>12 DEF Scheduler

\* A crash forgets, and keeps at most what Redis holds.
LEMMA ProvCrash ==
  ASSUME ProvInv, NEW n \in Node, Crash(n)
  PROVE  Provenance'
<1>0. /\ TypeInv /\ TypeOK /\ LinksKnown /\ AsksOwn /\ StoresOwn
      /\ OutboxSound /\ QueueSound /\ NetSound
  BY DEF ProvInv, TypeInv, Provenance
<1>1. LinksKnown'
  <2>1. /\ topology' = [topology EXCEPT ![n] = Neighbors[n]]
        /\ summaries' = [summaries EXCEPT ![n] = [m \in Node |-> None]]
        /\ topology \in [Node -> SUBSET Node]
        /\ summaries \in [Node -> [Node -> {None} \cup SUBSET Bit]]
    BY <1>0 DEF Crash, TypeOK
  <2>2. Neighbors[n] \subseteq Links(n)
    BY DEF Links
  <2> QED BY <1>0, <2>1, <2>2 DEF LinksKnown
<1>2. AsksOwn'
  <2>1. /\ fallback' = [fallback EXCEPT ![n] = {}] /\ taken' = [taken EXCEPT ![n] = {}]
        /\ buffer' = [buffer EXCEPT ![n] = EmptyBuffer]
        /\ pending' = [pending EXCEPT ![n] = <<>>]
        /\ fallback \in [Node -> SUBSET Key] /\ taken \in [Node -> SUBSET Key]
        /\ buffer \in [Node -> [filter : SUBSET Bit, count : Nat]]
        /\ pending \in [Node -> Seq(SUBSET Bit)]
    BY <1>0 DEF Crash, TypeOK
  <2>2. \A m \in Node : \A i \in 1..Len(pending'[m]) : pending'[m][i] \subseteq RequestedBits(m)
    BY <1>0, <2>1 DEF AsksOwn
  <2> QED BY <1>0, <2>1, <2>2 DEF AsksOwn, EmptyBuffer
<1>3. StoresOwn'
  <2>1. PICK kept \in RedisAfterCrash(n) : redis' = [redis EXCEPT ![n] = kept]
    BY DEF Crash
  <2>2. redis \in [Node -> [Key -> Value \cup {None}]]
    BY <1>0 DEF TypeOK
  <2>3. \A m \in Node : \A k \in Key : redis'[m][k] \in {None, redis[m][k]}
    BY <2>1, <2>2 DEF RedisAfterCrash
  <2> QED BY <1>0, <2>3 DEF StoresOwn, ValueIntegrity, StoredWasAskedFor, Stored
<1>4. OutboxSound'
  <2>1. /\ outbox' = [outbox EXCEPT ![n] = [t \in Threads |-> <<>>]]
        /\ outbox \in [Node -> [Threads -> Seq(Item)]]
    BY <1>0 DEF Crash, TypeOK
  <2> QED BY <1>0, <2>1, SmallItems DEF OutboxSound
<1>5. QueueSound'
  <2>1. queue' = [queue EXCEPT ![n] = <<>>] /\ queue \in [Node -> Seq(Item)]
    BY <1>0 DEF Crash, TypeOK
  <2> QED BY <1>0, <2>1, SmallItems DEF QueueSound
<1>6. NetSound'
  BY <1>0 DEF NetSound, Crash
<1> QED BY <1>1, <1>2, <1>3, <1>4, <1>5, <1>6 DEF Provenance

\* Every step keeps the provenance.
LEMMA ProvStep ==
  ASSUME ProvInv, [Next]_vars
  PROVE  ProvInv'
<1>1. TypeInv'
  BY TypeStep DEF ProvInv
<1>2. CASE UNCHANGED vars
  <2>1. Provenance'
    BY <1>2 DEF ProvInv, Provenance, LinksKnown, AsksOwn, StoresOwn, ValueIntegrity,
      StoredWasAskedFor, Stored, OutboxSound, QueueSound, NetSound,
      vars, stores, tables, asking, links
  <2> QED BY <1>1, <2>1 DEF ProvInv
<1>3. ASSUME NEW n \in Node, Step(n) PROVE ProvInv'
  <2>1. Provenance'
    BY <1>3, ProvSends, ProvTransport, ProvThreads, ProvScheduler, ProvCrash DEF Step
  <2> QED BY <1>1, <2>1 DEF ProvInv
<1> QED BY <1>2, <1>3 DEF Next

\* The invariant of this section.
LEMMA ProvAlways == Spec => []ProvInv
  BY ProvInit, ProvStep, PTL DEF Spec

(***************************************************************************)
(* Whatever is lost, duplicated or late, a value stored under a key was    *)
(* seeded under that key: no handler mixes up the replies of different     *)
(* keys, batches or origins.                                               *)
(***************************************************************************)
THEOREM NetOSValueIntegrity == Spec => []ValueIntegrity
<1>1. ProvInv => ValueIntegrity
  BY DEF ProvInv, Provenance, StoresOwn
<1> QED BY <1>1, ProvAlways, PTL

(***************************************************************************)
(* A node stores only what it was seeded with or asked for (or what its    *)
(* own Query-BFs match by a false positive): DATA for another origin is    *)
(* never stored on the way.                                                *)
(***************************************************************************)
THEOREM NetOSStoredWasAskedFor == Spec => []StoredWasAskedFor
<1>1. ProvInv => StoredWasAskedFor
  BY DEF ProvInv, Provenance, StoresOwn
<1> QED BY <1>1, ProvAlways, PTL

(***************************************************************************)
(* A REQ or Query-BF on the network has spent a unit of ttl per hop from   *)
(* its origin, in every topology and through reloads, echoes and           *)
(* duplicates.                                                             *)
(***************************************************************************)
THEOREM NetOSTtlBoundsReach == Spec => []TtlBoundsReach
<1>1. ProvInv => TtlBoundsReach
  BY DEF ProvInv, Provenance, NetSound, InReach, TtlBoundsReach
<1> QED BY <1>1, ProvAlways, PTL

-----------------------------------------------------------------------------
(* Truthfulness: what a node claims to hold, in its local key set, in a    *)
(* summary, in DATA it is about to send, and in its SyncTable.             *)

\* The bits of a summary of all that m stores.
StoredBits(m) == UNION {ContentBits[k] : k \in Stored(m)}

LocalTrue ==
  \A n \in Node :
    /\ localKeys[n] \subseteq Stored(n)
    /\ localFilter[n] = UNION {ContentBits[k] : k \in localKeys[n]}
    /\ crashes[n] = 0 => localKeys[n] = Stored(n)

SummariesTrue ==
  \A n, m \in Node :
    crashes[m] = 0 /\ summaries[n][m] # None => summaries[n][m] \subseteq StoredBits(m)

ItemTrue(n, it) ==
  /\ it.msg.type = "DATA" => it.msg.key \in Stored(n)
  /\ it.msg.type = "CBF" /\ crashes[n] = 0 => it.msg.key \subseteq StoredBits(n)

OutboxTrue ==
  \A n \in Node : \A t \in Threads : \A it \in ItemsOf(outbox[n][t]) : ItemTrue(n, it)

QueueTrue == \A n \in Node : \A it \in ItemsOf(queue[n]) : ItemTrue(n, it)

NetTrue ==
  \A d \in net :
    d.msg.type = "CBF" /\ crashes[d.from] = 0 => d.msg.key \subseteq StoredBits(d.from)

SyncTrue ==
  \A n \in Node : \A k \in ST!Keys(sync[n]) :
    k \in Stored(n) /\ \A o \in ST!Members(sync[n].dests[k]) : AskedFor(o, k)

Truth == LocalTrue /\ SummariesTrue /\ OutboxTrue /\ QueueTrue /\ NetTrue /\ SyncTrue

TruthInv == ProvInv /\ Truth

\* What holds of every step but a crash: no stored key is lost.
StoredGrows ==
  /\ crashes' = crashes
  /\ \A m \in Node : Stored(m) \subseteq Stored(m)' /\ StoredBits(m) \subseteq StoredBits(m)'

\* A step that does not touch Redis.
LEMMA RedisUnchanged ==
  ASSUME UNCHANGED <<redis, crashes>>
  PROVE  StoredGrows /\ \A m \in Node : Stored(m)' = Stored(m)
  BY DEF StoredGrows, Stored, StoredBits

\* A step that stores a value.
LEMMA RedisStores ==
  ASSUME TypeOK, NEW n \in Node, NEW k \in Key, NEW v \in Value,
         redis' = [redis EXCEPT ![n][k] = v], UNCHANGED crashes
  PROVE  /\ StoredGrows
         /\ \A m \in Node : Stored(m)' = IF m = n THEN Stored(m) \cup {k} ELSE Stored(m)
<1>1. redis \in [Node -> [Key -> Value \cup {None}]] /\ v # None
  BY NetOSAssumption DEF TypeOK
<1>2. \A m \in Node : \A l \in Key :
        redis'[m][l] = IF m = n /\ l = k THEN v ELSE redis[m][l]
  BY <1>1
<1>3. \A m \in Node : Stored(m)' = IF m = n THEN Stored(m) \cup {k} ELSE Stored(m)
  BY <1>1, <1>2 DEF Stored
<1>4. \A m \in Node : Stored(m) \subseteq Stored(m)'
  BY <1>3
<1>5. \A m \in Node : StoredBits(m) \subseteq StoredBits(m)'
  BY <1>4 DEF StoredBits
<1> QED BY <1>3, <1>4, <1>5 DEF StoredGrows

\* What was true stays true when no stored key is lost.
LEMMA TruthCarries ==
  ASSUME Truth, StoredGrows
  PROVE  /\ UNCHANGED summaries => SummariesTrue'
         /\ \A n \in Node : \A it : ItemTrue(n, it) => ItemTrue(n, it)'
         /\ UNCHANGED outbox => OutboxTrue'
         /\ UNCHANGED queue => QueueTrue'
         /\ net' \subseteq net /\ net \subseteq [from : Node, to : Node, msg : Message] => NetTrue'
         /\ UNCHANGED sync => SyncTrue'
<1>0. /\ SummariesTrue /\ OutboxTrue /\ QueueTrue /\ NetTrue /\ SyncTrue
  BY DEF Truth
<1>1. \A n \in Node : \A it : ItemTrue(n, it) => ItemTrue(n, it)'
  BY DEF ItemTrue, StoredGrows
<1>2. UNCHANGED summaries => SummariesTrue'
  BY <1>0 DEF SummariesTrue, StoredGrows
<1>3. UNCHANGED outbox => OutboxTrue'
  BY <1>0, <1>1 DEF OutboxTrue
<1>4. UNCHANGED queue => QueueTrue'
  BY <1>0, <1>1 DEF QueueTrue
<1>5. ASSUME net' \subseteq net, net \subseteq [from : Node, to : Node, msg : Message]
      PROVE  NetTrue'
  <2>1. \A d \in net' : d \in net /\ d.from \in Node
    BY <1>5
  <2> QED BY <1>0, <2>1 DEF NetTrue, StoredGrows
<1>6. UNCHANGED sync => SyncTrue'
  BY <1>0 DEF SyncTrue, StoredGrows
<1> QED BY <1>1, <1>2, <1>3, <1>4, <1>5, <1>6

\* The local key set and filter of a node that learns of a key it stores.
LEMMA LocalRecorded ==
  ASSUME TypeOK, LocalTrue, NEW n \in Node, NEW k \in Key, RecordLocalKey(n, k),
         UNCHANGED crashes,
         \A m \in Node : Stored(m)' = IF m = n THEN Stored(m) \cup {k} ELSE Stored(m)
  PROVE  LocalTrue'
<1>1. localKeys \in [Node -> SUBSET Key] /\ localFilter \in [Node -> SUBSET Bit]
  BY DEF TypeOK
<1>2. /\ localKeys' = [localKeys EXCEPT ![n] = @ \cup {k}]
      /\ localFilter' = [localFilter EXCEPT ![n] = @ \cup ContentBits[k]]
  BY DEF RecordLocalKey, Add
<1>3. ASSUME NEW m \in Node
      PROVE  /\ localKeys'[m] \subseteq Stored(m)'
             /\ localFilter'[m] = UNION {ContentBits[l] : l \in localKeys'[m]}
             /\ crashes'[m] = 0 => localKeys'[m] = Stored(m)'
  <2>1. CASE m = n
    <3>1. localKeys'[m] = localKeys[n] \cup {k} /\ Stored(m)' = Stored(n) \cup {k}
      BY <1>1, <1>2, <2>1
    <3>2. localFilter'[m] = localFilter[n] \cup ContentBits[k]
      BY <1>1, <1>2, <2>1
    <3>3. localFilter[n] = UNION {ContentBits[l] : l \in localKeys[n]}
      BY DEF LocalTrue
    <3>4. localFilter'[m] = UNION {ContentBits[l] : l \in localKeys'[m]}
      BY <3>1, <3>2, <3>3
    <3> QED BY <2>1, <3>1, <3>4 DEF LocalTrue
  <2>2. CASE m # n
    <3>1. localKeys'[m] = localKeys[m] /\ Stored(m)' = Stored(m) /\ localFilter'[m] = localFilter[m]
      BY <1>1, <1>2, <2>2
    <3> QED BY <3>1 DEF LocalTrue
  <2> QED BY <2>1, <2>2
<1> QED BY <1>3 DEF LocalTrue

\* Nothing local changes.
LEMMA LocalUnchanged ==
  ASSUME LocalTrue, UNCHANGED <<stores, crashes>>
  PROVE  LocalTrue'
  BY DEF LocalTrue, stores, Stored

\* u has no key and no destination that t has not, but d under k.
RecordAddedOnly(t, k, d, u) ==
  /\ STL!Keys(u) \subseteq STL!Keys(t) \cup {k}
  /\ \A j \in STL!Keys(u) : \A o \in STL!Members(u.dests[j]) :
       (j \in STL!Keys(t) /\ o \in STL!Members(t.dests[j])) \/ (j = k /\ o = d)

\* So it is for record_destination.
LEMMA RecordAdds ==
  ASSUME NEW t, NEW k \in Key, NEW d \in Node, STL!Consistent(t)
  PROVE  RecordAddedOnly(t, k, d, STL!RecordDestination(t, k, d))
<1>1. SyncCapacity \in Nat \ {0}
  BY NetOSAssumption
<1> QED BY <1>1, STL!RecordAddsOnly, Zenon DEF RecordAddedOnly

\* A transmission of a true item.
LEMMA TransmitTrue ==
  ASSUME TruthInv, StoredGrows, NEW n \in Node, NEW it \in Item, ItemOK(n, it),
         ItemTrue(n, it), Transmit(n, it)
  PROVE  NetTrue' /\ SyncTrue'
<1>0. TypeOK /\ TypeInv /\ Truth /\ NetTrue /\ SyncTrue
  BY DEF TruthInv, ProvInv, TypeInv, Truth
<1>1. it.msg \in Message
  BY ItemFields
<1>2. ItemTrue(n, it)'
  BY <1>0, TruthCarries
<1>3. \A d \in net' \ net : \E to \in Node : d = Datagram(n, to, it.msg)
  BY <1>0, TransmitShape
<1>4. \A d \in net' \ net :
        d.msg.type = "CBF" /\ crashes'[d.from] = 0 => d.msg.key \subseteq StoredBits(d.from)'
  <2>1. OnWire(it.msg).type = it.msg.type /\ OnWire(it.msg).key = it.msg.key
    BY <1>1, OnWireTyped
  <2>2. it.msg.type = "CBF" /\ crashes'[n] = 0 => it.msg.key \subseteq StoredBits(n)'
    BY <1>2 DEF ItemTrue
  <2> QED BY <1>3, <2>1, <2>2 DEF Datagram
<1>5. \A d \in net :
        d.msg.type = "CBF" /\ crashes'[d.from] = 0 => d.msg.key \subseteq StoredBits(d.from)'
  <2>1. \A d \in net : d.from \in Node
    BY <1>0 DEF TypeOK
  <2> QED BY <1>0, <2>1 DEF NetTrue, StoredGrows
<1>6. NetTrue'
  BY <1>4, <1>5 DEF NetTrue
<1>7. SyncTrue'
  <2>1. \/ sync' = sync
        \/ /\ it.kind = "direct" /\ it.msg.type = "DATA"
           /\ sync' = [sync EXCEPT ![n] =
                         ST!RecordDestination(@, it.msg.key, it.msg.origin)]
    BY <1>0, TransmitShape
  <2>2. CASE sync' = sync
    BY <1>0, <2>2, TruthCarries
  <2>3. CASE /\ it.kind = "direct" /\ it.msg.type = "DATA"
             /\ sync' = [sync EXCEPT ![n] =
                           ST!RecordDestination(@, it.msg.key, it.msg.origin)]
    <3> DEFINE k == it.msg.key
               u == ST!RecordDestination(sync[n], it.msg.key, it.msg.origin)
    <3>1. k \in Key /\ it.msg.origin \in Node
      BY <1>1, <2>3, MessageFields
    <3>2. STL!Consistent(sync[n]) /\ sync = [m \in Node |-> sync[m]]
      BY <1>0 DEF TypeInv, TypeOK, SyncConsistent
    <3>3. /\ STL!Keys(u) \subseteq STL!Keys(sync[n]) \cup {k}
          /\ \A j \in STL!Keys(u) : \A o \in STL!Members(u.dests[j]) :
               \/ j \in STL!Keys(sync[n]) /\ o \in STL!Members(sync[n].dests[j])
               \/ j = k /\ o = it.msg.origin
      <4>1. u = STL!RecordDestination(sync[n], it.msg.key, it.msg.origin)
        BY SameOperators
      <4>2. RecordAddedOnly(sync[n], k, it.msg.origin, u)
        BY <3>1, <3>2, <4>1, RecordAdds
      <4> HIDE DEF k, u
      <4> QED BY <4>2 DEF RecordAddedOnly
    <3>4. /\ ST!Keys(u) \subseteq ST!Keys(sync[n]) \cup {k}
          /\ \A j \in ST!Keys(u) : \A o \in ST!Members(u.dests[j]) :
               \/ j \in ST!Keys(sync[n]) /\ o \in ST!Members(sync[n].dests[j])
               \/ j = k /\ o = it.msg.origin
      BY <3>3, SameOperators
    <3>5. k \in Stored(n)' /\ AskedFor(it.msg.origin, k)
      BY <1>2, <2>3 DEF ItemTrue, ItemOK, Grounded
    <3>6. sync'[n] = u /\ \A m \in Node \ {n} : sync'[m] = sync[m]
      BY <2>3, <3>2
    <3>7. \A m \in Node : \A j \in ST!Keys(sync[m]) :
            j \in Stored(m)' /\ \A o \in ST!Members(sync[m].dests[j]) : AskedFor(o, j)
      BY <1>0 DEF SyncTrue, StoredGrows
    <3> HIDE DEF k, u
    <3>8. \A j \in ST!Keys(u) : j \in Stored(n)' /\ \A o \in ST!Members(u.dests[j]) : AskedFor(o, j)
      BY <3>4, <3>5, <3>7
    <3> QED BY <3>6, <3>7, <3>8 DEF SyncTrue
  <2> QED BY <2>1, <2>2, <2>3
<1> QED BY <1>6, <1>7

\* A send of a true item.
LEMMA SendTrue ==
  ASSUME TruthInv, StoredGrows, NEW n \in Node, NEW it \in Item, ItemOK(n, it),
         ItemTrue(n, it), Send(n, it)
  PROVE  NetTrue' /\ SyncTrue' /\ QueueTrue'
<1>0. TypeOK /\ Truth /\ QueueTrue
  BY DEF TruthInv, ProvInv, TypeInv, Truth
<1>00. queue \in [Node -> Seq(Item)] /\ net \subseteq [from : Node, to : Node, msg : Message]
  BY <1>0 DEF TypeOK
<1>1. NetTrue' /\ SyncTrue'
  <2>1. CASE Transmit(n, it)
    BY <2>1, TransmitTrue
  <2>2. CASE UNCHANGED <<net, sync>>
    BY <1>0, <1>00, <2>2, TruthCarries
  <2> QED BY <2>1, <2>2 DEF Send
<1>2. QueueTrue'
  <2>1. queue' = queue \/ queue' = [queue EXCEPT ![n] = Append(@, it)]
    BY <1>0, SendShape
  <2>2. ItemsOf(Append(queue[n], it)) = ItemsOf(queue[n]) \cup {it}
    BY <1>00, AppendItems
  <2>3. \A m \in Node : \A x \in ItemsOf(queue[m]) : ItemTrue(m, x)'
    BY <1>0, TruthCarries DEF QueueTrue
  <2>4. ItemTrue(n, it)'
    BY <1>0, TruthCarries
  <2> QED BY <1>00, <2>1, <2>2, <2>3, <2>4 DEF QueueTrue
<1> QED BY <1>1, <1>2

\* Initially nobody claims anything.
LEMMA TruthInit == Init => TruthInv
<1> SUFFICES ASSUME Init PROVE TruthInv
  OBVIOUS
<1>1. ProvInv BY ProvInit
<1>2. LocalTrue /\ SummariesTrue
  BY DEF Init, LocalTrue, SummariesTrue, Stored
<1>3. OutboxTrue /\ QueueTrue /\ NetTrue
  BY SmallItems DEF Init, OutboxTrue, QueueTrue, NetTrue
<1>4. SyncTrue
  <2>1. ST!Keys(ST!EmptyTable) = {}
    BY DEF ST!Keys, ST!EmptyTable
  <2> QED BY <2>1 DEF Init, SyncTrue
<1> QED BY <1>1, <1>2, <1>3, <1>4 DEF TruthInv, Truth

\* The sends of a node.
LEMMA TruthSends ==
  ASSUME TruthInv, NEW n \in Node,
         \/ \E t \in Threads : Submit(n, t)
         \/ WorkerSend(n) \/ Exchange(n) \/ Reload(n)
  PROVE  Truth'
<1>0. /\ ProvInv /\ TypeOK /\ Truth /\ LocalTrue /\ OutboxTrue /\ QueueTrue /\ NetTrue
      /\ OutboxSound /\ QueueSound
  BY DEF TruthInv, ProvInv, TypeInv, Truth, Provenance
<1>1. UNCHANGED <<stores, tables, crashes>>
  BY DEF Submit, WorkerSend, Exchange, Reload
<1>2. StoredGrows /\ LocalTrue' /\ SummariesTrue'
  BY <1>0, <1>1, RedisUnchanged, LocalUnchanged, TruthCarries DEF stores, tables
<1>3. ASSUME NEW t \in Threads, Submit(n, t) PROVE Truth'
  <2>1. outbox[n][t] \in Seq(Item) /\ outbox[n][t] # <<>>
    BY <1>0, <1>3 DEF TypeOK, Submit
  <2>2. Head(outbox[n][t]) \in Item
    BY <2>1
  <2>3. /\ Head(outbox[n][t]) \in ItemsOf(outbox[n][t])
        /\ ItemsOf(Tail(outbox[n][t])) \subseteq ItemsOf(outbox[n][t])
    BY <2>1, HeadTail
  <2>4. /\ Send(n, Head(outbox[n][t])) /\ ItemOK(n, Head(outbox[n][t]))
        /\ ItemTrue(n, Head(outbox[n][t]))
    BY <1>0, <1>3, <2>3 DEF Submit, OutboxSound, OutboxTrue
  <2>5. NetTrue' /\ SyncTrue' /\ QueueTrue'
    BY <1>2, <2>2, <2>4, SendTrue
  <2>6. OutboxTrue'
    <3>1. outbox \in [Node -> [Threads -> Seq(Item)]]
      BY <1>0 DEF TypeOK
    <3>2. outbox' = [outbox EXCEPT ![n][t] = Tail(@)]
      BY <1>3 DEF Submit
    <3>3. \A m \in Node : \A l \in Threads : ItemsOf(outbox'[m][l]) \subseteq ItemsOf(outbox[m][l])
      BY <2>3, <3>1, <3>2
    <3> QED BY <1>0, <1>2, <3>3, TruthCarries DEF OutboxTrue
  <2> QED BY <1>2, <2>5, <2>6 DEF Truth
<1>4. CASE WorkerSend(n)
  <2>1. queue[n] \in Seq(Item) /\ queue[n] # <<>>
    BY <1>0, <1>4 DEF TypeOK, WorkerSend
  <2>2. Head(queue[n]) \in Item
    BY <2>1
  <2>3. /\ Head(queue[n]) \in ItemsOf(queue[n])
        /\ ItemsOf(Tail(queue[n])) \subseteq ItemsOf(queue[n])
    BY <2>1, HeadTail
  <2>4. /\ Transmit(n, Head(queue[n])) /\ ItemOK(n, Head(queue[n]))
        /\ ItemTrue(n, Head(queue[n]))
    BY <1>0, <1>4, <2>3 DEF WorkerSend, QueueSound, QueueTrue
  <2>5. NetTrue' /\ SyncTrue'
    BY <1>2, <2>2, <2>4, TransmitTrue
  <2>6. QueueTrue'
    <3>1. queue \in [Node -> Seq(Item)]
      BY <1>0 DEF TypeOK
    <3>2. queue' = [queue EXCEPT ![n] = Tail(@)]
      BY <1>4 DEF WorkerSend
    <3>3. \A m \in Node : ItemsOf(queue'[m]) \subseteq ItemsOf(queue[m])
      BY <2>3, <3>1, <3>2
    <3> QED BY <1>0, <1>2, <3>3, TruthCarries DEF QueueTrue
  <2>7. OutboxTrue'
    BY <1>0, <1>2, <1>4, TruthCarries DEF WorkerSend
  <2> QED BY <1>2, <2>5, <2>6, <2>7 DEF Truth
<1>5. CASE Exchange(n)
  <2> DEFINE it == BroadcastItem(ContentBloom(n, localFilter[n]), None)
  <2>1. it \in Item
    BY <1>0, ContentBloomTyped, ItemsTyped DEF TypeOK
  <2>2. ItemOK(n, it)
    BY DEF ItemOK, Grounded, InReach, BroadcastItem, ContentBloom
  <2>3. ItemTrue(n, it)
    <3>1. localFilter[n] \subseteq StoredBits(n)
      BY <1>0 DEF LocalTrue, StoredBits
    <3> QED BY <3>1 DEF ItemTrue, BroadcastItem, ContentBloom
  <2>4. Send(n, it)
    BY <1>5 DEF Exchange
  <2>5. NetTrue' /\ SyncTrue' /\ QueueTrue'
    BY <1>2, <2>1, <2>2, <2>3, <2>4, SendTrue
  <2>6. OutboxTrue'
    BY <1>0, <1>2, <1>5, TruthCarries DEF Exchange
  <2> QED BY <1>2, <2>5, <2>6 DEF Truth
<1>6. CASE Reload(n)
  <2>1. UNCHANGED <<outbox, queue, net, sync>>
    BY <1>6 DEF Reload
  <2>2. net \subseteq [from : Node, to : Node, msg : Message]
    BY <1>0 DEF TypeOK
  <2>3. OutboxTrue' /\ QueueTrue' /\ NetTrue' /\ SyncTrue'
    BY <1>0, <1>2, <2>1, <2>2, TruthCarries
  <2> QED BY <1>2, <2>3 DEF Truth
<1> QED BY <1>3, <1>4, <1>5, <1>6

\* Replies of the transport thread.
LEMMA ReplyTrue ==
  ASSUME TypeOK, Truth, StoredGrows, NEW n \in Node, NEW items, Reply(n, items),
         \A it \in ItemsOf(items) : ItemTrue(n, it)
  PROVE  OutboxTrue'
<1>1. outbox \in [Node -> [Threads -> Seq(Item)]]
  BY DEF TypeOK
<1>2. outbox' = [outbox EXCEPT ![n]["transport"] = items]
  BY DEF Reply
<1>3. \A m \in Node : \A t \in Threads : \A it \in ItemsOf(outbox[m][t]) : ItemTrue(m, it)'
  BY TruthCarries DEF Truth, OutboxTrue
<1>4. \A it \in ItemsOf(items) : ItemTrue(n, it)'
  BY TruthCarries
<1> QED BY <1>1, <1>2, <1>3, <1>4 DEF OutboxTrue, Threads

\* The handlers of the transport thread.
LEMMA TruthTransport ==
  ASSUME TruthInv, NEW n \in Node, Transport(n)
  PROVE  Truth'
<1>0. /\ ProvInv /\ TypeOK /\ Truth /\ LocalTrue /\ SummariesTrue /\ NetTrue
  BY DEF TruthInv, ProvInv, TypeInv, Truth
<1>1. PICK d \in Incoming(n) :
        \/ Reject(n, d)
        \/ DropDuplicate(n, d) \/ ServeRequest(n, d) \/ ForwardRequest(n, d)
        \/ DropNotOrigin(n, d) \/ StoreFailed(n, d) \/ StoreData(n, d)
        \/ HandleContentBloom(n, d)
        \/ DropLateQuery(n, d) \/ HandleQueryBloom(n, d)
  BY DEF Transport
<1>2. Receive(n, d)
  BY <1>1 DEF Reject, DropDuplicate, ServeRequest, ForwardRequest, DropNotOrigin,
    StoreFailed, StoreData, HandleContentBloom, DropLateQuery, HandleQueryBloom
<1>3. net' \subseteq net /\ UNCHANGED <<queue, sync, crashes>>
  BY <1>2, ReceiveShape DEF Receive
<1>30. net \subseteq [from : Node, to : Node, msg : Message]
  BY <1>0 DEF TypeOK
<1>4. ASSUME StoredGrows PROVE NetTrue' /\ QueueTrue' /\ SyncTrue'
  BY <1>0, <1>3, <1>30, <1>4, TruthCarries
<1>5. ASSUME StoredGrows, UNCHANGED summaries PROVE SummariesTrue'
  BY <1>0, <1>5, TruthCarries
<1>6. ASSUME StoredGrows, UNCHANGED outbox PROVE OutboxTrue'
  BY <1>0, <1>6, TruthCarries
<1>7. ASSUME UNCHANGED redis PROVE StoredGrows /\ \A m \in Node : Stored(m)' = Stored(m)
  BY <1>3, <1>7, RedisUnchanged
<1>8. CASE \/ Reject(n, d) \/ DropNotOrigin(n, d) \/ StoreFailed(n, d) \/ DropLateQuery(n, d)
           \/ DropDuplicate(n, d)
  <2>1. UNCHANGED <<stores, redis, summaries, outbox>>
    BY <1>8 DEF Reject, DropNotOrigin, StoreFailed, DropLateQuery, DropDuplicate,
      stores, tables
  <2>2. LocalTrue'
    BY <1>0, <1>3, <2>1, LocalUnchanged
  <2> QED BY <1>4, <1>5, <1>6, <1>7, <2>1, <2>2 DEF Truth
<1>9. CASE ServeRequest(n, d)
  <2>1. d.msg.type = "REQ" /\ ~RejectsMessage(d.msg)
    BY <1>9 DEF ServeRequest, IsRequest, RejectsMessage
  <2>2. d.msg.key \in Key
    BY <1>0, <2>1, IncomingIsReal, MessageFields
  <2>3. PICK v \in RedisGet(n, d.msg.key) \ {None} :
          Reply(n, <<DirectItem(d.from, Data(d.msg.id, d.msg.origin, d.msg.key, v))>>)
    BY <1>9 DEF ServeRequest
  <2>4. d.msg.key \in Stored(n)
    BY <2>2, <2>3 DEF RedisGet, Stored
  <2>5. ItemTrue(n, DirectItem(d.from, Data(d.msg.id, d.msg.origin, d.msg.key, v)))
    BY <2>4 DEF ItemTrue, DirectItem, Data
  <2>6. UNCHANGED <<redis, summaries>> /\ RecordLocalKey(n, d.msg.key)
    BY <1>9 DEF ServeRequest
  <2>7. OutboxTrue'
    BY <1>0, <1>7, <2>3, <2>5, <2>6, ReplyTrue, SmallItems
  <2>8. LocalTrue'
    <3>1. \A m \in Node : Stored(m)' = IF m = n THEN Stored(m) \cup {d.msg.key} ELSE Stored(m)
      BY <1>7, <2>4, <2>6
    <3> QED BY <1>0, <1>3, <2>2, <2>6, <3>1, LocalRecorded
  <2> QED BY <1>4, <1>5, <1>7, <2>6, <2>7, <2>8 DEF Truth
<1>10. CASE ForwardRequest(n, d)
  <2>1. d.msg.type = "REQ" /\ ~RejectsMessage(d.msg) /\ d.msg.ttl > 0
    BY <1>10 DEF ForwardRequest, IsRequest, RejectsMessage, RequestIsValid
  <2>2. d.msg \in Message
    BY <1>0, <2>1, IncomingIsReal
  <2>3. ItemTrue(n, BroadcastItem(Hop(d.msg), d.from))
    BY <2>1, <2>2, HopTyped DEF ItemTrue, BroadcastItem
  <2>4. Reply(n, <<BroadcastItem(Hop(d.msg), d.from)>>) /\ UNCHANGED <<stores, redis, summaries>>
    BY <1>10 DEF ForwardRequest, stores
  <2>5. OutboxTrue'
    BY <1>0, <1>7, <2>3, <2>4, ReplyTrue, SmallItems
  <2>6. LocalTrue'
    BY <1>0, <1>3, <2>4, LocalUnchanged
  <2> QED BY <1>4, <1>5, <1>7, <2>4, <2>5, <2>6 DEF Truth
<1>11. CASE StoreData(n, d)
  <2>1. d.msg.type = "DATA" /\ ~RejectsMessage(d.msg)
    BY <1>11 DEF StoreData, IsData, RejectsMessage
  <2>2. d.msg.key \in Key /\ d.msg.value \in Value
    BY <1>0, <2>1, IncomingIsReal, MessageFields
  <2>3. /\ redis' = [redis EXCEPT ![n][d.msg.key] = d.msg.value]
        /\ RecordLocalKey(n, d.msg.key) /\ UNCHANGED <<summaries, outbox>>
    BY <1>11 DEF StoreData, Store, tables
  <2>4. /\ StoredGrows
        /\ \A m \in Node : Stored(m)' = IF m = n THEN Stored(m) \cup {d.msg.key} ELSE Stored(m)
    BY <1>0, <1>3, <2>2, <2>3, RedisStores
  <2>5. LocalTrue'
    BY <1>0, <1>3, <2>2, <2>3, <2>4, LocalRecorded
  <2> QED BY <1>4, <1>5, <1>6, <2>3, <2>4, <2>5 DEF Truth
<1>12. CASE HandleContentBloom(n, d)
  <2>1. d.msg.type = "CBF" /\ ~RejectsMessage(d.msg)
    BY <1>12 DEF HandleContentBloom, RejectsMessage
  <2>2. d \in net /\ d.from \in Node
    BY <1>0, <2>1, IncomingIsReal
  <2>3. /\ summaries' = [summaries EXCEPT ![n][d.from] = d.msg.key]
        /\ UNCHANGED <<stores, redis, outbox>>
    BY <1>12 DEF HandleContentBloom, stores
  <2>4. crashes[d.from] = 0 => d.msg.key \subseteq StoredBits(d.from)
    BY <1>0, <2>1, <2>2 DEF NetTrue
  <2>5. SummariesTrue'
    <3>1. summaries \in [Node -> [Node -> {None} \cup SUBSET Bit]]
      BY <1>0 DEF TypeOK
    <3>2. \A m, l \in Node :
            summaries'[m][l] = IF m = n /\ l = d.from THEN d.msg.key ELSE summaries[m][l]
      BY <2>2, <2>3, <3>1
    <3>3. crashes' = crashes /\ \A m \in Node : StoredBits(m) \subseteq StoredBits(m)'
      BY <1>7, <2>3 DEF StoredGrows
    <3> QED BY <1>0, <2>4, <3>2, <3>3 DEF SummariesTrue
  <2>6. LocalTrue'
    BY <1>0, <1>3, <2>3, LocalUnchanged
  <2> QED BY <1>4, <1>6, <1>7, <2>3, <2>5, <2>6 DEF Truth
<1>13. CASE HandleQueryBloom(n, d)
  <2>1. d.msg.type = "QBF" /\ ~RejectsMessage(d.msg) /\ d.msg.ttl > 0
    BY <1>13 DEF HandleQueryBloom, IsQueryBloom, RejectsMessage, QueryBloomIsValid
  <2>2. d.from \in Node /\ d.msg \in Message
    BY <1>0, <2>1, IncomingIsReal
  <2>3. PICK S \in Answered(n, d.msg.key) : \E ks \in Orderings(S) :
          \/ Reply(n, QueryReplies(n, d, ks))
          \/ Reply(n, Append(QueryReplies(n, d, ks), BroadcastItem(Hop(d.msg), d.from)))
    BY <1>13 DEF HandleQueryBloom
  <2>4. PICK ks \in Orderings(S) :
          \/ Reply(n, QueryReplies(n, d, ks))
          \/ Reply(n, Append(QueryReplies(n, d, ks), BroadcastItem(Hop(d.msg), d.from)))
    BY <2>3
  <2>5. /\ S \subseteq Matches(n, d.msg.key) \cap Stored(n)
        /\ QueryReplies(n, d, ks) \in Seq(Item)
        /\ \A x \in ItemsOf(QueryReplies(n, d, ks)) : \E k \in S :
             x = DirectItem(d.from, Data(FreshId(n), d.msg.origin, k, redis[n][k]))
    BY <1>0, <2>1, <2>2, QueryRepliesTyped
  <2>6. \A k \in S : ItemTrue(n, DirectItem(d.from, Data(FreshId(n), d.msg.origin, k, redis[n][k])))
    BY <2>5 DEF ItemTrue, DirectItem, Data
  <2>7. \A x \in ItemsOf(QueryReplies(n, d, ks)) : ItemTrue(n, x)
    BY <2>5, <2>6
  <2>8. BroadcastItem(Hop(d.msg), d.from) \in Item
    BY <2>1, <2>2, HopTyped, ItemsTyped
  <2>9. ItemTrue(n, BroadcastItem(Hop(d.msg), d.from))
    BY <2>1, <2>2, HopTyped DEF ItemTrue, BroadcastItem
  <2>10. ItemsOf(Append(QueryReplies(n, d, ks), BroadcastItem(Hop(d.msg), d.from))) =
           ItemsOf(QueryReplies(n, d, ks)) \cup {BroadcastItem(Hop(d.msg), d.from)}
    BY <2>5, <2>8, AppendItems
  <2>11. UNCHANGED <<stores, redis, summaries>>
    BY <1>13 DEF HandleQueryBloom, stores
  <2>12. OutboxTrue'
    <3>0. StoredGrows
      BY <1>7, <2>11
    <3>1. CASE Reply(n, QueryReplies(n, d, ks))
      BY <1>0, <2>7, <3>0, <3>1, ReplyTrue
    <3>2. CASE Reply(n, Append(QueryReplies(n, d, ks), BroadcastItem(Hop(d.msg), d.from)))
      BY <1>0, <2>7, <2>9, <2>10, <3>0, <3>2, ReplyTrue
    <3> QED BY <2>4, <3>1, <3>2
  <2>13. LocalTrue'
    BY <1>0, <1>3, <2>11, LocalUnchanged
  <2> QED BY <1>4, <1>5, <1>7, <2>11, <2>12, <2>13 DEF Truth
<1> QED BY <1>1, <1>8, <1>9, <1>10, <1>11, <1>12, <1>13

\* The main, flush and fallback threads.
LEMMA TruthThreads ==
  ASSUME TruthInv, NEW n \in Node,
         StartQueue(n) \/ Seed(n) \/ Flush(n) \/ TakeDue(n) \/ AddDue(n)
  PROVE  Truth'
<1>0. TypeOK /\ Truth /\ LocalTrue /\ OutboxTrue
  BY DEF TruthInv, ProvInv, TypeInv, Truth
<1>1. UNCHANGED <<tables, links, crashes>>
  BY DEF StartQueue, Seed, Flush, TakeDue, AddDue
<1>2. net \subseteq [from : Node, to : Node, msg : Message]
  BY <1>0 DEF TypeOK
<1>3. ASSUME StoredGrows PROVE SummariesTrue' /\ QueueTrue' /\ NetTrue' /\ SyncTrue'
  BY <1>0, <1>1, <1>2, <1>3, TruthCarries DEF tables, links
<1>4. ASSUME UNCHANGED stores PROVE StoredGrows /\ LocalTrue'
  BY <1>0, <1>1, <1>4, RedisUnchanged, LocalUnchanged DEF stores
<1>5. CASE StartQueue(n) \/ TakeDue(n) \/ AddDue(n)
  <2>1. UNCHANGED <<stores, outbox>>
    BY <1>5 DEF StartQueue, TakeDue, AddDue
  <2>2. OutboxTrue'
    BY <1>0, <1>4, <2>1, TruthCarries
  <2> QED BY <1>3, <1>4, <2>1, <2>2 DEF Truth
<1>6. CASE Seed(n)
  <2> DEFINE k == SeedKeys[n][boot[n]].key
             v == SeedKeys[n][boot[n]].value
  <2>1. boot[n] \in 1..Len(SeedKeys[n]) /\ UNCHANGED outbox
    BY <1>6 DEF Seed
  <2>2. k \in Key /\ v \in Value
    BY <2>1, SeedTyped
  <2>3. UNCHANGED stores \/ (redis' = [redis EXCEPT ![n][k] = v] /\ RecordLocalKey(n, k))
    BY <1>6 DEF Seed, SeedFailed, Store
  <2> HIDE DEF k, v
  <2>4. CASE UNCHANGED stores
    BY <1>0, <1>3, <1>4, <2>1, <2>4, TruthCarries DEF Truth
  <2>5. CASE redis' = [redis EXCEPT ![n][k] = v] /\ RecordLocalKey(n, k)
    <3>1. /\ StoredGrows
          /\ \A m \in Node : Stored(m)' = IF m = n THEN Stored(m) \cup {k} ELSE Stored(m)
      BY <1>0, <1>1, <2>2, <2>5, RedisStores
    <3>2. LocalTrue'
      BY <1>0, <1>1, <2>2, <2>5, <3>1, LocalRecorded
    <3>3. OutboxTrue'
      BY <1>0, <2>1, <3>1, TruthCarries
    <3> QED BY <1>3, <3>1, <3>2, <3>3 DEF Truth
  <2> QED BY <2>3, <2>4, <2>5
<1>7. CASE Flush(n)
  <2>1. PICK due \in {FALSE, buffer[n].count > 0} :
          outbox' = [outbox EXCEPT ![n]["flush"] =
               [i \in 1..Len(Batches(n, due)) |->
                  BroadcastItem(QueryBloom(n, Batches(n, due)[i]), None)]]
    BY <1>7 DEF Flush
  <2>2. due \in BOOLEAN
    <3>1. (buffer[n].count > 0) \in BOOLEAN
      OBVIOUS
    <3> QED BY <2>1, <3>1
  <2>3. UNCHANGED stores
    BY <1>7 DEF Flush
  <2>4. OutboxTrue'
    <3> DEFINE items == [i \in 1..Len(Batches(n, due)) |->
                           BroadcastItem(QueryBloom(n, Batches(n, due)[i]), None)]
    <3>0. Len(Batches(n, due)) \in Nat
      BY <1>0, <2>2, BatchesTyped
    <3>1. outbox' = [outbox EXCEPT ![n]["flush"] = items]
      BY <2>1
    <3>2. \A f : (ItemTrue(n, BroadcastItem(QueryBloom(n, f), None)))'
      BY DEF ItemTrue, BroadcastItem, QueryBloom
    <3>3. \A it \in ItemsOf(items) : \E f : it = BroadcastItem(QueryBloom(n, f), None)
      BY <3>0 DEF ItemsOf
    <3>4. outbox \in [Node -> [Threads -> Seq(Item)]]
      BY <1>0 DEF TypeOK
    <3>5. \A m \in Node : \A t \in Threads : \A it \in ItemsOf(outbox[m][t]) : ItemTrue(m, it)'
      BY <1>0, <1>4, <2>3, TruthCarries DEF OutboxTrue
    <3> HIDE DEF items
    <3>6. \A it \in ItemsOf(items) : ItemTrue(n, it)'
      BY <3>2, <3>3
    <3> QED BY <3>1, <3>4, <3>5, <3>6 DEF OutboxTrue, Threads
  <2> QED BY <1>3, <1>4, <2>3, <2>4 DEF Truth
<1> QED BY <1>5, <1>6, <1>7

\* The scheduler.
LEMMA TruthScheduler ==
  ASSUME TruthInv, NEW n \in Node, Scheduler(n)
  PROVE  Truth'
<1>0. TypeOK /\ Truth /\ LocalTrue /\ SummariesTrue /\ ProvInv /\ LinksKnown
  BY DEF TruthInv, ProvInv, TypeInv, Truth, Provenance
<1>1. sched[n].next <= Len(RequestKeys[n])
  BY DEF Scheduler, ScheduleLocal, ScheduleMiss, ScheduleDirect, ScheduleFallback,
    ScheduleAggregate, SchedAt
<1>2. CurrentKey(n) \in Key /\ CurrentKey(n) \in Requested(n) /\ RequestNumber(n) \in Nat
  BY <1>0, <1>1, CurrentTyped
<1>3. UNCHANGED <<redis, outbox, crashes>>
  BY DEF Scheduler, ScheduleLocal, ScheduleMiss, ScheduleDirect, ScheduleFallback,
    ScheduleAggregate, stores
<1>4. StoredGrows /\ \A m \in Node : Stored(m)' = Stored(m)
  BY <1>3, RedisUnchanged
<1>5. OutboxTrue'
  BY <1>0, <1>3, <1>4, TruthCarries
<1>6. ASSUME UNCHANGED links PROVE QueueTrue' /\ NetTrue' /\ SyncTrue'
  <2>1. net \subseteq [from : Node, to : Node, msg : Message]
    BY <1>0 DEF TypeOK
  <2> QED BY <1>0, <1>4, <1>6, <2>1, TruthCarries DEF links
<1>7. ASSUME UNCHANGED stores PROVE LocalTrue'
  BY <1>0, <1>3, <1>7, LocalUnchanged
<1>8. ASSUME UNCHANGED summaries PROVE SummariesTrue'
  BY <1>0, <1>4, <1>8, TruthCarries
<1>9. ASSUME NEW s \in KeptSummaries(n), summaries' = [summaries EXCEPT ![n] = s]
      PROVE  SummariesTrue'
  <2>1. \A m \in Node : s[m] \in {None, summaries[n][m]}
    BY <1>0, KeptTyped
  <2>2. summaries \in [Node -> [Node -> {None} \cup SUBSET Bit]]
    BY <1>0 DEF TypeOK
  <2>3. \A l, m \in Node : summaries'[l][m] \in {None, summaries[l][m]}
    BY <1>9, <2>1, <2>2
  <2> QED BY <1>0, <1>4, <2>3 DEF SummariesTrue, StoredGrows
<1>10. CASE ScheduleLocal(n)
  <2>1. RecordLocalKey(n, CurrentKey(n)) /\ UNCHANGED <<summaries, links>>
    BY <1>10 DEF ScheduleLocal, tables
  <2>2. CurrentKey(n) \in Stored(n)
    <3>1. RedisGet(n, CurrentKey(n)) \ {None} # {}
      BY <1>10 DEF ScheduleLocal
    <3> QED BY <1>2, <3>1 DEF RedisGet, Stored
  <2>3. \A m \in Node : Stored(m)' = IF m = n THEN Stored(m) \cup {CurrentKey(n)} ELSE Stored(m)
    BY <1>4, <2>2
  <2>4. LocalTrue'
    BY <1>0, <1>2, <1>3, <2>1, <2>3, LocalRecorded
  <2> QED BY <1>5, <1>6, <1>8, <2>1, <2>4 DEF Truth
<1>11. CASE ScheduleMiss(n) \/ ScheduleFallback(n)
  <2>1. UNCHANGED <<stores, summaries, links>>
    BY <1>11 DEF ScheduleMiss, ScheduleFallback, tables
  <2> QED BY <1>5, <1>6, <1>7, <1>8, <2>1 DEF Truth
<1>12. CASE ScheduleDirect(n)
  <2>1. PICK s \in KeptSummaries(n) :
          /\ summaries' = [summaries EXCEPT ![n] = s]
          /\ \E m \in Candidates(s, CurrentKey(n)) :
               Send(n, DirectItem(m, Request(n, RequestNumber(n), CurrentKey(n))))
    BY <1>12 DEF ScheduleDirect
  <2>2. PICK m \in Candidates(s, CurrentKey(n)) :
          Send(n, DirectItem(m, Request(n, RequestNumber(n), CurrentKey(n))))
    BY <2>1
  <2>3. m \in Node /\ m \in Adjacent(n)
    <3>1. \A l \in Node : s[l] \in {None, summaries[n][l]}
      BY <1>0, KeptTyped
    <3> QED BY <1>0, <2>2, <3>1 DEF Candidates, LinksKnown
  <2>4. DirectItem(m, Request(n, RequestNumber(n), CurrentKey(n))) \in Item
    BY <1>2, <2>3, RequestTyped, ItemsTyped
  <2>5. ItemOK(n, DirectItem(m, Request(n, RequestNumber(n), CurrentKey(n))))
    <3>1. Distance[n][n] = 0 /\ RequestTtl \in Nat
      BY NetOSAssumption
    <3> QED BY <1>2, <2>3, <3>1 DEF ItemOK, Grounded, InReach, DirectItem, Request
  <2>6. ItemTrue(n, DirectItem(m, Request(n, RequestNumber(n), CurrentKey(n))))
    BY DEF ItemTrue, DirectItem, Request
  <2>7. NetTrue' /\ SyncTrue' /\ QueueTrue'
    BY <1>4, <2>2, <2>4, <2>5, <2>6, SendTrue
  <2>8. UNCHANGED stores
    BY <1>12 DEF ScheduleDirect
  <2> QED BY <1>5, <1>7, <1>9, <2>1, <2>7, <2>8 DEF Truth
<1>13. CASE ScheduleAggregate(n)
  <2>1. UNCHANGED <<stores, links>>
    BY <1>13 DEF ScheduleAggregate
  <2>2. SummariesTrue'
    BY <1>9, <1>13 DEF ScheduleAggregate
  <2> QED BY <1>5, <1>6, <1>7, <2>1, <2>2 DEF Truth
<1> QED BY <1>10, <1>11, <1>12, <1>13 DEF Scheduler

\* A crash: the node forgets its claims with its keys, and what others
\* believe of it is no longer promised.
LEMMA TruthCrash ==
  ASSUME TruthInv, NEW n \in Node, Crash(n)
  PROVE  Truth'
<1>0. /\ TypeOK /\ LocalTrue /\ SummariesTrue /\ OutboxTrue /\ QueueTrue /\ NetTrue /\ SyncTrue
  BY DEF TruthInv, ProvInv, TypeInv, Truth
<1>1. /\ crashes' = [crashes EXCEPT ![n] = @ + 1] /\ crashes \in [Node -> Nat]
      /\ redis \in [Node -> [Key -> Value \cup {None}]]
  BY <1>0 DEF Crash, TypeOK
<1>2. crashes'[n] # 0 /\ \A m \in Node \ {n} : crashes'[m] = crashes[m]
  BY <1>1
<1>3. \A m \in Node \ {n} : redis'[m] = redis[m]
  BY <1>1 DEF Crash
<1>4. \A m \in Node \ {n} : Stored(m)' = Stored(m) /\ StoredBits(m)' = StoredBits(m)
  BY <1>3 DEF Stored, StoredBits
<1>5. LocalTrue'
  <2>1. /\ localKeys' = [localKeys EXCEPT ![n] = {}] /\ localKeys \in [Node -> SUBSET Key]
        /\ localFilter' = [localFilter EXCEPT ![n] = {}] /\ localFilter \in [Node -> SUBSET Bit]
    BY <1>0 DEF Crash, TypeOK
  <2>2. localKeys'[n] = {} /\ localFilter'[n] = {}
    BY <2>1
  <2>3. \A m \in Node \ {n} : localKeys'[m] = localKeys[m] /\ localFilter'[m] = localFilter[m]
    BY <2>1
  <2> QED BY <1>0, <1>2, <1>4, <2>2, <2>3 DEF LocalTrue
<1>6. SummariesTrue'
  <2>1. /\ summaries' = [summaries EXCEPT ![n] = [m \in Node |-> None]]
        /\ summaries \in [Node -> [Node -> {None} \cup SUBSET Bit]]
    BY <1>0 DEF Crash, TypeOK
  <2>2. \A l, m \in Node : summaries'[l][m] \in {None, summaries[l][m]}
    BY <2>1
  <2> QED BY <1>0, <1>2, <1>4, <2>2 DEF SummariesTrue
<1>7. \A m \in Node \ {n} : \A it : ItemTrue(m, it) => ItemTrue(m, it)'
  BY <1>2, <1>4 DEF ItemTrue
<1>8. OutboxTrue'
  <2>1. /\ outbox' = [outbox EXCEPT ![n] = [t \in Threads |-> <<>>]]
        /\ outbox \in [Node -> [Threads -> Seq(Item)]]
    BY <1>0 DEF Crash, TypeOK
  <2> QED BY <1>0, <1>7, <2>1, SmallItems DEF OutboxTrue
<1>9. QueueTrue'
  <2>1. queue' = [queue EXCEPT ![n] = <<>>] /\ queue \in [Node -> Seq(Item)]
    BY <1>0 DEF Crash, TypeOK
  <2> QED BY <1>0, <1>7, <2>1, SmallItems DEF QueueTrue
<1>10. NetTrue'
  <2>1. net' = net /\ \A d \in net : d.from \in Node
    BY <1>0 DEF Crash, TypeOK
  <2> QED BY <1>0, <1>2, <1>4, <2>1 DEF NetTrue
<1>11. SyncTrue'
  <2>1. sync' = [sync EXCEPT ![n] = ST!EmptyTable] /\ sync = [m \in Node |-> sync[m]]
    BY <1>0 DEF Crash, TypeOK
  <2>2. ST!Keys(ST!EmptyTable) = {}
    BY DEF ST!Keys, ST!EmptyTable
  <2>3. sync'[n] = ST!EmptyTable /\ \A m \in Node \ {n} : sync'[m] = sync[m]
    BY <2>1
  <2> QED BY <1>0, <1>4, <2>2, <2>3 DEF SyncTrue
<1> QED BY <1>5, <1>6, <1>8, <1>9, <1>10, <1>11 DEF Truth

\* Every step keeps the truth.
LEMMA TruthStep ==
  ASSUME TruthInv, [Next]_vars
  PROVE  TruthInv'
<1>1. ProvInv'
  BY ProvStep DEF TruthInv
<1>2. CASE UNCHANGED vars
  <2>1. UNCHANGED <<stores, redis, crashes, summaries, outbox, queue, net, sync>>
    BY <1>2 DEF vars, stores, tables, links
  <2>2. net \subseteq [from : Node, to : Node, msg : Message] /\ Truth /\ LocalTrue
    BY DEF TruthInv, ProvInv, TypeInv, TypeOK, Truth
  <2>3. Truth'
    BY <2>1, <2>2, RedisUnchanged, LocalUnchanged, TruthCarries DEF Truth
  <2> QED BY <1>1, <2>3 DEF TruthInv
<1>3. ASSUME NEW n \in Node, Step(n) PROVE TruthInv'
  <2>1. Truth'
    BY <1>3, TruthSends, TruthTransport, TruthThreads, TruthScheduler, TruthCrash DEF Step
  <2> QED BY <1>1, <2>1 DEF TruthInv
<1> QED BY <1>2, <1>3 DEF Next

\* The invariant of this section.
LEMMA TruthAlways == Spec => []TruthInv
  BY TruthInit, TruthStep, PTL DEF Spec

(***************************************************************************)
(* A summary never advertises more than its sender stores, however late or *)
(* often it is delivered, until the sender crashes; and the local key set  *)
(* names only stored keys, and all of them when the node has never         *)
(* crashed.                                                                *)
(***************************************************************************)
THEOREM NetOSSummariesTruthful == Spec => []SummariesTruthful
<1>1. TruthInv => SummariesTruthful
  BY DEF TruthInv, Truth, LocalTrue, SummariesTrue, StoredBits, SummariesTruthful
<1> QED BY <1>1, TruthAlways, PTL

(***************************************************************************)
(* The SyncTable lists an origin under a key only if the node stores the   *)
(* key and the origin asked for it, and it stays well formed and within    *)
(* its capacity, although worker threads record destinations after the     *)
(* sends.                                                                  *)
(***************************************************************************)
THEOREM NetOSSyncTableTruthful == Spec => []SyncTableTruthful
<1>1. TruthInv => SyncTableTruthful
  <2> SUFFICES ASSUME TruthInv PROVE SyncTableTruthful
    OBVIOUS
  <2>1. \A n \in Node : ST!WellFormed(sync[n])
    BY SameOperators DEF TruthInv, ProvInv, TypeInv, SyncConsistent, STL!Consistent
  <2>2. SyncTrue
    BY DEF TruthInv, Truth
  <2> QED BY <2>1, <2>2 DEF SyncTrue, SyncTableTruthful
<1> QED BY <1>1, TruthAlways, PTL

-----------------------------------------------------------------------------
(* No request is forgotten on its way from thread to thread.               *)

\* The key is in a filter that is being built.
Collected(n, k) ==
  \/ QueryBits[k] \subseteq buffer[n].filter
  \/ \E f \in ItemsOf(pending[n]) : QueryBits[k] \subseteq f

GivenUp(n, k) == \E f \in discarded[n] : QueryBits[k] \subseteq f

Remembered(n, k) ==
  \/ k \in Stored(n) \/ k \in fallback[n] \/ k \in taken[n]
  \/ Collected(n, k)
  \/ \E f \in flushed[n] : QueryBits[k] \subseteq f
  \/ GivenUp(n, k)

RequestsRemembered ==
  \A n \in Node : \A i \in 1..(sched[n].next - 1) : Remembered(n, RequestKeys[n][i])

\* What NotForgotten says.
LEMMA MemoryMeans ==
  /\ NotForgotten <=> RequestsRemembered
  /\ NotForgotten' <=> RequestsRemembered'
<1>1. \A n \in Node : \A k :
        Remembered(n, k) <=> (k \in Stored(n) \/ InAggregation(n, k) \/ WasDiscarded(n, k))
  BY DEF Remembered, Collected, GivenUp, InAggregation, WasDiscarded, MaybeContains, ItemsOf
<1>2. \A n \in Node : \A k :
        Remembered(n, k)' <=> (k \in Stored(n) \/ InAggregation(n, k) \/ WasDiscarded(n, k))'
  BY DEF Remembered, Collected, GivenUp, InAggregation, WasDiscarded, MaybeContains, ItemsOf
<1> QED BY <1>1, <1>2 DEF NotForgotten, RequestsRemembered

\* A step that only stores keys.
LEMMA RememberedKept ==
  ASSUME StoredGrows, UNCHANGED asking
  PROVE  \A m \in Node : \A k : Remembered(m, k) => Remembered(m, k)'
  BY DEF Remembered, Collected, GivenUp, StoredGrows, asking

\* add_key collects the key, and loses another only with a buffer it gives up.
LEMMA AddKeyCollects ==
  ASSUME TypeOK, NEW n \in Node, NEW k \in Key, AddKey(n, k)
  PROVE  /\ Collected(n, k)'
         /\ \A m \in Node : \A j : Collected(m, j) => Collected(m, j)' \/ GivenUp(m, j)'
         /\ \A m \in Node : \A j : GivenUp(m, j) => GivenUp(m, j)'
<1>0. /\ buffer \in [Node -> [filter : SUBSET Bit, count : Nat]]
      /\ pending \in [Node -> Seq(SUBSET Bit)]
      /\ discarded \in [Node -> SUBSET SUBSET Bit]
  BY DEF TypeOK
<1>1. PICK b \in {buffer[n], EmptyBuffer} :
           /\ discarded' = [discarded EXCEPT ![n] = @ \cup Lost(n, b)]
           /\ WithKey(b, k).filter = b.filter \cup QueryBits[k]
           /\ WithKey(b, k) \in [filter : SUBSET Bit, count : Nat]
           /\ \/ /\ pending' = [pending EXCEPT ![n] = Append(@, WithKey(b, k).filter)]
                 /\ buffer' = [buffer EXCEPT ![n] = EmptyBuffer]
              \/ /\ buffer' = [buffer EXCEPT ![n] = WithKey(b, k)]
                 /\ pending' = pending
  BY AddKeyShape
<1>2. PICK f \in SUBSET Bit :
        f = WithKey(b, k).filter /\ f = b.filter \cup QueryBits[k]
  BY <1>1
<1>D. /\ \A m \in Node : \A j : GivenUp(m, j) => GivenUp(m, j)'
      /\ \/ buffer[n].filter = b.filter
         \/ \A j : QueryBits[j] \subseteq buffer[n].filter => GivenUp(n, j)'
  <2>1. /\ \A m \in Node : discarded[m] \subseteq discarded'[m]
        /\ Lost(n, b) \subseteq discarded'[n]
    BY <1>0, <1>1
  <2>2. buffer[n].filter = b.filter \/ buffer[n].filter \in Lost(n, b)
    BY DEF Lost
  <2> QED BY <2>1, <2>2 DEF GivenUp
<1>3. CASE /\ pending' = [pending EXCEPT ![n] = Append(@, f)]
           /\ buffer' = [buffer EXCEPT ![n] = EmptyBuffer]
  <2>0. pending[n] \in Seq(SUBSET Bit)
    BY <1>0
  <2>1. ItemsOf(Append(pending[n], f)) = ItemsOf(pending[n]) \cup {f}
    BY <2>0, AppendItems
  <2>2. ItemsOf(pending'[n]) = ItemsOf(pending[n]) \cup {f}
    BY <1>0, <1>3, <2>1
  <2>3. \A m \in Node \ {n} : pending'[m] = pending[m] /\ buffer'[m] = buffer[m]
    BY <1>0, <1>3
  <2> QED BY <1>2, <1>D, <2>2, <2>3 DEF Collected
<1>4. CASE buffer' = [buffer EXCEPT ![n] = WithKey(b, k)] /\ pending' = pending
  <2>1. buffer'[n].filter = f /\ \A m \in Node \ {n} : buffer'[m] = buffer[m]
    BY <1>0, <1>2, <1>4
  <2> QED BY <1>2, <1>4, <1>D, <2>1 DEF Collected
<1> QED BY <1>1, <1>2, <1>3, <1>4, <1>D

\* The scheduler counts a key as done only when it is remembered.
LEMMA SchedulerRemembers ==
  ASSUME TypeOK, NEW n \in Node, Scheduler(n),
         NEW key \in Key, key = CurrentKey(n)
  PROVE  /\ \A m \in Node : \A k : Remembered(m, k) => Remembered(m, k)'
         /\ \/ \A m \in Node : sched'[m].next = sched[m].next
            \/ /\ Remembered(n, key)'
               /\ sched'[n].next = sched[n].next + 1
               /\ \A m \in Node \ {n} : sched'[m].next = sched[m].next
<1>1. sched \in [Node -> [next : Nat \ {0}, pc : {"lookup", "ask", "arm"}]]
  BY DEF TypeOK
<1>2. UNCHANGED <<redis, crashes>>
  BY DEF Scheduler, ScheduleLocal, ScheduleMiss, ScheduleDirect, ScheduleFallback,
    ScheduleAggregate, stores
<1>3. StoredGrows /\ \A m \in Node : Stored(m)' = Stored(m)
  BY <1>2, RedisUnchanged
<1>4. ASSUME NextKey(n)
      PROVE  sched'[n].next = sched[n].next + 1 /\ \A m \in Node \ {n} : sched'[m].next = sched[m].next
  BY <1>1, <1>4 DEF NextKey
<1>5. ASSUME NEW pc, GoTo(n, pc) PROVE \A m \in Node : sched'[m].next = sched[m].next
  BY <1>1, <1>5 DEF GoTo
<1>6. CASE ScheduleLocal(n)
  <2>1. NextKey(n) /\ UNCHANGED asking /\ RedisGet(n, key) \ {None} # {}
    BY <1>6 DEF ScheduleLocal
  <2>2. key \in Stored(n)
    BY <2>1 DEF RedisGet, Stored
  <2>3. Remembered(n, key)'
    BY <1>3, <2>2 DEF Remembered
  <2> QED BY <1>3, <1>4, <2>1, <2>3, RememberedKept
<1>7. CASE ScheduleMiss(n) \/ ScheduleDirect(n)
  <2>1. UNCHANGED asking /\ (GoTo(n, "ask") \/ GoTo(n, "arm"))
    BY <1>7 DEF ScheduleMiss, ScheduleDirect
  <2> QED BY <1>3, <1>5, <2>1, RememberedKept
<1>8. CASE ScheduleFallback(n)
  <2>1. /\ NextKey(n) /\ UNCHANGED <<taken, buffer, pending, flushed, discarded>>
        /\ fallback' = [fallback EXCEPT ![n] = @ \cup {key}]
    BY <1>8 DEF ScheduleFallback
  <2>2. key \in fallback'[n] /\ \A m \in Node : fallback[m] \subseteq fallback'[m]
    BY <2>1 DEF TypeOK
  <2>3. Remembered(n, key)' /\ \A m \in Node : \A k : Remembered(m, k) => Remembered(m, k)'
    BY <1>3, <2>1, <2>2 DEF Remembered, Collected, GivenUp
  <2> QED BY <1>4, <2>1, <2>3
<1>9. CASE ScheduleAggregate(n)
  <2>1. NextKey(n) /\ AddKey(n, key) /\ UNCHANGED <<fallback, taken, flushed>>
    BY <1>9 DEF ScheduleAggregate
  <2>2. /\ Collected(n, key)'
        /\ \A m \in Node : \A k : Collected(m, k) => Collected(m, k)' \/ GivenUp(m, k)'
        /\ \A m \in Node : \A k : GivenUp(m, k) => GivenUp(m, k)'
    BY <2>1, AddKeyCollects
  <2>3. Remembered(n, key)' /\ \A m \in Node : \A k : Remembered(m, k) => Remembered(m, k)'
    BY <1>3, <2>1, <2>2 DEF Remembered
  <2> QED BY <1>4, <2>1, <2>3
<1> QED BY <1>6, <1>7, <1>8, <1>9 DEF Scheduler

\* No other thread forgets a key or counts one as done.
LEMMA ThreadsRemember ==
  ASSUME TypeInv, NEW n \in Node,
         \/ StartQueue(n) \/ Seed(n) \/ Flush(n) \/ TakeDue(n) \/ AddDue(n)
         \/ Transport(n) \/ (\E t \in Threads : Submit(n, t))
         \/ WorkerSend(n) \/ Exchange(n) \/ Reload(n)
  PROVE  /\ \A m \in Node : \A k : Remembered(m, k) => Remembered(m, k)'
         /\ UNCHANGED sched
<1>0. TypeOK BY DEF TypeInv
<1>00. /\ fallback \in [Node -> SUBSET Key] /\ taken \in [Node -> SUBSET Key]
       /\ buffer \in [Node -> [filter : SUBSET Bit, count : Nat]]
       /\ pending \in [Node -> Seq(SUBSET Bit)]
       /\ flushed \in [Node -> SUBSET SUBSET Bit]
  BY <1>0 DEF TypeOK
<1>1. CASE StartQueue(n) \/ (\E t \in Threads : Submit(n, t))
           \/ WorkerSend(n) \/ Exchange(n) \/ Reload(n)
  <2>1. UNCHANGED <<redis, crashes, asking, sched>>
    BY <1>1 DEF StartQueue, Submit, WorkerSend, Exchange, Reload, stores
  <2> QED BY <2>1, RedisUnchanged, RememberedKept
<1>2. CASE Seed(n)
  <2> DEFINE k == SeedKeys[n][boot[n]].key
             v == SeedKeys[n][boot[n]].value
  <2>1. boot[n] \in 1..Len(SeedKeys[n]) /\ UNCHANGED <<asking, crashes, sched>>
    BY <1>2 DEF Seed
  <2>2. k \in Key /\ v \in Value
    BY <2>1, SeedTyped
  <2>3. UNCHANGED redis \/ redis' = [redis EXCEPT ![n][k] = v]
    BY <1>2 DEF Seed, SeedFailed, Store, stores
  <2> HIDE DEF k, v
  <2>4. StoredGrows
    BY <1>0, <2>1, <2>2, <2>3, RedisUnchanged, RedisStores
  <2> QED BY <2>1, <2>4, RememberedKept
<1>3. CASE Flush(n)
  <2>1. PICK due \in {FALSE, buffer[n].count > 0} :
          /\ buffer' = IF due THEN [buffer EXCEPT ![n] = EmptyBuffer] ELSE buffer
          /\ flushed' = [flushed EXCEPT ![n] =
               @ \cup {Batches(n, due)[i] : i \in 1..Len(Batches(n, due))}]
    BY <1>3 DEF Flush
  <2>2. due \in BOOLEAN
    <3>1. (buffer[n].count > 0) \in BOOLEAN
      OBVIOUS
    <3> QED BY <2>1, <3>1
  <2>3. UNCHANGED <<redis, crashes, fallback, taken, discarded, sched>> /\ pending' = [pending EXCEPT ![n] = <<>>]
    BY <1>3 DEF Flush, stores
  <2>4. /\ \A f \in ItemsOf(pending[n]) : f \in flushed'[n]
        /\ due => buffer[n].filter \in flushed'[n]
        /\ \A m \in Node : flushed[m] \subseteq flushed'[m]
    <3>1. /\ \A j \in 1..Len(pending[n]) : \E i \in 1..Len(Batches(n, due)) :
               Batches(n, due)[i] = pending[n][j]
          /\ due => \E i \in 1..Len(Batches(n, due)) : Batches(n, due)[i] = buffer[n].filter
      BY <1>0, <2>2, BatchesTyped
    <3> DEFINE B == {Batches(n, due)[i] : i \in 1..Len(Batches(n, due))}
    <3>2. (\A f \in ItemsOf(pending[n]) : f \in B) /\ (due => buffer[n].filter \in B)
      BY <3>1 DEF ItemsOf
    <3>3. flushed' = [flushed EXCEPT ![n] = @ \cup B]
      BY <2>1
    <3> HIDE DEF B
    <3> QED BY <1>00, <3>2, <3>3
  <2>5. \A m \in Node \ {n} : pending'[m] = pending[m] /\ buffer'[m] = buffer[m]
    BY <1>00, <2>1, <2>3
  <2>6. buffer'[n] = buffer[n] \/ due
    BY <2>1, <2>2
  <2>7. \A m \in Node : Stored(m)' = Stored(m)
    BY <2>3, RedisUnchanged
  <2>8. \A k : Remembered(n, k) => Remembered(n, k)'
    BY <2>3, <2>4, <2>6, <2>7 DEF Remembered, Collected, GivenUp
  <2>9. \A m \in Node \ {n} : \A k : Remembered(m, k) => Remembered(m, k)'
    BY <2>3, <2>4, <2>5, <2>7 DEF Remembered, Collected, GivenUp
  <2> QED BY <2>3, <2>8, <2>9
<1>4. CASE TakeDue(n)
  <2>1. UNCHANGED <<redis, crashes, buffer, pending, flushed, discarded, sched>> /\ taken[n] = {}
    BY <1>4 DEF TakeDue, stores
  <2>2. PICK due \in (SUBSET fallback[n]) \ {{}} :
          /\ taken' = [taken EXCEPT ![n] = due]
          /\ fallback' = [fallback EXCEPT ![n] = @ \ due]
    BY <1>4 DEF TakeDue
  <2>3. \A m \in Node : fallback[m] \cup taken[m] \subseteq fallback'[m] \cup taken'[m]
    BY <1>00, <2>1, <2>2
  <2>4. \A m \in Node : Stored(m)' = Stored(m)
    BY <2>1, RedisUnchanged
  <2> QED BY <2>1, <2>3, <2>4 DEF Remembered, Collected, GivenUp
<1>5. CASE AddDue(n)
  <2>1. PICK key \in taken[n] : AddKey(n, key) /\ taken' = [taken EXCEPT ![n] = @ \ {key}]
    BY <1>5 DEF AddDue
  <2>2. UNCHANGED <<redis, crashes, fallback, flushed, sched>>
    BY <1>5 DEF AddDue, stores
  <2>3. /\ Collected(n, key)'
        /\ \A m \in Node : \A k : Collected(m, k) => Collected(m, k)' \/ GivenUp(m, k)'
        /\ \A m \in Node : \A k : GivenUp(m, k) => GivenUp(m, k)'
    BY <1>0, <1>00, <2>1, AddKeyCollects
  <2>4. /\ \A k \in taken[n] : k \in taken'[n] \/ k = key
        /\ \A m \in Node \ {n} : taken'[m] = taken[m]
    BY <1>00, <2>1
  <2>5. \A m \in Node : Stored(m)' = Stored(m)
    BY <2>2, RedisUnchanged
  <2> QED BY <2>2, <2>3, <2>4, <2>5 DEF Remembered
<1>6. CASE Transport(n)
  <2>1. PICK d \in Incoming(n) :
          \/ Reject(n, d)
          \/ DropDuplicate(n, d) \/ ServeRequest(n, d) \/ ForwardRequest(n, d)
          \/ DropNotOrigin(n, d) \/ StoreFailed(n, d) \/ StoreData(n, d)
          \/ HandleContentBloom(n, d)
          \/ DropLateQuery(n, d) \/ HandleQueryBloom(n, d)
    BY <1>6 DEF Transport
  <2>2. Receive(n, d)
    BY <2>1 DEF Reject, DropDuplicate, ServeRequest, ForwardRequest, DropNotOrigin,
      StoreFailed, StoreData, HandleContentBloom, DropLateQuery, HandleQueryBloom
  <2>3. UNCHANGED <<crashes, sched>>
    BY <2>2 DEF Receive
  <2>4. CASE StoreData(n, d)
    <3>1. d.msg.type = "DATA" /\ ~RejectsMessage(d.msg)
      BY <2>4 DEF StoreData, IsData, RejectsMessage
    <3>2. d.msg.key \in Key /\ d.msg.value \in Value
      BY <1>0, <3>1, IncomingIsReal, MessageFields
    <3>3. /\ redis' = [redis EXCEPT ![n][d.msg.key] = d.msg.value]
          /\ fallback' = [fallback EXCEPT ![n] = @ \ {d.msg.key}]
          /\ UNCHANGED <<taken, buffer, pending, flushed, discarded>>
      BY <2>4 DEF StoreData, Store, Cancel
    <3>4. /\ StoredGrows
          /\ \A m \in Node : Stored(m)' = IF m = n THEN Stored(m) \cup {d.msg.key} ELSE Stored(m)
      BY <1>0, <2>3, <3>2, <3>3, RedisStores
    <3>5. \A m \in Node : \A k \in fallback[m] : k \in fallback'[m] \/ k \in Stored(m)'
      BY <1>00, <3>3, <3>4
    <3>6. \A m \in Node : Stored(m) \subseteq Stored(m)'
      BY <3>4 DEF StoredGrows
    <3>7. \A m \in Node : \A k : Remembered(m, k) => Remembered(m, k)'
      BY <3>3, <3>5, <3>6 DEF Remembered, Collected, GivenUp
    <3> QED BY <2>3, <3>7
  <2>5. CASE ~StoreData(n, d)
    <3>1. UNCHANGED <<redis, asking>>
      BY <2>1, <2>5 DEF Reject, DropDuplicate, ServeRequest, ForwardRequest, DropNotOrigin,
        StoreFailed, HandleContentBloom, DropLateQuery, HandleQueryBloom, stores
    <3> QED BY <2>3, <3>1, RedisUnchanged, RememberedKept
  <2> QED BY <2>4, <2>5
<1> QED BY <1>1, <1>2, <1>3, <1>4, <1>5, <1>6

\* Every step keeps the requests in memory.
LEMMA MemoryStep ==
  ASSUME TypeInv, NotForgotten, [Next]_vars
  PROVE  NotForgotten'
<1> SUFFICES ASSUME RequestsRemembered
             PROVE  RequestsRemembered'
  BY MemoryMeans
<1>0. TypeOK /\ sched \in [Node -> [next : Nat \ {0}, pc : {"lookup", "ask", "arm"}]]
  BY DEF TypeInv, TypeOK
<1>1. ASSUME \A m \in Node : \A k : Remembered(m, k) => Remembered(m, k)',
             \A m \in Node : sched'[m].next = sched[m].next
      PROVE  RequestsRemembered'
  BY <1>1 DEF RequestsRemembered
<1>2. CASE UNCHANGED vars
  <2>1. UNCHANGED <<redis, crashes, asking, sched>>
    BY <1>2 DEF vars, stores
  <2> QED BY <1>1, <2>1, RedisUnchanged, RememberedKept
<1>3. ASSUME NEW n \in Node, Scheduler(n) PROVE RequestsRemembered'
  <2>1. sched[n].next <= Len(RequestKeys[n])
    BY <1>3 DEF Scheduler, ScheduleLocal, ScheduleMiss, ScheduleDirect, ScheduleFallback,
      ScheduleAggregate, SchedAt
  <2>2. PICK key \in Key : key = RequestKeys[n][sched[n].next] /\ key = CurrentKey(n)
    BY <1>0, <2>1, CurrentTyped DEF CurrentKey
  <2>3. /\ \A m \in Node : \A k : Remembered(m, k) => Remembered(m, k)'
        /\ \/ \A m \in Node : sched'[m].next = sched[m].next
           \/ /\ Remembered(n, key)'
              /\ sched'[n].next = sched[n].next + 1
              /\ \A m \in Node \ {n} : sched'[m].next = sched[m].next
    BY <1>0, <1>3, <2>2, SchedulerRemembers
  <2>4. CASE /\ Remembered(n, key)'
             /\ sched'[n].next = sched[n].next + 1
             /\ \A m \in Node \ {n} : sched'[m].next = sched[m].next
    <3> SUFFICES ASSUME NEW m \in Node, NEW i \in 1..(sched'[m].next - 1)
                 PROVE  Remembered(m, RequestKeys[m][i])'
      BY DEF RequestsRemembered
    <3>1. sched[n].next \in Nat \ {0}
      BY <1>0
    <3>2. i \in 1..(sched[m].next - 1) \/ (m = n /\ i = sched[n].next)
      BY <2>4, <3>1
    <3> QED BY <2>2, <2>3, <2>4, <3>2 DEF RequestsRemembered
  <2> QED BY <1>1, <2>3, <2>4
<1>4. ASSUME NEW n \in Node,
             \/ StartQueue(n) \/ Seed(n) \/ Flush(n) \/ TakeDue(n) \/ AddDue(n)
             \/ Transport(n) \/ (\E t \in Threads : Submit(n, t))
             \/ WorkerSend(n) \/ Exchange(n) \/ Reload(n)
      PROVE  RequestsRemembered'
  BY <1>1, <1>4, ThreadsRemember
<1>5. ASSUME NEW n \in Node, Crash(n) PROVE RequestsRemembered'
  <2>1. /\ sched'[n].next = 1 /\ \A m \in Node \ {n} : sched'[m].next = sched[m].next
    BY <1>0, <1>5 DEF Crash
  <2>2. 1..(sched'[n].next - 1) = {}
    BY <2>1
  <2>3. \A m \in Node \ {n} :
          /\ redis'[m] = redis[m] /\ fallback'[m] = fallback[m] /\ taken'[m] = taken[m]
          /\ buffer'[m] = buffer[m] /\ pending'[m] = pending[m] /\ flushed'[m] = flushed[m]
          /\ discarded'[m] = discarded[m]
    BY <1>0, <1>5 DEF Crash, TypeOK
  <2>4. \A m \in Node \ {n} : \A k : Remembered(m, k) => Remembered(m, k)'
    BY <2>3 DEF Remembered, Collected, GivenUp, Stored
  <2> QED BY <2>1, <2>2, <2>4 DEF RequestsRemembered
<1> QED BY <1>2, <1>3, <1>4, <1>5 DEF Next, Step

(***************************************************************************)
(* A key the scheduler is done with is stored, waits for its fallback, or  *)
(* is in a Query-BF that is being built or was handed to the queue, or was *)
(* in a buffer that a later add_key found too old and discarded: no other  *)
(* key falls between the scheduler, the data handler's cancel, take_due,   *)
(* add_key and flush_due.                                                  *)
(***************************************************************************)
THEOREM NetOSNotForgotten == Spec => []NotForgotten
<1>1. Init => NotForgotten
  BY DEF Init, NotForgotten
<1> QED BY <1>1, TypeInit, TypeStep, MemoryStep, PTL DEF Spec
=============================================================================
