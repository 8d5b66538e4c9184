------------------------- MODULE ForwardQueueProofs -------------------------
(***************************************************************************)
(* The safety of the forwarding queue for any number of producers, workers *)
(* and messages and any depth.                                             *)
(*                                                                         *)
(* The invariants of ForwardQueue are inductive together with two facts on *)
(* the program points: a thread holds an item exactly where the code does  *)
(* (HoldsItem), and nobody uses the queue before the workers run (Paths).  *)
(***************************************************************************)
EXTENDS ForwardQueue, SequenceTheorems, FiniteSetTheorems, TLAPS

HoldsItem ==
  /\ \A p \in Producer : ppc[p] \in {"send", "enqueue"} <=> pitem[p] # NoItem
  /\ \A w \in Worker : wpc[w] = "send" <=> witem[w] # NoItem

Paths ==
  /\ \A w \in Worker : wpc[w] = "off" <=> Synchronous
  /\ \A p \in Producer : ppc[p] \in {"enqueue", "notify"} => ~Synchronous
  /\ queue # <<>> => ~Synchronous

Control == TypeOK /\ HoldsItem /\ Paths

IInv == Control /\ ExactlyOnePlace /\ CallbackOnce /\ DepthBounded /\ NoLostWakeup

-----------------------------------------------------------------------------
(* Types and program points.                                               *)

\* No thread is in a call at the start.
LEMMA InitControl == Init => Control
<1> SUFFICES ASSUME Init PROVE Control
  OBVIOUS
<1>1. TypeOK
  <2>1. sends \in [Item -> Nat] /\ successes \in [Item -> Nat] /\ failures \in [Item -> Nat]
    BY DEF Init
  <2>2. /\ ppc \in [Producer -> {"idle", "send", "enqueue", "notify"}]
        /\ pitem \in [Producer -> Item \cup {NoItem}]
    BY DEF Init
  <2>3. /\ wpc \in [Worker -> {"off", "check", "wait", "send"}]
        /\ witem \in [Worker -> Item \cup {NoItem}]
    BY DEF Init
  <2>4. queue = <<>> /\ started = FALSE
    BY DEF Init
  <2>5. submitted \subseteq Item /\ dropped \subseteq Item
    BY DEF Init
  <2> QED
    BY <2>1, <2>2, <2>3, <2>4, <2>5, EmptySeq DEF TypeOK
<1>2. HoldsItem
  BY DEF Init, HoldsItem
<1>3. Paths
  BY DEF Init, Paths, Synchronous
<1> QED
  BY <1>1, <1>2, <1>3 DEF Control

(***************************************************************************)
(* A transmission increments the counters of one item and leaves them      *)
(* natural numbers.                                                        *)
(***************************************************************************)
LEMMA TransmitType ==
  ASSUME TypeOK, NEW i \in Item, Transmit(i)
  PROVE  /\ sends' = [sends EXCEPT ![i] = @ + 1]
         /\ sends' \in [Item -> Nat]
         /\ successes' \in [Item -> Nat]
         /\ failures' \in [Item -> Nat]
         /\ UNCHANGED <<submitted, dropped>>
<1>1. CASE OnSuccess(i)
  BY <1>1 DEF TypeOK, Transmit, OnSuccess
<1>2. CASE OnFailure(i)
  BY <1>2 DEF TypeOK, Transmit, OnFailure
<1> QED
  BY <1>1, <1>2 DEF Transmit

\* Every step keeps the types and the program points consistent.
LEMMA NextControl == Control /\ [Next]_vars => Control'
<1> SUFFICES ASSUME Control, [Next]_vars PROVE Control'
  OBVIOUS
<1> USE ForwardQueueAssumption
<1>1. CASE Start
  <2>1. TypeOK'
    BY <1>1 DEF Control, TypeOK, Start, ghosts
  <2>2. HoldsItem'
    <3>1. \A w \in Worker : witem[w] = NoItem
      BY <1>1 DEF Control, HoldsItem, TypeOK, Paths, Synchronous, Start
    <3> QED
      BY <1>1, <3>1 DEF Control, HoldsItem, TypeOK, Start
  <2>3. Paths'
    BY <1>1 DEF Control, Paths, TypeOK, Synchronous, Start
  <2> QED
    BY <2>1, <2>2, <2>3 DEF Control
<1>2. ASSUME NEW p \in Producer, NEW i \in Item, Call(p, i) PROVE Control'
  BY <1>2 DEF Control, TypeOK, HoldsItem, Paths, Synchronous, Call
<1>3. ASSUME NEW p \in Producer, SendNow(p) PROVE Control'
  <2>1. pitem[p] \in Item
    BY <1>3 DEF Control, TypeOK, HoldsItem, SendNow
  <2>2. TypeOK'
    BY <1>3, <2>1, TransmitType DEF Control, TypeOK, SendNow
  <2> QED
    BY <1>3, <2>2 DEF Control, TypeOK, HoldsItem, Paths, Synchronous, SendNow
<1>4. ASSUME NEW p \in Producer, EnqueueAccept(p) PROVE Control'
  <2>1. pitem[p] \in Item
    BY <1>4 DEF Control, TypeOK, HoldsItem, EnqueueAccept
  <2> QED
    BY <1>4, <2>1
    DEF Control, TypeOK, HoldsItem, Paths, Synchronous, EnqueueAccept, ghosts
<1>5. ASSUME NEW p \in Producer, EnqueueDrop(p) PROVE Control'
  <2>1. pitem[p] \in Item
    BY <1>5 DEF Control, TypeOK, HoldsItem, EnqueueDrop
  <2> QED
    BY <1>5, <2>1
    DEF Control, TypeOK, HoldsItem, Paths, Synchronous, EnqueueDrop, OnFailure
<1>6. ASSUME NEW p \in Producer, Notify(p) PROVE Control'
  BY <1>6 DEF Control, TypeOK, HoldsItem, Paths, Synchronous, Notify, Woken, ghosts
<1>7. ASSUME NEW w \in Worker, WorkerWait(w) PROVE Control'
  BY <1>7 DEF Control, TypeOK, HoldsItem, Paths, Synchronous, WorkerWait, ghosts
<1>8. ASSUME NEW w \in Worker, WorkerTake(w) PROVE Control'
  <2>1. Head(queue) \in Item /\ Tail(queue) \in Seq(Item)
    BY <1>8 DEF Control, TypeOK, WorkerTake
  <2> QED
    BY <1>8, <2>1
    DEF Control, TypeOK, HoldsItem, Paths, Synchronous, WorkerTake, ghosts
<1>9. ASSUME NEW w \in Worker, WorkerSend(w) PROVE Control'
  <2>1. witem[w] \in Item
    BY <1>9 DEF Control, TypeOK, HoldsItem, WorkerSend
  <2>2. TypeOK'
    BY <1>9, <2>1, TransmitType DEF Control, TypeOK, WorkerSend
  <2> QED
    BY <1>9, <2>2 DEF Control, TypeOK, HoldsItem, Paths, Synchronous, WorkerSend
<1>10. ASSUME NEW w \in Worker, SpuriousWakeup(w) PROVE Control'
  BY <1>10 DEF Control, TypeOK, HoldsItem, Paths, Synchronous, SpuriousWakeup, Woken, ghosts
<1>11. CASE UNCHANGED vars
  BY <1>11 DEF Control, TypeOK, HoldsItem, Paths, Synchronous, vars, ghosts
<1> QED
  BY <1>1, <1>2, <1>3, <1>4, <1>5, <1>6, <1>7, <1>8, <1>9, <1>10, <1>11
  DEF Next, ProducerStep, WorkerStep

-----------------------------------------------------------------------------
(* Items are in one place.                                                 *)

\* The conjuncts of ExactlyOnePlace for one item.
OnePlace(i) ==
  /\ i \in submitted <=>
       \/ AtProducer(i) \/ AtQueue(i) \/ AtWorker(i) \/ AtNetwork(i) \/ AtDropped(i)
  /\ AtProducer(i) => ~AtQueue(i) /\ ~AtWorker(i) /\ ~AtNetwork(i) /\ ~AtDropped(i)
  /\ AtQueue(i) => ~AtWorker(i) /\ ~AtNetwork(i) /\ ~AtDropped(i)
  /\ AtWorker(i) => ~AtNetwork(i) /\ ~AtDropped(i)
  /\ AtNetwork(i) => ~AtDropped(i)

\* No place holds an item twice.
NotTwice(i) ==
  /\ sends[i] <= 1
  /\ \A p, q \in Producer : pitem[p] = i /\ pitem[q] = i => p = q
  /\ \A m, n \in 1..Len(queue) : queue[m] = i /\ queue[n] = i => m = n
  /\ \A v, w \in Worker : witem[v] = i /\ witem[w] = i => v = w

\* ExactlyOnePlace, item by item.
LEMMA PlacesSplit == ExactlyOnePlace <=> \A i \in Item : OnePlace(i) /\ NotTwice(i)
  BY DEF ExactlyOnePlace, OnePlace, NotTwice

\* Nothing has been handed over at the start.
LEMMA InitPlaces == Init => ExactlyOnePlace
  BY ForwardQueueAssumption
  DEF Init, ExactlyOnePlace, AtProducer, AtQueue, AtWorker, AtNetwork, AtDropped

\* send_direct and send_broadcast put the item of the call in hand.
LEMMA CallMoves ==
  ASSUME Control, NEW p \in Producer, NEW x \in Item, Call(p, x), NEW i \in Item
  PROVE  /\ pitem[p] = NoItem
         /\ AtProducer(i)' <=> AtProducer(i) \/ i = x
         /\ AtQueue(i)' <=> AtQueue(i)
         /\ AtWorker(i)' <=> AtWorker(i)
         /\ AtNetwork(i)' <=> AtNetwork(i)
         /\ AtDropped(i)' <=> AtDropped(i)
<1>1. pitem[p] = NoItem
  BY DEF Control, TypeOK, HoldsItem, Call
<1>2. AtProducer(i)' <=> AtProducer(i) \/ i = x
  BY <1>1, ForwardQueueAssumption DEF Control, TypeOK, AtProducer, Call
<1> QED
  BY <1>1, <1>2 DEF AtQueue, AtWorker, AtNetwork, AtDropped, Call

\* A call keeps every item in one place.
LEMMA CallPlaces ==
  ASSUME Control, ExactlyOnePlace, NEW p \in Producer, NEW x \in Item, Call(p, x)
  PROVE  ExactlyOnePlace'
<1> SUFFICES ASSUME NEW i \in Item PROVE OnePlace(i)' /\ NotTwice(i)'
  BY PlacesSplit DEF ExactlyOnePlace, OnePlace, NotTwice
<1>1. OnePlace(i) /\ NotTwice(i) /\ OnePlace(x)
  BY PlacesSplit
<1>2. OnePlace(i)'
  BY <1>1, CallMoves DEF OnePlace, Call
<1>3. NotTwice(i)'
  BY <1>1, CallMoves, ForwardQueueAssumption
  DEF Control, TypeOK, OnePlace, NotTwice, AtProducer, Call
<1> QED
  BY <1>2, <1>3

(***************************************************************************)
(* A producer gives its item away: it was the only one to hold it.         *)
(***************************************************************************)
LEMMA ProducerGives ==
  ASSUME Control, ExactlyOnePlace, NEW p \in Producer, NEW i \in Item,
         pitem[p] \in Item,
         pitem' = [pitem EXCEPT ![p] = NoItem]
  PROVE  /\ AtProducer(i)' <=> AtProducer(i) /\ i # pitem[p]
         /\ \A r, q \in Producer : pitem'[r] = i /\ pitem'[q] = i => r = q
<1>1. NotTwice(i)
  BY PlacesSplit
<1>2. \A q \in Producer : pitem'[q] = IF q = p THEN NoItem ELSE pitem[q]
  BY DEF Control, TypeOK
<1> QED
  BY <1>1, <1>2, ForwardQueueAssumption DEF NotTwice, AtProducer

\* The synchronous path takes the item out of the hand of its producer and
\* sends it.
LEMMA SendNowMoves ==
  ASSUME Control, ExactlyOnePlace, NEW p \in Producer, SendNow(p), NEW i \in Item
  PROVE  /\ pitem[p] \in Item /\ AtProducer(pitem[p]) /\ sends[pitem[p]] = 0
         /\ sends' = [sends EXCEPT ![pitem[p]] = @ + 1]
         /\ AtProducer(i)' <=> AtProducer(i) /\ i # pitem[p]
         /\ AtNetwork(i)' <=> AtNetwork(i) \/ i = pitem[p]
         /\ AtQueue(i)' <=> AtQueue(i)
         /\ AtWorker(i)' <=> AtWorker(i)
         /\ AtDropped(i)' <=> AtDropped(i)
         /\ UNCHANGED submitted
<1> DEFINE x == pitem[p]
<1>1. x \in Item /\ AtProducer(x)
  BY DEF Control, TypeOK, HoldsItem, SendNow, AtProducer
<1>2. OnePlace(x)
  BY <1>1, PlacesSplit
<1>3. sends[x] = 0
  BY <1>1, <1>2 DEF Control, TypeOK, OnePlace, AtNetwork
<1>4. AtProducer(i)' <=> AtProducer(i) /\ i # x
  BY <1>1, ProducerGives DEF SendNow
<1>5. sends' = [sends EXCEPT ![x] = @ + 1] /\ UNCHANGED <<submitted, dropped>>
  BY <1>1, TransmitType DEF Control, SendNow
<1>6. AtNetwork(i)' <=> AtNetwork(i) \/ i = x
  BY <1>1, <1>5 DEF Control, TypeOK, AtNetwork
<1> QED
  BY <1>1, <1>3, <1>4, <1>5, <1>6 DEF AtQueue, AtWorker, AtDropped, SendNow

\* A synchronous send keeps every item in one place.
LEMMA SendNowPlaces ==
  ASSUME Control, ExactlyOnePlace, NEW p \in Producer, SendNow(p)
  PROVE  ExactlyOnePlace'
<1> SUFFICES ASSUME NEW i \in Item PROVE OnePlace(i)' /\ NotTwice(i)'
  BY PlacesSplit DEF ExactlyOnePlace, OnePlace, NotTwice
<1>1. OnePlace(i) /\ NotTwice(i) /\ OnePlace(pitem[p])
  BY PlacesSplit, SendNowMoves
<1>2. OnePlace(i)'
  BY <1>1, SendNowMoves DEF OnePlace
<1>3. \A r, q \in Producer : pitem'[r] = i /\ pitem'[q] = i => r = q
  BY SendNowMoves, ProducerGives DEF SendNow
<1>4. sends'[i] <= 1
  <2>1. /\ pitem[p] \in Item /\ sends[pitem[p]] = 0
        /\ sends' = [sends EXCEPT ![pitem[p]] = @ + 1]
    BY SendNowMoves
  <2> QED
    BY <1>1, <2>1 DEF Control, TypeOK, NotTwice
<1>5. NotTwice(i)'
  BY <1>1, <1>3, <1>4 DEF NotTwice, SendNow
<1> QED
  BY <1>2, <1>5

\* enqueue moves the item from its producer to the end of the queue.
LEMMA EnqueueAcceptMoves ==
  ASSUME Control, ExactlyOnePlace, NEW p \in Producer, EnqueueAccept(p), NEW i \in Item
  PROVE  /\ pitem[p] \in Item /\ AtProducer(pitem[p])
         /\ AtProducer(i)' <=> AtProducer(i) /\ i # pitem[p]
         /\ AtQueue(i)' <=> AtQueue(i) \/ i = pitem[p]
         /\ AtWorker(i)' <=> AtWorker(i)
         /\ AtNetwork(i)' <=> AtNetwork(i)
         /\ AtDropped(i)' <=> AtDropped(i)
         /\ UNCHANGED submitted
<1> DEFINE x == pitem[p]
<1>1. x \in Item /\ AtProducer(x)
  BY DEF Control, TypeOK, HoldsItem, EnqueueAccept, AtProducer
<1>2. AtProducer(i)' <=> AtProducer(i) /\ i # x
  BY <1>1, ProducerGives DEF EnqueueAccept
<1>3. /\ Len(queue) \in Nat
      /\ Len(queue') = Len(queue) + 1
      /\ \A n \in 1..Len(queue) : queue'[n] = queue[n]
      /\ queue'[Len(queue) + 1] = x
  BY <1>1 DEF Control, TypeOK, EnqueueAccept
<1>4. AtQueue(i)' <=> AtQueue(i) \/ i = x
  BY <1>3 DEF AtQueue
<1> QED
  BY <1>1, <1>2, <1>4 DEF AtWorker, AtNetwork, AtDropped, EnqueueAccept, ghosts

\* An accepting enqueue keeps every item in one place.
LEMMA EnqueueAcceptPlaces ==
  ASSUME Control, ExactlyOnePlace, NEW p \in Producer, EnqueueAccept(p)
  PROVE  ExactlyOnePlace'
<1> SUFFICES ASSUME NEW i \in Item PROVE OnePlace(i)' /\ NotTwice(i)'
  BY PlacesSplit DEF ExactlyOnePlace, OnePlace, NotTwice
<1>1. OnePlace(i) /\ NotTwice(i) /\ OnePlace(pitem[p])
  BY PlacesSplit, EnqueueAcceptMoves
<1>2. OnePlace(i)'
  BY <1>1, EnqueueAcceptMoves DEF OnePlace
<1>3. \A r, q \in Producer : pitem'[r] = i /\ pitem'[q] = i => r = q
  BY EnqueueAcceptMoves, ProducerGives DEF EnqueueAccept
<1>4. \A m, n \in 1..Len(queue') : queue'[m] = i /\ queue'[n] = i => m = n
  <2>1. /\ Len(queue) \in Nat
        /\ Len(queue') = Len(queue) + 1
        /\ \A n \in 1..Len(queue) : queue'[n] = queue[n]
        /\ queue'[Len(queue) + 1] = pitem[p]
    BY EnqueueAcceptMoves DEF Control, TypeOK, EnqueueAccept
  <2>2. i = pitem[p] => \A n \in 1..Len(queue) : queue[n] # i
    BY <1>1, EnqueueAcceptMoves DEF OnePlace, AtQueue
  <2> QED
    BY <1>1, <2>1, <2>2 DEF NotTwice
<1>5. NotTwice(i)'
  BY <1>1, <1>3, <1>4 DEF NotTwice, EnqueueAccept, ghosts
<1> QED
  BY <1>2, <1>5

\* enqueue at a full queue moves the item from its producer to the dropped
\* ones.
LEMMA EnqueueDropMoves ==
  ASSUME Control, ExactlyOnePlace, NEW p \in Producer, EnqueueDrop(p), NEW i \in Item
  PROVE  /\ pitem[p] \in Item /\ AtProducer(pitem[p])
         /\ AtProducer(i)' <=> AtProducer(i) /\ i # pitem[p]
         /\ AtDropped(i)' <=> AtDropped(i) \/ i = pitem[p]
         /\ AtQueue(i)' <=> AtQueue(i)
         /\ AtWorker(i)' <=> AtWorker(i)
         /\ AtNetwork(i)' <=> AtNetwork(i)
         /\ UNCHANGED submitted
<1>1. pitem[p] \in Item /\ AtProducer(pitem[p])
  BY DEF Control, TypeOK, HoldsItem, EnqueueDrop, AtProducer
<1>2. AtProducer(i)' <=> AtProducer(i) /\ i # pitem[p]
  BY <1>1, ProducerGives DEF EnqueueDrop
<1> QED
  BY <1>1, <1>2 DEF AtQueue, AtWorker, AtNetwork, AtDropped, EnqueueDrop

\* A dropping enqueue keeps every item in one place.
LEMMA EnqueueDropPlaces ==
  ASSUME Control, ExactlyOnePlace, NEW p \in Producer, EnqueueDrop(p)
  PROVE  ExactlyOnePlace'
<1> SUFFICES ASSUME NEW i \in Item PROVE OnePlace(i)' /\ NotTwice(i)'
  BY PlacesSplit DEF ExactlyOnePlace, OnePlace, NotTwice
<1>1. OnePlace(i) /\ NotTwice(i) /\ OnePlace(pitem[p])
  BY PlacesSplit, EnqueueDropMoves
<1>2. OnePlace(i)'
  BY <1>1, EnqueueDropMoves DEF OnePlace
<1>3. \A r, q \in Producer : pitem'[r] = i /\ pitem'[q] = i => r = q
  BY EnqueueDropMoves, ProducerGives DEF EnqueueDrop
<1>4. NotTwice(i)'
  BY <1>1, <1>3 DEF NotTwice, EnqueueDrop
<1> QED
  BY <1>2, <1>4

\* pop_front moves the first item of the queue into the hand of the worker.
LEMMA WorkerTakeMoves ==
  ASSUME Control, ExactlyOnePlace, NEW w \in Worker, WorkerTake(w), NEW i \in Item
  PROVE  /\ Head(queue) \in Item /\ AtQueue(Head(queue))
         /\ Len(queue) \in Nat /\ Len(queue') = Len(queue) - 1
         /\ \A n \in 1..(Len(queue) - 1) : queue'[n] = queue[n + 1]
         /\ \A v \in Worker : witem'[v] = IF v = w THEN Head(queue) ELSE witem[v]
         /\ AtQueue(i)' <=> AtQueue(i) /\ i # Head(queue)
         /\ AtWorker(i)' <=> AtWorker(i) \/ i = Head(queue)
         /\ AtProducer(i)' <=> AtProducer(i)
         /\ AtNetwork(i)' <=> AtNetwork(i)
         /\ AtDropped(i)' <=> AtDropped(i)
         /\ UNCHANGED submitted
<1> DEFINE x == Head(queue)
<1>1. NotTwice(i)
  BY PlacesSplit
<1>2. /\ Len(queue) \in Nat \ {0}
      /\ x = queue[1] /\ x \in Item
      /\ Len(queue') = Len(queue) - 1
      /\ \A n \in 1..(Len(queue) - 1) : queue'[n] = queue[n + 1]
  BY DEF Control, TypeOK, WorkerTake
<1>3. AtQueue(x)
  BY <1>2 DEF AtQueue
<1>4. witem[w] = NoItem
  BY DEF Control, TypeOK, HoldsItem, WorkerTake
<1>5. \A v \in Worker : witem'[v] = IF v = w THEN x ELSE witem[v]
  BY DEF Control, TypeOK, WorkerTake
<1>6. AtQueue(i)' <=> AtQueue(i) /\ i # x
  <2>1. ASSUME AtQueue(i)' PROVE AtQueue(i) /\ i # x
    <3>1. PICK n \in 1..(Len(queue) - 1) : queue[n + 1] = i
      BY <1>2, <2>1 DEF AtQueue
    <3>2. n + 1 \in 1..Len(queue) /\ n + 1 # 1 /\ 1 \in 1..Len(queue)
      BY <1>2
    <3> QED
      BY <1>1, <1>2, <3>1, <3>2 DEF NotTwice, AtQueue
  <2>2. ASSUME AtQueue(i), i # x PROVE AtQueue(i)'
    <3>1. PICK n \in 1..Len(queue) : queue[n] = i
      BY <2>2 DEF AtQueue
    <3>2. n - 1 \in 1..(Len(queue) - 1) /\ (n - 1) + 1 = n
      BY <1>2, <2>2, <3>1
    <3> QED
      BY <1>2, <3>1, <3>2 DEF AtQueue
  <2> QED
    BY <2>1, <2>2
<1>7. AtWorker(i)' <=> AtWorker(i) \/ i = x
  BY <1>4, <1>5, ForwardQueueAssumption DEF AtWorker
<1>8. /\ AtProducer(i)' <=> AtProducer(i)
      /\ AtNetwork(i)' <=> AtNetwork(i)
      /\ AtDropped(i)' <=> AtDropped(i)
      /\ UNCHANGED submitted
  BY DEF AtProducer, AtNetwork, AtDropped, WorkerTake, ghosts
<1> QED
  BY <1>2, <1>3, <1>5, <1>6, <1>7, <1>8

\* A worker that takes an item keeps every item in one place.
LEMMA WorkerTakePlaces ==
  ASSUME Control, ExactlyOnePlace, NEW w \in Worker, WorkerTake(w)
  PROVE  ExactlyOnePlace'
<1> SUFFICES ASSUME NEW i \in Item PROVE OnePlace(i)' /\ NotTwice(i)'
  BY PlacesSplit DEF ExactlyOnePlace, OnePlace, NotTwice
<1>1. OnePlace(i) /\ NotTwice(i) /\ OnePlace(Head(queue))
  BY PlacesSplit, WorkerTakeMoves
<1>2. OnePlace(i)'
  BY <1>1, WorkerTakeMoves DEF OnePlace
<1>3. \A m, n \in 1..Len(queue') : queue'[m] = i /\ queue'[n] = i => m = n
  <2>1. /\ Len(queue) \in Nat /\ Len(queue') = Len(queue) - 1
        /\ \A n \in 1..(Len(queue) - 1) : queue'[n] = queue[n + 1]
    BY WorkerTakeMoves
  <2> QED
    BY <1>1, <2>1, SMTT(40) DEF NotTwice
<1>4. \A u, v \in Worker : witem'[u] = i /\ witem'[v] = i => u = v
  <2>1. i = Head(queue) => \A v \in Worker : witem[v] # i
    BY <1>1, WorkerTakeMoves DEF OnePlace, AtWorker
  <2> QED
    BY <2>1, <1>1, WorkerTakeMoves DEF NotTwice
<1>5. NotTwice(i)'
  BY <1>1, <1>3, <1>4 DEF NotTwice, WorkerTake, ghosts
<1> QED
  BY <1>2, <1>5

\* worker_loop takes the item out of the hand of the worker and sends it.
LEMMA WorkerSendMoves ==
  ASSUME Control, ExactlyOnePlace, NEW w \in Worker, WorkerSend(w), NEW i \in Item
  PROVE  /\ witem[w] \in Item /\ AtWorker(witem[w]) /\ sends[witem[w]] = 0
         /\ sends' = [sends EXCEPT ![witem[w]] = @ + 1]
         /\ \A u, v \in Worker : witem'[u] = i /\ witem'[v] = i => u = v
         /\ AtWorker(i)' <=> AtWorker(i) /\ i # witem[w]
         /\ AtNetwork(i)' <=> AtNetwork(i) \/ i = witem[w]
         /\ AtProducer(i)' <=> AtProducer(i)
         /\ AtQueue(i)' <=> AtQueue(i)
         /\ AtDropped(i)' <=> AtDropped(i)
         /\ UNCHANGED submitted
<1> DEFINE x == witem[w]
<1>1. NotTwice(i)
  BY PlacesSplit
<1>2. x \in Item /\ AtWorker(x)
  BY DEF Control, TypeOK, HoldsItem, WorkerSend, AtWorker
<1>3. OnePlace(x)
  BY <1>2, PlacesSplit
<1>4. \A v \in Worker : witem'[v] = IF v = w THEN NoItem ELSE witem[v]
  BY DEF Control, TypeOK, WorkerSend
<1>5. /\ AtWorker(i)' <=> AtWorker(i) /\ i # x
      /\ \A u, v \in Worker : witem'[u] = i /\ witem'[v] = i => u = v
  BY <1>1, <1>4, ForwardQueueAssumption DEF NotTwice, AtWorker
<1>6. sends' = [sends EXCEPT ![x] = @ + 1] /\ UNCHANGED <<submitted, dropped>>
  BY <1>2, TransmitType DEF Control, WorkerSend
<1>7. sends[x] = 0
  BY <1>2, <1>3 DEF Control, TypeOK, OnePlace, AtNetwork
<1>8. AtNetwork(i)' <=> AtNetwork(i) \/ i = x
  BY <1>6, <1>2 DEF Control, TypeOK, AtNetwork
<1>9. /\ AtProducer(i)' <=> AtProducer(i)
      /\ AtQueue(i)' <=> AtQueue(i)
      /\ AtDropped(i)' <=> AtDropped(i)
  BY <1>6 DEF AtProducer, AtQueue, AtDropped, WorkerSend
<1> QED
  BY <1>2, <1>5, <1>6, <1>7, <1>8, <1>9

\* A worker that sends keeps every item in one place.
LEMMA WorkerSendPlaces ==
  ASSUME Control, ExactlyOnePlace, NEW w \in Worker, WorkerSend(w)
  PROVE  ExactlyOnePlace'
<1> SUFFICES ASSUME NEW i \in Item PROVE OnePlace(i)' /\ NotTwice(i)'
  BY PlacesSplit DEF ExactlyOnePlace, OnePlace, NotTwice
<1>1. OnePlace(i) /\ NotTwice(i) /\ OnePlace(witem[w])
  BY PlacesSplit, WorkerSendMoves
<1>2. OnePlace(i)'
  BY <1>1, WorkerSendMoves DEF OnePlace
<1>3. sends'[i] <= 1
  <2>1. /\ witem[w] \in Item /\ sends[witem[w]] = 0
        /\ sends' = [sends EXCEPT ![witem[w]] = @ + 1]
    BY WorkerSendMoves
  <2> QED
    BY <1>1, <2>1 DEF Control, TypeOK, NotTwice
<1>4. NotTwice(i)'
  BY <1>1, <1>3, WorkerSendMoves DEF NotTwice, WorkerSend
<1> QED
  BY <1>2, <1>4

(***************************************************************************)
(* Steps that move no item.                                                *)
(***************************************************************************)
LEMMA OtherPlaces ==
  ASSUME ExactlyOnePlace, UNCHANGED <<queue, pitem, witem, ghosts>>
  PROVE  ExactlyOnePlace'
  BY DEF ExactlyOnePlace, AtProducer, AtQueue, AtWorker, AtNetwork, AtDropped, ghosts

\* Every step keeps every item in one place.
LEMMA NextPlaces == Control /\ ExactlyOnePlace /\ [Next]_vars => ExactlyOnePlace'
<1> SUFFICES ASSUME Control, ExactlyOnePlace, [Next]_vars PROVE ExactlyOnePlace'
  OBVIOUS
<1>1. CASE Start \/ UNCHANGED vars
  BY <1>1, OtherPlaces DEF Start, vars
<1>2. ASSUME NEW p \in Producer, ProducerStep(p) \/ \E i \in Item : Call(p, i)
      PROVE  ExactlyOnePlace'
  BY <1>2, CallPlaces, SendNowPlaces, EnqueueAcceptPlaces, EnqueueDropPlaces, OtherPlaces
  DEF ProducerStep, Notify
<1>3. ASSUME NEW w \in Worker, WorkerStep(w) \/ SpuriousWakeup(w)
      PROVE  ExactlyOnePlace'
  BY <1>3, WorkerTakePlaces, WorkerSendPlaces, OtherPlaces
  DEF WorkerStep, WorkerWait, SpuriousWakeup
<1> QED
  BY <1>1, <1>2, <1>3 DEF Next

-----------------------------------------------------------------------------
(* Callbacks.                                                              *)

\* No callback has run at the start.
LEMMA InitCallback == Init => CallbackOnce
  BY ForwardQueueAssumption DEF Init, CallbackOnce, AtNetwork, AtDropped

(***************************************************************************)
(* An item that is transmitted for the first time reports once, as Notified*)
(* and Direct say.                                                         *)
(***************************************************************************)
LEMMA TransmitCallback ==
  ASSUME Control, CallbackOnce, NEW x \in Item, Transmit(x), sends[x] = 0, x \notin dropped
  PROVE  CallbackOnce'
<1> SUFFICES ASSUME NEW i \in Item
             PROVE  /\ i \in Notified /\ AtNetwork(i)' => successes'[i] + failures'[i] = 1
                    /\ i \in Direct /\ AtDropped(i)' => successes'[i] = 0 /\ failures'[i] = 1
                    /\ i \in Direct /\ AtNetwork(i)' => failures'[i] <= 1
                    /\ ~AtNetwork(i)' /\ ~AtDropped(i)' => successes'[i] = 0 /\ failures'[i] = 0
                    /\ i \notin Direct => successes'[i] = 0 /\ failures'[i] = 0
  BY DEF CallbackOnce
<1> USE ForwardQueueAssumption
<1>1. successes[x] = 0 /\ failures[x] = 0
  BY DEF Control, TypeOK, CallbackOnce, AtNetwork, AtDropped
<1>2. CASE i # x
  <2>1. sends'[i] = sends[i] /\ successes'[i] = successes[i] /\ failures'[i] = failures[i]
    BY <1>2 DEF Control, TypeOK, Transmit, OnSuccess, OnFailure
  <2> QED
    BY <2>1 DEF CallbackOnce, AtNetwork, AtDropped, Transmit
<1>3. CASE i = x
  <2>1. sends'[i] = 1 /\ i \notin dropped'
    BY <1>3 DEF Control, TypeOK, Transmit
  <2>2. CASE OnSuccess(x)
    BY <1>1, <1>3, <2>1, <2>2 DEF Control, TypeOK, OnSuccess, AtNetwork, AtDropped
  <2>3. CASE OnFailure(x)
    BY <1>1, <1>3, <2>1, <2>3 DEF Control, TypeOK, OnFailure, AtNetwork, AtDropped
  <2> QED
    BY <2>2, <2>3 DEF Transmit
<1> QED
  BY <1>2, <1>3

\* A dropped item reports a failure if it is a direct one.
LEMMA DropCallback ==
  ASSUME Control, ExactlyOnePlace, CallbackOnce, NEW p \in Producer, EnqueueDrop(p)
  PROVE  CallbackOnce'
<1> USE ForwardQueueAssumption
<1> DEFINE x == pitem[p]
<1>1. x \in Item /\ AtProducer(x)
  BY DEF Control, TypeOK, HoldsItem, EnqueueDrop, AtProducer
<1>2. ~AtNetwork(x) /\ ~AtDropped(x)
  BY <1>1 DEF ExactlyOnePlace
<1>3. successes[x] = 0 /\ failures[x] = 0
  BY <1>1, <1>2 DEF CallbackOnce
<1>4. /\ failures' = [failures EXCEPT ![x] = IF x \in Direct THEN @ + 1 ELSE @]
      /\ dropped' = dropped \cup {x}
      /\ UNCHANGED <<sends, successes>>
  BY DEF EnqueueDrop, OnFailure
<1> HIDE DEF x
<1> QED
  BY <1>1, <1>2, <1>3, <1>4 DEF Control, TypeOK, CallbackOnce, AtNetwork, AtDropped

\* Every step runs the callbacks of an item once, when it is attempted or
\* dropped.
LEMMA NextCallback ==
  Control /\ ExactlyOnePlace /\ CallbackOnce /\ [Next]_vars => CallbackOnce'
<1> SUFFICES ASSUME Control, ExactlyOnePlace, CallbackOnce, [Next]_vars PROVE CallbackOnce'
  OBVIOUS
<1>1. ASSUME UNCHANGED <<dropped, sends, successes, failures>> PROVE CallbackOnce'
  BY <1>1 DEF CallbackOnce, AtNetwork, AtDropped
<1>2. CASE Start \/ UNCHANGED vars
  BY <1>1, <1>2 DEF Start, vars, ghosts
<1>3. ASSUME NEW p \in Producer, NEW i \in Item, Call(p, i) PROVE CallbackOnce'
  BY <1>1, <1>3 DEF Call
<1>4. ASSUME NEW p \in Producer, SendNow(p) PROVE CallbackOnce'
  <2>1. pitem[p] \in Item /\ AtProducer(pitem[p])
    BY <1>4 DEF Control, TypeOK, HoldsItem, SendNow, AtProducer
  <2>2. sends[pitem[p]] = 0 /\ pitem[p] \notin dropped
    BY <2>1 DEF Control, TypeOK, ExactlyOnePlace, AtNetwork, AtDropped
  <2> QED
    BY <1>4, <2>1, <2>2, TransmitCallback DEF SendNow
<1>5. ASSUME NEW p \in Producer, EnqueueAccept(p) \/ Notify(p) PROVE CallbackOnce'
  BY <1>1, <1>5 DEF EnqueueAccept, Notify, ghosts
<1>6. ASSUME NEW w \in Worker, WorkerSend(w) PROVE CallbackOnce'
  <2>1. witem[w] \in Item /\ AtWorker(witem[w])
    BY <1>6 DEF Control, TypeOK, HoldsItem, WorkerSend, AtWorker
  <2>2. sends[witem[w]] = 0 /\ witem[w] \notin dropped
    BY <2>1 DEF Control, TypeOK, ExactlyOnePlace, AtNetwork, AtDropped
  <2> QED
    BY <1>6, <2>1, <2>2, TransmitCallback DEF WorkerSend
<1>7. ASSUME NEW w \in Worker, WorkerWait(w) \/ WorkerTake(w) \/ SpuriousWakeup(w)
      PROVE  CallbackOnce'
  BY <1>1, <1>7 DEF WorkerWait, WorkerTake, SpuriousWakeup, ghosts
<1> QED
  BY <1>2, <1>3, <1>4, <1>5, <1>6, <1>7, DropCallback DEF Next, ProducerStep, WorkerStep

-----------------------------------------------------------------------------
(* Depth and wakeups.                                                      *)

\* Only enqueue lengthens the queue, and only below max_depth.
LEMMA NextDepth == Control /\ DepthBounded /\ [Next]_vars => DepthBounded'
<1> SUFFICES ASSUME Control, DepthBounded, [Next]_vars PROVE DepthBounded'
  OBVIOUS
<1> USE ForwardQueueAssumption
<1>1. (Synchronous => queue = <<>>)'
  <2>1. Control'
    BY NextControl
  <2> QED
    BY <2>1 DEF Control, Paths, Synchronous
<1>2. CASE UNCHANGED queue
  BY <1>1, <1>2 DEF DepthBounded
<1>3. ASSUME NEW p \in Producer, EnqueueAccept(p) PROVE DepthBounded'
  <2>1. Len(queue') = Len(queue) + 1 /\ Len(queue) \in Nat
    BY <1>3 DEF Control, TypeOK, HoldsItem, EnqueueAccept
  <2>2. Len(queue) < MaxDepth
    BY <1>3, <2>1 DEF EnqueueAccept, Full
  <2> QED
    BY <1>1, <2>1, <2>2 DEF DepthBounded
<1>4. ASSUME NEW w \in Worker, WorkerTake(w) PROVE DepthBounded'
  <2>1. Len(queue') = Len(queue) - 1 /\ Len(queue) \in Nat
    BY <1>4 DEF Control, TypeOK, WorkerTake
  <2> QED
    BY <1>1, <2>1 DEF DepthBounded
<1> QED
  BY <1>2, <1>3, <1>4
  DEF Next, ProducerStep, WorkerStep, vars, Start, Call, SendNow, EnqueueDrop, Notify,
      WorkerWait, WorkerSend, SpuriousWakeup

\* No step leaves an item in the queue with all workers waiting and none
\* notified.
LEMMA NextWakeup == Control /\ NoLostWakeup /\ [Next]_vars => NoLostWakeup'
<1> SUFFICES ASSUME Control, NoLostWakeup, [Next]_vars, queue' # <<>> PROVE NoLostWakeup'
  BY DEF NoLostWakeup
<1> USE ForwardQueueAssumption
<1>1. CASE Start
  <2>1. queue = <<>>
    BY <1>1 DEF Control, Paths, Synchronous, Start
  <2> QED
    BY <1>1, <2>1 DEF Start
<1>2. ASSUME NEW p \in Producer, NEW i \in Item, Call(p, i) PROVE NoLostWakeup'
  BY <1>2 DEF Control, TypeOK, NoLostWakeup, Call
<1>3. ASSUME NEW p \in Producer, SendNow(p) PROVE NoLostWakeup'
  BY <1>3 DEF Control, TypeOK, NoLostWakeup, SendNow
<1>4. ASSUME NEW p \in Producer, EnqueueAccept(p) PROVE NoLostWakeup'
  BY <1>4 DEF Control, TypeOK, NoLostWakeup, EnqueueAccept
<1>5. ASSUME NEW p \in Producer, EnqueueDrop(p) PROVE NoLostWakeup'
  BY <1>5 DEF Control, TypeOK, NoLostWakeup, EnqueueDrop
<1>6. ASSUME NEW p \in Producer, Notify(p) PROVE NoLostWakeup'
  <2>1. \A w \in Worker : wpc[w] # "off"
    BY <1>6 DEF Control, Paths, Notify
  <2>2. ASSUME NEW w \in Worker, wpc[w] = "wait", Woken(w) PROVE NoLostWakeup'
    BY <2>2 DEF Control, TypeOK, NoLostWakeup, Woken
  <2>3. ASSUME \A w \in Worker : wpc[w] # "wait", UNCHANGED wpc PROVE NoLostWakeup'
    BY <2>1, <2>3 DEF Control, TypeOK, NoLostWakeup
  <2> QED
    BY <1>6, <2>2, <2>3 DEF Notify
<1>7. ASSUME NEW w \in Worker, WorkerWait(w) PROVE NoLostWakeup'
  BY <1>7 DEF WorkerWait
<1>8. ASSUME NEW w \in Worker, WorkerTake(w) PROVE NoLostWakeup'
  BY <1>8 DEF Control, TypeOK, NoLostWakeup, WorkerTake
<1>9. ASSUME NEW w \in Worker, WorkerSend(w) PROVE NoLostWakeup'
  BY <1>9 DEF Control, TypeOK, NoLostWakeup, WorkerSend
<1>10. ASSUME NEW w \in Worker, SpuriousWakeup(w) PROVE NoLostWakeup'
  BY <1>10 DEF Control, TypeOK, NoLostWakeup, SpuriousWakeup, Woken
<1>11. CASE UNCHANGED vars
  BY <1>11 DEF NoLostWakeup, vars
<1> QED
  BY <1>1, <1>2, <1>3, <1>4, <1>5, <1>6, <1>7, <1>8, <1>9, <1>10, <1>11
  DEF Next, ProducerStep, WorkerStep

-----------------------------------------------------------------------------
\* The parts of the invariant are inductive together.
LEMMA Inductive == (Init => IInv) /\ (IInv /\ [Next]_vars => IInv')
<1>1. Init => IInv
  <2>1. Init => DepthBounded /\ NoLostWakeup
    BY ForwardQueueAssumption DEF Init, DepthBounded, NoLostWakeup
  <2> QED
    BY <2>1, InitControl, InitPlaces, InitCallback DEF IInv
<1>2. IInv /\ [Next]_vars => IInv'
  BY NextControl, NextPlaces, NextCallback, NextDepth, NextWakeup DEF IInv
<1> QED
  BY <1>1, <1>2

(***************************************************************************)
(* For any number of threads and messages and any depth: every message     *)
(* handed to the queue is in exactly one place and is sent at most once,   *)
(* the callbacks of a direct send run once, the queue stays within         *)
(* max_depth, and no wakeup is lost between enqueue and worker_loop.       *)
(***************************************************************************)
THEOREM ForwardQueueSafe ==
  Spec => [](TypeOK /\ ExactlyOnePlace /\ CallbackOnce /\ DepthBounded /\ NoLostWakeup)
<1>1. IInv => TypeOK /\ ExactlyOnePlace /\ CallbackOnce /\ DepthBounded /\ NoLostWakeup
  BY DEF IInv, Control
<1> QED
  BY <1>1, Inductive, PTL DEF Spec

\* The threads of the queue, its items and its counters keep their types.
THEOREM ForwardQueueTypes == Spec => []TypeOK
  BY ForwardQueueSafe, PTL

\* The caller of a direct send hears exactly once of a message that was
\* attempted or dropped, and never before; a broadcast reports nothing.
THEOREM ForwardQueueCallbackOnce == Spec => []CallbackOnce
  BY ForwardQueueSafe, PTL

\* The queue never holds more than max_depth messages, however producers and
\* workers interleave, and none while calls are synchronous.
THEOREM ForwardQueueDepthBounded == Spec => []DepthBounded
  BY ForwardQueueSafe, PTL

\* No worker sleeps on the condition variable while there is work and nobody has
\* been notified.
THEOREM ForwardQueueNoLostWakeup == Spec => []NoLostWakeup
  BY ForwardQueueSafe, PTL

-----------------------------------------------------------------------------
(***************************************************************************)
(* Every step of the forwarding queue is a step of ForwardService or       *)
(* leaves the caller's view unchanged, for any number of threads and       *)
(* messages.  (That the fairness of the threads gives the fairness of the  *)
(* service is checked by TLC.)                                             *)
(***************************************************************************)

\* Item x moves to status s, and every other item keeps its own.
Moves(x, s) ==
  \A i \in Item : ServiceStatus(i)' = IF i = x THEN s ELSE ServiceStatus(i)

\* A step that changes the places of one item changes only its status.
LEMMA MovesUpdatesStatus ==
  ASSUME NEW x \in Item, NEW s, Moves(x, s)
  PROVE  [i \in Item |-> ServiceStatus(i)]'
           = [[i \in Item |-> ServiceStatus(i)] EXCEPT ![x] = s]
  BY DEF Moves

\* A call submits its item.
LEMMA CallStatus ==
  ASSUME Control, ExactlyOnePlace, NEW p \in Producer, NEW x \in Item, Call(p, x)
  PROVE  ServiceStatus(x) = "idle" /\ Moves(x, "submitted")
<1>1. ~AtProducer(x) /\ ~AtQueue(x) /\ ~AtWorker(x) /\ ~AtNetwork(x) /\ ~AtDropped(x)
  BY DEF ExactlyOnePlace, Call
<1>2. ServiceStatus(x) = "idle"
  BY <1>1 DEF ServiceStatus
<1>3. ASSUME NEW i \in Item
      PROVE  ServiceStatus(i)' = IF i = x THEN "submitted" ELSE ServiceStatus(i)
  BY <1>1, CallMoves DEF ServiceStatus
<1> QED
  BY <1>2, <1>3 DEF Moves

\* What the caller holds is submitted, and nothing else.
LEMMA HeldStatus ==
  ASSUME ExactlyOnePlace, NEW x \in Item, AtProducer(x)
  PROVE  /\ ~AtQueue(x) /\ ~AtWorker(x) /\ ~AtNetwork(x) /\ ~AtDropped(x)
         /\ ServiceStatus(x) = "submitted"
<1>1. ~AtQueue(x) /\ ~AtWorker(x) /\ ~AtNetwork(x) /\ ~AtDropped(x)
  BY DEF ExactlyOnePlace
<1> QED
  BY <1>1 DEF ServiceStatus

\* A synchronous send attempts its item.
LEMMA SendNowStatus ==
  ASSUME Control, ExactlyOnePlace, NEW p \in Producer, SendNow(p)
  PROVE  ServiceStatus(pitem[p]) = "submitted" /\ Moves(pitem[p], "attempted")
<1>1. pitem[p] \in Item /\ AtProducer(pitem[p])
  BY SendNowMoves DEF Control, TypeOK, HoldsItem, SendNow, AtProducer
<1>2. ASSUME NEW i \in Item
      PROVE  ServiceStatus(i)' = IF i = pitem[p] THEN "attempted" ELSE ServiceStatus(i)
  BY SendNowMoves DEF ServiceStatus
<1> QED
  BY <1>1, <1>2, HeldStatus DEF Moves

\* An accepting enqueue makes its item wait.
LEMMA EnqueueAcceptStatus ==
  ASSUME Control, ExactlyOnePlace, NEW p \in Producer, EnqueueAccept(p)
  PROVE  ServiceStatus(pitem[p]) = "submitted" /\ Moves(pitem[p], "accepted")
<1>1. pitem[p] \in Item /\ AtProducer(pitem[p])
  BY DEF Control, TypeOK, HoldsItem, EnqueueAccept, AtProducer
<1>2. ASSUME NEW i \in Item
      PROVE  ServiceStatus(i)' = IF i = pitem[p] THEN "accepted" ELSE ServiceStatus(i)
  BY <1>1, EnqueueAcceptMoves, HeldStatus DEF ServiceStatus
<1> QED
  BY <1>1, <1>2, HeldStatus DEF Moves

\* A dropping enqueue drops its item.
LEMMA EnqueueDropStatus ==
  ASSUME Control, ExactlyOnePlace, NEW p \in Producer, EnqueueDrop(p)
  PROVE  ServiceStatus(pitem[p]) = "submitted" /\ Moves(pitem[p], "dropped")
<1>1. pitem[p] \in Item /\ AtProducer(pitem[p])
  BY DEF Control, TypeOK, HoldsItem, EnqueueDrop, AtProducer
<1>2. ASSUME NEW i \in Item
      PROVE  ServiceStatus(i)' = IF i = pitem[p] THEN "dropped" ELSE ServiceStatus(i)
  BY <1>1, EnqueueDropMoves, HeldStatus DEF ServiceStatus
<1> QED
  BY <1>1, <1>2, HeldStatus DEF Moves

\* An item that a worker takes still waits for its attempt.
LEMMA WorkerTakeStatus ==
  ASSUME Control, ExactlyOnePlace, NEW w \in Worker, WorkerTake(w), NEW i \in Item
  PROVE  ServiceStatus(i)' = ServiceStatus(i)
  BY WorkerTakeMoves DEF ServiceStatus

\* A worker that sends attempts its item.
LEMMA WorkerSendStatus ==
  ASSUME Control, ExactlyOnePlace, NEW w \in Worker, WorkerSend(w)
  PROVE  ServiceStatus(witem[w]) = "accepted" /\ Moves(witem[w], "attempted")
<1>1. witem[w] \in Item /\ AtWorker(witem[w])
  BY DEF Control, TypeOK, HoldsItem, WorkerSend, AtWorker
<1>2. ServiceStatus(witem[w]) = "accepted"
  BY <1>1 DEF ExactlyOnePlace, ServiceStatus
<1>3. ASSUME NEW i \in Item
      PROVE  ServiceStatus(i)' = IF i = witem[w] THEN "attempted" ELSE ServiceStatus(i)
  BY WorkerSendMoves DEF ServiceStatus
<1> QED
  BY <1>2, <1>3 DEF Moves

-----------------------------------------------------------------------------
(* Callbacks: an item that is still with the queue has had none.           *)

\* on_success is the callback of the service for an attempt that succeeds.
LEMMA OnSuccessCallback ==
  ASSUME TypeOK, NEW x \in Item, successes[x] = 0, failures[x] = 0, OnSuccess(x)
  PROVE  [i \in Item |-> ServiceCallback(i)]'
           = [[i \in Item |-> ServiceCallback(i)] EXCEPT
                ![x] = IF x \in Notified THEN "success" ELSE @]
<1>1. ASSUME NEW i \in Item
      PROVE  ServiceCallback(i)' = IF i = x /\ x \in Notified THEN "success"
                                   ELSE ServiceCallback(i)
  BY DEF TypeOK, OnSuccess, ServiceCallback
<1> QED
  BY <1>1

\* on_failure is the callback of the service for an attempt or a drop.
LEMMA OnFailureCallback ==
  ASSUME TypeOK, NEW x \in Item, successes[x] = 0, failures[x] = 0, OnFailure(x)
  PROVE  [i \in Item |-> ServiceCallback(i)]'
           = [[i \in Item |-> ServiceCallback(i)] EXCEPT
                ![x] = IF x \in Direct THEN "failure" ELSE @]
<1>1. ASSUME NEW i \in Item
      PROVE  ServiceCallback(i)' = IF i = x /\ x \in Direct THEN "failure"
                                   ELSE ServiceCallback(i)
  BY DEF TypeOK, OnFailure, ServiceCallback
<1> QED
  BY <1>1

\* A send, by a caller or a worker, is an Attempt of the service.
LEMMA AttemptStep ==
  ASSUME Control, CallbackOnce, NEW x \in Item, Transmit(x),
         ~AtNetwork(x), ~AtDropped(x),
         ServiceStatus(x) \in {"submitted", "accepted"}, Moves(x, "attempted")
  PROVE  Service!Attempt(x)
<1>1. successes[x] = 0 /\ failures[x] = 0
  BY DEF CallbackOnce
<1>2. OnSuccess(x) \/ OnFailure(x)
  BY DEF Transmit
<1>3. [i \in Item |-> ServiceStatus(i)][x] \in {"submitted", "accepted"}
  OBVIOUS
<1> QED
  BY <1>1, <1>2, <1>3, MovesUpdatesStatus, OnSuccessCallback, OnFailureCallback
  DEF Control, Service!Attempt, Service!Fail

-----------------------------------------------------------------------------
\* The service's copy of FiniteSets counts as the queue's does.
LEMMA SameCardinality == ASSUME NEW S PROVE Service!Cardinality(S) = Cardinality(S)
  BY DEF Service!Cardinality, Cardinality

(***************************************************************************)
(* A full queue holds MaxDepth different messages, all of them waiting.    *)
(***************************************************************************)
LEMMA FullMeansWaiting ==
  ASSUME Control, ExactlyOnePlace, Full
  PROVE  Cardinality(Service!Waiting) >= MaxDepth
<1> DEFINE N == Len(queue)
           W == Service!Waiting
<1>1. N \in Nat /\ N >= MaxDepth
  BY DEF Control, TypeOK, Full
<1>2. ASSUME NEW n \in 1..N PROVE queue[n] \in W
  <2>1. queue[n] \in Item /\ AtQueue(queue[n])
    BY DEF Control, TypeOK, AtQueue
  <2>2. ServiceStatus(queue[n]) = "accepted"
    BY <2>1 DEF ExactlyOnePlace, ServiceStatus
  <2> QED
    BY <2>1, <2>2 DEF Service!Waiting
<1>3. ASSUME NEW m \in 1..N, NEW n \in 1..N, queue[m] = queue[n] PROVE m = n
  BY <1>3 DEF Control, TypeOK, ExactlyOnePlace
<1>4. IsFiniteSet(W) /\ Cardinality(W) \in Nat
  <2>1. W \subseteq Item
    BY DEF Service!Waiting
  <2> QED
    BY <2>1, FS_Subset, FS_CardinalityType, ForwardQueueAssumption
<1>5. IsFiniteSet(1..N) /\ Cardinality(1..N) = N
  <2>1. N \in Int /\ 1 \in Int /\ N - 1 + 1 = N
    BY <1>1
  <2> HIDE DEF N
  <2>2. IsFiniteSet(1..N) /\ Cardinality(1..N) = IF 1 > N THEN 0 ELSE N - 1 + 1
    BY <2>1, FS_Interval
  <2>3. N = 0 \/ 1 <= N
    BY <1>1
  <2> QED BY <2>1, <2>2, <2>3
<1> DEFINE f == [n \in 1..N |-> queue[n]]
<1> HIDE DEF W
<1>6. f \in Injection(1..N, W)
  BY <1>2, <1>3 DEF Injection, IsInjective
<1>7. Cardinality(1..N) <= Cardinality(W)
  BY <1>4, <1>6, FS_Injection
<1> QED
  BY <1>1, <1>4, <1>5, <1>7, ForwardQueueAssumption DEF W

-----------------------------------------------------------------------------
\* The queue starts where the service starts.
LEMMA InitRefines == Init => Service!SInit
<1> SUFFICES ASSUME Init PROVE Service!SInit
  OBVIOUS
<1>1. ASSUME NEW i \in Item PROVE ServiceStatus(i) = "idle" /\ ServiceCallback(i) = "none"
  BY ForwardQueueAssumption
  DEF Init, ServiceStatus, ServiceCallback, AtNetwork, AtDropped, AtQueue, AtWorker, AtProducer
<1> QED
  BY <1>1 DEF Service!SInit

\* Every step of the queue is a step of the service or a stutter.
LEMMA StepRefines == IInv /\ [Next]_vars => [Service!SNext]_(Service!svars)
<1> SUFFICES ASSUME IInv, [Next]_vars PROVE [Service!SNext]_(Service!svars)
  OBVIOUS
<1>1. Control /\ ExactlyOnePlace /\ CallbackOnce /\ TypeOK
  BY DEF IInv, Control
<1>2. ASSUME \A i \in Item : ServiceStatus(i)' = ServiceStatus(i),
             UNCHANGED <<successes, failures>>
      PROVE  UNCHANGED Service!svars
  BY <1>2 DEF Service!svars, ServiceCallback
<1>3. ASSUME UNCHANGED successes, UNCHANGED failures
      PROVE  [i \in Item |-> ServiceCallback(i)]' = [i \in Item |-> ServiceCallback(i)]
  BY <1>3 DEF ServiceCallback
<1>4. ASSUME UNCHANGED <<queue, pitem, witem, ghosts>> PROVE UNCHANGED Service!svars
  <2>1. \A i \in Item : ServiceStatus(i)' = ServiceStatus(i)
    BY <1>4 DEF ServiceStatus, AtProducer, AtQueue, AtWorker, AtNetwork, AtDropped, ghosts
  <2> QED
    BY <1>2, <1>4, <2>1 DEF ghosts
<1>5. CASE Start \/ UNCHANGED vars
  BY <1>4, <1>5 DEF Start, vars
<1>6. ASSUME NEW p \in Producer, NEW x \in Item, Call(p, x) PROVE Service!SNext
  <2>1. Service!Submit(x)
    BY <1>1, <1>3, <1>6, CallStatus, MovesUpdatesStatus DEF Call, Service!Submit
  <2> QED
    BY <2>1 DEF Service!SNext
<1>7. ASSUME NEW p \in Producer, SendNow(p) PROVE Service!SNext
  <2>1. pitem[p] \in Item /\ AtProducer(pitem[p])
    BY <1>1, <1>7 DEF Control, TypeOK, HoldsItem, SendNow, AtProducer
  <2>2. Service!Attempt(pitem[p])
    BY <1>1, <1>7, <2>1, HeldStatus, SendNowStatus, AttemptStep DEF SendNow
  <2> QED
    BY <2>1, <2>2 DEF Service!SNext, Service!Resolve
<1>8. ASSUME NEW p \in Producer, EnqueueAccept(p) PROVE Service!SNext
  <2>1. pitem[p] \in Item
    BY <1>1, <1>8 DEF Control, TypeOK, HoldsItem, EnqueueAccept
  <2>2. Service!Accept(pitem[p])
    BY <1>1, <1>3, <1>8, <2>1, EnqueueAcceptStatus, MovesUpdatesStatus
    DEF EnqueueAccept, ghosts, Service!Accept
  <2> QED
    BY <2>1, <2>2 DEF Service!SNext
<1>9. ASSUME NEW p \in Producer, EnqueueDrop(p) PROVE Service!SNext
  <2>1. pitem[p] \in Item /\ AtProducer(pitem[p])
    BY <1>1, <1>9 DEF Control, TypeOK, HoldsItem, EnqueueDrop, AtProducer
  <2>2. successes[pitem[p]] = 0 /\ failures[pitem[p]] = 0
    BY <1>1, <2>1, HeldStatus DEF CallbackOnce
  <2>3. ServiceStatus(pitem[p]) = "submitted" /\ Moves(pitem[p], "dropped")
    BY <1>1, <1>9, EnqueueDropStatus
  <2>4. Service!Cardinality(Service!Waiting) >= MaxDepth
    BY <1>1, <1>9, FullMeansWaiting, SameCardinality DEF EnqueueDrop
  <2>5. OnFailure(pitem[p])
    BY <1>9 DEF EnqueueDrop
  <2>6. Service!Fail(pitem[p])
    BY <1>1, <2>1, <2>2, <2>5, OnFailureCallback DEF Service!Fail
  <2>7. Service!Drop(pitem[p])
    BY <2>1, <2>3, <2>4, <2>6, MovesUpdatesStatus DEF Service!Drop
  <2> QED
    BY <2>1, <2>7 DEF Service!SNext, Service!Resolve
<1>10. ASSUME NEW w \in Worker, WorkerSend(w) PROVE Service!SNext
  <2>1. witem[w] \in Item /\ AtWorker(witem[w])
    BY <1>1, <1>10 DEF Control, TypeOK, HoldsItem, WorkerSend, AtWorker
  <2>2. ~AtNetwork(witem[w]) /\ ~AtDropped(witem[w])
    BY <1>1, <2>1 DEF ExactlyOnePlace
  <2>3. Service!Attempt(witem[w])
    BY <1>1, <1>10, <2>1, <2>2, WorkerSendStatus, AttemptStep DEF WorkerSend
  <2> QED
    BY <2>1, <2>3 DEF Service!SNext, Service!Resolve
<1>11. ASSUME NEW w \in Worker, WorkerTake(w) PROVE UNCHANGED Service!svars
  BY <1>1, <1>2, <1>11, WorkerTakeStatus DEF WorkerTake, ghosts
<1>12. ASSUME NEW p \in Producer, Notify(p) PROVE UNCHANGED Service!svars
  BY <1>4, <1>12 DEF Notify
<1>13. ASSUME NEW w \in Worker, WorkerWait(w) \/ SpuriousWakeup(w)
       PROVE  UNCHANGED Service!svars
  BY <1>4, <1>13 DEF WorkerWait, SpuriousWakeup
<1> QED
  BY <1>5, <1>6, <1>7, <1>8, <1>9, <1>10, <1>11, <1>12, <1>13
  DEF Next, ProducerStep, WorkerStep

(***************************************************************************)
(* The queue implements the safety of ForwardService: whatever the threads *)
(* do, the callers of send_direct and send_broadcast see messages          *)
(* submitted, accepted, attempted once or dropped at a full queue, with    *)
(* the callbacks of the service.                                           *)
(***************************************************************************)
THEOREM QueueImplementsService == Spec => Service!SInit /\ [][Service!SNext]_(Service!svars)
  BY Inductive, InitRefines, StepRefines, PTL DEF Spec
=============================================================================
