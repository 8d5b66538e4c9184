---------------------------- MODULE ForwardQueue ----------------------------
(***************************************************************************)
(* src/netos/node/forward_queue.cpp: the queue between the threads that    *)
(* produce messages (transport, scheduler, exchange, flush) and the worker *)
(* threads that send them.  One action per critical section or call; a     *)
(* worker that waits on the condition variable is in wpc "wait".           *)
(*                                                                         *)
(* running_ is true before start() and no code clears it, so should_run()  *)
(* is constantly true and the return of worker_loop is unreachable.        *)
(***************************************************************************)
EXTENDS Integers, Sequences, FiniteSets

CONSTANTS
  Producer, Worker,
  Item,          \* the messages handed over, each once
  Direct,        \* sent with send_direct
  Notified,      \* direct sends whose on_success is not empty
  MaxDepth,      \* config_.max_depth
  Enabled,       \* config_.enabled
  NoItem

ASSUME ForwardQueueAssumption ==
  /\ MaxDepth \in Nat \ {0}          \* validate_config
  /\ Enabled \in BOOLEAN
  /\ Worker # {}                     \* start() spawns at least one
  /\ Notified \subseteq Direct /\ Direct \subseteq Item
  /\ NoItem \notin Item
  /\ IsFiniteSet(Item)               \* what is handed over up to some moment

VARIABLES
  started,       \* started_
  queue,         \* queue_
  ppc, pitem,    \* where a producer is, and the item it hands over
  wpc, witem,    \* where a worker is, and the item it took
  submitted,     \* ghost: items handed over
  dropped,       \* ghost: items dropped by enqueue
  sends,         \* ghost: calls of network_->send_* per item
  successes,     \* ghost: calls of on_success per item
  failures       \* ghost: calls of on_failure per item

ghosts == <<submitted, dropped, sends, successes, failures>>
vars == <<started, queue, ppc, pitem, wpc, witem, ghosts>>

Init ==
  /\ started = FALSE
  /\ queue = <<>>
  /\ ppc = [p \in Producer |-> "idle"]
  /\ pitem = [p \in Producer |-> NoItem]
  /\ wpc = [w \in Worker |-> "off"]
  /\ witem = [w \in Worker |-> NoItem]
  /\ submitted = {}
  /\ dropped = {}
  /\ sends = [i \in Item |-> 0]
  /\ successes = [i \in Item |-> 0]
  /\ failures = [i \in Item |-> 0]

\* start(): the flag is set before the workers run.
Start ==
  /\ ~started
  /\ started' = TRUE
  /\ wpc' = [w \in Worker |-> IF Enabled THEN "check" ELSE "off"]
  /\ UNCHANGED <<queue, ppc, pitem, witem, ghosts>>

\* The calls bypass the queue until start() has run, or always.
Synchronous == ~Enabled \/ ~started

\* send_direct / send_broadcast up to the choice between the two paths.
Call(p, i) ==
  /\ ppc[p] = "idle"
  /\ i \notin submitted
  /\ submitted' = submitted \cup {i}
  /\ pitem' = [pitem EXCEPT ![p] = i]
  /\ ppc' = [ppc EXCEPT ![p] = IF Synchronous THEN "send" ELSE "enqueue"]
  /\ UNCHANGED <<started, queue, wpc, witem, dropped, sends, successes, failures>>

OnSuccess(i) ==
  /\ successes' = [successes EXCEPT ![i] = IF i \in Notified THEN @ + 1 ELSE @]
  /\ UNCHANGED failures

OnFailure(i) ==
  /\ failures' = [failures EXCEPT ![i] = IF i \in Direct THEN @ + 1 ELSE @]
  /\ UNCHANGED successes

\* The item is handed to the network; a direct send reports the outcome, a
\* broadcast none.
Transmit(i) ==
  /\ sends' = [sends EXCEPT ![i] = @ + 1]
  /\ OnSuccess(i) \/ OnFailure(i)
  /\ UNCHANGED <<submitted, dropped>>

\* The synchronous path of send_direct / send_broadcast.
SendNow(p) ==
  /\ ppc[p] = "send"
  /\ Transmit(pitem[p])
  /\ ppc' = [ppc EXCEPT ![p] = "idle"]
  /\ pitem' = [pitem EXCEPT ![p] = NoItem]
  /\ UNCHANGED <<started, queue, wpc, witem>>

\* Mutant: one item too many is accepted.
MutFull == Len(queue) > MaxDepth

\* Mutant: an item is dropped while there is room for one.
MutFullEarly == Len(queue) >= MaxDepth - 1

Full == Len(queue) >= MaxDepth

\* Mutant: the item is moved from before it is pushed.
MutEnqueueAccept(p) ==
  /\ ppc[p] = "enqueue"
  /\ ~Full
  /\ queue' = Append(queue, NoItem)
  /\ ppc' = [ppc EXCEPT ![p] = "notify"]
  /\ pitem' = [pitem EXCEPT ![p] = NoItem]
  /\ UNCHANGED <<started, wpc, witem, ghosts>>

\* The critical section of enqueue() when there is room.
EnqueueAccept(p) ==
  /\ ppc[p] = "enqueue"
  /\ ~Full
  /\ queue' = Append(queue, pitem[p])
  /\ ppc' = [ppc EXCEPT ![p] = "notify"]
  /\ pitem' = [pitem EXCEPT ![p] = NoItem]
  /\ UNCHANGED <<started, wpc, witem, ghosts>>

\* Mutant: the failure callback is not called.
MutEnqueueDrop(p) ==
  /\ ppc[p] = "enqueue"
  /\ Full
  /\ dropped' = dropped \cup {pitem[p]}
  /\ ppc' = [ppc EXCEPT ![p] = "idle"]
  /\ pitem' = [pitem EXCEPT ![p] = NoItem]
  /\ UNCHANGED <<started, queue, wpc, witem, submitted, sends, successes, failures>>

\* The critical section of enqueue() when the queue is full, and the failure
\* callback after it.
EnqueueDrop(p) ==
  /\ ppc[p] = "enqueue"
  /\ Full
  /\ dropped' = dropped \cup {pitem[p]}
  /\ OnFailure(pitem[p])
  /\ ppc' = [ppc EXCEPT ![p] = "idle"]
  /\ pitem' = [pitem EXCEPT ![p] = NoItem]
  /\ UNCHANGED <<started, queue, wpc, witem, submitted, sends>>

\* cv_.notify_one(), after the mutex is released: wakes one waiting worker,
\* if there is one.
Woken(w) == wpc' = [wpc EXCEPT ![w] = "check"]

\* Mutant: nobody is notified.
MutNotify(p) ==
  /\ ppc[p] = "notify"
  /\ ppc' = [ppc EXCEPT ![p] = "idle"]
  /\ UNCHANGED <<started, queue, pitem, wpc, witem, ghosts>>

Notify(p) ==
  /\ ppc[p] = "notify"
  /\ \/ \E w \in Worker : wpc[w] = "wait" /\ Woken(w)
     \/ (\A w \in Worker : wpc[w] # "wait") /\ UNCHANGED wpc
  /\ ppc' = [ppc EXCEPT ![p] = "idle"]
  /\ UNCHANGED <<started, queue, pitem, witem, ghosts>>

\* The predicate of cv_.wait is false: the worker waits and releases mutex_.
WorkerWait(w) ==
  /\ wpc[w] = "check"
  /\ queue = <<>>
  /\ wpc' = [wpc EXCEPT ![w] = "wait"]
  /\ UNCHANGED <<started, queue, ppc, pitem, witem, ghosts>>

\* Mutant: the item is copied and not popped.
MutWorkerTake(w) ==
  /\ wpc[w] = "check"
  /\ queue # <<>>
  /\ witem' = [witem EXCEPT ![w] = Head(queue)]
  /\ wpc' = [wpc EXCEPT ![w] = "send"]
  /\ UNCHANGED <<started, queue, ppc, pitem, ghosts>>

\* The predicate of cv_.wait is true: the worker takes the oldest item.
WorkerTake(w) ==
  /\ wpc[w] = "check"
  /\ queue # <<>>
  /\ witem' = [witem EXCEPT ![w] = Head(queue)]
  /\ queue' = Tail(queue)
  /\ wpc' = [wpc EXCEPT ![w] = "send"]
  /\ UNCHANGED <<started, ppc, pitem, ghosts>>

\* The send outside the lock, then the next iteration.
WorkerSend(w) ==
  /\ wpc[w] = "send"
  /\ Transmit(witem[w])
  /\ witem' = [witem EXCEPT ![w] = NoItem]
  /\ wpc' = [wpc EXCEPT ![w] = "check"]
  /\ UNCHANGED <<started, queue, ppc, pitem>>

\* A condition variable may wake a waiter without a notification.
SpuriousWakeup(w) ==
  /\ wpc[w] = "wait"
  /\ Woken(w)
  /\ UNCHANGED <<started, queue, ppc, pitem, witem, ghosts>>

ProducerStep(p) == SendNow(p) \/ EnqueueAccept(p) \/ EnqueueDrop(p) \/ Notify(p)

WorkerStep(w) == WorkerWait(w) \/ WorkerTake(w) \/ WorkerSend(w)

Next ==
  \/ Start
  \/ \E p \in Producer : ProducerStep(p) \/ \E i \in Item : Call(p, i)
  \/ \E w \in Worker : WorkerStep(w) \/ SpuriousWakeup(w)

\* Every thread that can run eventually does; a caller may stay away.
Fairness ==
  /\ WF_vars(Start)
  /\ \A p \in Producer : WF_vars(ProducerStep(p))
  /\ \A w \in Worker : WF_vars(WorkerStep(w))

Spec == Init /\ [][Next]_vars /\ Fairness

-----------------------------------------------------------------------------
TypeOK ==
  /\ started \in BOOLEAN
  /\ queue \in Seq(Item)
  /\ ppc \in [Producer -> {"idle", "send", "enqueue", "notify"}]
  /\ pitem \in [Producer -> Item \cup {NoItem}]
  /\ wpc \in [Worker -> {"off", "check", "wait", "send"}]
  /\ witem \in [Worker -> Item \cup {NoItem}]
  /\ submitted \subseteq Item
  /\ dropped \subseteq Item
  /\ sends \in [Item -> Nat]
  /\ successes \in [Item -> Nat]
  /\ failures \in [Item -> Nat]

\* Where an item can be.
AtProducer(i) == \E p \in Producer : pitem[p] = i
AtQueue(i) == \E n \in 1..Len(queue) : queue[n] = i
AtWorker(i) == \E w \in Worker : witem[w] = i
AtNetwork(i) == sends[i] > 0
AtDropped(i) == i \in dropped

(***************************************************************************)
(* An item handed over is in exactly one place: with the caller, once in   *)
(* the queue, with one worker, sent once, or dropped.  No interleaving of  *)
(* producers and workers loses an item between two places or sends it      *)
(* twice.                                                                  *)
(***************************************************************************)
ExactlyOnePlace ==
  \A i \in Item :
    /\ i \in submitted <=>
         \/ AtProducer(i) \/ AtQueue(i) \/ AtWorker(i) \/ AtNetwork(i) \/ AtDropped(i)
    /\ AtProducer(i) => ~AtQueue(i) /\ ~AtWorker(i) /\ ~AtNetwork(i) /\ ~AtDropped(i)
    /\ AtQueue(i) => ~AtWorker(i) /\ ~AtNetwork(i) /\ ~AtDropped(i)
    /\ AtWorker(i) => ~AtNetwork(i) /\ ~AtDropped(i)
    /\ AtNetwork(i) => ~AtDropped(i)
    /\ sends[i] <= 1
    /\ \A p, q \in Producer : pitem[p] = i /\ pitem[q] = i => p = q
    /\ \A m, n \in 1..Len(queue) : queue[m] = i /\ queue[n] = i => m = n
    /\ \A v, w \in Worker : witem[v] = i /\ witem[w] = i => v = w

(***************************************************************************)
(* The caller of a direct send hears exactly once of an item that was      *)
(* attempted or dropped, and of a dropped one that it failed; a broadcast  *)
(* reports nothing, not even that it was dropped.                          *)
(***************************************************************************)
CallbackOnce ==
  \A i \in Item :
    /\ i \in Notified /\ AtNetwork(i) => successes[i] + failures[i] = 1
    /\ i \in Direct /\ AtDropped(i) => successes[i] = 0 /\ failures[i] = 1
    /\ i \in Direct /\ AtNetwork(i) => failures[i] <= 1
    /\ ~AtNetwork(i) /\ ~AtDropped(i) => successes[i] = 0 /\ failures[i] = 0
    /\ i \notin Direct => successes[i] = 0 /\ failures[i] = 0

(***************************************************************************)
(* The queue never exceeds max_depth although producers test its size      *)
(* concurrently, and it is empty while calls are synchronous.              *)
(***************************************************************************)
DepthBounded == Len(queue) <= MaxDepth /\ (Synchronous => queue = <<>>)

(***************************************************************************)
(* No lost wakeup: while items wait in the queue, some worker is awake or  *)
(* some producer is about to notify, although the notification is sent     *)
(* after the mutex was released.                                           *)
(***************************************************************************)
NoLostWakeup ==
  queue # <<>> =>
    \/ \E w \in Worker : wpc[w] \in {"check", "send"}
    \/ \E p \in Producer : ppc[p] = "notify"

-----------------------------------------------------------------------------
(***************************************************************************)
(* The queue implements ForwardService.                                    *)
(***************************************************************************)
ServiceStatus(i) ==
  IF AtNetwork(i) THEN "attempted"
  ELSE IF AtDropped(i) THEN "dropped"
  ELSE IF AtQueue(i) \/ AtWorker(i) THEN "accepted"
  ELSE IF AtProducer(i) THEN "submitted"
  ELSE "idle"

ServiceCallback(i) ==
  IF successes[i] + failures[i] = 0 THEN "none"
  ELSE IF successes[i] = 1 /\ failures[i] = 0 THEN "success"
  ELSE IF successes[i] = 0 /\ failures[i] = 1 THEN "failure"
  ELSE "several"

Service == INSTANCE ForwardService WITH
  Capacity <- MaxDepth,
  status <- [i \in Item |-> ServiceStatus(i)],
  callback <- [i \in Item |-> ServiceCallback(i)]

\* Every behaviour of the queue, fairness included, is one of the service.
ImplementsService == Service!SSpec
=============================================================================
