------------------------------ MODULE Parts ---------------------------------
(***************************************************************************)
(* The tables and the other parts of a node, each alone: the SyncTable,    *)
(* and an instance of the module of every other part on its own variables. *)
(* They share nothing but the clock.                                       *)
(***************************************************************************)
EXTENDS SyncTable, TableConfig

CONSTANTS
  Flow, OwnId, ForeignId, MaxCalls,
  ShortHorizon,   \* a horizon for parts that need less time
  ContentKey,     \* one key is enough for a summary: keys do not interact
  Caller, RedisKey, MaxLength, MaxCommands,
  Limits, FilterSizes, MaxText,
  IntBits, SizeBits, MaxBytes, MaxRewrites

VARIABLES
  now,
  qTable, qAttempts, qDuplicates, qPruned, qCall, qPublished, qCalls,
  qAccepted, qDropped,
  lEntries, lGranted, lRefused,
  cSince, cAlive, cWake, cLosses, cInflight, cEntry, cEnded, cSelected,
  rAsked, rEntries, rTaken, rBuffer, rPending, rFallbackWake, rFlushWake,
  rAnswered, rSent, rDiscarded,
  dStore, dOpen, dCommands, dStream, dCall, dAlive, dIssued, dOverlapped,
  dAnswer, dFinished,
  wLimit, wBytes, wMessage, wDatagram, wReceived,
  sEnv, sFile, sRewrites, sPhase, sConfig, sTopology, sSeen

ASSUME PartsAssumption ==
  /\ OwnId \cap ForeignId = {}   \* an id begins with the node_id of its maker
  /\ ShortHorizon \in Nat
  /\ MaxCommands \in Nat /\ MaxLength \in 0..3
  /\ Limits \subseteq Nat /\ FilterSizes \subseteq Positive /\ MaxText \in Positive
  /\ IntBits \in Nat /\ IntBits >= 16   \* as C++ guarantees
  /\ SizeBits \in Nat /\ SizeBits > IntBits
  /\ MaxBytes \in 2^(IntBits - 1)..2^(SizeBits - 4)
  /\ MaxRewrites \in Nat

\* Around the boundaries of an int, a port and a filter size.
SomeNumbers == {-8, -7, 0, 1, 70000, 2^(IntBits - 1), 2^IntBits + 1}

\* Neighbor lists with a port out of range, without host and without port.
SomeLists == {
  <<>>,
  <<[host |-> "b", port |-> 9001]>>,
  <<[host |-> "b", port |-> 70000], [host |-> "", port |-> 9002]>>,
  <<[host |-> "c", port |-> 0], [host |-> "d", port |-> 9003]>> }

Query == INSTANCE QueryTable WITH
  Horizon <- ShortHorizon, table <- qTable, attempts <- qAttempts, duplicates <- qDuplicates,
  pruned <- qPruned, call <- qCall, published <- qPublished, calls <- qCalls,
  accepted <- qAccepted, dropped <- qDropped

Limiter == INSTANCE QueryBloomLimiter WITH
  Horizon <- ShortHorizon, entries <- lEntries, granted <- lGranted, refused <- lRefused

Content == INSTANCE ContentExchange WITH
  Key <- ContentKey, since <- cSince, alive <- cAlive, wake <- cWake, losses <- cLosses,
  inflight <- cInflight, entry <- cEntry, ended <- cEnded, selected <- cSelected

Timers == INSTANCE RequestTimers WITH
  asked <- rAsked, entries <- rEntries, taken <- rTaken, buffer <- rBuffer,
  pending <- rPending, fallbackWake <- rFallbackWake, flushWake <- rFlushWake,
  answered <- rAnswered, sent <- rSent, discarded <- rDiscarded

Redis == INSTANCE RedisClient WITH
  store <- dStore, open <- dOpen, commands <- dCommands, stream <- dStream,
  call <- dCall, alive <- dAlive, issued <- dIssued, overlapped <- dOverlapped,
  answer <- dAnswer, finished <- dFinished

Codec == INSTANCE Wire WITH
  limit <- wLimit, bytes <- wBytes, message <- wMessage, datagram <- wDatagram,
  received <- wReceived

Settings == INSTANCE Configuration WITH
  Numbers <- SomeNumbers, Lists <- SomeLists,
  env <- sEnv, file <- sFile, rewrites <- sRewrites, phase <- sPhase,
  config <- sConfig, topology <- sTopology, seen <- sSeen

-----------------------------------------------------------------------------
(* The properties of the parts, under the names they have in their own     *)
(* modules, which say more about each.                                     *)

\* record_if_new never accepts an id twice within the TTL.
AcceptedApart == Query!AcceptedApart

\* record_if_new drops an id only if it was accepted within the TTL.
DroppedWasRecent == Query!DroppedWasRecent

\* allow grants at most twice the limit in any window.
ForwardsCapped == Limiter!ForwardsCapped

\* allow refuses only when the limit is used up.
RefusedOnlyAtLimit == Limiter!RefusedOnlyAtLimit

\* select_neighbor finds a key that a live peer has had for long enough.
HeldKeyIsFound == Content!HeldKeyIsFound

\* select_neighbor does not return a peer that stopped long ago.
DeadNeighborIsForgotten == Content!DeadNeighborIsForgotten

\* A key on its way into a Query-BF is in exactly one place.
OnePlace == Timers!OnePlace

\* A key is broadcast within the two windows and a period of each thread.
BroadcastInTime == Timers!BroadcastInTime

\* A key is only lost in a buffer that had been idle for nearly the TTL.
LossNeedsIdleBuffer == Timers!LossNeedsIdleBuffer

\* Calls that do not overlap get the reply to their own command.
ResultIsOwn == Redis!ResultIsOwn

\* Calls that do not overlap never wait for a reply that cannot come.
NeverStuck == Redis!NeverStuck

\* handle_data stores the key that was sent and a prefix of the value.
DataIsPrefix == Codec!DataIsPrefix

\* Filters arrive unaltered or not at all, stamps never later than sent.
FiltersAreIntact == Codec!FiltersAreIntact

\* What the environment sets, the file does not change.
EnvironmentDecides == Settings!EnvironmentDecides

\* Unusable settings are reported, with the one exception that is known.
InvalidIsReported == Settings!InvalidIsReported

\* The topology always comes from settings that could be read.
TopologyWasGiven == Settings!TopologyWasGiven

\* A port that is not one comes only from a file changed after the start.
UncheckedNeedsRewrite == Settings!UncheckedNeedsRewrite
=============================================================================
