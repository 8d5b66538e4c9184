---------------------------- MODULE TableConfig ----------------------------
(***************************************************************************)
(* The settings of a node that its timed tables use, in ticks of a clock,  *)
(* with what validate_config guarantees about them.                        *)
(***************************************************************************)
EXTENDS Integers

CONSTANTS
  QueryTtl,          \* query_ttl_ms
  AttemptLimit,      \* broadcast_attempt_limit
  BroadcastWindow,   \* broadcast_window_ms
  ExchangeEvery,     \* content_bf_exchange_ms
  ContentTtl,        \* content_bf_ttl_ms
  FallbackWindow,    \* content_bf_fallback_ms
  AggregationWindow, \* query_bf_aggregation_ms
  QueryBfTtl,        \* query_bf_ttl_ms
  MaxKeys            \* query_bf_max_keys, 0 for no limit

CONSTANTS
  Horizon,           \* bound: the clock stops here
  MinFlushEvery,     \* the least period of the flush thread, 50 ms
  MinFallbackEvery,  \* the least period of the fallback thread, 25 ms
  MaxJitter,         \* bound: how late a thread may return from sleep_for
  MaxDelay,          \* bound: how long a datagram may travel
  MaxLosses          \* bound: how many summaries in a row may be lost

Positive == Nat \ {0}

ASSUME TableAssumption ==
  /\ QueryTtl \in Positive
  /\ AttemptLimit \in Positive /\ BroadcastWindow \in Positive
  /\ ExchangeEvery \in Positive /\ ContentTtl \in Positive
  /\ FallbackWindow \in Positive /\ AggregationWindow \in Positive
  /\ QueryBfTtl \in Positive /\ MaxKeys \in Nat
  /\ Horizon \in Nat
  /\ MinFlushEvery \in Positive /\ MinFallbackEvery \in Positive
  /\ MaxJitter \in Nat /\ MaxDelay \in Nat /\ MaxLosses \in Nat
=============================================================================
