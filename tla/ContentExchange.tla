--------------------------- MODULE ContentExchange ---------------------------
(***************************************************************************)
(* src/netos/tables/content_bf_table.cpp with a clock: a peer advertises   *)
(* its keys (start_content_bloom_exchange) over a network that delays,     *)
(* reorders and loses datagrams; this node keeps the latest summary        *)
(* (update_neighbor) and asks it for keys (select_neighbor).  The peer may *)
(* crash and start again with an empty filter.                             *)
(***************************************************************************)
EXTENDS TableConfig

CONSTANTS Key

VARIABLES
  now,        \* steady_clock
  since,      \* the peer: per key in its local filter, when it was added
  alive,      \* the peer runs
  wake,       \* when its exchange thread returns from sleep_for
  losses,     \* summaries lost in a row
  inflight,   \* datagrams on their way
  entry,      \* neighbors_: the peer's filter and when it was updated
  ended,      \* ghost: when the peer last crashed
  selected    \* ghost: the latest select_neighbor and its result

vars == <<now, since, alive, wake, losses, inflight, entry, ended, selected>>

None == [key |-> "none"]
NoEntry == [keys |-> {}, updated |-> -1]

Init ==
  /\ now = 0
  /\ since = [k \in {} |-> 0]
  /\ alive = TRUE /\ wake = 0 /\ ended = -1
  /\ losses = 0 /\ inflight = {}
  /\ entry = NoEntry
  /\ selected = None

\* Nothing stays undelivered or asleep past its bound.
Tick ==
  /\ now < Horizon
  /\ alive => now < wake + MaxJitter
  /\ \A m \in inflight : now < m.sent + MaxDelay
  /\ now' = now + 1
  /\ UNCHANGED <<since, alive, wake, losses, inflight, entry, ended, selected>>

\* add_local_key
AddLocalKey(k) ==
  /\ alive /\ k \notin DOMAIN since
  /\ since' = [j \in DOMAIN since \cup {k} |-> IF j = k THEN now ELSE since[j]]
  /\ UNCHANGED <<now, alive, wake, losses, inflight, entry, ended, selected>>

\* Mutant: the snapshot lacks the keys added since the last round.
MutSnapshot == {k \in DOMAIN since : since[k] < wake}

\* local_snapshot
Snapshot == DOMAIN since

\* One round of the exchange thread; the datagram, or the queue item it was
\* sent from, may be lost.
ExchangeRound ==
  /\ alive /\ now >= wake
  /\ \/ /\ inflight' = inflight \cup {[keys |-> Snapshot, sent |-> now]}
        /\ losses' = 0
     \/ /\ losses < MaxLosses
        /\ losses' = losses + 1
        /\ UNCHANGED inflight
  /\ wake' = now + ExchangeEvery
  /\ UNCHANGED <<now, since, alive, entry, ended, selected>>

Updated(m) == [keys |-> m.keys, updated |-> now]

\* handle_content_bloom and update_neighbor
UpdateNeighbor(m) ==
  /\ inflight' = inflight \ {m}
  /\ entry' = Updated(m)
  /\ UNCHANGED <<now, since, alive, wake, losses, ended, selected>>

\* Mutant: entries are never pruned.
MutStale(e) == FALSE

\* prune_locked
Stale(e) == e # NoEntry /\ now - e.updated > ContentTtl

\* select_neighbor
SelectNeighbor(k) ==
  /\ entry' = IF Stale(entry) THEN NoEntry ELSE entry
  /\ selected' = [key |-> k, at |-> now, found |-> k \in entry'.keys]
  /\ UNCHANGED <<now, since, alive, wake, losses, inflight, ended>>

Crash ==
  /\ alive
  /\ alive' = FALSE /\ ended' = now
  /\ since' = [k \in {} |-> 0]
  /\ UNCHANGED <<now, wake, losses, inflight, entry, selected>>

Restart ==
  /\ ~alive
  /\ alive' = TRUE /\ wake' = now
  /\ UNCHANGED <<now, since, losses, inflight, entry, ended, selected>>

Next ==
  \/ Tick
  \/ \E k \in Key : AddLocalKey(k) \/ SelectNeighbor(k)
  \/ ExchangeRound
  \/ \E m \in inflight : UpdateNeighbor(m)
  \/ Crash \/ Restart

Spec == Init /\ [][Next]_vars

-----------------------------------------------------------------------------
Summary == [keys : SUBSET Key, sent : Nat]

TypeOK ==
  /\ now \in Nat
  /\ DOMAIN since \subseteq Key /\ \A k \in DOMAIN since : since[k] \in Nat
  /\ alive \in BOOLEAN /\ wake \in Nat /\ losses \in 0..MaxLosses
  /\ inflight \subseteq Summary
  /\ entry \in {NoEntry} \cup [keys : SUBSET Key, updated : Nat]
  /\ ended \in Nat \cup {-1}
  /\ selected \in {None} \cup [key : Key, at : Nat, found : BOOLEAN]

\* The longest time between two summaries that arrive.
LongestGap == (MaxLosses + 1) * (ExchangeEvery + MaxJitter) + MaxDelay

(***************************************************************************)
(* "Content-BF summaries are exchanged every NETOS_CONTENT_BF_EXCHANGE_MS  *)
(* and expire after NETOS_CONTENT_BF_TTL_MS": when the TTL covers the      *)
(* rounds that may be lost, a key the peer has had for that long is found, *)
(* in spite of losses and a late exchange thread.  Summaries carry no      *)
(* version, so an older one that arrives after a newer one replaces it;    *)
(* that hides a key for one more MaxDelay and no longer.                   *)
(***************************************************************************)
HeldKeyIsFound ==
  ContentTtl >= LongestGap /\ selected # None /\ selected.at = now =>
    \A k \in DOMAIN since :
      k = selected.key /\ since[k] + LongestGap + MaxDelay < now => selected.found

(***************************************************************************)
(* A neighbor that stopped is not asked for long: select_neighbor returns  *)
(* it only within the TTL (and the time a datagram travels) after it was   *)
(* last alive.                                                             *)
(***************************************************************************)
DeadNeighborIsForgotten ==
  selected # None /\ selected.found /\ ~alive =>
    selected.at <= ended + MaxDelay + ContentTtl
=============================================================================
