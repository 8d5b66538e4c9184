-------------------------- MODULE QueryBloomLimiter --------------------------
(***************************************************************************)
(* src/netos/tables/query_bf_limiter.cpp with a clock: allow(origin,       *)
(* digest) for the Query-BFs that handle_query_bloom would forward.        *)
(* A flow is one origin and digest, the key of an entry.                   *)
(***************************************************************************)
EXTENDS TableConfig, Sequences, FiniteSets

CONSTANTS Flow

VARIABLES
  now,       \* steady_clock
  entries,   \* entries_: window_start and attempts per flow
  granted,   \* ghost: per flow, the times at which allow returned true
  refused    \* ghost: the latest call that returned false: its flow and time

vars == <<now, entries, granted, refused>>

None == [flow |-> "none"]

Init ==
  /\ now = 0
  /\ entries = [f \in {} |-> 0]
  /\ granted = [f \in Flow |-> <<>>]
  /\ refused = None

Tick ==
  /\ now < Horizon
  /\ now' = now + 1
  /\ UNCHANGED <<entries, granted, refused>>

\* Mutant: the window is forgotten in the comparison.
MutPruned(e) == now - e.window_start > 0

Pruned(e) == now - e.window_start > 2 * BroadcastWindow

\* prune_locked
Kept == {f \in DOMAIN entries : ~Pruned(entries[f])}

Fresh == [window_start |-> now, attempts |-> 0]

\* Mutant: the attempts survive the window.
MutCurrent(f) ==
  IF f \notin Kept THEN Fresh
  ELSE IF now - entries[f].window_start > BroadcastWindow
       THEN [entries[f] EXCEPT !.window_start = now]
       ELSE entries[f]

\* The entry of the flow in its current window.
Current(f) ==
  IF f \notin Kept \/ now - entries[f].window_start > BroadcastWindow
  THEN Fresh ELSE entries[f]

Write(f, e) ==
  entries' = [g \in Kept \cup {f} |-> IF g = f THEN e ELSE entries[g]]

Grant(f) ==
  /\ Current(f).attempts < AttemptLimit
  /\ Write(f, [Current(f) EXCEPT !.attempts = @ + 1])
  /\ granted' = [granted EXCEPT ![f] = Append(@, now)]
  /\ UNCHANGED <<now, refused>>

Refuse(f) ==
  /\ Current(f).attempts >= AttemptLimit
  /\ Write(f, Current(f))
  /\ refused' = [flow |-> f, at |-> now]
  /\ UNCHANGED <<now, granted>>

\* allow; validate_config keeps the limit and the window positive.
Allow(f) == Grant(f) \/ Refuse(f)

Next == Tick \/ \E f \in Flow : Allow(f)

Spec == Init /\ [][Next]_vars

-----------------------------------------------------------------------------
TypeOK ==
  /\ now \in Nat
  /\ DOMAIN entries \subseteq Flow
  /\ \A f \in DOMAIN entries :
       entries[f] \in [window_start : Nat, attempts : 1..AttemptLimit]
  /\ granted \in [Flow -> Seq(Nat)]
  /\ refused \in {None} \cup [flow : Flow, at : Nat]

(***************************************************************************)
(* "Query-BF forwards are capped by NETOS_BROADCAST_ATTEMPT_LIMIT within   *)
(* NETOS_BROADCAST_WINDOW_MS": windows are fixed, so no stretch of time as *)
(* long as a window holds more than twice the limit, wherever it begins    *)
(* and however entries are pruned and created again.                       *)
(***************************************************************************)
ForwardsCapped ==
  \A f \in Flow : \A i \in 1..Len(granted[f]) :
    i + 2 * AttemptLimit <= Len(granted[f]) =>
      granted[f][i + 2 * AttemptLimit] - granted[f][i] > BroadcastWindow

(***************************************************************************)
(* A forward is refused only when the flow has used up its limit in the    *)
(* window before: old attempts never count, whatever other flows do.       *)
(***************************************************************************)
RefusedOnlyAtLimit ==
  refused # None =>
    LET times == granted[refused.flow]
    IN  AttemptLimit <=
          Cardinality({i \in 1..Len(times) :
                         times[i] \in (refused.at - BroadcastWindow)..refused.at})
=============================================================================
