----------------------------- MODULE QueryTable -----------------------------
(***************************************************************************)
(* src/netos/tables/query_table.cpp with a clock and its two callers,      *)
(* which share the table without a lock: the transport thread              *)
(* (RequestPipeline) and the scheduler thread (schedule_requests).         *)
(* record_if_new is three steps: count and prune, find, insert.  A counter *)
(* that both threads increment at once may lose an increment; that the     *)
(* container itself survives the race is assumed.                          *)
(***************************************************************************)
EXTENDS TableConfig, Sequences, FiniteSets

CONSTANTS OwnId, ForeignId,   \* ids made by this node, and by others
          MaxCalls            \* bound on the calls of record_if_new

VARIABLES
  now,         \* steady_clock
  table,       \* table_
  attempts,    \* attempts_
  duplicates,  \* duplicates_
  pruned,      \* pruned_
  call,        \* the call each thread is in
  published,   \* own ids whose request was sent
  calls,       \* ghost: number of calls
  accepted,    \* ghost: per id, the times at which it was new
  dropped      \* ghost: the latest duplicate: its id, begin and end of the call

vars == <<now, table, attempts, duplicates, pruned, call, published, calls,
          accepted, dropped>>

Thread == {"transport", "scheduler"}
Id == OwnId \cup ForeignId
Idle == [pc |-> "idle"]
None == [id |-> "none"]

Init ==
  /\ now = 0
  /\ table = [i \in {} |-> 0]
  /\ attempts = 0 /\ duplicates = 0 /\ pruned = 0
  /\ call = [th \in Thread |-> Idle]
  /\ published = {}
  /\ calls = 0
  /\ accepted = [i \in Id |-> <<>>]
  /\ dropped = None

Tick ==
  /\ now < Horizon
  /\ now' = now + 1
  /\ UNCHANGED <<table, attempts, duplicates, pruned, call, published, calls,
                 accepted, dropped>>

\* The transport thread sees ids of other nodes, and own ids that come back;
\* the scheduler makes an id for each request (make_request_id).
MayRecord(th, i) ==
  \/ th = "transport" /\ i \in ForeignId \cup published
  \/ th = "scheduler" /\ i \in OwnId \ published

Alone(th) == \A o \in Thread \ {th} : call[o] = Idle

\* ++counter without a lock.
Incremented(th, counter) ==
  IF Alone(th) THEN {counter + 1} ELSE {counter, counter + 1}

\* Mutant: the age is compared with >=.
MutExpired(i) == now - table[i] >= QueryTtl

Expired(i) == now - table[i] > QueryTtl

\* Mutant: nothing is ever pruned.
MutExpiredIds == {}

ExpiredIds == {i \in DOMAIN table : Expired(i)}

\* What prune returns.
Removed == Cardinality(ExpiredIds)

\* ++attempts_ and prune.
Enter(th, i) ==
  /\ calls < MaxCalls
  /\ call[th] = Idle
  /\ MayRecord(th, i)
  /\ attempts' \in Incremented(th, attempts)
  /\ pruned' = pruned + Removed
  /\ table' = [j \in DOMAIN table \ ExpiredIds |-> table[j]]
  /\ call' = [call EXCEPT ![th] = [pc |-> "find", id |-> i, at |-> now]]
  /\ calls' = calls + 1
  /\ UNCHANGED <<now, duplicates, published, accepted, dropped>>

\* Return: the scheduler sends its request whatever record_if_new returned.
Return(th) ==
  /\ call' = [call EXCEPT ![th] = Idle]
  /\ published' = IF th = "scheduler" THEN published \cup {call[th].id} ELSE published

\* table_.find succeeds: a duplicate.
FindHit(th) ==
  /\ call[th].pc = "find"
  /\ call[th].id \in DOMAIN table
  /\ duplicates' \in Incremented(th, duplicates)
  /\ dropped' = [id |-> call[th].id, from |-> call[th].at, to |-> now]
  /\ Return(th)
  /\ UNCHANGED <<now, table, attempts, pruned, calls, accepted>>

FindMiss(th) ==
  /\ call[th].pc = "find"
  /\ call[th].id \notin DOMAIN table
  /\ call' = [call EXCEPT ![th].pc = "insert"]
  /\ UNCHANGED <<now, table, attempts, duplicates, pruned, published, calls,
                 accepted, dropped>>

\* table_[request_id] = now
Insert(th) ==
  /\ call[th].pc = "insert"
  /\ LET i == call[th].id
     IN  /\ table' = [j \in DOMAIN table \cup {i} |-> IF j = i THEN now ELSE table[j]]
         /\ accepted' = [accepted EXCEPT ![i] = Append(@, now)]
  /\ Return(th)
  /\ UNCHANGED <<now, attempts, duplicates, pruned, calls, dropped>>

Next ==
  \/ Tick
  \/ \E th \in Thread :
       \/ \E i \in Id : Enter(th, i)
       \/ FindHit(th) \/ FindMiss(th) \/ Insert(th)

Spec == Init /\ [][Next]_vars

-----------------------------------------------------------------------------
Call ==
  {Idle} \cup [pc : {"find", "insert"}, id : Id, at : Nat]

TypeOK ==
  /\ now \in Nat
  /\ DOMAIN table \subseteq Id /\ \A i \in DOMAIN table : table[i] \in Nat
  /\ attempts \in Nat /\ duplicates \in Nat /\ pruned \in Nat
  /\ call \in [Thread -> Call]
  /\ published \subseteq OwnId
  /\ calls \in Nat
  /\ accepted \in [Id -> Seq(Nat)]
  /\ dropped \in {None} \cup [id : Id, from : Nat, to : Nat]

(***************************************************************************)
(* "Requests with a duplicate request_id within the QueryTable TTL log     *)
(* drop_duplicate": two calls that return true for one id are more than    *)
(* the TTL apart, although the two threads interleave between the prune,   *)
(* the find and the insert, and the clock moves in between.                *)
(***************************************************************************)
AcceptedApart ==
  \A i \in Id : \A m, n \in 1..Len(accepted[i]) :
    m < n => accepted[i][n] - accepted[i][m] > QueryTtl

(***************************************************************************)
(* And only such a request is dropped: when record_if_new returns false,   *)
(* the id was accepted at most the TTL before the call began, or during it *)
(* (a request is never refused because of a stale entry).                  *)
(***************************************************************************)
DroppedWasRecent ==
  dropped # None =>
    \E n \in 1..Len(accepted[dropped.id]) :
      accepted[dropped.id][n] \in (dropped.from - QueryTtl)..dropped.to
=============================================================================
