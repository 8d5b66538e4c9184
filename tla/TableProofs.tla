----------------------------- MODULE TableProofs -----------------------------
(***************************************************************************)
(* The timed tables of a node, for every setting that validate_config      *)
(* accepts, every set of ids, flows and keys, and any number of calls: the *)
(* QueryTable, the limiter of Query-BF forwards, the summaries that are    *)
(* exchanged with a peer, and the two threads that a request passes        *)
(* through before it is broadcast.                                         *)
(***************************************************************************)
EXTENDS Parts, SequenceTheorems, FiniteSetTheorems, TLAPS

\* What a call that records one more time does to a list of times.
LEMMA AppendTime ==
  ASSUME NEW s \in Seq(Nat), NEW t \in Nat
  PROVE  /\ Append(s, t) \in Seq(Nat)
         /\ Len(s) \in Nat
         /\ Len(Append(s, t)) = Len(s) + 1
         /\ \A n \in 1..Len(s) : Append(s, t)[n] = s[n]
         /\ Append(s, t)[Len(s) + 1] = t
  OBVIOUS

-----------------------------------------------------------------------------
(* The QueryTable.                                                         *)

\* The two threads never record the same id at a time: the transport thread
\* sees an id of this node only after the scheduler has sent it.
QueryIdsApart ==
  /\ qCall["transport"] # Query!Idle =>
       qCall["transport"].id \in ForeignId \cup qPublished
  /\ qCall["scheduler"] # Query!Idle =>
       qCall["scheduler"].id \in OwnId \ qPublished

\* table_ holds the latest time at which an id was accepted, and an id that
\* is not in it was accepted more than the TTL ago, if at all.
QueryLatest ==
  \A i \in Query!Id :
    LET times == qAccepted[i]
    IN  /\ \A n \in 1..Len(times) : times[n] <= now
        /\ i \in DOMAIN qTable => times # <<>> /\ qTable[i] = times[Len(times)]
        /\ i \notin DOMAIN qTable /\ times # <<>> =>
             now - times[Len(times)] > QueryTtl

\* What a call has established when it stands between two of its steps: prune
\* left no expired entry of the id, and after a miss the id is not there.
QueryCallKnows ==
  \A th \in Query!Thread :
    qCall[th] # Query!Idle =>
      LET i == qCall[th].id
      IN  /\ i \in DOMAIN qTable => qCall[th].at - qTable[i] <= QueryTtl
          /\ qCall[th].pc = "insert" => i \notin DOMAIN qTable

\* The inductive invariant of the QueryTable.
QueryInv ==
  /\ Query!TypeOK /\ IsFiniteSet(DOMAIN qTable)
  /\ QueryIdsApart /\ QueryLatest /\ QueryCallKnows
  /\ AcceptedApart /\ DroppedWasRecent

\* The empty table has accepted nothing.
LEMMA QueryInit == Query!Init => QueryInv
<1> SUFFICES ASSUME Query!Init PROVE QueryInv
  OBVIOUS
<1> USE DEF Query!Init, Query!Id, Query!Thread, Query!Idle, Query!None
<1>1. DOMAIN qTable = {} /\ IsFiniteSet(DOMAIN qTable)
  BY FS_EmptySet
<1>2. \A i \in Query!Id : qAccepted[i] = <<>> /\ qAccepted[i] \in Seq(Nat)
  OBVIOUS
<1>3. Query!TypeOK
  BY <1>1, <1>2 DEF Query!TypeOK, Query!Call
<1>4. QueryIdsApart /\ QueryLatest /\ QueryCallKnows
  BY <1>1, <1>2 DEF QueryIdsApart, QueryLatest, QueryCallKnows
<1>5. AcceptedApart /\ DroppedWasRecent
  BY <1>2 DEF AcceptedApart, DroppedWasRecent, Query!AcceptedApart, Query!DroppedWasRecent
<1> QED BY <1>1, <1>3, <1>4, <1>5 DEF QueryInv

\* The number of entries that prune removes.
LEMMA QueryCardinality == \A S : Query!Cardinality(S) = Cardinality(S)
  BY DEF Query!Cardinality, Cardinality

\* Time passes while calls of record_if_new are under way.
LEMMA QueryTick == QueryInv /\ Query!Tick => QueryInv'
<1> SUFFICES ASSUME QueryInv, Query!Tick PROVE QueryInv'
  OBVIOUS
<1> USE DEF Query!Tick
<1>1. now \in Nat /\ now' = now + 1 /\ qAccepted \in [Query!Id -> Seq(Nat)]
  BY DEF QueryInv, Query!TypeOK
<1>2. Query!TypeOK' /\ IsFiniteSet(DOMAIN qTable)'
  BY <1>1 DEF QueryInv, Query!TypeOK
<1>3. QueryIdsApart' /\ QueryCallKnows'
  BY DEF QueryInv, QueryIdsApart, QueryCallKnows
<1>4. QueryLatest'
  <2> SUFFICES ASSUME NEW i \in Query!Id
               PROVE  /\ \A n \in 1..Len(qAccepted[i]) : qAccepted[i][n] <= now + 1
                      /\ i \in DOMAIN qTable =>
                           /\ qAccepted[i] # <<>>
                           /\ qTable[i] = qAccepted[i][Len(qAccepted[i])]
                      /\ i \notin DOMAIN qTable /\ qAccepted[i] # <<>> =>
                           now + 1 - qAccepted[i][Len(qAccepted[i])] > QueryTtl
    BY <1>1 DEF QueryLatest
  <2>1. qAccepted[i] \in Seq(Nat)
    BY <1>1
  <2>2. qAccepted[i] # <<>> => qAccepted[i][Len(qAccepted[i])] \in Nat
    BY <2>1
  <2> QED BY <1>1, <2>1, <2>2, TableAssumption DEF QueryInv, QueryLatest, Positive
<1>5. AcceptedApart' /\ DroppedWasRecent'
  BY DEF QueryInv, AcceptedApart, DroppedWasRecent, Query!AcceptedApart,
         Query!DroppedWasRecent
<1> QED BY <1>2, <1>3, <1>4, <1>5 DEF QueryInv

\* A call that begins prunes expired entries and no other.
LEMMA QueryEnter ==
  ASSUME QueryInv, NEW th \in Query!Thread, NEW i \in Query!Id, Query!Enter(th, i)
  PROVE  QueryInv'
<1> USE DEF Query!Enter
<1>1. /\ now \in Nat /\ now' = now /\ qAccepted \in [Query!Id -> Seq(Nat)]
      /\ qAccepted' = qAccepted /\ qDropped' = qDropped /\ qPublished' = qPublished
      /\ qCall \in [Query!Thread -> Query!Call]
      /\ DOMAIN qTable \subseteq Query!Id /\ \A j \in DOMAIN qTable : qTable[j] \in Nat
  BY DEF QueryInv, Query!TypeOK
<1>2. /\ DOMAIN qTable' = DOMAIN qTable \ Query!ExpiredIds
      /\ \A j \in DOMAIN qTable' : qTable'[j] = qTable[j]
  OBVIOUS
<1>3. \A j \in DOMAIN qTable : j \in DOMAIN qTable' <=> now - qTable[j] <= QueryTtl
  BY <1>1, <1>2, TableAssumption DEF Query!ExpiredIds, Query!Expired, Positive
<1>4. IsFiniteSet(Query!ExpiredIds) /\ IsFiniteSet(DOMAIN qTable')
  BY <1>2, FS_Subset DEF QueryInv, Query!ExpiredIds
<1>5. Query!Removed \in Nat
  BY <1>4, FS_CardinalityType, QueryCardinality DEF Query!Removed
<1>6. qCall' = [qCall EXCEPT ![th] = [pc |-> "find", id |-> i, at |-> now]]
  OBVIOUS
<1>7. qCall' \in [Query!Thread -> Query!Call]
  BY <1>1, <1>6 DEF Query!Call
<1>8. qAttempts' \in Nat /\ qPruned' \in Nat
  BY <1>5 DEF QueryInv, Query!TypeOK, Query!Incremented
<1>9. Query!TypeOK'
  <2>1. DOMAIN qTable' \subseteq Query!Id /\ \A j \in DOMAIN qTable' : qTable'[j] \in Nat
    BY <1>1, <1>2
  <2> QED BY <2>1, <1>7, <1>8 DEF QueryInv, Query!TypeOK
<1>10. QueryIdsApart'
  BY <1>1, <1>6 DEF QueryInv, QueryIdsApart, Query!MayRecord, Query!Thread
<1>11. QueryLatest'
  <2> SUFFICES ASSUME NEW j \in Query!Id
               PROVE  /\ \A n \in 1..Len(qAccepted[j]) : qAccepted[j][n] <= now
                      /\ j \in DOMAIN qTable' =>
                           /\ qAccepted[j] # <<>>
                           /\ qTable'[j] = qAccepted[j][Len(qAccepted[j])]
                      /\ j \notin DOMAIN qTable' /\ qAccepted[j] # <<>> =>
                           now - qAccepted[j][Len(qAccepted[j])] > QueryTtl
    BY <1>1 DEF QueryLatest
  <2>1. j \in DOMAIN qTable => qTable[j] = qAccepted[j][Len(qAccepted[j])] /\ qTable[j] \in Nat
    BY <1>1 DEF QueryInv, QueryLatest
  <2> QED BY <1>1, <1>2, <1>3, <2>1, TableAssumption DEF QueryInv, QueryLatest, Positive
<1>12. QueryCallKnows'
  <2> SUFFICES ASSUME NEW u \in Query!Thread, qCall'[u] # Query!Idle
               PROVE  /\ qCall'[u].id \in DOMAIN qTable' =>
                           qCall'[u].at - qTable'[qCall'[u].id] <= QueryTtl
                      /\ qCall'[u].pc = "insert" => qCall'[u].id \notin DOMAIN qTable'
    BY DEF QueryCallKnows
  <2>1. CASE u = th
    BY <2>1, <1>1, <1>2, <1>3, <1>6
  <2>2. CASE u # th
    BY <2>2, <1>1, <1>2, <1>6 DEF QueryInv, QueryCallKnows
  <2> QED BY <2>1, <2>2
<1>13. AcceptedApart' /\ DroppedWasRecent'
  BY DEF QueryInv, AcceptedApart, DroppedWasRecent, Query!AcceptedApart,
         Query!DroppedWasRecent
<1> QED BY <1>4, <1>9, <1>10, <1>11, <1>12, <1>13 DEF QueryInv

\* A call that returns leaves the ids of the two threads apart.
LEMMA QueryReturn ==
  ASSUME QueryInv, NEW th \in Query!Thread, qCall[th] # Query!Idle, Query!Return(th)
  PROVE  /\ qCall' \in [Query!Thread -> Query!Call] /\ qPublished' \subseteq OwnId
         /\ QueryIdsApart'
         /\ \A u \in Query!Thread : qCall'[u] # Query!Idle => u # th /\ qCall'[u] = qCall[u]
<1>1. /\ qCall \in [Query!Thread -> Query!Call] /\ qPublished \subseteq OwnId
      /\ QueryIdsApart
  BY DEF QueryInv, Query!TypeOK
<1>2. qCall' = [qCall EXCEPT ![th] = Query!Idle]
  BY DEF Query!Return
<1>3. qCall' \in [Query!Thread -> Query!Call]
  BY <1>1, <1>2 DEF Query!Call
<1>4. qPublished' \subseteq OwnId
  BY <1>1 DEF Query!Return, QueryIdsApart, Query!Thread
<1>5. QueryIdsApart'
  BY <1>1, <1>2 DEF Query!Return, QueryIdsApart, Query!Thread
<1> QED BY <1>1, <1>2, <1>3, <1>4, <1>5

\* A duplicate: what is dropped was accepted at the time in the table.
LEMMA QueryFindHit ==
  ASSUME QueryInv, NEW th \in Query!Thread, Query!FindHit(th)
  PROVE  QueryInv'
<1> USE DEF Query!FindHit
<1>1. /\ now \in Nat /\ now' = now /\ qAccepted \in [Query!Id -> Seq(Nat)]
      /\ qAccepted' = qAccepted /\ qTable' = qTable
      /\ qCall \in [Query!Thread -> Query!Call]
      /\ DOMAIN qTable \subseteq Query!Id /\ \A j \in DOMAIN qTable : qTable[j] \in Nat
  BY DEF QueryInv, Query!TypeOK
<1>2. qCall[th] # Query!Idle /\ Query!Return(th)
  BY DEF Query!Idle
<1>3. qCall[th].id \in Query!Id /\ qCall[th].at \in Nat
  BY <1>1, <1>2 DEF Query!Call
<1>4. qDuplicates' \in Nat
  BY DEF QueryInv, Query!TypeOK, Query!Incremented
<1>5. qDropped' = [id |-> qCall[th].id, from |-> qCall[th].at, to |-> now]
  OBVIOUS
<1>6. Query!TypeOK' /\ IsFiniteSet(DOMAIN qTable)'
  <2>1. qDropped' \in [id : Query!Id, from : Nat, to : Nat]
    BY <1>1, <1>3, <1>5
  <2> QED BY <1>1, <1>2, <1>4, <2>1, QueryReturn DEF QueryInv, Query!TypeOK
<1>7. QueryIdsApart' /\ QueryCallKnows'
  BY <1>1, <1>2, QueryReturn DEF QueryInv, QueryCallKnows
<1>8. QueryLatest' /\ AcceptedApart'
  BY <1>1 DEF QueryInv, QueryLatest, AcceptedApart, Query!AcceptedApart
<1>9. DroppedWasRecent'
  <2> DEFINE i == qCall[th].id
             times == qAccepted[i]
  <2>1. times \in Seq(Nat) /\ times # <<>> /\ qTable[i] = times[Len(times)]
        /\ times[Len(times)] <= now /\ qCall[th].at - qTable[i] <= QueryTtl
        /\ qTable[i] \in Nat
    <3>1. times \in Seq(Nat) /\ times # <<>> /\ qTable[i] = times[Len(times)]
          /\ \A n \in 1..Len(times) : times[n] <= now
      BY <1>1, <1>3 DEF QueryInv, QueryLatest
    <3>2. Len(times) \in 1..Len(times)
      BY <3>1
    <3> QED BY <1>1, <1>2, <1>3, <3>1, <3>2 DEF QueryInv, QueryCallKnows
  <2>2. Len(times) \in 1..Len(times)
    BY <2>1
  <2>3. times[Len(times)] \in (qCall[th].at - QueryTtl)..now
    BY <1>1, <1>3, <2>1, TableAssumption DEF Positive
  <2> QED BY <1>1, <1>5, <2>2, <2>3 DEF DroppedWasRecent, Query!DroppedWasRecent
<1> QED BY <1>6, <1>7, <1>8, <1>9 DEF QueryInv

\* find misses the id: the call goes on to insert it.
LEMMA QueryFindMiss ==
  ASSUME QueryInv, NEW th \in Query!Thread, Query!FindMiss(th)
  PROVE  QueryInv'
<1> USE DEF Query!FindMiss
<1>1. qCall \in [Query!Thread -> Query!Call] /\ qCall' = [qCall EXCEPT ![th].pc = "insert"]
  BY DEF QueryInv, Query!TypeOK
<1>2. qCall[th] \in [pc : {"find", "insert"}, id : Query!Id, at : Nat]
  BY <1>1 DEF Query!Call, Query!Idle
<1>3. /\ qCall'[th] \in [pc : {"find", "insert"}, id : Query!Id, at : Nat]
      /\ qCall'[th].id = qCall[th].id /\ qCall'[th].at = qCall[th].at
      /\ \A u \in Query!Thread \ {th} : qCall'[u] = qCall[u]
  BY <1>1, <1>2
<1>4. qCall' \in [Query!Thread -> Query!Call]
  BY <1>1, <1>3 DEF Query!Call
<1>5. qCall[th] # Query!Idle
  BY <1>2 DEF Query!Idle
<1>6. Query!TypeOK' /\ IsFiniteSet(DOMAIN qTable)'
  BY <1>4 DEF QueryInv, Query!TypeOK
<1>7. QueryIdsApart'
  BY <1>3, <1>5 DEF QueryInv, QueryIdsApart, Query!Thread
<1>8. QueryCallKnows'
  BY <1>3, <1>5 DEF QueryInv, QueryCallKnows
<1>9. QueryLatest' /\ AcceptedApart' /\ DroppedWasRecent'
  BY DEF QueryInv, QueryLatest, AcceptedApart, DroppedWasRecent,
         Query!AcceptedApart, Query!DroppedWasRecent
<1> QED BY <1>6, <1>7, <1>8, <1>9 DEF QueryInv

\* A new id: its latest acceptance, if any, was more than the TTL ago, and the
\* other thread is recording another id.
LEMMA QueryInsert ==
  ASSUME QueryInv, NEW th \in Query!Thread, Query!Insert(th)
  PROVE  QueryInv'
<1> DEFINE i == qCall[th].id
           old == qAccepted[i]
           new == Append(old, now)
<1> USE DEF Query!Insert
<1>1. /\ now \in Nat /\ now' = now /\ qAccepted \in [Query!Id -> Seq(Nat)]
      /\ qDropped' = qDropped
      /\ qAccepted' = [qAccepted EXCEPT ![i] = Append(@, now)]
      /\ qCall \in [Query!Thread -> Query!Call]
      /\ DOMAIN qTable \subseteq Query!Id /\ \A j \in DOMAIN qTable : qTable[j] \in Nat
  BY DEF QueryInv, Query!TypeOK
<1>2. /\ qCall[th] # Query!Idle /\ Query!Return(th)
      /\ qTable' = [j \in DOMAIN qTable \cup {i} |-> IF j = i THEN now ELSE qTable[j]]
  BY DEF Query!Idle
<1>3. i \in Query!Id /\ old \in Seq(Nat)
  BY <1>1, <1>2 DEF Query!Call
<1>4. i \notin DOMAIN qTable
  BY <1>2 DEF QueryInv, QueryCallKnows
<1>5. /\ DOMAIN qTable' = DOMAIN qTable \cup {i} /\ qTable'[i] = now
      /\ \A j \in DOMAIN qTable : qTable'[j] = qTable[j]
  BY <1>2, <1>4
<1>6. /\ new \in Seq(Nat) /\ Len(old) \in Nat /\ Len(new) = Len(old) + 1
      /\ \A n \in 1..Len(old) : new[n] = old[n]
      /\ new[Len(old) + 1] = now
  BY <1>1, <1>3, AppendTime
<1>7. /\ qAccepted' \in [Query!Id -> Seq(Nat)] /\ qAccepted'[i] = new
      /\ \A j \in Query!Id \ {i} : qAccepted'[j] = qAccepted[j]
  <2> HIDE DEF i
  <2> QED BY <1>1, <1>3, <1>6
<1> HIDE DEF new, Query!Insert
<1>8. \A n \in 1..Len(old) : old[n] \in Nat /\ now - old[n] > QueryTtl
  <2> SUFFICES ASSUME NEW n \in 1..Len(old) PROVE old[n] \in Nat /\ now - old[n] > QueryTtl
    OBVIOUS
  <2>1. old # <<>> /\ Len(old) \in 1..Len(old)
    BY <1>3
  <2>2. old[n] \in Nat /\ old[Len(old)] \in Nat
    BY <1>3, <2>1
  <2>3. now - old[Len(old)] > QueryTtl
    BY <1>3, <1>4, <2>1 DEF QueryInv, QueryLatest
  <2>4. n < Len(old) => old[Len(old)] - old[n] > QueryTtl
    BY <1>3, <2>1 DEF QueryInv, AcceptedApart, Query!AcceptedApart
  <2>5. n < Len(old) \/ n = Len(old)
    BY <1>6
  <2>6. now \in Nat /\ QueryTtl \in Nat
    BY <1>1, TableAssumption DEF Positive
  <2> HIDE DEF old
  <2>7. CASE n = Len(old)
    BY <2>2, <2>3, <2>7
  <2>8. CASE n < Len(old)
    BY <2>2, <2>3, <2>4, <2>6, <2>8
  <2> QED BY <2>5, <2>7, <2>8
<1>9. \A u \in Query!Thread \ {th} : qCall[u] # Query!Idle => qCall[u].id # i
  BY <1>2, PartsAssumption DEF QueryInv, QueryIdsApart, Query!Thread
<1>10. Query!TypeOK' /\ IsFiniteSet(DOMAIN qTable)'
  <2>1. DOMAIN qTable' \subseteq Query!Id /\ \A j \in DOMAIN qTable' : qTable'[j] \in Nat
    BY <1>1, <1>3, <1>5
  <2>2. IsFiniteSet(DOMAIN qTable')
    BY <1>5, FS_AddElement DEF QueryInv
  <2>3. qCall' \in [Query!Thread -> Query!Call] /\ qPublished' \subseteq OwnId
    BY <1>2, QueryReturn
  <2> QED BY <1>7, <2>1, <2>2, <2>3 DEF QueryInv, Query!TypeOK, Query!Insert
<1>11. QueryIdsApart'
  BY <1>2, QueryReturn
<1>12. QueryLatest'
  <2> SUFFICES ASSUME NEW j \in Query!Id
               PROVE  /\ \A n \in 1..Len(qAccepted'[j]) : qAccepted'[j][n] <= now
                      /\ j \in DOMAIN qTable' =>
                           /\ qAccepted'[j] # <<>>
                           /\ qTable'[j] = qAccepted'[j][Len(qAccepted'[j])]
                      /\ j \notin DOMAIN qTable' /\ qAccepted'[j] # <<>> =>
                           now - qAccepted'[j][Len(qAccepted'[j])] > QueryTtl
    BY <1>1 DEF QueryLatest
  <2>1. CASE j = i
    <3>1. \A n \in 1..Len(new) : new[n] <= now
      <4> SUFFICES ASSUME NEW n \in 1..Len(new) PROVE new[n] <= now
        OBVIOUS
      <4>1. CASE n = Len(old) + 1
        BY <1>1, <1>6, <4>1
      <4>2. CASE n \in 1..Len(old)
        BY <1>3, <1>6, <4>2 DEF QueryInv, QueryLatest
      <4>3. n = Len(old) + 1 \/ n \in 1..Len(old)
        <5> HIDE DEF old
        <5> QED BY <1>6
      <4> QED BY <4>1, <4>2, <4>3
    <3>2. new # <<>> /\ new[Len(new)] = now
      BY <1>6
    <3> QED BY <1>5, <1>7, <2>1, <3>1, <3>2
  <2>2. CASE j # i
    BY <1>5, <1>7, <2>2 DEF QueryInv, QueryLatest
  <2> QED BY <2>1, <2>2
<1>13. QueryCallKnows'
  <2> SUFFICES ASSUME NEW u \in Query!Thread, qCall'[u] # Query!Idle
               PROVE  /\ qCall'[u].id \in DOMAIN qTable' =>
                           qCall'[u].at - qTable'[qCall'[u].id] <= QueryTtl
                      /\ qCall'[u].pc = "insert" => qCall'[u].id \notin DOMAIN qTable'
    BY DEF QueryCallKnows
  <2>1. u # th /\ qCall'[u] = qCall[u]
    BY <1>2, QueryReturn
  <2> QED BY <1>5, <1>9, <2>1 DEF QueryInv, QueryCallKnows
<1>14. AcceptedApart'
  <2> SUFFICES ASSUME NEW j \in Query!Id, NEW m \in 1..Len(qAccepted'[j]),
                      NEW n \in 1..Len(qAccepted'[j]), m < n
               PROVE  qAccepted'[j][n] - qAccepted'[j][m] > QueryTtl
    BY DEF AcceptedApart, Query!AcceptedApart
  <2>1. CASE j # i
    BY <1>7, <2>1 DEF QueryInv, AcceptedApart, Query!AcceptedApart
  <2>2. CASE j = i /\ n = Len(old) + 1
    <3>1. m \in 1..Len(old)
      BY <1>6, <1>7, <2>2
    <3> QED BY <1>6, <1>7, <1>8, <2>2, <3>1
  <2>3. CASE j = i /\ n # Len(old) + 1
    <3>1. m \in 1..Len(old) /\ n \in 1..Len(old)
      <4>1. m \in 1..Len(new) /\ n \in 1..Len(new)
        BY <1>7, <2>3
      <4> HIDE DEF old
      <4> QED BY <1>6, <2>3, <4>1
    <3>2. old[n] - old[m] > QueryTtl
      BY <1>3, <3>1 DEF QueryInv, AcceptedApart, Query!AcceptedApart
    <3> QED BY <1>6, <1>7, <2>3, <3>1, <3>2
  <2> QED BY <2>1, <2>2, <2>3
<1>15. DroppedWasRecent'
  <2> SUFFICES ASSUME qDropped # Query!None
               PROVE  \E n \in 1..Len(qAccepted'[qDropped.id]) :
                        qAccepted'[qDropped.id][n]
                          \in (qDropped.from - QueryTtl)..qDropped.to
    BY <1>1 DEF DroppedWasRecent, Query!DroppedWasRecent
  <2>1. PICK n \in 1..Len(qAccepted[qDropped.id]) :
          qAccepted[qDropped.id][n] \in (qDropped.from - QueryTtl)..qDropped.to
    BY DEF QueryInv, DroppedWasRecent, Query!DroppedWasRecent
  <2>2. qDropped.id \in Query!Id
    BY DEF QueryInv, Query!TypeOK
  <2>3. n \in 1..Len(qAccepted'[qDropped.id])
        /\ qAccepted'[qDropped.id][n] = qAccepted[qDropped.id][n]
    <3>1. CASE qDropped.id # i
      BY <1>7, <2>2, <3>1
    <3>2. CASE qDropped.id = i
      <4>1. n \in 1..Len(old) /\ qAccepted'[qDropped.id] = new
            /\ qAccepted[qDropped.id] = old
        BY <1>7, <3>2
      <4> HIDE DEF old
      <4>2. n \in 1..Len(new) /\ new[n] = old[n]
        BY <1>6, <4>1
      <4> QED BY <4>1, <4>2
    <3> QED BY <3>1, <3>2
  <2> QED BY <2>1, <2>3
<1> QED BY <1>10, <1>11, <1>12, <1>13, <1>14, <1>15 DEF QueryInv

\* Every step of the QueryTable keeps its invariant.
LEMMA QueryStep == QueryInv /\ [Query!Next]_(Query!vars) => QueryInv'
<1> SUFFICES ASSUME QueryInv, [Query!Next]_(Query!vars) PROVE QueryInv'
  OBVIOUS
<1>1. CASE UNCHANGED Query!vars
  BY <1>1 DEF Query!vars, QueryInv, Query!TypeOK, QueryIdsApart, QueryLatest, QueryCallKnows,
              AcceptedApart, DroppedWasRecent, Query!AcceptedApart, Query!DroppedWasRecent
<1>2. CASE Query!Next
  BY <1>2, QueryTick, QueryEnter, QueryFindHit, QueryFindMiss, QueryInsert DEF Query!Next
<1> QED BY <1>1, <1>2

\* record_if_new never returns true twice for an id within the TTL, however the
\* transport and the scheduler thread interleave between its prune, find and
\* insert, for any TTL and any ids of this and of other nodes.
THEOREM QueryTableAcceptedApart == Query!Spec => []AcceptedApart
<1>1. QueryInv => AcceptedApart
  BY DEF QueryInv
<1> QED BY <1>1, QueryInit, QueryStep, PTL DEF Query!Spec

\* record_if_new returns false only for an id that was accepted within the TTL
\* before the call began, or during it: a stale entry refuses no request.
THEOREM QueryTableDroppedWasRecent == Query!Spec => []DroppedWasRecent
<1>1. QueryInv => DroppedWasRecent
  BY DEF QueryInv
<1> QED BY <1>1, QueryInit, QueryStep, PTL DEF Query!Spec

-----------------------------------------------------------------------------
(* The limiter of Query-BF forwards.                                       *)

\* An entry with this window_start and these attempts, and the times at which
\* its flow was granted a forward: the last of them, as many as attempts, fall
\* into the window; the ones before do not, and all but AttemptLimit of those
\* are older than the window by more than a window.
WindowHolds(times, start, attempts) ==
  /\ attempts <= Len(times)
  /\ \A i \in 1..Len(times) :
       /\ times[i] <= start + BroadcastWindow
       /\ i + attempts <= Len(times) => times[i] <= start
       /\ i + attempts > Len(times) => times[i] >= start
       /\ i + attempts + AttemptLimit <= Len(times) => start - times[i] > BroadcastWindow

\* The window that a grant begins or continues, with the grant in it.
LEMMA WindowGrows ==
  ASSUME NEW times \in Seq(Nat), NEW t \in Nat, NEW start \in Nat, NEW attempts \in Nat,
         start <= t, t - start <= BroadcastWindow,
         WindowHolds(times, start, attempts)
  PROVE  WindowHolds(Append(times, t), start, attempts + 1)
<1> DEFINE new == Append(times, t)
<1>1. /\ new \in Seq(Nat) /\ Len(times) \in Nat /\ Len(new) = Len(times) + 1
      /\ \A n \in 1..Len(times) : new[n] = times[n]
      /\ new[Len(times) + 1] = t
  BY AppendTime
<1>2. BroadcastWindow \in Nat /\ AttemptLimit \in Nat \ {0}
  BY TableAssumption DEF Positive
<1>3. \A n \in 1..Len(times) : times[n] \in Nat
  OBVIOUS
<1> HIDE DEF new
<1>4. attempts + 1 <= Len(new)
  BY <1>1 DEF WindowHolds
<1>5. ASSUME NEW i \in 1..Len(new)
      PROVE  /\ new[i] <= start + BroadcastWindow
             /\ i + (attempts + 1) <= Len(new) => new[i] <= start
             /\ i + (attempts + 1) > Len(new) => new[i] >= start
             /\ i + (attempts + 1) + AttemptLimit <= Len(new) =>
                  start - new[i] > BroadcastWindow
  <2>1. CASE i = Len(times) + 1
    BY <1>1, <1>2, <2>1
  <2>2. CASE i \in 1..Len(times)
    <3>1. /\ times[i] <= start + BroadcastWindow
          /\ i + attempts <= Len(times) => times[i] <= start
          /\ i + attempts > Len(times) => times[i] >= start
          /\ i + attempts + AttemptLimit <= Len(times) => start - times[i] > BroadcastWindow
      BY <2>2 DEF WindowHolds
    <3>2. new[i] = times[i]
      BY <1>1, <2>2
    <3> QED BY <1>1, <1>2, <3>1, <3>2
  <2> QED BY <1>1, <2>1, <2>2
<1> QED BY <1>4, <1>5 DEF WindowHolds, new

\* What is known of a flow: its entry, or that its grants are long past.
FlowKnown(f) ==
  /\ \A i \in 1..Len(lGranted[f]) : lGranted[f][i] <= now
  /\ f \in DOMAIN lEntries =>
       /\ lEntries[f].window_start <= now
       /\ WindowHolds(lGranted[f], lEntries[f].window_start, lEntries[f].attempts)
  /\ f \notin DOMAIN lEntries =>
       \A i \in 1..Len(lGranted[f]) : now - lGranted[f][i] > BroadcastWindow

\* The inductive invariant of the limiter.
LimiterInv ==
  /\ Limiter!TypeOK
  /\ \A f \in Flow : FlowKnown(f)
  /\ ForwardsCapped /\ RefusedOnlyAtLimit

\* The limiter counts with the same Cardinality.
LEMMA LimiterCardinality == \A S : Limiter!Cardinality(S) = Cardinality(S)
  BY DEF Limiter!Cardinality, Cardinality

\* The limiter starts without entries and grants.
LEMMA LimiterInit == Limiter!Init => LimiterInv
<1> SUFFICES ASSUME Limiter!Init PROVE LimiterInv
  OBVIOUS
<1> USE DEF Limiter!Init, Limiter!None
<1>1. DOMAIN lEntries = {} /\ \A f \in Flow : lGranted[f] = <<>>
  OBVIOUS
<1>2. Limiter!TypeOK
  BY <1>1 DEF Limiter!TypeOK
<1>3. \A f \in Flow : FlowKnown(f)
  BY <1>1 DEF FlowKnown
<1>4. ForwardsCapped /\ RefusedOnlyAtLimit
  BY <1>1 DEF ForwardsCapped, RefusedOnlyAtLimit, Limiter!ForwardsCapped,
              Limiter!RefusedOnlyAtLimit
<1> QED BY <1>2, <1>3, <1>4 DEF LimiterInv

\* Time passes between calls of allow.
LEMMA LimiterTick == LimiterInv /\ Limiter!Tick => LimiterInv'
<1> SUFFICES ASSUME LimiterInv, Limiter!Tick PROVE LimiterInv'
  OBVIOUS
<1>1. /\ now \in Nat /\ now' = now + 1 /\ lGranted \in [Flow -> Seq(Nat)]
      /\ lGranted' = lGranted /\ lEntries' = lEntries /\ lRefused' = lRefused
      /\ \A f \in DOMAIN lEntries : lEntries[f].window_start \in Nat
  BY DEF Limiter!Tick, LimiterInv, Limiter!TypeOK
<1>2. Limiter!TypeOK'
  BY <1>1 DEF LimiterInv, Limiter!TypeOK
<1>3. ASSUME NEW f \in Flow PROVE FlowKnown(f)'
  <2>1. BroadcastWindow \in Nat
    BY TableAssumption DEF Positive
  <2>2. \A i \in 1..Len(lGranted[f]) : lGranted[f][i] \in Nat
    BY <1>1
  <2>3. FlowKnown(f)
    BY DEF LimiterInv
  <2> QED BY <1>1, <2>1, <2>2, <2>3 DEF FlowKnown, WindowHolds
<1>4. ForwardsCapped' /\ RefusedOnlyAtLimit'
  BY <1>1 DEF LimiterInv, ForwardsCapped, RefusedOnlyAtLimit, Limiter!ForwardsCapped,
              Limiter!RefusedOnlyAtLimit
<1> QED BY <1>2, <1>3, <1>4 DEF LimiterInv

\* Pruning and writing one entry does not disturb what is known of another flow.
LEMMA LimiterOtherFlow ==
  ASSUME LimiterInv, NEW f \in Flow, NEW g \in Flow \ {f}, NEW e,
         Limiter!Write(f, e), now' = now, lGranted'[g] = lGranted[g]
  PROVE  FlowKnown(g)'
<1>1. /\ now \in Nat /\ lGranted[g] \in Seq(Nat) /\ FlowKnown(g)
      /\ \A h \in DOMAIN lEntries : lEntries[h].window_start \in Nat
  BY DEF LimiterInv, Limiter!TypeOK
<1>2. g \in DOMAIN lEntries' <=> g \in Limiter!Kept
  BY DEF Limiter!Write
<1>3. g \in Limiter!Kept => g \in DOMAIN lEntries /\ lEntries'[g] = lEntries[g]
  BY DEF Limiter!Write, Limiter!Kept
<1>4. CASE g \in Limiter!Kept
  BY <1>1, <1>2, <1>3, <1>4 DEF FlowKnown, WindowHolds
<1>5. CASE g \notin Limiter!Kept
  <2>1. BroadcastWindow \in Nat /\ \A i \in 1..Len(lGranted[g]) : lGranted[g][i] \in Nat
    BY <1>1, TableAssumption DEF Positive
  <2>2. ASSUME NEW i \in 1..Len(lGranted[g]) PROVE now - lGranted[g][i] > BroadcastWindow
    <3>1. CASE g \notin DOMAIN lEntries
      BY <1>1, <3>1 DEF FlowKnown
    <3>2. CASE g \in DOMAIN lEntries
      <4>1. now - lEntries[g].window_start > 2 * BroadcastWindow
        BY <1>5, <3>2 DEF Limiter!Kept, Limiter!Pruned
      <4>2. lGranted[g][i] <= lEntries[g].window_start + BroadcastWindow
        BY <1>1, <3>2 DEF FlowKnown, WindowHolds
      <4>3. lEntries[g].window_start \in Nat /\ lGranted[g][i] \in Nat
            /\ now \in Nat /\ BroadcastWindow \in Nat
        BY <1>1, <2>1, <3>2
      <4> QED BY <4>1, <4>2, <4>3, SMTT(40)
    <3> QED BY <3>1, <3>2
  <2> QED BY <1>1, <1>2, <1>5, <2>2 DEF FlowKnown
<1> QED BY <1>4, <1>5

\* The window that allow finds or begins for a flow.
LEMMA CurrentWindow ==
  ASSUME LimiterInv, NEW f \in Flow
  PROVE  LET e == Limiter!Current(f)
         IN  /\ e \in [window_start : Nat, attempts : 0..AttemptLimit]
             /\ e.window_start <= now /\ now - e.window_start <= BroadcastWindow
             /\ WindowHolds(lGranted[f], e.window_start, e.attempts)
             /\ e.attempts > 0 => e = lEntries[f] /\ f \in DOMAIN lEntries
<1>1. /\ now \in Nat /\ lGranted[f] \in Seq(Nat) /\ FlowKnown(f)
      /\ \A h \in DOMAIN lEntries :
           lEntries[h] \in [window_start : Nat, attempts : 1..AttemptLimit]
  BY DEF LimiterInv, Limiter!TypeOK
<1>2. BroadcastWindow \in Nat /\ AttemptLimit \in Nat \ {0}
  BY TableAssumption DEF Positive
<1>3. CASE f \in Limiter!Kept /\ ~(now - lEntries[f].window_start > BroadcastWindow)
  <2>1. Limiter!Current(f) = lEntries[f] /\ f \in DOMAIN lEntries
    BY <1>3 DEF Limiter!Current, Limiter!Kept
  <2>2. lEntries[f].window_start \in Nat /\ lEntries[f].attempts \in 1..AttemptLimit
    BY <1>1, <2>1
  <2>3. lEntries[f] \in [window_start : Nat, attempts : 0..AttemptLimit]
    BY <1>1, <1>2, <2>1
  <2> QED BY <1>1, <1>2, <1>3, <2>1, <2>2, <2>3 DEF FlowKnown
<1>4. CASE f \notin Limiter!Kept \/ now - lEntries[f].window_start > BroadcastWindow
  <2>1. Limiter!Current(f) = [window_start |-> now, attempts |-> 0]
    BY <1>4 DEF Limiter!Current, Limiter!Fresh
  <2>2. Len(lGranted[f]) \in Nat
        /\ \A i \in 1..Len(lGranted[f]) : lGranted[f][i] \in Nat /\ lGranted[f][i] <= now
    BY <1>1 DEF FlowKnown
  <2>3. ASSUME NEW i \in 1..Len(lGranted[f]), i + AttemptLimit <= Len(lGranted[f])
        PROVE  now - lGranted[f][i] > BroadcastWindow
    <3>1. CASE f \notin DOMAIN lEntries
      BY <1>1, <3>1 DEF FlowKnown
    <3>2. CASE f \in DOMAIN lEntries
      <4>1. lEntries[f].window_start \in Nat /\ lEntries[f].attempts \in 1..AttemptLimit
        BY <1>1, <3>2
      <4>2. now - lEntries[f].window_start > BroadcastWindow
        BY <1>1, <1>2, <1>4, <3>2, <4>1 DEF Limiter!Kept, Limiter!Pruned
      <4>3. i + lEntries[f].attempts <= Len(lGranted[f])
        BY <1>2, <2>2, <2>3, <4>1
      <4>4. lGranted[f][i] <= lEntries[f].window_start
        BY <1>1, <3>2, <4>3 DEF FlowKnown, WindowHolds
      <4> QED BY <1>1, <1>2, <2>2, <4>1, <4>2, <4>4, SMTT(40)
    <3> QED BY <3>1, <3>2
  <2>4. WindowHolds(lGranted[f], now, 0)
    <3>1. ASSUME NEW i \in 1..Len(lGranted[f])
          PROVE  /\ lGranted[f][i] <= now + BroadcastWindow
                 /\ lGranted[f][i] <= now
                 /\ ~(i + 0 > Len(lGranted[f]))
                 /\ i + 0 + AttemptLimit <= Len(lGranted[f]) =>
                      now - lGranted[f][i] > BroadcastWindow
      BY <1>1, <1>2, <2>2, <2>3
    <3> QED BY <2>2, <3>1 DEF WindowHolds
  <2>5. [window_start |-> now, attempts |-> 0]
           \in [window_start : Nat, attempts : 0..AttemptLimit]
    BY <1>1, <1>2
  <2> QED BY <1>1, <1>2, <2>1, <2>4, <2>5
<1> QED BY <1>3, <1>4

\* allow returns true.
LEMMA LimiterGrant ==
  ASSUME LimiterInv, NEW f \in Flow, Limiter!Grant(f)
  PROVE  LimiterInv'
<1> DEFINE e == Limiter!Current(f)
           w == [e EXCEPT !.attempts = @ + 1]
           old == lGranted[f]
           new == Append(old, now)
<1>1. /\ now \in Nat /\ now' = now /\ lGranted \in [Flow -> Seq(Nat)]
      /\ lGranted' = [lGranted EXCEPT ![f] = Append(@, now)]
      /\ lRefused' = lRefused /\ Limiter!Write(f, w) /\ e.attempts < AttemptLimit
      /\ \A h \in DOMAIN lEntries :
           lEntries[h] \in [window_start : Nat, attempts : 1..AttemptLimit]
      /\ DOMAIN lEntries \subseteq Flow
  BY DEF Limiter!Grant, LimiterInv, Limiter!TypeOK
<1>2. BroadcastWindow \in Nat /\ AttemptLimit \in Nat \ {0}
  BY TableAssumption DEF Positive
<1>3. /\ e \in [window_start : Nat, attempts : 0..AttemptLimit]
      /\ e.window_start <= now /\ now - e.window_start <= BroadcastWindow
      /\ WindowHolds(old, e.window_start, e.attempts)
  BY CurrentWindow
<1> HIDE DEF e
<1>4. /\ old \in Seq(Nat)
      /\ new \in Seq(Nat) /\ Len(old) \in Nat /\ Len(new) = Len(old) + 1
      /\ \A n \in 1..Len(old) : new[n] = old[n]
      /\ new[Len(old) + 1] = now
  BY <1>1, AppendTime
<1>5. /\ lGranted' \in [Flow -> Seq(Nat)] /\ lGranted'[f] = new
      /\ \A g \in Flow \ {f} : lGranted'[g] = lGranted[g]
  BY <1>1, <1>4
<1>6. /\ w \in [window_start : Nat, attempts : 1..AttemptLimit]
      /\ w.window_start = e.window_start /\ w.attempts = e.attempts + 1
  <2>1. e.window_start \in Nat /\ e.attempts \in Nat
    BY <1>3
  <2>2. e.attempts + 1 \in 1..AttemptLimit
    BY <1>1, <1>2, <2>1
  <2>3. w = [window_start |-> e.window_start, attempts |-> e.attempts + 1]
    BY <1>3
  <2> QED BY <2>1, <2>2, <2>3
<1>7. WindowHolds(new, e.window_start, e.attempts + 1)
  BY <1>1, <1>3, <1>4, WindowGrows
<1> HIDE DEF w, new
<1>8. /\ f \in DOMAIN lEntries' /\ lEntries'[f] = w
      /\ \A h \in DOMAIN lEntries' \ {f} : h \in DOMAIN lEntries /\ lEntries'[h] = lEntries[h]
  BY <1>1 DEF Limiter!Write, Limiter!Kept
<1>9. Limiter!TypeOK'
  BY <1>1, <1>5, <1>6, <1>8 DEF LimiterInv, Limiter!TypeOK
<1>10. ASSUME NEW g \in Flow PROVE FlowKnown(g)'
  <2>1. CASE g # f
    BY <1>1, <1>5, <2>1, LimiterOtherFlow
  <2>2. CASE g = f
    <3>1. FlowKnown(f)
      BY DEF LimiterInv
    <3>2. \A i \in 1..Len(new) : new[i] <= now
      <4> HIDE DEF old
      <4>1. \A i \in 1..Len(old) : old[i] <= now
        BY <3>1 DEF FlowKnown, old
      <4>2. \A i \in 1..Len(new) : i \in 1..Len(old) \/ i = Len(old) + 1
        BY <1>4
      <4>3. new[Len(old) + 1] <= now
        BY <1>1, <1>4
      <4> QED BY <1>4, <4>1, <4>2, <4>3
    <3>3. /\ lGranted'[g] = new /\ now' = now /\ g \in DOMAIN lEntries'
          /\ lEntries'[g].window_start = e.window_start
          /\ lEntries'[g].attempts = e.attempts + 1
      BY <1>1, <1>5, <1>6, <1>8, <2>2
    <3> QED BY <1>3, <1>7, <3>2, <3>3 DEF FlowKnown, WindowHolds
  <2> QED BY <2>1, <2>2
<1>11. ForwardsCapped'
  <2> SUFFICES ASSUME NEW g \in Flow, NEW i \in 1..Len(lGranted'[g]),
                      i + 2 * AttemptLimit <= Len(lGranted'[g])
               PROVE  lGranted'[g][i + 2 * AttemptLimit] - lGranted'[g][i] > BroadcastWindow
    BY DEF ForwardsCapped, Limiter!ForwardsCapped
  <2>1. CASE g # f
    BY <1>5, <2>1 DEF LimiterInv, ForwardsCapped, Limiter!ForwardsCapped
  <2>2. CASE g = f
    <3>1. i \in 1..Len(new) /\ i + 2 * AttemptLimit <= Len(new)
      BY <1>5, <2>2
    <3>2. i \in 1..Len(old) /\ old[i] \in Nat /\ new[i] = old[i]
      <4>1. i \in 1..Len(old)
        <5> HIDE DEF old
        <5> QED BY <1>2, <1>4, <3>1
      <4> HIDE DEF old
      <4>2. old[i] \in Nat
        BY <1>4, <4>1
      <4> QED BY <1>4, <4>1, <4>2
    <3>3. CASE i + 2 * AttemptLimit = Len(old) + 1
      <4>1. i + e.attempts + AttemptLimit <= Len(old)
        <5>1. e.attempts \in Nat /\ i \in Nat /\ e.attempts + 1 <= AttemptLimit
          BY <1>1, <1>2, <1>3, <3>2
        <5>2. Len(old) \in Nat
          BY <1>4
        <5> HIDE DEF old
        <5> QED BY <1>2, <3>3, <5>1, <5>2
      <4>2. e.window_start - old[i] > BroadcastWindow
        BY <1>3, <3>2, <4>1 DEF WindowHolds
      <4>3. new[i + 2 * AttemptLimit] = now
        BY <1>4, <3>3
      <4>4. e.window_start \in Nat
        BY <1>3
      <4>5. now - old[i] > BroadcastWindow
        <5> HIDE DEF old
        <5> QED BY <1>1, <1>2, <1>3, <3>2, <4>2, <4>4, SMTT(40)
      <4> QED BY <1>5, <2>2, <3>2, <4>3, <4>5
    <3>4. CASE i + 2 * AttemptLimit <= Len(old)
      <4>1. old[i + 2 * AttemptLimit] - old[i] > BroadcastWindow
        BY <3>2, <3>4 DEF LimiterInv, ForwardsCapped, Limiter!ForwardsCapped
      <4>2. i + 2 * AttemptLimit \in 1..Len(old)
        <5> HIDE DEF old
        <5> QED BY <1>2, <1>4, <3>2, <3>4
      <4> QED BY <1>4, <1>5, <2>2, <3>2, <4>1, <4>2
    <3> QED
      <4>1. i \in Nat /\ Len(old) \in Nat /\ i + 2 * AttemptLimit <= Len(old) + 1
        BY <1>4, <3>1, <3>2
      <4>2. i + 2 * AttemptLimit = Len(old) + 1 \/ i + 2 * AttemptLimit <= Len(old)
        <5> HIDE DEF old
        <5> QED BY <1>2, <4>1
      <4> QED BY <3>3, <3>4, <4>2
  <2> QED BY <2>1, <2>2
<1>12. RefusedOnlyAtLimit'
  <2> SUFFICES ASSUME lRefused # Limiter!None
               PROVE  LET times == lGranted'[lRefused.flow]
                      IN  AttemptLimit <=
                            Limiter!Cardinality({i \in 1..Len(times) : times[i] \in
                              (lRefused.at - BroadcastWindow)..lRefused.at})
    BY <1>1 DEF RefusedOnlyAtLimit, Limiter!RefusedOnlyAtLimit
  <2> DEFINE g == lRefused.flow
             In(times) == {i \in 1..Len(times) : times[i] \in
                              (lRefused.at - BroadcastWindow)..lRefused.at}
  <2>1. g \in Flow /\ lGranted[g] \in Seq(Nat) /\ lGranted'[g] \in Seq(Nat)
    BY <1>1, <1>5 DEF LimiterInv, Limiter!TypeOK
  <2>2. AttemptLimit <= Cardinality(In(lGranted[g]))
    BY LimiterCardinality DEF LimiterInv, RefusedOnlyAtLimit, Limiter!RefusedOnlyAtLimit
  <2>3. In(lGranted[g]) \subseteq In(lGranted'[g])
    <3>1. CASE g # f
      BY <1>5, <2>1, <3>1
    <3>2. CASE g = f
      <4>1. lGranted[g] = old /\ lGranted'[g] = new
        BY <1>5, <3>2
      <4> HIDE DEF old
      <4>2. In(old) \subseteq In(new)
        BY <1>4
      <4> QED BY <4>1, <4>2
    <3> QED BY <3>1, <3>2
  <2>4. IsFiniteSet(1..Len(lGranted'[g]))
    BY <2>1, FS_Interval
  <2>5. IsFiniteSet(In(lGranted'[g]))
    BY <2>4, FS_Subset
  <2>6. Cardinality(In(lGranted[g])) <= Cardinality(In(lGranted'[g]))
    BY <2>3, <2>5, FS_Subset
  <2>7. /\ Cardinality(In(lGranted[g])) \in Nat
        /\ Cardinality(In(lGranted'[g])) \in Nat
    BY <2>3, <2>5, FS_Subset, FS_CardinalityType
  <2> HIDE DEF In
  <2>8. AttemptLimit <= Cardinality(In(lGranted'[g]))
    BY <1>2, <2>2, <2>6, <2>7
  <2> QED BY <2>8, LimiterCardinality DEF In
<1> QED BY <1>9, <1>10, <1>11, <1>12 DEF LimiterInv

\* allow returns false: the entry has all its attempts in the window.
LEMMA LimiterRefuse ==
  ASSUME LimiterInv, NEW f \in Flow, Limiter!Refuse(f)
  PROVE  LimiterInv'
<1> DEFINE e == Limiter!Current(f)
           times == lGranted[f]
<1>1. /\ now \in Nat /\ now' = now /\ lGranted \in [Flow -> Seq(Nat)]
      /\ lGranted' = lGranted
      /\ lRefused' = [flow |-> f, at |-> now]
      /\ Limiter!Write(f, e) /\ e.attempts >= AttemptLimit
      /\ \A h \in DOMAIN lEntries :
           lEntries[h] \in [window_start : Nat, attempts : 1..AttemptLimit]
      /\ DOMAIN lEntries \subseteq Flow
  BY DEF Limiter!Refuse, LimiterInv, Limiter!TypeOK
<1>2. BroadcastWindow \in Nat /\ AttemptLimit \in Nat \ {0}
  BY TableAssumption DEF Positive
<1>3. /\ e \in [window_start : Nat, attempts : 0..AttemptLimit]
      /\ e.window_start <= now /\ now - e.window_start <= BroadcastWindow
      /\ WindowHolds(times, e.window_start, e.attempts)
      /\ e.attempts > 0 => e = lEntries[f] /\ f \in DOMAIN lEntries
  BY CurrentWindow
<1> HIDE DEF e
<1>4. e.attempts = AttemptLimit /\ e = lEntries[f] /\ f \in DOMAIN lEntries
  BY <1>1, <1>2, <1>3
<1>5. \A h \in DOMAIN lEntries' : h \in DOMAIN lEntries /\ lEntries'[h] = lEntries[h]
  BY <1>1, <1>4 DEF Limiter!Write, Limiter!Kept
<1>6. f \in DOMAIN lEntries'
  BY <1>1 DEF Limiter!Write
<1>7. Limiter!TypeOK'
  <2>1. lRefused' \in [flow : Flow, at : Nat]
    BY <1>1
  <2> QED BY <1>1, <1>5, <2>1 DEF LimiterInv, Limiter!TypeOK
<1>8. ASSUME NEW g \in Flow PROVE FlowKnown(g)'
  <2>1. CASE g # f
    BY <1>1, <2>1, LimiterOtherFlow
  <2>2. CASE g = f
    BY <1>1, <1>5, <1>6, <2>2 DEF LimiterInv, FlowKnown, WindowHolds
  <2> QED BY <2>1, <2>2
<1>9. ForwardsCapped'
  BY <1>1 DEF LimiterInv, ForwardsCapped, Limiter!ForwardsCapped
<1>10. RefusedOnlyAtLimit'
  <2> DEFINE In == {i \in 1..Len(times) : times[i] \in (now - BroadcastWindow)..now}
             last == (Len(times) - AttemptLimit + 1)..Len(times)
  <2>1. times \in Seq(Nat) /\ Len(times) \in Nat /\ AttemptLimit <= Len(times)
    BY <1>1, <1>3, <1>4 DEF WindowHolds
  <2>2. last \subseteq In
    <3> SUFFICES ASSUME NEW i \in last PROVE i \in In
      OBVIOUS
    <3>1. i \in 1..Len(times) /\ i + AttemptLimit > Len(times)
      <4> HIDE DEF times
      <4> QED BY <1>2, <2>1
    <3>2. times[i] \in Nat /\ times[i] <= now
      BY <2>1, <3>1 DEF LimiterInv, FlowKnown
    <3>3. times[i] >= e.window_start
      BY <1>3, <1>4, <3>1 DEF WindowHolds
    <3>4. e.window_start \in Nat
      BY <1>3
    <3>5. times[i] \in (now - BroadcastWindow)..now
      <4> HIDE DEF times
      <4> QED BY <1>1, <1>2, <1>3, <3>2, <3>3, <3>4
    <3> QED BY <3>1, <3>5
  <2>3. IsFiniteSet(1..Len(times))
    BY <2>1, FS_Interval
  <2>4. IsFiniteSet(In)
    BY <2>3, FS_Subset
  <2>5. Cardinality(last) = AttemptLimit
    <3> HIDE DEF times
    <3>1. Len(times) - AttemptLimit + 1 \in Int /\ Len(times) \in Int
      BY <1>2, <2>1
    <3>2. Cardinality(last) = Len(times) - (Len(times) - AttemptLimit + 1) + 1
      BY <1>2, <2>1, <3>1, FS_Interval
    <3> QED BY <1>2, <2>1, <3>2
  <2>6. AttemptLimit <= Cardinality(In)
    BY <2>2, <2>4, <2>5, FS_Subset
  <2> QED BY <1>1, <2>6, LimiterCardinality DEF RefusedOnlyAtLimit, Limiter!RefusedOnlyAtLimit
<1> QED BY <1>7, <1>8, <1>9, <1>10 DEF LimiterInv

\* Every step of the limiter keeps its invariant.
LEMMA LimiterStep == LimiterInv /\ [Limiter!Next]_(Limiter!vars) => LimiterInv'
<1> SUFFICES ASSUME LimiterInv, [Limiter!Next]_(Limiter!vars) PROVE LimiterInv'
  OBVIOUS
<1>1. CASE UNCHANGED Limiter!vars
  BY <1>1 DEF Limiter!vars, LimiterInv, Limiter!TypeOK, FlowKnown, WindowHolds,
              ForwardsCapped, RefusedOnlyAtLimit, Limiter!ForwardsCapped,
              Limiter!RefusedOnlyAtLimit
<1>2. CASE Limiter!Next
  BY <1>2, LimiterTick, LimiterGrant, LimiterRefuse DEF Limiter!Next, Limiter!Allow
<1> QED BY <1>1, <1>2

\* allow grants a flow at most twice the limit within any stretch of time as
\* long as a window, for every limit and window and any other flows, however
\* entries are pruned and created again.
THEOREM LimiterForwardsCapped == Limiter!Spec => []ForwardsCapped
<1>1. LimiterInv => ForwardsCapped
  BY DEF LimiterInv
<1> QED BY <1>1, LimiterInit, LimiterStep, PTL DEF Limiter!Spec

\* allow refuses a flow only when it has been granted the full limit within the
\* window before the call.
THEOREM LimiterRefusedOnlyAtLimit == Limiter!Spec => []RefusedOnlyAtLimit
<1>1. LimiterInv => RefusedOnlyAtLimit
  BY DEF LimiterInv
<1> QED BY <1>1, LimiterInit, LimiterStep, PTL DEF Limiter!Spec

-----------------------------------------------------------------------------
(* The exchange of content summaries.                                      *)

\* One round of the exchange thread at its latest.
Round == ExchangeEvery + MaxJitter

\* A lost round more is a round's time more, and MaxLosses bounds them.
LEMMA RoundsAdd ==
  ASSUME NEW l \in 0..MaxLosses
  PROVE  /\ l * Round \in Nat /\ Round \in Nat /\ (MaxLosses + 1) * Round \in Nat
         /\ (l + 1) * Round = l * Round + Round
         /\ l * Round + Round <= (MaxLosses + 1) * Round
         /\ Content!LongestGap = (MaxLosses + 1) * Round + MaxDelay
<1>1. Round \in Nat /\ MaxLosses \in Nat /\ l \in Nat /\ l <= MaxLosses
  BY TableAssumption DEF Round, Positive
<1>2. Content!LongestGap = (MaxLosses + 1) * Round + MaxDelay
  BY DEF Content!LongestGap, Round
<1> HIDE DEF Round
<1>3. l * Round \in Nat /\ (MaxLosses + 1) * Round \in Nat
  BY <1>1
<1>4. (l + 1) * Round = l * Round + Round
  BY <1>1
<1>5. (l + 1) * Round <= (MaxLosses + 1) * Round
  BY <1>1
<1> QED BY <1>1, <1>2, <1>3, <1>4, <1>5

\* Datagrams travel at most MaxDelay, threads oversleep by at most MaxJitter,
\* and a peer that is down has an empty filter.
ContentTiming ==
  /\ \A m \in cInflight : m.sent <= now /\ now <= m.sent + MaxDelay
  /\ cEntry.updated <= now
  /\ cWake <= now + ExchangeEvery
  /\ cAlive => now <= cWake + MaxJitter
  /\ ~cAlive => DOMAIN cSince = {}
  /\ \A k \in DOMAIN cSince : cSince[k] <= now
  /\ cSelected # Content!None => cSelected.at <= now

\* What a peer that is down sent, it sent before it went down.
ContentAfterEnd ==
  ~cAlive =>
    /\ cEnded <= now
    /\ \A m \in cInflight : m.sent <= cEnded
    /\ cEntry.updated <= cEnded + MaxDelay

\* A summary sent after a key was added has the key, and so has the entry once
\* no older summary can be on its way.
ContentComplete ==
  \A k \in DOMAIN cSince :
    /\ \A m \in cInflight : m.sent > cSince[k] => k \in m.keys
    /\ cEntry.updated > cSince[k] + MaxDelay => k \in cEntry.keys

\* Since a key was added, or since the entry was updated after that, either a
\* summary has been sent within the rounds that may be lost, and is on its way,
\* or those rounds are not over.
ContentRenewed ==
  \A k \in DOMAIN cSince : \E from \in {cSince[k], cEntry.updated} :
    \/ \E m \in cInflight : m.sent <= from + (MaxLosses + 1) * Round
    \/ cWake <= from + ExchangeEvery + cLosses * Round

\* The inductive invariant of the exchange; the part about keys that are found
\* needs a TTL that covers the rounds that may be lost.
ContentInv ==
  /\ Content!TypeOK /\ ContentTiming /\ ContentAfterEnd /\ ContentComplete
  /\ ContentTtl >= Content!LongestGap => ContentRenewed
  /\ HeldKeyIsFound /\ DeadNeighborIsForgotten

\* At the start the peer has no keys and nothing is in flight.
LEMMA ContentInit == Content!Init => ContentInv
<1> SUFFICES ASSUME Content!Init PROVE ContentInv
  OBVIOUS
<1> USE DEF Content!Init
<1>1. DOMAIN cSince = {}
  OBVIOUS
<1>2. MaxLosses \in Nat /\ MaxJitter \in Nat /\ ExchangeEvery \in Nat /\ MaxDelay \in Nat
  BY TableAssumption DEF Positive
<1>3. Content!TypeOK
  BY <1>1, <1>2 DEF Content!TypeOK
<1>4. ContentTiming
  BY <1>1, <1>2 DEF ContentTiming, Content!NoEntry
<1>5. ContentAfterEnd /\ ContentComplete /\ ContentRenewed
  BY <1>1 DEF ContentAfterEnd, ContentComplete, ContentRenewed
<1>6. HeldKeyIsFound /\ DeadNeighborIsForgotten
  BY DEF HeldKeyIsFound, DeadNeighborIsForgotten, Content!HeldKeyIsFound,
         Content!DeadNeighborIsForgotten
<1> QED BY <1>3, <1>4, <1>5, <1>6 DEF ContentInv

\* What the types say, for the steps below.
LEMMA ContentTypes ==
  ASSUME Content!TypeOK
  PROVE  /\ now \in Nat /\ cWake \in Nat /\ cLosses \in 0..MaxLosses
         /\ cEnded \in Int /\ cEntry.updated \in Int /\ cEntry.keys \subseteq ContentKey
         /\ \A m \in cInflight : m.sent \in Nat /\ m.keys \subseteq ContentKey
         /\ \A k \in DOMAIN cSince : cSince[k] \in Nat
         /\ cSelected # Content!None => cSelected.at \in Nat
         /\ MaxLosses \in Nat /\ MaxJitter \in Nat /\ MaxDelay \in Nat
         /\ ExchangeEvery \in Nat /\ ContentTtl \in Nat
<1>1. cEntry.updated \in Int /\ cEntry.keys \subseteq ContentKey
  BY DEF Content!TypeOK, Content!NoEntry
<1>2. \A m \in cInflight : m.sent \in Nat /\ m.keys \subseteq ContentKey
  BY DEF Content!TypeOK, Content!Summary
<1>3. cSelected # Content!None => cSelected.at \in Nat
  BY DEF Content!TypeOK
<1> QED BY <1>1, <1>2, <1>3, TableAssumption DEF Content!TypeOK, Positive

\* With a TTL that covers the lost rounds, a key that has been held for longer
\* has been confirmed within LongestGap.
LEMMA ContentConfirmed ==
  ASSUME ContentInv, ContentTtl >= Content!LongestGap, NEW k \in DOMAIN cSince
  PROVE  \/ now <= cSince[k] + Content!LongestGap
         \/ now <= cEntry.updated + Content!LongestGap
<1>1. Content!TypeOK /\ ContentTiming /\ ContentRenewed /\ cAlive
  BY DEF ContentInv, ContentTiming, Content!TypeOK
<1>2. PICK from \in {cSince[k], cEntry.updated} :
        \/ \E m \in cInflight : m.sent <= from + (MaxLosses + 1) * Round
        \/ cWake <= from + ExchangeEvery + cLosses * Round
  BY <1>1 DEF ContentRenewed
<1>3. from \in Int /\ now \in Nat /\ MaxDelay \in Nat /\ MaxJitter \in Nat
      /\ ExchangeEvery \in Nat /\ cWake \in Nat /\ cLosses \in 0..MaxLosses
  BY <1>1, ContentTypes
<1>4. now <= from + Content!LongestGap
  <2> DEFINE lost == cLosses * Round
             most == (MaxLosses + 1) * Round
  <2>1. /\ lost \in Nat /\ Round \in Nat /\ most \in Nat /\ lost + Round <= most
        /\ Content!LongestGap = most + MaxDelay
    BY <1>3, RoundsAdd
  <2>2. CASE \E m \in cInflight : m.sent <= from + most
    <3>1. PICK m \in cInflight : m.sent <= from + most
      BY <2>2
    <3>2. now <= m.sent + MaxDelay /\ m.sent \in Nat
      BY <1>1, ContentTypes DEF ContentTiming
    <3> HIDE DEF most
    <3> QED BY <1>3, <2>1, <3>1, <3>2
  <2>3. CASE cWake <= from + ExchangeEvery + lost
    <3>1. now <= cWake + MaxJitter
      BY <1>1 DEF ContentTiming
    <3>2. Round = ExchangeEvery + MaxJitter
      BY DEF Round
    <3> HIDE DEF most, lost
    <3> QED BY <1>3, <2>1, <2>3, <3>1, <3>2
  <2> QED BY <1>2, <2>2, <2>3
<1> QED BY <1>2, <1>4

\* Time passes: no round is overdue and no summary travels too long.
LEMMA ContentTick == ContentInv /\ Content!Tick => ContentInv'
<1> SUFFICES ASSUME ContentInv, Content!Tick PROVE ContentInv'
  OBVIOUS
<1>1. /\ now' = now + 1
      /\ UNCHANGED <<cSince, cAlive, cWake, cLosses, cInflight, cEntry, cEnded, cSelected>>
      /\ cAlive => now < cWake + MaxJitter
      /\ \A m \in cInflight : now < m.sent + MaxDelay
  BY DEF Content!Tick
<1>2. Content!TypeOK /\ ContentTiming /\ ContentAfterEnd
  BY DEF ContentInv
<1>3. Content!TypeOK'
  BY <1>1, <1>2 DEF Content!TypeOK
<1>4. ContentTiming' /\ ContentAfterEnd'
  <2>1. ContentTiming'
    <3>1. \A m \in cInflight : m.sent <= now + 1 /\ now + 1 <= m.sent + MaxDelay
      BY <1>1, <1>2, ContentTypes DEF ContentTiming
    <3>2. /\ cEntry.updated <= now + 1 /\ cWake <= now + 1 + ExchangeEvery
          /\ cAlive => now + 1 <= cWake + MaxJitter
      BY <1>1, <1>2, ContentTypes DEF ContentTiming
    <3>3. /\ \A k \in DOMAIN cSince : cSince[k] <= now + 1
          /\ cSelected # Content!None => cSelected.at <= now + 1
      BY <1>1, <1>2, ContentTypes DEF ContentTiming
    <3>4. ~cAlive => DOMAIN cSince = {}
      BY <1>2 DEF ContentTiming
    <3> QED BY <1>1, <3>1, <3>2, <3>3, <3>4 DEF ContentTiming
  <2>2. ContentAfterEnd'
    BY <1>1, <1>2, ContentTypes DEF ContentAfterEnd
  <2> QED BY <2>1, <2>2
<1>5. ContentComplete' /\ (ContentTtl >= Content!LongestGap => ContentRenewed)'
  BY <1>1 DEF ContentInv, ContentComplete, ContentRenewed, Content!LongestGap
<1>6. HeldKeyIsFound' /\ DeadNeighborIsForgotten'
  <2>1. ~(cSelected # Content!None /\ cSelected.at = now + 1)
    BY <1>2, ContentTypes DEF ContentTiming
  <2> QED BY <1>1, <2>1 DEF ContentInv, HeldKeyIsFound, DeadNeighborIsForgotten,
             Content!HeldKeyIsFound, Content!DeadNeighborIsForgotten
<1> QED BY <1>3, <1>4, <1>5, <1>6 DEF ContentInv

\* add_local_key: the key is new, so no summary need name it yet.
LEMMA ContentAdd ==
  ASSUME ContentInv, NEW k \in ContentKey, Content!AddLocalKey(k)
  PROVE  ContentInv'
<1>1. /\ UNCHANGED <<now, cAlive, cWake, cLosses, cInflight, cEntry, cEnded, cSelected>>
      /\ cAlive /\ k \notin DOMAIN cSince
      /\ DOMAIN cSince' = DOMAIN cSince \cup {k}
      /\ cSince'[k] = now
      /\ \A j \in DOMAIN cSince : cSince'[j] = cSince[j]
  BY DEF Content!AddLocalKey
<1>2. Content!TypeOK /\ ContentTiming /\ ContentAfterEnd /\ ContentComplete
  BY DEF ContentInv
<1>3. Content!TypeOK'
  BY <1>1, <1>2 DEF Content!TypeOK
<1>4. ContentTiming' /\ ContentAfterEnd'
  BY <1>1, <1>2, ContentTypes DEF ContentTiming, ContentAfterEnd
<1>5. ContentComplete'
  <2> SUFFICES ASSUME NEW j \in DOMAIN cSince'
               PROVE  /\ \A m \in cInflight : m.sent > cSince'[j] => j \in m.keys
                      /\ cEntry.updated > cSince'[j] + MaxDelay => j \in cEntry.keys
    BY <1>1 DEF ContentComplete
  <2>1. CASE j = k
    BY <1>1, <1>2, <2>1, ContentTypes DEF ContentTiming
  <2>2. CASE j # k
    BY <1>1, <1>2, <2>2 DEF ContentComplete
  <2> QED BY <2>1, <2>2
<1>6. (ContentTtl >= Content!LongestGap => ContentRenewed)'
  <2> SUFFICES ASSUME ContentTtl >= Content!LongestGap, NEW j \in DOMAIN cSince'
               PROVE  \E from \in {cSince'[j], cEntry.updated} :
                        \/ \E m \in cInflight : m.sent <= from + (MaxLosses + 1) * Round
                        \/ cWake <= from + ExchangeEvery + cLosses * Round
    BY <1>1 DEF ContentRenewed, Content!LongestGap
  <2>1. CASE j = k
    <3>1. cLosses * Round \in Nat
      BY <1>2, ContentTypes, RoundsAdd
    <3>2. cWake <= now + ExchangeEvery + cLosses * Round
      BY <1>2, <3>1, ContentTypes DEF ContentTiming
    <3> QED BY <1>1, <2>1, <3>2
  <2>2. CASE j # k
    BY <1>1, <2>2 DEF ContentInv, ContentRenewed
  <2> QED BY <2>1, <2>2
<1>7. HeldKeyIsFound'
  <2> SUFFICES ASSUME ContentTtl >= Content!LongestGap, cSelected # Content!None,
                      cSelected.at = now, NEW j \in DOMAIN cSince', j = cSelected.key,
                      cSince'[j] + Content!LongestGap + MaxDelay < now
               PROVE  cSelected.found
    BY <1>1 DEF HeldKeyIsFound, Content!HeldKeyIsFound, Content!LongestGap
  <2>1. Content!LongestGap \in Nat
    <3>1. 0 \in 0..MaxLosses
      BY <1>2, ContentTypes
    <3> QED BY <1>2, <3>1, ContentTypes, RoundsAdd
  <2>2. j # k
    BY <1>1, <1>2, <2>1, ContentTypes
  <2> QED BY <1>1, <2>2 DEF ContentInv, HeldKeyIsFound, Content!HeldKeyIsFound
<1>8. DeadNeighborIsForgotten'
  BY <1>1 DEF ContentInv, DeadNeighborIsForgotten, Content!DeadNeighborIsForgotten
<1> QED BY <1>3, <1>4, <1>5, <1>6, <1>7, <1>8 DEF ContentInv

\* A round is late by at most MaxJitter, so a summary that is sent follows the
\* last one in time, and one that is lost delays the next by a round.
LEMMA ContentRound == ContentInv /\ Content!ExchangeRound => ContentInv'
<1> SUFFICES ASSUME ContentInv, Content!ExchangeRound PROVE ContentInv'
  OBVIOUS
<1> DEFINE new == [keys |-> DOMAIN cSince, sent |-> now]
<1>1. /\ UNCHANGED <<now, cSince, cAlive, cEntry, cEnded, cSelected>>
      /\ cAlive /\ cWake' = now + ExchangeEvery
      /\ \/ cInflight' = cInflight \cup {new} /\ cLosses' = 0
         \/ cInflight' = cInflight /\ cLosses' = cLosses + 1 /\ cLosses < MaxLosses
  BY DEF Content!ExchangeRound, Content!Snapshot
<1>2. Content!TypeOK /\ ContentTiming /\ ContentComplete
  BY DEF ContentInv
<1>3. Content!TypeOK'
  <2>1. new \in Content!Summary
    BY <1>2 DEF Content!TypeOK, Content!Summary
  <2>2. cLosses' \in 0..MaxLosses /\ cWake' \in Nat
    BY <1>1, <1>2, ContentTypes
  <2>3. cInflight' \subseteq Content!Summary
    BY <1>1, <1>2, <2>1 DEF Content!TypeOK
  <2> QED BY <1>1, <1>2, <2>2, <2>3 DEF Content!TypeOK
<1>4. \A m \in cInflight' : m \in cInflight \/ (m.sent = now /\ m.keys = DOMAIN cSince)
  BY <1>1
<1>5. ContentTiming'
  BY <1>1, <1>2, <1>4, ContentTypes DEF ContentTiming
<1>6. ContentAfterEnd' /\ ContentComplete'
  BY <1>1, <1>2, <1>4 DEF ContentAfterEnd, ContentComplete
<1>7. (ContentTtl >= Content!LongestGap => ContentRenewed)'
  <2> SUFFICES ASSUME ContentTtl >= Content!LongestGap, NEW k \in DOMAIN cSince
               PROVE  \E from \in {cSince[k], cEntry.updated} :
                        \/ \E m \in cInflight' : m.sent <= from + (MaxLosses + 1) * Round
                        \/ cWake' <= from + ExchangeEvery + cLosses' * Round
    BY <1>1 DEF ContentRenewed, Content!LongestGap
  <2>1. PICK from \in {cSince[k], cEntry.updated} :
          \/ \E m \in cInflight : m.sent <= from + (MaxLosses + 1) * Round
          \/ cWake <= from + ExchangeEvery + cLosses * Round
    BY DEF ContentInv, ContentRenewed
  <2>2. from \in Int
    BY <1>2, ContentTypes
  <2>3. CASE \E m \in cInflight : m.sent <= from + (MaxLosses + 1) * Round
    BY <1>1, <2>3
  <2>4. CASE cWake <= from + ExchangeEvery + cLosses * Round
    <3> DEFINE lost == cLosses * Round
               most == (MaxLosses + 1) * Round
    <3>1. /\ lost \in Nat /\ most \in Nat /\ lost + Round <= most
          /\ (cLosses + 1) * Round = lost + Round
      BY <1>2, ContentTypes, RoundsAdd
    <3>2. now <= cWake + MaxJitter /\ Round = ExchangeEvery + MaxJitter
      BY <1>1, <1>2 DEF ContentTiming, Round
    <3>3. /\ now \in Nat /\ cWake \in Nat /\ ExchangeEvery \in Nat /\ MaxJitter \in Nat
      BY <1>2, ContentTypes
    <3>4. now <= from + most /\ now + ExchangeEvery <= from + ExchangeEvery + (lost + Round)
      <4> HIDE DEF lost, most
      <4>1. cWake <= from + ExchangeEvery + lost
        BY <2>4 DEF lost
      <4> QED BY <2>2, <3>1, <3>2, <3>3, <4>1
    <3>5. CASE cInflight' = cInflight \cup {new}
      <4>1. new \in cInflight' /\ new.sent <= from + most
        BY <3>4, <3>5
      <4> QED BY <4>1
    <3>6. CASE cLosses' = cLosses + 1
      BY <1>1, <3>1, <3>4, <3>6
    <3> QED BY <1>1, <3>5, <3>6
  <2> QED BY <2>1, <2>3, <2>4
<1>8. HeldKeyIsFound' /\ DeadNeighborIsForgotten'
  BY <1>1 DEF ContentInv, HeldKeyIsFound, DeadNeighborIsForgotten, Content!LongestGap,
              Content!HeldKeyIsFound, Content!DeadNeighborIsForgotten
<1> QED BY <1>3, <1>5, <1>6, <1>7, <1>8 DEF ContentInv

\* update_neighbor: the summary that arrives replaces the entry.
LEMMA ContentUpdate ==
  ASSUME ContentInv, NEW m \in cInflight, Content!UpdateNeighbor(m)
  PROVE  ContentInv'
<1>1. /\ UNCHANGED <<now, cSince, cAlive, cWake, cLosses, cEnded, cSelected>>
      /\ cInflight' = cInflight \ {m}
      /\ cEntry' = [keys |-> m.keys, updated |-> now]
      /\ cEntry'.keys = m.keys /\ cEntry'.updated = now
  BY DEF Content!UpdateNeighbor, Content!Updated
<1>2. Content!TypeOK /\ ContentTiming /\ ContentAfterEnd /\ ContentComplete
  BY DEF ContentInv
<1>3. now <= m.sent + MaxDelay /\ m.sent \in Nat /\ m.keys \subseteq ContentKey
  BY <1>2, ContentTypes DEF ContentTiming
<1>4. Content!TypeOK'
  <2>1. cEntry' \in [keys : SUBSET ContentKey, updated : Nat]
    BY <1>1, <1>2, <1>3, ContentTypes
  <2> QED BY <1>1, <1>2, <2>1 DEF Content!TypeOK
<1>5. ContentTiming'
  BY <1>1, <1>2, ContentTypes DEF ContentTiming
<1>6. ContentAfterEnd'
  BY <1>1, <1>2, <1>3, ContentTypes DEF ContentAfterEnd
<1>7. ContentComplete'
  BY <1>1, <1>2, <1>3, ContentTypes DEF ContentComplete
<1>8. ContentRenewed'
  <2>1. cLosses * Round \in Nat
    BY <1>2, ContentTypes, RoundsAdd
  <2>2. cWake <= now + ExchangeEvery + cLosses * Round
    BY <1>2, <2>1, ContentTypes DEF ContentTiming
  <2> QED BY <1>1, <2>2 DEF ContentRenewed
<1>9. HeldKeyIsFound' /\ DeadNeighborIsForgotten'
  BY <1>1 DEF ContentInv, HeldKeyIsFound, DeadNeighborIsForgotten, Content!LongestGap,
              Content!HeldKeyIsFound, Content!DeadNeighborIsForgotten
<1> QED BY <1>4, <1>5, <1>6, <1>7, <1>8, <1>9 DEF ContentInv

\* select_neighbor drops only an entry that confirmed no key held for long.
LEMMA ContentSelect ==
  ASSUME ContentInv, NEW k \in ContentKey, Content!SelectNeighbor(k)
  PROVE  ContentInv'
<1>1. /\ UNCHANGED <<now, cSince, cAlive, cWake, cLosses, cInflight, cEnded>>
      /\ cEntry' = IF Content!Stale(cEntry) THEN Content!NoEntry ELSE cEntry
      /\ cSelected' = [key |-> k, at |-> now, found |-> k \in cEntry'.keys]
  BY DEF Content!SelectNeighbor
<1>2. Content!TypeOK /\ ContentTiming /\ ContentAfterEnd /\ ContentComplete
  BY DEF ContentInv
<1>3. Content!NoEntry.updated = -1 /\ Content!NoEntry.keys = {}
  BY DEF Content!NoEntry
<1>4. /\ Content!Stale(cEntry) => now - cEntry.updated > ContentTtl
      /\ cEntry # Content!NoEntry /\ now - cEntry.updated > ContentTtl => Content!Stale(cEntry)
  BY DEF Content!Stale
<1>5. (k \in cEntry'.keys) \in BOOLEAN
  OBVIOUS
<1>6. Content!TypeOK'
  <2>1. cSelected' \in [key : ContentKey, at : Nat, found : BOOLEAN]
    BY <1>1, <1>2, <1>5, ContentTypes
  <2>2. cEntry' \in {Content!NoEntry} \cup [keys : SUBSET ContentKey, updated : Nat]
    BY <1>1, <1>2 DEF Content!TypeOK
  <2> QED BY <1>1, <1>2, <2>1, <2>2 DEF Content!TypeOK
<1>7. cEntry'.updated <= cEntry.updated \/ cEntry'.updated = -1
  BY <1>1, <1>2, <1>3, ContentTypes
<1>8. ContentTiming'
  BY <1>1, <1>2, <1>3, ContentTypes DEF ContentTiming
<1>9. ContentAfterEnd'
  <2>1. -1 <= cEnded + MaxDelay
    BY <1>2, ContentTypes DEF Content!TypeOK
  <2> QED BY <1>1, <1>2, <1>3, <2>1 DEF ContentAfterEnd
<1>10. ContentComplete'
  BY <1>1, <1>2, <1>3, ContentTypes DEF ContentComplete
<1>11. (ContentTtl >= Content!LongestGap => ContentRenewed)'
  <2> SUFFICES ASSUME ContentTtl >= Content!LongestGap, NEW j \in DOMAIN cSince
               PROVE  \E from \in {cSince[j], cEntry'.updated} :
                        \/ \E m \in cInflight : m.sent <= from + (MaxLosses + 1) * Round
                        \/ cWake <= from + ExchangeEvery + cLosses * Round
    BY <1>1 DEF ContentRenewed, Content!LongestGap
  <2>1. CASE ~Content!Stale(cEntry)
    BY <1>1, <2>1 DEF ContentInv, ContentRenewed
  <2>2. CASE Content!Stale(cEntry)
    <3> SUFFICES ASSUME NEW from \in {cSince[j], cEntry.updated}, from # cSince[j],
                        \/ \E m \in cInflight : m.sent <= from + (MaxLosses + 1) * Round
                        \/ cWake <= from + ExchangeEvery + cLosses * Round
                 PROVE  FALSE
      BY DEF ContentInv, ContentRenewed
    <3> DEFINE lost == cLosses * Round
               most == (MaxLosses + 1) * Round
    <3>1. /\ lost \in Nat /\ most \in Nat /\ lost + Round <= most
          /\ Content!LongestGap = most + MaxDelay
      BY <1>2, ContentTypes, RoundsAdd
    <3>2. now - from > most + MaxDelay /\ from \in Int /\ now \in Nat /\ cWake \in Nat
          /\ ExchangeEvery \in Nat /\ MaxJitter \in Nat /\ MaxDelay \in Nat
      <4>1. from = cEntry.updated /\ now - from > ContentTtl
        BY <1>4, <2>2
      <4> HIDE DEF most
      <4> QED BY <1>2, <3>1, <4>1, ContentTypes
    <3>3. Round = ExchangeEvery + MaxJitter
      BY DEF Round
    <3>4. cAlive /\ now <= cWake + MaxJitter
      BY <1>2 DEF ContentTiming, Content!TypeOK
    <3>5. CASE \E m \in cInflight : m.sent <= from + most
      <4>1. PICK m \in cInflight : m.sent <= from + most
        BY <3>5
      <4>2. m.sent \in Nat /\ now <= m.sent + MaxDelay
        BY <1>2, ContentTypes DEF ContentTiming
      <4> HIDE DEF most
      <4> QED BY <3>1, <3>2, <4>1, <4>2
    <3>6. CASE cWake <= from + ExchangeEvery + lost
      <4> HIDE DEF most, lost
      <4> QED BY <3>1, <3>2, <3>3, <3>4, <3>6
    <3> QED BY <3>5, <3>6
  <2> QED BY <2>1, <2>2
<1>12. HeldKeyIsFound'
  <2> SUFFICES ASSUME ContentTtl >= Content!LongestGap, k \in DOMAIN cSince,
                      cSince[k] + Content!LongestGap + MaxDelay < now
               PROVE  k \in cEntry'.keys
    BY <1>1 DEF HeldKeyIsFound, Content!HeldKeyIsFound, Content!LongestGap
  <2>1. Content!LongestGap \in Nat
    <3>1. 0 \in 0..MaxLosses
      BY <1>2, ContentTypes
    <3> QED BY <1>2, <3>1, ContentTypes, RoundsAdd
  <2>2. now <= cEntry.updated + Content!LongestGap
    BY <1>2, <2>1, ContentConfirmed, ContentTypes
  <2>3. cEntry.updated > cSince[k] + MaxDelay
    BY <1>2, <2>1, <2>2, ContentTypes
  <2>4. k \in cEntry.keys
    BY <1>2, <2>3 DEF ContentComplete
  <2>5. ~Content!Stale(cEntry)
    BY <1>2, <1>4, <2>1, <2>2, ContentTypes
  <2> QED BY <1>1, <2>4, <2>5
<1>13. DeadNeighborIsForgotten'
  <2> SUFFICES ASSUME k \in cEntry'.keys, ~cAlive
               PROVE  now <= cEnded + MaxDelay + ContentTtl
    BY <1>1 DEF DeadNeighborIsForgotten, Content!DeadNeighborIsForgotten
  <2>1. ~Content!Stale(cEntry) /\ cEntry # Content!NoEntry
    BY <1>1, <1>3
  <2>2. ~(now - cEntry.updated > ContentTtl)
    BY <1>4, <2>1
  <2> QED BY <1>2, <2>2, ContentTypes DEF ContentAfterEnd
<1> QED BY <1>6, <1>8, <1>9, <1>10, <1>11, <1>12, <1>13 DEF ContentInv

\* The peer stops; what it sent stays on its way.
LEMMA ContentCrash == ContentInv /\ Content!Crash => ContentInv'
<1> SUFFICES ASSUME ContentInv, Content!Crash PROVE ContentInv'
  OBVIOUS
<1>1. /\ UNCHANGED <<now, cWake, cLosses, cInflight, cEntry, cSelected>>
      /\ cAlive /\ ~cAlive' /\ cAlive' \in BOOLEAN /\ cEnded' = now /\ DOMAIN cSince' = {}
  BY DEF Content!Crash
<1>2. Content!TypeOK /\ ContentTiming
  BY DEF ContentInv
<1>3. Content!TypeOK'
  BY <1>1, <1>2 DEF Content!TypeOK
<1>4. ContentTiming' /\ ContentAfterEnd'
  BY <1>1, <1>2, ContentTypes DEF ContentTiming, ContentAfterEnd
<1>5. ContentComplete' /\ ContentRenewed' /\ HeldKeyIsFound'
  BY <1>1 DEF ContentComplete, ContentRenewed, HeldKeyIsFound, Content!HeldKeyIsFound
<1>6. DeadNeighborIsForgotten'
  BY <1>1, <1>2, ContentTypes
     DEF ContentTiming, DeadNeighborIsForgotten, Content!DeadNeighborIsForgotten
<1> QED BY <1>3, <1>4, <1>5, <1>6 DEF ContentInv

\* The peer starts again with an empty filter.
LEMMA ContentRestart == ContentInv /\ Content!Restart => ContentInv'
<1> SUFFICES ASSUME ContentInv, Content!Restart PROVE ContentInv'
  OBVIOUS
<1>1. /\ UNCHANGED <<now, cSince, cLosses, cInflight, cEntry, cEnded, cSelected>>
      /\ ~cAlive /\ cAlive' = TRUE /\ cWake' = now
  BY DEF Content!Restart
<1>2. Content!TypeOK /\ ContentTiming /\ DOMAIN cSince = {}
  BY <1>1 DEF ContentInv, ContentTiming
<1>3. Content!TypeOK'
  BY <1>1, <1>2 DEF Content!TypeOK
<1>4. ContentTiming'
  BY <1>1, <1>2, ContentTypes DEF ContentTiming
<1>5. ContentAfterEnd' /\ DeadNeighborIsForgotten'
  BY <1>1 DEF ContentAfterEnd, DeadNeighborIsForgotten, Content!DeadNeighborIsForgotten
<1>6. ContentComplete' /\ ContentRenewed' /\ HeldKeyIsFound'
  BY <1>1, <1>2 DEF ContentComplete, ContentRenewed, HeldKeyIsFound, Content!HeldKeyIsFound
<1> QED BY <1>3, <1>4, <1>5, <1>6 DEF ContentInv

\* Every step of the exchange keeps its invariant.
LEMMA ContentStep == ContentInv /\ [Content!Next]_(Content!vars) => ContentInv'
<1> SUFFICES ASSUME ContentInv, [Content!Next]_(Content!vars) PROVE ContentInv'
  OBVIOUS
<1>1. CASE UNCHANGED Content!vars
  <2>1. Content!TypeOK' /\ ContentTiming' /\ ContentAfterEnd'
    BY <1>1 DEF Content!vars, ContentInv, Content!TypeOK, ContentTiming, ContentAfterEnd
  <2>2. ContentComplete' /\ (ContentTtl >= Content!LongestGap => ContentRenewed)'
    BY <1>1 DEF Content!vars, ContentInv, ContentComplete, ContentRenewed, Content!LongestGap
  <2>3. HeldKeyIsFound' /\ DeadNeighborIsForgotten'
    BY <1>1 DEF Content!vars, ContentInv, HeldKeyIsFound, DeadNeighborIsForgotten,
         Content!HeldKeyIsFound, Content!DeadNeighborIsForgotten, Content!LongestGap
  <2> QED BY <2>1, <2>2, <2>3 DEF ContentInv
<1>2. CASE Content!Next
  BY <1>2, ContentTick, ContentAdd, ContentRound, ContentUpdate, ContentSelect,
     ContentCrash, ContentRestart DEF Content!Next
<1> QED BY <1>1, <1>2

\* select_neighbor finds a key that a live peer has held for longer than the
\* rounds that may be lost, for every period, jitter, delay and number of lost
\* summaries that content_bf_ttl_ms covers.
THEOREM ContentHeldKeyIsFound == Content!Spec => []HeldKeyIsFound
<1>1. ContentInv => HeldKeyIsFound
  BY DEF ContentInv
<1> QED BY <1>1, ContentInit, ContentStep, PTL DEF Content!Spec

\* select_neighbor never returns a peer that is down later than the TTL and the
\* time a datagram travels after it was last alive, for every setting.
THEOREM ContentDeadNeighborIsForgotten == Content!Spec => []DeadNeighborIsForgotten
<1>1. ContentInv => DeadNeighborIsForgotten
  BY DEF ContentInv
<1> QED BY <1>1, ContentInit, ContentStep, PTL DEF Content!Spec

-----------------------------------------------------------------------------
(* The fallback table and the aggregator.                                  *)

\* The periods of the two threads are numbers.
LEMMA TimersPeriods ==
  /\ Timers!FlushEvery \in Nat /\ Timers!FallbackEvery \in Nat
  /\ AggregationWindow \in Nat /\ FallbackWindow \in Nat /\ MaxJitter \in Nat
  /\ QueryBfTtl \in Nat
  /\ Timers!FlushDelay = AggregationWindow + Timers!FlushEvery + MaxJitter
  /\ Timers!FallbackDelay = FallbackWindow + Timers!FallbackEvery + MaxJitter
<1>1. /\ AggregationWindow \in Nat /\ FallbackWindow \in Nat /\ MaxJitter \in Nat
      /\ QueryBfTtl \in Nat /\ MinFlushEvery \in Nat /\ MinFallbackEvery \in Nat
  BY TableAssumption DEF Positive
<1>2. AggregationWindow \div 2 \in Nat /\ FallbackWindow \div 2 \in Nat
  BY <1>1
<1>3. Timers!FlushEvery \in Nat /\ Timers!FallbackEvery \in Nat
  BY <1>1, <1>2 DEF Timers!FlushEvery, Timers!FallbackEvery, Timers!Larger
<1> QED BY <1>1, <1>3 DEF Timers!FlushDelay, Timers!FallbackDelay

-----------------------------------------------------------------------------
(* The inductive invariant.                                                *)

\* pending_batches_ as a set.
PendingBatches == {rPending[i] : i \in 1..Len(rPending)}

PendingAdds == UNION {b.adds : b \in PendingBatches}

TimersTyped ==
  /\ Timers!TypeOK
  /\ rPending \in Seq(Timers!Batch)
  /\ rBuffer \in {Timers!NoBuffer} \cup Timers!Batch

\* An addition that waits in a batch created then: idle is what it says, and
\* since it was made no round of the flush thread came after the end of its
\* window.
GoodAdd(x, created) ==
  /\ x.added <= now /\ x.added >= created
  /\ x.idle = x.added - created
  /\ rFlushWake <= x.added + AggregationWindow + Timers!FlushEvery
  /\ x.key \in DOMAIN rAsked
  /\ x.added <= rAsked[x.key] + Timers!FallbackDelay

GoodBatch(b) == \A x \in b.adds : GoodAdd(x, b.created)

\* The threads are never later than the jitter, and an entry whose deadline has
\* passed is taken in the first round after it.
TimersTiming ==
  /\ rFlushWake <= now + Timers!FlushEvery /\ now <= rFlushWake + MaxJitter
  /\ rFallbackWake <= now + Timers!FallbackEvery /\ now <= rFallbackWake + MaxJitter
  /\ \A k \in DOMAIN rAsked : rAsked[k] <= now
  /\ \A k \in DOMAIN rEntries :
       /\ rEntries[k] = rAsked[k] + FallbackWindow
       /\ rFallbackWake <= rEntries[k] + Timers!FallbackEvery
  /\ \A k \in rTaken : now <= rAsked[k] + Timers!FallbackDelay
  /\ rBuffer.created <= now
  /\ GoodBatch(rBuffer) /\ \A b \in PendingBatches : GoodBatch(b)

\* Exactly one of seven.
OneOf(a, b, c, d, e, f, g) ==
  /\ a \/ b \/ c \/ d \/ e \/ f \/ g
  /\ a => ~(b \/ c \/ d \/ e \/ f \/ g)
  /\ b => ~(c \/ d \/ e \/ f \/ g)
  /\ c => ~(d \/ e \/ f \/ g)
  /\ d => ~(e \/ f \/ g)
  /\ e => ~(f \/ g)
  /\ f => ~g

\* The key is among these additions.
Among(k, adds) == \E x \in adds : x.key = k

\* A key that was asked for is in one of seven places: the buffer and the
\* batches that were split off are told apart.
SolePlace(k) ==
  OneOf(k \in DOMAIN rEntries, k \in rTaken, k \in rAnswered,
        Among(k, rBuffer.adds), Among(k, PendingAdds),
        Among(k, Timers!Broadcast), Among(k, rDiscarded))

\* A key that was not asked for is in none.
NoPlace(k) ==
  ~ \/ k \in DOMAIN rEntries \/ k \in rTaken \/ k \in rAnswered
    \/ Among(k, rBuffer.adds) \/ Among(k, PendingAdds)
    \/ Among(k, Timers!Broadcast) \/ Among(k, rDiscarded)

TimersPlaces ==
  \A k \in Key : /\ k \in DOMAIN rAsked => SolePlace(k)
                 /\ k \notin DOMAIN rAsked => NoPlace(k)

\* Where a loss shows, batch by batch.
TimersLoss ==
  /\ \A x \in rDiscarded : x.idle + Timers!FlushDelay > QueryBfTtl
  /\ \A s \in rSent : s.at - s.batch.created > QueryBfTtl =>
       \A x \in s.batch.adds : x.idle + Timers!FlushDelay > QueryBfTtl

TimersInv == TimersTyped /\ TimersTiming /\ TimersPlaces /\ TimersLoss

-----------------------------------------------------------------------------
(* The invariant implies the properties.                                   *)

\* What waits in the aggregator, in the buffer or in a pending batch.
LEMMA TimersWaiting == Timers!Waiting = rBuffer.adds \cup PendingAdds
  BY DEF Timers!Waiting, PendingAdds, PendingBatches

\* The timers count with the same Cardinality.
LEMMA TimersCardinality == \A S : Timers!Cardinality(S) = Cardinality(S)
  BY DEF Timers!Cardinality, Cardinality

\* The additions that wait, one by one.
LEMMA WaitingGood ==
  ASSUME TimersInv, NEW x \in Timers!Waiting
  PROVE  /\ x \in Timers!Adds /\ x.key \in DOMAIN rAsked
         /\ rFlushWake <= x.added + AggregationWindow + Timers!FlushEvery
         /\ x.added <= rAsked[x.key] + Timers!FallbackDelay
<1>1. PICK b \in PendingBatches \cup {rBuffer} : x \in b.adds
  BY TimersWaiting DEF PendingAdds
<1>2. GoodBatch(b)
  BY DEF TimersInv, TimersTiming
<1>3. x \in Timers!Adds
  <2>1. CASE b = rBuffer
    BY <1>1, <2>1 DEF TimersInv, TimersTyped, Timers!Batch, Timers!NoBuffer
  <2>2. CASE b \in PendingBatches
    <3>1. PICK i \in 1..Len(rPending) : b = rPending[i]
      BY <2>2 DEF PendingBatches
    <3>2. rPending \in Seq(Timers!Batch)
      BY DEF TimersInv, TimersTyped
    <3>3. b \in Timers!Batch
      BY <3>1, <3>2
    <3> QED BY <1>1, <3>3 DEF Timers!Batch
  <2> QED BY <2>1, <2>2
<1> QED BY <1>1, <1>2, <1>3 DEF GoodBatch, GoodAdd

\* The deadlines of the hand-overs add up to the bound of BroadcastInTime.
LEMMA InvBroadcastInTime == TimersInv => BroadcastInTime
<1> SUFFICES ASSUME TimersInv PROVE BroadcastInTime
  OBVIOUS
<1>1. /\ now \in Nat /\ rFlushWake \in Nat /\ rFallbackWake \in Nat
      /\ \A k \in DOMAIN rAsked : rAsked[k] \in Nat
      /\ DOMAIN rEntries \subseteq DOMAIN rAsked /\ rTaken \subseteq DOMAIN rAsked
      /\ \A k \in DOMAIN rEntries : rEntries[k] \in Nat
  BY DEF TimersInv, TimersTyped, Timers!TypeOK
<1>2. TimersTiming
  BY DEF TimersInv
<1>3. ASSUME NEW x \in Timers!Waiting
      PROVE  /\ now - x.added <= Timers!FlushDelay
             /\ now - rAsked[x.key] <= Timers!FallbackDelay + Timers!FlushDelay
  <2>1. x.added \in Nat /\ rAsked[x.key] \in Nat
    BY <1>1, <1>3, WaitingGood DEF Timers!Adds
  <2>2. now <= rFlushWake + MaxJitter
    BY <1>2 DEF TimersTiming
  <2>3. now - x.added <= Timers!FlushDelay
    BY <1>1, <1>3, <2>1, <2>2, WaitingGood, TimersPeriods
  <2> QED BY <1>1, <1>3, <2>1, <2>3, WaitingGood, TimersPeriods
<1>4. ASSUME NEW k \in DOMAIN rAsked, k \in DOMAIN rEntries \cup rTaken
      PROVE  now - rAsked[k] <= Timers!FallbackDelay + Timers!FlushDelay
  <2>1. rAsked[k] \in Nat
    BY <1>1
  <2>2. CASE k \in rTaken
    BY <1>1, <1>2, <2>1, <2>2, TimersPeriods DEF TimersTiming
  <2>3. CASE k \in DOMAIN rEntries
    BY <1>1, <1>2, <2>1, <2>3, TimersPeriods DEF TimersTiming
  <2> QED BY <1>4, <2>2, <2>3
<1> QED BY <1>3, <1>4 DEF BroadcastInTime, Timers!BroadcastInTime

\* What was lost was in a buffer that had been idle.
LEMMA InvLossNeedsIdleBuffer == TimersInv => LossNeedsIdleBuffer
  BY DEF TimersInv, TimersLoss, LossNeedsIdleBuffer, Timers!LossNeedsIdleBuffer,
         Timers!BornExpired

\* One of six places, when the last but two of seven are taken together.
LEMMA InvOnePlace == TimersInv => OnePlace
<1> SUFFICES ASSUME TimersInv, NEW k \in DOMAIN rAsked
             PROVE  Timers!Cardinality({p \in 1..6 : Timers!Places(k)[p]}) = 1
  BY DEF OnePlace, Timers!OnePlace
<1>1. SolePlace(k)
  BY DEF TimersInv, TimersPlaces, TimersTyped, Timers!TypeOK
<1>2. Among(k, Timers!Waiting) <=> Among(k, rBuffer.adds) \/ Among(k, PendingAdds)
  BY TimersWaiting DEF Among
<1> DEFINE P == Timers!Places(k)
<1>3. /\ P[1] <=> k \in DOMAIN rEntries
      /\ P[2] <=> k \in rTaken
      /\ P[3] <=> k \in rAnswered
      /\ P[4] <=> Among(k, Timers!Waiting)
      /\ P[5] <=> Among(k, Timers!Broadcast)
      /\ P[6] <=> Among(k, rDiscarded)
  BY DEF Timers!Places, Among
<1> HIDE DEF P
<1>4. \E q \in 1..6 : P[q] /\ \A p \in 1..6 : P[p] => p = q
  <2>1. \A p \in 1..6 : p = 1 \/ p = 2 \/ p = 3 \/ p = 4 \/ p = 5 \/ p = 6
    OBVIOUS
  <2>2. 1 \in 1..6 /\ 2 \in 1..6 /\ 3 \in 1..6 /\ 4 \in 1..6 /\ 5 \in 1..6 /\ 6 \in 1..6
    OBVIOUS
  <2>3. /\ P[1] \/ P[2] \/ P[3] \/ P[4] \/ P[5] \/ P[6]
        /\ P[1] => ~(P[2] \/ P[3] \/ P[4] \/ P[5] \/ P[6])
        /\ P[2] => ~(P[3] \/ P[4] \/ P[5] \/ P[6])
        /\ P[3] => ~(P[4] \/ P[5] \/ P[6])
        /\ P[4] => ~(P[5] \/ P[6])
        /\ P[5] => ~P[6]
    BY <1>1, <1>2, <1>3 DEF SolePlace, OneOf
  <2>4. CASE P[1]
    BY <2>1, <2>2, <2>3, <2>4
  <2>5. CASE P[2]
    BY <2>1, <2>2, <2>3, <2>5
  <2>6. CASE P[3]
    BY <2>1, <2>2, <2>3, <2>6
  <2>7. CASE P[4]
    BY <2>1, <2>2, <2>3, <2>7
  <2>8. CASE P[5]
    BY <2>1, <2>2, <2>3, <2>8
  <2>9. CASE P[6]
    BY <2>1, <2>2, <2>3, <2>9
  <2> QED BY <2>3, <2>4, <2>5, <2>6, <2>7, <2>8, <2>9
<1>5. PICK q \in 1..6 : P[q] /\ \A p \in 1..6 : P[p] => p = q
  BY <1>4
<1>6. {p \in 1..6 : P[p]} = {q}
  BY <1>5
<1>7. Cardinality({q}) = 1
  BY FS_Singleton
<1> QED BY <1>6, <1>7, TimersCardinality DEF P

-----------------------------------------------------------------------------
(* The initial state and the steps.                                        *)

\* At the start no key was asked for.
LEMMA TimersInit == Timers!Init => TimersInv
<1> SUFFICES ASSUME Timers!Init PROVE TimersInv
  OBVIOUS
<1> USE DEF Timers!Init
<1>1. /\ DOMAIN rAsked = {} /\ DOMAIN rEntries = {} /\ rBuffer.adds = {}
      /\ PendingBatches = {} /\ PendingAdds = {} /\ Timers!Broadcast = {}
  BY DEF PendingBatches, PendingAdds, Timers!NoBuffer, Timers!Broadcast
<1>2. TimersTyped
  <2>1. rPending \in Seq(Timers!Batch) /\ rPending = <<>>
    OBVIOUS
  <2> QED BY <1>1, <2>1 DEF TimersTyped, Timers!TypeOK
<1>3. TimersTiming
  BY <1>1, TimersPeriods DEF TimersTiming, GoodBatch, Timers!NoBuffer
<1>4. TimersPlaces
  BY <1>1 DEF TimersPlaces, NoPlace, Among
<1>5. TimersLoss
  BY DEF TimersLoss
<1> QED BY <1>2, <1>3, <1>4, <1>5 DEF TimersInv

\* What is needed of the types in the steps.
LEMMA TimersTypes ==
  ASSUME TimersInv
  PROVE  /\ now \in Nat /\ rFlushWake \in Nat /\ rFallbackWake \in Nat
         /\ \A k \in DOMAIN rAsked : k \in Key /\ rAsked[k] \in Nat
         /\ DOMAIN rEntries \subseteq DOMAIN rAsked /\ rTaken \subseteq DOMAIN rAsked
         /\ \A k \in DOMAIN rEntries : rEntries[k] \in Nat
         /\ rBuffer.created \in Int /\ rBuffer.adds \subseteq Timers!Adds
         /\ \A b \in PendingBatches :
              b \in Timers!Batch /\ b.created \in Nat /\ b.adds \subseteq Timers!Adds
<1>1. rBuffer.created \in Int /\ rBuffer.adds \subseteq Timers!Adds
  BY DEF TimersInv, TimersTyped, Timers!NoBuffer, Timers!Batch
<1>2. ASSUME NEW b \in PendingBatches
      PROVE  b \in Timers!Batch /\ b.created \in Nat /\ b.adds \subseteq Timers!Adds
  <2>1. PICK i \in 1..Len(rPending) : b = rPending[i]
    BY DEF PendingBatches
  <2>2. rPending \in Seq(Timers!Batch)
    BY DEF TimersInv, TimersTyped
  <2>3. b \in Timers!Batch
    BY <2>1, <2>2
  <2> QED BY <2>3 DEF Timers!Batch
<1> QED BY <1>1, <1>2 DEF TimersInv, TimersTyped, Timers!TypeOK

\* A batch more in pending_batches_.
LEMMA AppendBatch ==
  ASSUME NEW w, rPending \in Seq(Timers!Batch), w \in Timers!Batch,
         rPending' = Append(rPending, w)
  PROVE  /\ rPending' \in Seq(Timers!Batch)
         /\ PendingBatches' = PendingBatches \cup {w}
<1>1. rPending' \in Seq(Timers!Batch)
  OBVIOUS
<1>2. Len(rPending) \in Nat /\ Len(rPending') = Len(rPending) + 1
      /\ \A i \in 1..Len(rPending) : rPending'[i] = rPending[i]
      /\ rPending'[Len(rPending) + 1] = w
  OBVIOUS
<1>3. ASSUME NEW b \in PendingBatches' PROVE b \in PendingBatches \cup {w}
  <2>1. PICK i \in 1..Len(rPending') : b = rPending'[i]
    BY DEF PendingBatches
  <2>2. i \in 1..Len(rPending) \/ i = Len(rPending) + 1
    BY <1>2
  <2> QED BY <1>2, <2>1, <2>2 DEF PendingBatches
<1>4. ASSUME NEW b \in PendingBatches \cup {w} PROVE b \in PendingBatches'
  <2>1. CASE b = w
    <3>1. Len(rPending) + 1 \in 1..Len(rPending')
      BY <1>2
    <3> QED BY <1>2, <2>1, <3>1 DEF PendingBatches
  <2>2. CASE b \in PendingBatches
    <3>1. PICK i \in 1..Len(rPending) : b = rPending[i]
      BY <2>2 DEF PendingBatches
    <3>2. i \in 1..Len(rPending')
      BY <1>2
    <3> QED BY <1>2, <3>1, <3>2 DEF PendingBatches
  <2> QED BY <2>1, <2>2
<1> QED BY <1>1, <1>3, <1>4

\* What add_key keeps of the buffer and what it throws away.
KeptAdds == IF Timers!TooOld THEN {} ELSE rBuffer.adds
LostAdds == IF Timers!TooOld THEN rBuffer.adds ELSE {}

\* The addition that add_key makes.
NewAdd(k) == [key |-> k, added |-> now, idle |-> now - Timers!Usable.created]

\* The buffer after add_key, or the batch that is split off it.
LEMMA AddKeyBatch ==
  ASSUME TimersInv, NEW k \in Key
  PROVE  LET u == Timers!Usable
             w == Timers!WithKey(k)
         IN  /\ u.created \in Nat /\ u.created <= now
             /\ KeptAdds # {} => u.created = rBuffer.created
             /\ NewAdd(k) \in Timers!Adds
             /\ w \in Timers!Batch /\ w.created = u.created
             /\ w.adds = KeptAdds \cup {NewAdd(k)}
<1> DEFINE u == Timers!Usable
<1>1. now \in Nat /\ rBuffer \in {Timers!NoBuffer} \cup Timers!Batch /\ rBuffer.created <= now
  BY DEF TimersInv, TimersTyped, Timers!TypeOK, TimersTiming
<1>2. u \in Timers!Batch /\ u.created <= now /\ u.adds = KeptAdds
      /\ (KeptAdds # {} => u.created = rBuffer.created)
  <2>1. CASE rBuffer = Timers!NoBuffer \/ Timers!TooOld
    <3>1. u = [created |-> now, adds |-> {}]
      BY <2>1 DEF Timers!Usable, Timers!Reset
    <3>2. KeptAdds = {}
      BY <2>1 DEF KeptAdds, Timers!NoBuffer
    <3> QED BY <1>1, <3>1, <3>2 DEF Timers!Batch
  <2>2. CASE ~(rBuffer = Timers!NoBuffer \/ Timers!TooOld)
    BY <1>1, <2>2 DEF Timers!Usable, KeptAdds
  <2> QED BY <2>1, <2>2
<1>3. u.created \in Nat /\ u.adds \subseteq Timers!Adds
  BY <1>2 DEF Timers!Batch
<1>4. now - u.created \in Nat
  BY <1>1, <1>2, <1>3
<1>5. NewAdd(k) \in Timers!Adds
  BY <1>1, <1>4 DEF NewAdd, Timers!Adds
<1>6. Timers!WithKey(k) = [u EXCEPT !.adds = @ \cup {NewAdd(k)}]
  BY DEF Timers!WithKey, NewAdd
<1> HIDE DEF u
<1>7. Timers!WithKey(k) = [created |-> u.created, adds |-> u.adds \cup {NewAdd(k)}]
  BY <1>2, <1>6 DEF Timers!Batch
<1>8. Timers!WithKey(k) \in Timers!Batch
  BY <1>3, <1>5, <1>7 DEF Timers!Batch
<1> QED BY <1>2, <1>3, <1>5, <1>7, <1>8 DEF u

\* add_key, by what it does to the two places and to what is lost.
LEMMA AddKeyShape ==
  ASSUME TimersInv, NEW k \in Key, Timers!AddKey(k)
  PROVE  /\ rDiscarded' = rDiscarded \cup LostAdds
         /\ rPending' \in Seq(Timers!Batch) /\ rBuffer' \in Timers!Batch
         /\ rBuffer'.created <= now
         /\ \/ /\ rBuffer' = Timers!WithKey(k)
               /\ rBuffer'.adds = KeptAdds \cup {NewAdd(k)}
               /\ PendingBatches' = PendingBatches
            \/ /\ rBuffer'.adds = {}
               /\ PendingBatches' = PendingBatches \cup {Timers!WithKey(k)}
<1>1. now \in Nat /\ rPending \in Seq(Timers!Batch)
  BY DEF TimersInv, TimersTyped, Timers!TypeOK
<1>2. /\ Timers!WithKey(k) \in Timers!Batch /\ Timers!WithKey(k).created <= now
      /\ Timers!WithKey(k).adds = KeptAdds \cup {NewAdd(k)}
  BY AddKeyBatch
<1>3. rDiscarded' = rDiscarded \cup LostAdds
  BY DEF Timers!AddKey, LostAdds
<1>4. CASE rPending' = Append(rPending, Timers!WithKey(k)) /\ rBuffer' = Timers!Reset
  <2>1. rBuffer' \in Timers!Batch /\ rBuffer'.adds = {} /\ rBuffer'.created <= now
    BY <1>1, <1>4 DEF Timers!Reset, Timers!Batch
  <2> QED BY <1>1, <1>2, <1>3, <1>4, <2>1, AppendBatch
<1>5. CASE rPending' = rPending /\ rBuffer' = Timers!WithKey(k)
  BY <1>1, <1>2, <1>3, <1>5 DEF PendingBatches
<1> QED BY <1>4, <1>5 DEF Timers!AddKey

\* An addition stays good while no round of the flush thread happens.
LEMMA GoodAddStays ==
  ASSUME TimersInv, NEW x \in Timers!Adds, NEW c \in Int, GoodAdd(x, c),
         now' \in Nat, now <= now', rFlushWake' = rFlushWake,
         \A j \in DOMAIN rAsked : j \in DOMAIN rAsked' /\ rAsked'[j] = rAsked[j]
  PROVE  GoodAdd(x, c)'
<1>1. now \in Nat /\ x.added \in Nat
  BY TimersTypes DEF Timers!Adds
<1> QED BY <1>1 DEF GoodAdd, Timers!FallbackDelay, Timers!FlushEvery, Timers!FallbackEvery

\* So do the batches.
LEMMA GoodBatchStays ==
  ASSUME TimersInv, NEW b, b.adds \subseteq Timers!Adds, b.created \in Int, GoodBatch(b),
         now' \in Nat, now <= now', rFlushWake' = rFlushWake,
         \A j \in DOMAIN rAsked : j \in DOMAIN rAsked' /\ rAsked'[j] = rAsked[j]
  PROVE  GoodBatch(b)'
<1> SUFFICES ASSUME NEW x \in b.adds PROVE GoodAdd(x, b.created)'
  BY DEF GoodBatch
<1>1. x \in Timers!Adds /\ GoodAdd(x, b.created)
  BY DEF GoodBatch
<1> QED BY <1>1, GoodAddStays

\* add_key leaves good batches, for a key that was asked for in time.
LEMMA AddKeyGood ==
  ASSUME TimersInv, NEW k \in Key, Timers!AddKey(k),
         now' = now, rFlushWake' = rFlushWake, k \in DOMAIN rAsked', rAsked'[k] \in Nat,
         now <= rAsked'[k] + Timers!FallbackDelay,
         \A j \in DOMAIN rAsked : j \in DOMAIN rAsked' /\ rAsked'[j] = rAsked[j]
  PROVE  GoodBatch(rBuffer)' /\ (\A b \in PendingBatches : GoodBatch(b))'
<1>1. /\ now \in Nat /\ rFlushWake \in Nat
      /\ rBuffer.adds \subseteq Timers!Adds /\ rBuffer.created \in Int
      /\ \A b \in PendingBatches : b.created \in Nat /\ b.adds \subseteq Timers!Adds
  BY TimersTypes
<1>2. /\ GoodBatch(rBuffer) /\ \A b \in PendingBatches : GoodBatch(b)
      /\ rFlushWake <= now + Timers!FlushEvery
  BY DEF TimersInv, TimersTiming
<1>3. ASSUME NEW b \in PendingBatches PROVE GoodBatch(b)'
  BY <1>1, <1>2, GoodBatchStays
<1>4. ASSUME NEW b, b = rBuffer PROVE GoodBatch(b)'
  BY <1>1, <1>2, <1>4, GoodBatchStays
<1>5. ASSUME NEW w, w = Timers!WithKey(k) PROVE GoodBatch(w)'
  <2> SUFFICES ASSUME NEW x \in w.adds PROVE GoodAdd(x, w.created)'
    BY DEF GoodBatch
  <2>1. /\ w.created \in Nat /\ w.created <= now /\ w.created = Timers!Usable.created
        /\ KeptAdds # {} => w.created = rBuffer.created
        /\ w.adds = KeptAdds \cup {NewAdd(k)}
    BY <1>5, AddKeyBatch
  <2>2. CASE x \in KeptAdds
    <3>1. x \in rBuffer.adds /\ w.created = rBuffer.created
      BY <2>1, <2>2 DEF KeptAdds
    <3>2. GoodAdd(x, w.created) /\ x \in Timers!Adds
      BY <1>1, <1>2, <3>1 DEF GoodBatch
    <3> QED BY <1>1, <2>1, <3>2, GoodAddStays
  <2>3. CASE x = NewAdd(k)
    <3>1. x.added = now /\ x.idle = now - w.created /\ x.key = k
      BY <2>1, <2>3 DEF NewAdd
    <3>2. rFlushWake <= now + AggregationWindow + Timers!FlushEvery
      BY <1>1, <1>2, TimersPeriods
    <3> QED BY <1>1, <2>1, <3>1, <3>2
            DEF GoodAdd, Timers!FallbackDelay, Timers!FlushEvery, Timers!FallbackEvery
  <2> QED BY <2>1, <2>2, <2>3
<1>6. CASE rBuffer' = Timers!WithKey(k) /\ PendingBatches' = PendingBatches
  <2>1. \A w : w = Timers!WithKey(k) => GoodBatch(w)'
    BY <1>5
  <2> QED BY <1>3, <1>6, <2>1 DEF GoodBatch, GoodAdd
<1>7. CASE /\ rBuffer'.adds = {}
           /\ PendingBatches' = PendingBatches \cup {Timers!WithKey(k)}
  BY <1>3, <1>5, <1>7 DEF GoodBatch
<1> QED BY <1>6, <1>7, AddKeyShape

\* What add_key throws away had been waiting since long before.
LEMMA AddKeyLoss ==
  ASSUME TimersInv, NEW x \in LostAdds
  PROVE  x.idle + Timers!FlushDelay > QueryBfTtl
<1>1. x \in rBuffer.adds /\ now - rBuffer.created > QueryBfTtl
  BY DEF LostAdds, Timers!TooOld
<1>2. now \in Nat /\ rFlushWake \in Nat /\ x \in Timers!Adds /\ rBuffer.created \in Int
  BY <1>1, TimersTypes
<1>3. x.idle = x.added - rBuffer.created
      /\ rFlushWake <= x.added + AggregationWindow + Timers!FlushEvery
      /\ now <= rFlushWake + MaxJitter
  BY <1>1 DEF TimersInv, TimersTiming, GoodBatch, GoodAdd
<1>4. x.added \in Nat
  BY <1>2 DEF Timers!Adds
<1> QED BY <1>1, <1>2, <1>3, <1>4, TimersPeriods

\* add_key moves keys between three places and puts its own into one of them.
LEMMA AddKeyPlaces ==
  ASSUME TimersInv, NEW k \in Key, Timers!AddKey(k),
         ~Among(k, rBuffer.adds), ~Among(k, PendingAdds), ~Among(k, rDiscarded)
  PROVE  /\ ~Among(k, rDiscarded)'
         /\ Among(k, rBuffer.adds)' <=> ~Among(k, PendingAdds)'
         /\ \A j \in Key \ {k} :
              \/ /\ Among(j, rBuffer.adds)' <=> Among(j, rBuffer.adds)
                 /\ Among(j, PendingAdds)' <=> Among(j, PendingAdds)
                 /\ Among(j, rDiscarded)' <=> Among(j, rDiscarded)
              \/ /\ Among(j, rBuffer.adds) /\ ~Among(j, rBuffer.adds)'
                 /\ \/ /\ Among(j, PendingAdds)' <=> Among(j, PendingAdds)
                       /\ Among(j, rDiscarded)'
                    \/ /\ Among(j, PendingAdds)'
                       /\ Among(j, rDiscarded)' <=> Among(j, rDiscarded)
<1>1. /\ rDiscarded' = rDiscarded \cup LostAdds
      /\ \/ rBuffer'.adds = KeptAdds \cup {NewAdd(k)} /\ PendingBatches' = PendingBatches
         \/ rBuffer'.adds = {} /\ PendingBatches' = PendingBatches \cup {Timers!WithKey(k)}
  BY AddKeyShape
<1>2. Timers!WithKey(k).adds = KeptAdds \cup {NewAdd(k)} /\ NewAdd(k).key = k
  BY AddKeyBatch DEF NewAdd
<1>3. \/ rBuffer'.adds = KeptAdds \cup {NewAdd(k)} /\ PendingAdds' = PendingAdds
      \/ /\ rBuffer'.adds = {}
         /\ PendingAdds' = PendingAdds \cup KeptAdds \cup {NewAdd(k)}
  <2>1. CASE rBuffer'.adds = KeptAdds \cup {NewAdd(k)} /\ PendingBatches' = PendingBatches
    BY <2>1 DEF PendingAdds
  <2>2. CASE rBuffer'.adds = {} /\ PendingBatches' = PendingBatches \cup {Timers!WithKey(k)}
    BY <1>2, <2>2 DEF PendingAdds
  <2> QED BY <1>1, <2>1, <2>2
<1>4. \/ KeptAdds = rBuffer.adds /\ LostAdds = {}
      \/ KeptAdds = {} /\ LostAdds = rBuffer.adds
  <2>1. CASE Timers!TooOld
    BY <2>1 DEF KeptAdds, LostAdds
  <2>2. CASE ~Timers!TooOld
    BY <2>2 DEF KeptAdds, LostAdds
  <2> QED BY <2>1, <2>2
<1> QED BY <1>1, <1>2, <1>3, <1>4 DEF Among

\* The places of a key that a step leaves where it is.
LEMMA SamePlaces ==
  ASSUME rBuffer' = rBuffer, rPending' = rPending
  PROVE  /\ PendingBatches' = PendingBatches /\ PendingAdds' = PendingAdds
         /\ \A k : /\ Among(k, rBuffer.adds)' <=> Among(k, rBuffer.adds)
                   /\ Among(k, PendingAdds)' <=> Among(k, PendingAdds)
<1>1. PendingBatches' = PendingBatches
  BY DEF PendingBatches
<1>2. PendingAdds' = PendingAdds
  BY <1>1 DEF PendingAdds
<1> QED BY <1>1, <1>2 DEF Among

\* Without a flush round the same keys have been broadcast.
LEMMA SameBroadcast ==
  ASSUME rSent' = rSent
  PROVE  \A k : Among(k, Timers!Broadcast)' <=> Among(k, Timers!Broadcast)
  BY DEF Among, Timers!Broadcast

\* Batches that a step without flush round leaves alone.
LEMMA SameBatches ==
  ASSUME TimersInv, rBuffer' = rBuffer, rPending' = rPending,
         now' \in Nat, now <= now', rFlushWake' = rFlushWake,
         \A j \in DOMAIN rAsked : j \in DOMAIN rAsked' /\ rAsked'[j] = rAsked[j]
  PROVE  /\ rBuffer'.created <= now' /\ GoodBatch(rBuffer)'
         /\ (\A b \in PendingBatches : GoodBatch(b))'
<1>1. /\ rBuffer.adds \subseteq Timers!Adds /\ rBuffer.created \in Int /\ now \in Nat
      /\ \A b \in PendingBatches : b.created \in Nat /\ b.adds \subseteq Timers!Adds
  BY TimersTypes
<1>2. /\ rBuffer.created <= now
      /\ GoodBatch(rBuffer) /\ \A b \in PendingBatches : GoodBatch(b)
  BY DEF TimersInv, TimersTiming
<1>3. ASSUME NEW b \in PendingBatches PROVE GoodBatch(b)'
  BY <1>1, <1>2, GoodBatchStays
<1>4. ASSUME NEW b, b = rBuffer PROVE GoodBatch(b)'
  BY <1>1, <1>2, <1>4, GoodBatchStays
<1>5. PendingBatches' = PendingBatches
  BY DEF PendingBatches
<1>6. GoodBatch(rBuffer)'
  BY <1>4 DEF GoodBatch, GoodAdd
<1> QED BY <1>1, <1>2, <1>3, <1>5, <1>6

\* Time passes: no thread is overdue.
LEMMA TimersTick == TimersInv /\ Timers!Tick => TimersInv'
<1> SUFFICES ASSUME TimersInv, Timers!Tick PROVE TimersInv'
  OBVIOUS
<1>1. /\ now' = now + 1 /\ rTaken = {}
      /\ now < rFallbackWake + MaxJitter /\ now < rFlushWake + MaxJitter
      /\ UNCHANGED <<rEntries, rTaken, rBuffer, rPending, rFallbackWake, rFlushWake,
                     rAsked, rAnswered, rSent, rDiscarded>>
  BY DEF Timers!Tick, Timers!tables, Timers!ghosts
<1>2. now \in Nat /\ now' \in Nat /\ now <= now' /\ rFlushWake \in Nat /\ rFallbackWake \in Nat
  BY <1>1, TimersTypes
<1>3. TimersTyped'
  BY <1>1, <1>2 DEF TimersInv, TimersTyped, Timers!TypeOK
<1>4. TimersTiming'
  <2>1. /\ rBuffer'.created <= now' /\ GoodBatch(rBuffer)'
        /\ (\A b \in PendingBatches : GoodBatch(b))'
    BY <1>1, <1>2, SameBatches
  <2>2. /\ rFlushWake <= now' + Timers!FlushEvery /\ now' <= rFlushWake + MaxJitter
        /\ rFallbackWake <= now' + Timers!FallbackEvery /\ now' <= rFallbackWake + MaxJitter
    BY <1>1, <1>2, TimersPeriods DEF TimersInv, TimersTiming
  <2>3. \A k \in DOMAIN rAsked : rAsked[k] <= now'
    BY <1>1, <1>2, TimersTypes DEF TimersInv, TimersTiming
  <2>4. /\ Timers!FlushEvery' = Timers!FlushEvery
        /\ Timers!FallbackEvery' = Timers!FallbackEvery
    BY DEF Timers!FlushEvery, Timers!FallbackEvery
  <2> QED BY <1>1, <2>1, <2>2, <2>3, <2>4 DEF TimersInv, TimersTiming
<1>5. TimersPlaces' /\ TimersLoss'
  <2>1. TimersPlaces'
    BY <1>1, SamePlaces, SameBroadcast DEF TimersInv, TimersPlaces, SolePlace, NoPlace, OneOf, Among
  <2>2. TimersLoss'
    BY <1>1 DEF TimersInv, TimersLoss, Timers!FlushDelay, Timers!FlushEvery
  <2> QED BY <2>1, <2>2
<1> QED BY <1>3, <1>4, <1>5 DEF TimersInv

\* A direct request arms a fallback.
LEMMA TimersAskDirectly ==
  ASSUME TimersInv, NEW k \in Key, Timers!AskDirectly(k)
  PROVE  TimersInv'
<1>1. /\ UNCHANGED <<now, rTaken, rBuffer, rPending, rFallbackWake, rFlushWake,
                     rAnswered, rSent, rDiscarded>>
      /\ k \notin DOMAIN rAsked /\ DOMAIN rAsked' = DOMAIN rAsked \cup {k} /\ rAsked'[k] = now
      /\ \A j \in DOMAIN rAsked : rAsked'[j] = rAsked[j]
      /\ DOMAIN rEntries' = DOMAIN rEntries \cup {k} /\ rEntries'[k] = now + FallbackWindow
      /\ \A j \in DOMAIN rEntries \ {k} : rEntries'[j] = rEntries[j]
  BY DEF Timers!AskDirectly, Timers!Ask
<1>2. k \notin DOMAIN rEntries /\ NoPlace(k)
  BY <1>1, TimersTypes DEF TimersInv, TimersPlaces
<1>3. now \in Nat /\ FallbackWindow \in Nat /\ now + FallbackWindow \in Nat
  BY TimersTypes, TimersPeriods
<1>4. TimersTyped'
  <2>1. /\ DOMAIN rAsked' \subseteq Key /\ \A j \in DOMAIN rAsked' : rAsked'[j] \in Nat
        /\ DOMAIN rEntries' \subseteq DOMAIN rAsked'
        /\ \A j \in DOMAIN rEntries' : rEntries'[j] \in Nat
        /\ rTaken' \subseteq DOMAIN rAsked'
    BY <1>1, <1>3, TimersTypes
  <2> QED BY <1>1, <2>1 DEF TimersInv, TimersTyped, Timers!TypeOK
<1>5. TimersTiming'
  <2>1. /\ rBuffer'.created <= now' /\ GoodBatch(rBuffer)'
        /\ (\A b \in PendingBatches : GoodBatch(b))'
    BY <1>1, <1>3, SameBatches
  <2>2. TimersTiming
    BY DEF TimersInv
  <2>3. /\ Timers!FlushEvery' = Timers!FlushEvery /\ Timers!FlushEvery \in Nat
        /\ Timers!FallbackEvery' = Timers!FallbackEvery /\ Timers!FallbackEvery \in Nat
        /\ Timers!FallbackDelay' = Timers!FallbackDelay
    BY TimersPeriods DEF Timers!FlushEvery, Timers!FallbackEvery, Timers!FallbackDelay
  <2>4. ASSUME NEW j \in DOMAIN rEntries'
        PROVE  /\ rEntries'[j] = rAsked'[j] + FallbackWindow
               /\ rFallbackWake <= rEntries'[j] + Timers!FallbackEvery
    <3>1. CASE j = k
      BY <1>1, <1>3, <2>2, <2>3, <3>1, TimersTypes DEF TimersTiming
    <3>2. CASE j # k
      BY <1>1, <2>2, <3>2, TimersTypes DEF TimersTiming
    <3> QED BY <3>1, <3>2
  <2>5. \A j \in DOMAIN rAsked' : rAsked'[j] <= now
    BY <1>1, <1>3, <2>2 DEF TimersTiming
  <2>6. \A j \in rTaken : now <= rAsked'[j] + Timers!FallbackDelay
    BY <1>1, <2>2, TimersTypes DEF TimersTiming
  <2> QED BY <1>1, <2>1, <2>2, <2>3, <2>4, <2>5, <2>6 DEF TimersTiming
<1>6. TimersPlaces'
  BY <1>1, <1>2, SamePlaces, SameBroadcast
     DEF TimersInv, TimersPlaces, SolePlace, NoPlace, OneOf, Among
<1>7. TimersLoss'
  BY <1>1 DEF TimersInv, TimersLoss, Timers!FlushDelay, Timers!FlushEvery
<1> QED BY <1>4, <1>5, <1>6, <1>7 DEF TimersInv

\* An answer cancels a fallback.
LEMMA TimersCancel ==
  ASSUME TimersInv, NEW k \in Key, Timers!Cancel(k)
  PROVE  TimersInv'
<1>1. /\ UNCHANGED <<now, rTaken, rBuffer, rPending, rFallbackWake, rFlushWake,
                     rAsked, rSent, rDiscarded>>
      /\ k \in DOMAIN rEntries
      /\ DOMAIN rEntries' = DOMAIN rEntries \ {k}
      /\ \A j \in DOMAIN rEntries' : rEntries'[j] = rEntries[j]
      /\ rAnswered' = rAnswered \cup {k}
  BY DEF Timers!Cancel
<1>2. now \in Nat
  BY TimersTypes
<1>3. TimersTyped'
  BY <1>1 DEF TimersInv, TimersTyped, Timers!TypeOK
<1>4. TimersTiming'
  <2>1. /\ rBuffer'.created <= now' /\ GoodBatch(rBuffer)'
        /\ (\A b \in PendingBatches : GoodBatch(b))'
    BY <1>1, <1>2, SameBatches
  <2>2. /\ Timers!FlushEvery' = Timers!FlushEvery
        /\ Timers!FallbackEvery' = Timers!FallbackEvery
        /\ Timers!FallbackDelay' = Timers!FallbackDelay
    BY DEF Timers!FlushEvery, Timers!FallbackEvery, Timers!FallbackDelay
  <2> QED BY <1>1, <2>1, <2>2 DEF TimersInv, TimersTiming
<1>5. TimersPlaces'
  BY <1>1, SamePlaces, SameBroadcast, TimersTypes
     DEF TimersInv, TimersPlaces, SolePlace, NoPlace, OneOf, Among
<1>6. TimersLoss'
  BY <1>1 DEF TimersInv, TimersLoss, Timers!FlushDelay, Timers!FlushEvery
<1> QED BY <1>3, <1>4, <1>5, <1>6 DEF TimersInv

\* The fallback thread takes what is due; it was not due a round before.
LEMMA TimersTakeDue == TimersInv /\ Timers!TakeDue => TimersInv'
<1> SUFFICES ASSUME TimersInv, Timers!TakeDue PROVE TimersInv'
  OBVIOUS
<1>1. /\ UNCHANGED <<now, rBuffer, rPending, rFlushWake, rAsked, rAnswered, rSent, rDiscarded>>
      /\ rTaken = {} /\ rTaken' = {k \in DOMAIN rEntries : now >= rEntries[k]}
      /\ DOMAIN rEntries' = DOMAIN rEntries \ rTaken'
      /\ \A j \in DOMAIN rEntries' : rEntries'[j] = rEntries[j]
      /\ rFallbackWake' = now + Timers!FallbackEvery
  BY DEF Timers!TakeDue, Timers!Remaining, Timers!ghosts
<1>2. now \in Nat /\ Timers!FallbackEvery \in Nat /\ rFallbackWake \in Nat
  BY TimersTypes, TimersPeriods
<1>3. TimersTyped'
  BY <1>1, <1>2 DEF TimersInv, TimersTyped, Timers!TypeOK
<1>4. TimersTiming'
  <2>1. /\ rBuffer'.created <= now' /\ GoodBatch(rBuffer)'
        /\ (\A b \in PendingBatches : GoodBatch(b))'
    BY <1>1, <1>2, SameBatches
  <2>2. TimersTiming
    BY DEF TimersInv
  <2>3. /\ Timers!FlushEvery' = Timers!FlushEvery
        /\ Timers!FallbackEvery' = Timers!FallbackEvery
        /\ Timers!FallbackDelay' = Timers!FallbackDelay
    BY DEF Timers!FlushEvery, Timers!FallbackEvery, Timers!FallbackDelay
  <2>4. ASSUME NEW j \in DOMAIN rEntries'
        PROVE  /\ rEntries'[j] = rAsked[j] + FallbackWindow
               /\ rFallbackWake' <= rEntries'[j] + Timers!FallbackEvery
    BY <1>1, <1>2, <2>2, TimersTypes DEF TimersTiming
  <2>5. ASSUME NEW j \in rTaken' PROVE now <= rAsked[j] + Timers!FallbackDelay
    <3>1. j \in DOMAIN rEntries /\ j \in DOMAIN rAsked /\ rAsked[j] \in Nat /\ rEntries[j] \in Nat
      BY <1>1, TimersTypes
    <3>2. /\ rEntries[j] = rAsked[j] + FallbackWindow
          /\ rFallbackWake <= rEntries[j] + Timers!FallbackEvery
          /\ now <= rFallbackWake + MaxJitter
      BY <2>2, <3>1 DEF TimersTiming
    <3> QED BY <1>2, <3>1, <3>2, TimersPeriods
  <2>6. now <= now + Timers!FallbackEvery + MaxJitter
    BY <1>2, TimersPeriods
  <2> QED BY <1>1, <1>2, <2>1, <2>2, <2>3, <2>4, <2>5, <2>6, TimersPeriods DEF TimersTiming
<1>5. TimersPlaces'
  BY <1>1, SamePlaces, SameBroadcast, TimersTypes
     DEF TimersInv, TimersPlaces, SolePlace, NoPlace, OneOf, Among
<1>6. TimersLoss'
  BY <1>1 DEF TimersInv, TimersLoss, Timers!FlushDelay, Timers!FlushEvery
<1> QED BY <1>3, <1>4, <1>5, <1>6 DEF TimersInv

\* add_key keeps the types of the aggregator and the account of losses.
LEMMA AddKeyKeeps ==
  ASSUME TimersInv, NEW k \in Key, Timers!AddKey(k), rSent' = rSent
  PROVE  /\ rPending' \in Seq(Timers!Batch) /\ rBuffer' \in Timers!Batch
         /\ rBuffer'.created \in Nat /\ rBuffer'.created <= now
         /\ rBuffer'.adds \subseteq Timers!Adds
         /\ \A i \in 1..Len(rPending') : rPending'[i].adds \subseteq Timers!Adds
         /\ rDiscarded' \subseteq Timers!Adds
         /\ TimersLoss'
<1>1. /\ rDiscarded' = rDiscarded \cup LostAdds
      /\ rPending' \in Seq(Timers!Batch) /\ rBuffer' \in Timers!Batch
      /\ rBuffer'.created <= now
  BY AddKeyShape
<1>2. rBuffer'.created \in Nat /\ rBuffer'.adds \subseteq Timers!Adds
  BY <1>1 DEF Timers!Batch
<1>3. ASSUME NEW i \in 1..Len(rPending') PROVE rPending'[i].adds \subseteq Timers!Adds
  <2>1. rPending'[i] \in Timers!Batch
    BY <1>1
  <2> QED BY <2>1 DEF Timers!Batch
<1>4. rDiscarded' \subseteq Timers!Adds
  <2>1. LostAdds \subseteq rBuffer.adds
    BY DEF LostAdds
  <2>2. rBuffer.adds \subseteq Timers!Adds /\ rDiscarded \subseteq Timers!Adds
    BY TimersTypes DEF TimersInv, TimersTyped, Timers!TypeOK
  <2> QED BY <1>1, <2>1, <2>2
<1>5. TimersLoss'
  <2>1. Timers!FlushDelay' = Timers!FlushDelay
    BY DEF Timers!FlushDelay, Timers!FlushEvery
  <2>2. \A x \in rDiscarded' : x.idle + Timers!FlushDelay > QueryBfTtl
    BY <1>1, AddKeyLoss DEF TimersInv, TimersLoss
  <2> QED BY <2>1, <2>2 DEF TimersInv, TimersLoss
<1> QED BY <1>1, <1>2, <1>3, <1>4, <1>5

\* A request that no summary matches goes into the buffer.
LEMMA TimersAskByQuery ==
  ASSUME TimersInv, NEW k \in Key, Timers!AskByQuery(k)
  PROVE  TimersInv'
<1>1. /\ UNCHANGED <<now, rEntries, rTaken, rFallbackWake, rFlushWake, rAnswered, rSent>>
      /\ Timers!AddKey(k)
      /\ k \notin DOMAIN rAsked /\ DOMAIN rAsked' = DOMAIN rAsked \cup {k} /\ rAsked'[k] = now
      /\ \A j \in DOMAIN rAsked : rAsked'[j] = rAsked[j]
  BY DEF Timers!AskByQuery, Timers!Ask
<1>2. NoPlace(k)
  BY <1>1 DEF TimersInv, TimersPlaces
<1>3. now \in Nat /\ Timers!FallbackDelay \in Nat /\ now <= now + Timers!FallbackDelay
  BY TimersTypes, TimersPeriods
<1>4. TimersTyped'
  <2>1. /\ DOMAIN rAsked' \subseteq Key /\ \A j \in DOMAIN rAsked' : rAsked'[j] \in Nat
        /\ DOMAIN rEntries \subseteq DOMAIN rAsked' /\ rTaken \subseteq DOMAIN rAsked'
    BY <1>1, <1>3, TimersTypes
  <2> QED BY <1>1, <2>1, AddKeyKeeps DEF TimersInv, TimersTyped, Timers!TypeOK
<1>5. TimersTiming'
  <2>1. GoodBatch(rBuffer)' /\ (\A b \in PendingBatches : GoodBatch(b))'
    BY <1>1, <1>3, AddKeyGood
  <2>2. TimersTiming
    BY DEF TimersInv
  <2>3. /\ Timers!FlushEvery' = Timers!FlushEvery
        /\ Timers!FallbackEvery' = Timers!FallbackEvery
        /\ Timers!FallbackDelay' = Timers!FallbackDelay
    BY DEF Timers!FlushEvery, Timers!FallbackEvery, Timers!FallbackDelay
  <2>4. rBuffer'.created <= now
    BY <1>1, AddKeyKeeps
  <2>5. \A j \in DOMAIN rEntries : rEntries[j] = rAsked'[j] + FallbackWindow
    BY <1>1, <2>2, TimersTypes DEF TimersTiming
  <2>6. \A j \in DOMAIN rAsked' : rAsked'[j] <= now
    BY <1>1, <1>3, <2>2 DEF TimersTiming
  <2>7. \A j \in rTaken : now <= rAsked'[j] + Timers!FallbackDelay
    BY <1>1, <2>2, TimersTypes DEF TimersTiming
  <2> QED BY <1>1, <2>1, <2>2, <2>3, <2>4, <2>5, <2>6, <2>7 DEF TimersTiming
<1>6. TimersPlaces'
  <2> SUFFICES ASSUME NEW j \in Key
               PROVE  /\ j \in DOMAIN rAsked' => SolePlace(j)'
                      /\ j \notin DOMAIN rAsked' => NoPlace(j)'
    BY DEF TimersPlaces
  <2>1. Among(j, Timers!Broadcast)' <=> Among(j, Timers!Broadcast)
    BY <1>1, SameBroadcast
  <2>2. ~Among(k, rBuffer.adds) /\ ~Among(k, PendingAdds) /\ ~Among(k, rDiscarded)
    BY <1>2 DEF NoPlace
  <2>3. CASE j = k
    BY <1>1, <1>2, <2>1, <2>2, <2>3, AddKeyPlaces DEF NoPlace, SolePlace, OneOf
  <2>4. CASE j # k
    <3>1. /\ j \in DOMAIN rAsked => SolePlace(j)
          /\ j \notin DOMAIN rAsked => NoPlace(j)
      BY DEF TimersInv, TimersPlaces
    <3> QED BY <1>1, <2>1, <2>2, <2>4, <3>1, AddKeyPlaces DEF NoPlace, SolePlace, OneOf
  <2> QED BY <2>3, <2>4
<1>7. TimersLoss'
  BY <1>1, AddKeyKeeps
<1> QED BY <1>4, <1>5, <1>6, <1>7 DEF TimersInv

\* The fallback thread adds a key it took, in the same instant.
LEMMA TimersAddDue ==
  ASSUME TimersInv, NEW k \in Key, Timers!AddDue(k)
  PROVE  TimersInv'
<1>1. /\ UNCHANGED <<now, rEntries, rFallbackWake, rFlushWake, rAsked, rAnswered, rSent>>
      /\ Timers!AddKey(k) /\ k \in rTaken /\ rTaken' = rTaken \ {k}
  BY DEF Timers!AddDue
<1>2. /\ now \in Nat /\ k \in DOMAIN rAsked /\ rAsked[k] \in Nat
      /\ now <= rAsked[k] + Timers!FallbackDelay /\ SolePlace(k)
  BY <1>1, TimersTypes DEF TimersInv, TimersTiming, TimersPlaces
<1>3. TimersTyped'
  <2>1. rTaken' \subseteq DOMAIN rAsked
    BY <1>1, TimersTypes
  <2> QED BY <1>1, <2>1, AddKeyKeeps DEF TimersInv, TimersTyped, Timers!TypeOK
<1>4. TimersTiming'
  <2>1. GoodBatch(rBuffer)' /\ (\A b \in PendingBatches : GoodBatch(b))'
    BY <1>1, <1>2, AddKeyGood
  <2>2. /\ Timers!FlushEvery' = Timers!FlushEvery
        /\ Timers!FallbackEvery' = Timers!FallbackEvery
        /\ Timers!FallbackDelay' = Timers!FallbackDelay
    BY DEF Timers!FlushEvery, Timers!FallbackEvery, Timers!FallbackDelay
  <2>3. rBuffer'.created <= now
    BY <1>1, AddKeyKeeps
  <2> QED BY <1>1, <2>1, <2>2, <2>3 DEF TimersInv, TimersTiming
<1>5. TimersPlaces'
  <2> SUFFICES ASSUME NEW j \in Key
               PROVE  /\ j \in DOMAIN rAsked => SolePlace(j)'
                      /\ j \notin DOMAIN rAsked => NoPlace(j)'
    BY <1>1 DEF TimersPlaces
  <2>1. Among(j, Timers!Broadcast)' <=> Among(j, Timers!Broadcast)
    BY <1>1, SameBroadcast
  <2>2. ~Among(k, rBuffer.adds) /\ ~Among(k, PendingAdds) /\ ~Among(k, rDiscarded)
    BY <1>1, <1>2 DEF SolePlace, OneOf
  <2>3. CASE j = k
    BY <1>1, <1>2, <2>1, <2>2, <2>3, AddKeyPlaces DEF NoPlace, SolePlace, OneOf
  <2>4. CASE j # k
    <3>1. /\ j \in DOMAIN rAsked => SolePlace(j)
          /\ j \notin DOMAIN rAsked => NoPlace(j)
      BY DEF TimersInv, TimersPlaces
    <3> QED BY <1>1, <2>1, <2>2, <2>4, <3>1, AddKeyPlaces DEF NoPlace, SolePlace, OneOf
  <2> QED BY <2>3, <2>4
<1>6. TimersLoss'
  BY <1>1, AddKeyKeeps
<1> QED BY <1>3, <1>4, <1>5, <1>6 DEF TimersInv

\* A batch that is broadcast expired has a key that was added late.
LEMMA FlushLoss ==
  ASSUME TimersInv, NEW b \in Timers!Batches, now - b.created > QueryBfTtl, NEW x \in b.adds
  PROVE  x.idle + Timers!FlushDelay > QueryBfTtl
<1>1. b \in PendingBatches \/ b = rBuffer
  BY DEF Timers!Batches, PendingBatches
<1>2. GoodAdd(x, b.created) /\ now <= rFlushWake + MaxJitter
  BY <1>1 DEF TimersInv, TimersTiming, GoodBatch
<1>3. x \in Timers!Adds /\ b.created \in Int /\ now \in Nat /\ rFlushWake \in Nat
  BY <1>1, TimersTypes
<1>4. x.added \in Nat
  BY <1>3 DEF Timers!Adds
<1> QED BY <1>2, <1>3, <1>4, TimersPeriods DEF GoodAdd

\* A round of the flush thread broadcasts what was split off and what is due; a
\* buffer it leaves has not reached the end of its window.
LEMMA TimersFlushRound == TimersInv /\ Timers!FlushRound => TimersInv'
<1> SUFFICES ASSUME TimersInv, Timers!FlushRound PROVE TimersInv'
  OBVIOUS
<1>1. /\ UNCHANGED <<now, rEntries, rTaken, rFallbackWake, rAsked, rAnswered, rDiscarded>>
      /\ rSent' = rSent \cup {[batch |-> b, at |-> now] : b \in Timers!Batches}
      /\ rPending' = <<>>
      /\ rBuffer' = IF Timers!Due THEN Timers!Reset ELSE rBuffer
      /\ rFlushWake' = now + Timers!FlushEvery
  BY DEF Timers!FlushRound
<1>2. now \in Nat /\ Timers!FlushEvery \in Nat
  BY TimersTypes, TimersPeriods
<1>3. PendingBatches' = {} /\ PendingAdds' = {}
  BY <1>1 DEF PendingBatches, PendingAdds
<1>4. Timers!Reset \in Timers!Batch /\ Timers!Reset.adds = {} /\ Timers!Reset.created = now
  BY <1>2 DEF Timers!Reset, Timers!Batch
<1>5. TimersTyped'
  <2>1. rPending' \in Seq(Timers!Batch) /\ 1..Len(rPending') = {}
    BY <1>1
  <2>2. rBuffer' \in {Timers!NoBuffer} \cup Timers!Batch
    BY <1>1, <1>4 DEF TimersInv, TimersTyped
  <2>3. rBuffer' = Timers!NoBuffer
        \/ (rBuffer'.created \in Nat /\ rBuffer'.adds \subseteq Timers!Adds)
    BY <2>2 DEF Timers!Batch
  <2>4. rFlushWake' \in Nat
    BY <1>1, <1>2
  <2>5. Timers!NoBuffer' = Timers!NoBuffer
    BY DEF Timers!NoBuffer
  <2> QED BY <1>1, <2>1, <2>2, <2>3, <2>4, <2>5 DEF TimersInv, TimersTyped, Timers!TypeOK
<1>6. TimersTiming'
  <2>1. TimersTiming
    BY DEF TimersInv
  <2>2. /\ Timers!FlushEvery' = Timers!FlushEvery
        /\ Timers!FallbackEvery' = Timers!FallbackEvery
        /\ Timers!FallbackDelay' = Timers!FallbackDelay
    BY DEF Timers!FlushEvery, Timers!FallbackEvery, Timers!FallbackDelay
  <2>3. rBuffer'.created <= now
    BY <1>1, <1>2, <1>4, <2>1 DEF TimersTiming
  <2>4. GoodBatch(rBuffer)'
    <3>1. CASE Timers!Due
      BY <1>1, <1>4, <3>1 DEF GoodBatch
    <3>2. CASE ~Timers!Due
      <4> SUFFICES ASSUME NEW x \in rBuffer.adds, rBuffer' = rBuffer
                   PROVE  GoodAdd(x, rBuffer.created)'
        BY <1>1, <3>2 DEF GoodBatch
      <4>1. GoodAdd(x, rBuffer.created)
        BY <2>1 DEF TimersTiming, GoodBatch
      <4>2. x \in Timers!Adds /\ rBuffer.created \in Int
        BY TimersTypes
      <4>3. x.added \in Nat
        BY <4>2 DEF Timers!Adds
      <4>4. now - rBuffer.created < AggregationWindow
        BY <1>2, <3>2, <4>2, TimersPeriods DEF Timers!Due
      <4>5. now + Timers!FlushEvery <= x.added + AggregationWindow + Timers!FlushEvery
        BY <1>2, <4>1, <4>2, <4>3, <4>4, TimersPeriods DEF GoodAdd
      <4> QED BY <1>1, <2>2, <4>1, <4>5 DEF GoodAdd
    <3> QED BY <3>1, <3>2
  <2>5. now <= now + Timers!FlushEvery + MaxJitter
    BY <1>2, TimersPeriods
  <2> QED BY <1>1, <1>2, <1>3, <2>1, <2>2, <2>3, <2>4, <2>5 DEF TimersTiming
<1>7. TimersPlaces'
  <2> SUFFICES ASSUME NEW j \in Key
               PROVE  /\ j \in DOMAIN rAsked => SolePlace(j)'
                      /\ j \notin DOMAIN rAsked => NoPlace(j)'
    BY <1>1 DEF TimersPlaces
  <2>1. /\ j \in DOMAIN rAsked => SolePlace(j)
        /\ j \notin DOMAIN rAsked => NoPlace(j)
    BY DEF TimersInv, TimersPlaces
  <2>2. ~Among(j, PendingAdds)'
    BY <1>3 DEF Among
  <2>3. Among(j, rDiscarded)' <=> Among(j, rDiscarded)
    BY <1>1 DEF Among
  <2>4. Timers!Batches = PendingBatches \cup (IF Timers!Due THEN {rBuffer} ELSE {})
    BY DEF Timers!Batches, PendingBatches
  <2>5. Timers!Broadcast' = Timers!Broadcast \cup UNION {b.adds : b \in Timers!Batches}
    <3>1. ASSUME NEW x \in Timers!Broadcast'
          PROVE  x \in Timers!Broadcast \cup UNION {b.adds : b \in Timers!Batches}
      <4>1. PICK s \in rSent' : x \in s.batch.adds
        BY DEF Timers!Broadcast
      <4>2. CASE s \in rSent
        BY <4>1, <4>2 DEF Timers!Broadcast
      <4>3. CASE s \notin rSent
        <5>1. PICK b \in Timers!Batches : s = [batch |-> b, at |-> now]
          BY <1>1, <4>3
        <5>2. x \in b.adds
          BY <4>1, <5>1
        <5> QED BY <5>2
      <4> QED BY <4>2, <4>3
    <3>2. Timers!Broadcast \subseteq Timers!Broadcast'
      BY <1>1 DEF Timers!Broadcast
    <3>3. ASSUME NEW b \in Timers!Batches PROVE b.adds \subseteq Timers!Broadcast'
      <4>1. [batch |-> b, at |-> now] \in rSent'
        BY <1>1
      <4> QED BY <4>1 DEF Timers!Broadcast
    <3> QED BY <3>1, <3>2, <3>3
  <2>6. CASE Timers!Due
    <3>1. Timers!Broadcast' = Timers!Broadcast \cup PendingAdds \cup rBuffer.adds
      BY <2>4, <2>5, <2>6 DEF PendingAdds
    <3>2. ~Among(j, rBuffer.adds)'
      BY <1>1, <1>4, <2>6 DEF Among
    <3>3. Among(j, Timers!Broadcast)' <=>
            \/ Among(j, Timers!Broadcast) \/ Among(j, PendingAdds) \/ Among(j, rBuffer.adds)
      BY <3>1 DEF Among
    <3> QED BY <1>1, <2>1, <2>2, <2>3, <3>2, <3>3 DEF SolePlace, NoPlace, OneOf
  <2>7. CASE ~Timers!Due
    <3>1. Timers!Broadcast' = Timers!Broadcast \cup PendingAdds
      BY <2>4, <2>5, <2>7 DEF PendingAdds
    <3>2. Among(j, rBuffer.adds)' <=> Among(j, rBuffer.adds)
      BY <1>1, <2>7 DEF Among
    <3>3. Among(j, Timers!Broadcast)' <=>
            Among(j, Timers!Broadcast) \/ Among(j, PendingAdds)
      BY <3>1 DEF Among
    <3> QED BY <1>1, <2>1, <2>2, <2>3, <3>2, <3>3 DEF SolePlace, NoPlace, OneOf
  <2> QED BY <2>6, <2>7
<1>8. TimersLoss'
  <2>1. Timers!FlushDelay' = Timers!FlushDelay
    BY DEF Timers!FlushDelay, Timers!FlushEvery
  <2>2. ASSUME NEW s \in rSent', s.at - s.batch.created > QueryBfTtl, NEW x \in s.batch.adds
        PROVE  x.idle + Timers!FlushDelay > QueryBfTtl
    <3>1. CASE s \in rSent
      BY <2>2, <3>1 DEF TimersInv, TimersLoss
    <3>2. CASE s \notin rSent
      <4>1. PICK b \in Timers!Batches : s = [batch |-> b, at |-> now]
        BY <1>1, <3>2
      <4>2. s.batch = b /\ s.at = now
        BY <4>1
      <4> QED BY <2>2, <4>2, FlushLoss
    <3> QED BY <3>1, <3>2
  <2>3. \A x \in rDiscarded' : x.idle + Timers!FlushDelay > QueryBfTtl
    BY <1>1 DEF TimersInv, TimersLoss
  <2> QED BY <2>1, <2>2, <2>3 DEF TimersLoss
<1> QED BY <1>5, <1>6, <1>7, <1>8 DEF TimersInv

\* Every step of the timers keeps the invariant.
LEMMA TimersStep == TimersInv /\ [Timers!Next]_(Timers!vars) => TimersInv'
<1> SUFFICES ASSUME TimersInv, [Timers!Next]_(Timers!vars) PROVE TimersInv'
  OBVIOUS
<1>1. CASE UNCHANGED Timers!vars
  <2>1. UNCHANGED <<now, rEntries, rTaken, rBuffer, rPending, rFallbackWake, rFlushWake,
                    rAsked, rAnswered, rSent, rDiscarded>>
    BY <1>1 DEF Timers!vars, Timers!tables, Timers!ghosts
  <2>2. TimersTyped'
    BY <2>1 DEF TimersInv, TimersTyped, Timers!TypeOK
  <2>3. TimersTiming'
    BY <2>1 DEF TimersInv, TimersTiming, GoodBatch, GoodAdd, PendingBatches
  <2>4. TimersPlaces'
    BY <2>1, SamePlaces, SameBroadcast
       DEF TimersInv, TimersPlaces, SolePlace, NoPlace, OneOf, Among
  <2>5. TimersLoss'
    BY <2>1 DEF TimersInv, TimersLoss
  <2> QED BY <2>2, <2>3, <2>4, <2>5 DEF TimersInv
<1>2. CASE Timers!Next
  BY <1>2, TimersTick, TimersFlushRound, TimersTakeDue, TimersAskByQuery,
     TimersAskDirectly, TimersCancel, TimersAddDue DEF Timers!Next
<1> QED BY <1>1, <1>2

\* A key that was asked for is in exactly one place: waiting for its fallback,
\* taken by the fallback thread, answered, in the aggregator, broadcast or
\* discarded; no hand-over between the three threads loses or duplicates it.
THEOREM TimersOnePlace == Timers!Spec => []OnePlace
  BY InvOnePlace, TimersInit, TimersStep, PTL DEF Timers!Spec

\* A key never waits longer for its broadcast than the two windows and a period
\* and the jitter of each thread, for all settings.
THEOREM TimersBroadcastInTime == Timers!Spec => []BroadcastInTime
  BY InvBroadcastInTime, TimersInit, TimersStep, PTL DEF Timers!Spec

\* A key is discarded by add_key, or broadcast in a Query-BF that is expired
\* already, only if its buffer had been idle for nearly query_bf_ttl_ms.
THEOREM TimersLossNeedsIdleBuffer == Timers!Spec => []LossNeedsIdleBuffer
  BY InvLossNeedsIdleBuffer, TimersInit, TimersStep, PTL DEF Timers!Spec
=============================================================================
