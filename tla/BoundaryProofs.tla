--------------------------- MODULE BoundaryProofs ---------------------------
(***************************************************************************)
(* The parts where a node meets the outside: the connection to Redis, the  *)
(* settings, and the datagrams; for every set of callers and keys, every   *)
(* width of the integers and every size of the filters and buffers.  The   *)
(* end puts all parts of a node together, the tables included.             *)
(***************************************************************************)
EXTENDS MCParts, SyncTableProofs, TableProofs, DataInduction

-----------------------------------------------------------------------------
(* The Redis client.                                                       *)

\* The units of a reply, and the mark of none.
RedisUnit == {"-", "+", "$", "-1", "0", "1", "2", "3", "nl", "x", "nothing"}

\* What the server may answer to a command, whatever the store holds.
RedisReplyTo(cmd, r) ==
  \/ r = <<"-", "nl">>
  \/ cmd.op = "SET" /\ r = <<"+", "nl">>
  \/ cmd.op = "GET" /\ r = <<"$", "-1", "nl">>
  \/ cmd.op = "GET" /\ \E v \in Redis!RedisValue : r = Redis!Bulk(v)

\* The length of the first line of a reply, with its line ending.
RedisLine(r) == IF r[1] = "$" THEN 3 ELSE 2

\* A call that has not received any part of a reply.
RedisFresh(c) ==
  /\ dCall[c].pc = "line" /\ dCall[c].line = <<>> /\ dCall[c].bulk = <<>>
  /\ dAnswer[c] = Redis!Nothing /\ dStream = <<>>

\* Its command is the only one that is still to be served.
RedisWaiting(c) ==
  /\ RedisFresh(c) /\ dOpen
  /\ dCommands = <<[caller |-> c, command |-> dCall[c].command]>>

\* The connection was closed before its command was served.
RedisCutOff(c) == RedisFresh(c) /\ ~dOpen /\ dCommands = <<>>

\* Of the reply r to the call, p units have been received, and the others are
\* in the stream.
RedisReceived(c, r, p) ==
  /\ dStream = SubSeq(r, p + 1, Len(r))
  /\ \/ /\ dCall[c].pc = "line" /\ p < RedisLine(r)
        /\ dCall[c].line = SubSeq(r, 1, p) /\ dCall[c].bulk = <<>>
     \/ /\ dCall[c].pc = "bulk" /\ p >= 3 /\ Len(r) >= 4 /\ r[1] = "$" /\ r[2] # "-1"
        /\ dCall[c].need = Len(r) - 3 /\ dCall[c].bulk = SubSeq(r, 4, p)

\* The server has answered its command, and no other.
RedisReading(c) ==
  /\ dCommands = <<>>
  /\ RedisReplyTo(dCall[c].command, dAnswer[c])
  /\ \E p \in 0..(Len(dAnswer[c]) - 1) : RedisReceived(c, dAnswer[c], p)

\* No call, and nothing left of the calls before.
RedisQuiet ==
  /\ \A c \in Caller : dCall[c] = Redis!Idle
  /\ dCommands = <<>> /\ dStream = <<>>

\* The call of c is the only one.
RedisOnly(c) ==
  /\ dCall[c] # Redis!Idle
  /\ \A d \in Caller \ {c} : dCall[d] = Redis!Idle

\* As long as calls have not overlapped there is at most one, nothing is left
\* of the calls before it, and what it has received and the stream together
\* are the reply to its command.
RedisInStep ==
  ~dOverlapped =>
    \/ RedisQuiet
    \/ \E c \in Caller : RedisOnly(c) /\ (RedisWaiting(c) \/ RedisCutOff(c) \/ RedisReading(c))

\* A call that has been sent.
RedisCall ==
  [pc : {"line", "bulk"}, command : Redis!Command, line : Seq(RedisUnit), need : Nat,
   bulk : Seq(RedisUnit)]

\* The types, also of what the client has received.
RedisTypes ==
  /\ dStore \in [RedisKey -> Redis!RedisValue \cup {Redis!Nothing}]
  /\ dOpen \in BOOLEAN /\ dAlive \in BOOLEAN /\ dOverlapped \in BOOLEAN
  /\ dIssued \in 0..MaxCommands
  /\ dCommands \in Seq([caller : Caller, command : Redis!Command])
  /\ dStream \in Seq(RedisUnit)
  /\ dCall \in [Caller -> RedisCall \cup {Redis!Idle}]
  /\ dAnswer \in [Caller -> Seq(RedisUnit)]

\* The inductive invariant of the Redis client.
RedisInv == RedisTypes /\ RedisInStep /\ ResultIsOwn

\* One unit of a text is received.
LEMMA SubSeqStep ==
  ASSUME NEW S, NEW r \in Seq(S), NEW p \in 0..(Len(r) - 1)
  PROVE  LET s == SubSeq(r, p + 1, Len(r))
         IN  /\ s # <<>> /\ Head(s) = r[p + 1]
             /\ Tail(s) = SubSeq(r, p + 2, Len(r))
<1> DEFINE s == SubSeq(r, p + 1, Len(r))
<1>1. s \in Seq(S) /\ Len(s) = Len(r) - p /\ \A i \in 1..(Len(r) - p) : s[i] = r[p + i]
  OBVIOUS
<1>2. Len(r) - p >= 1 /\ Len(r) \in Nat
  OBVIOUS
<1> DEFINE t == SubSeq(r, p + 2, Len(r))
<1>3. /\ t \in Seq(S) /\ Len(t) = Len(r) - p - 1
      /\ \A i \in 1..(Len(r) - p - 1) : t[i] = r[p + 1 + i]
  OBVIOUS
<1> HIDE DEF s, t
<1>4. s # <<>> /\ Head(s) = r[p + 1]
  BY <1>1, <1>2
<1>5. /\ Tail(s) \in Seq(S) /\ Len(Tail(s)) = Len(r) - p - 1
      /\ \A i \in 1..(Len(r) - p - 1) : Tail(s)[i] = s[i + 1]
  BY <1>1, <1>2, <1>4
<1>6. \A i \in 1..(Len(r) - p - 1) : Tail(s)[i] = t[i]
  BY <1>1, <1>2, <1>3, <1>5
<1>7. Tail(s) = t
  BY <1>3, <1>5, <1>6, SeqEqual
<1> QED BY <1>4, <1>7 DEF s, t

\* A text that is received unit by unit.
LEMMA SubSeqGrows ==
  ASSUME NEW S, NEW r \in Seq(S), NEW a \in 1..Len(r), NEW p \in (a - 1)..(Len(r) - 1)
  PROVE  Append(SubSeq(r, a, p), r[p + 1]) = SubSeq(r, a, p + 1)
  OBVIOUS

\* The value in a reply that has been received as a whole.
LEMMA SubSeqOfBulk ==
  ASSUME NEW S, NEW r \in Seq(S), Len(r) >= 4
  PROVE  SubSeq(SubSeq(r, 4, Len(r)), 1, Len(SubSeq(r, 4, Len(r))) - 1)
           = SubSeq(r, 4, Len(r) - 1)
  OBVIOUS

\* A value is a short text.
LEMMA RedisValueIsText ==
  ASSUME NEW v \in Redis!RedisValue
  PROVE  v \in Seq({"x", "nl"}) /\ v \in Seq(RedisUnit) /\ Len(v) \in 0..3
<1>1. PICK m \in 0..MaxLength : v \in [1..m -> {"x", "nl"}]
  BY DEF Redis!RedisValue, Redis!BoundedSeq, Redis!SeqOf
<1>2. m \in 0..3
  BY <1>1, PartsAssumption
<1>3. v \in Seq({"x", "nl"}) /\ Len(v) = m
  BY <1>1, <1>2
<1>4. \A i \in 1..m : v[i] \in RedisUnit
  BY <1>1 DEF RedisUnit
<1>5. v \in Seq(RedisUnit)
  BY <1>3, <1>4
<1> QED BY <1>2, <1>3, <1>5

\* No value is the mark of a key without one.
LEMMA RedisNothing == Redis!Nothing \notin Redis!RedisValue
  BY RedisValueIsText, SMTT(30) DEF Redis!Nothing

\* The lengths of values.
LEMMA RedisLengths ==
  \A n \in 0..3 : Redis!Lengths[n + 2] \in {"0", "1", "2", "3"}
<1>1. ASSUME NEW n \in 0..3 PROVE Redis!Lengths[n + 2] \in {"0", "1", "2", "3"}
  <2>1. /\ Redis!Lengths[2] = "0" /\ Redis!Lengths[3] = "1"
        /\ Redis!Lengths[4] = "2" /\ Redis!Lengths[5] = "3"
    BY DEF Redis!Lengths
  <2>2. n + 2 = 2 \/ n + 2 = 3 \/ n + 2 = 4 \/ n + 2 = 5
    OBVIOUS
  <2> QED BY <2>1, <2>2
<1> QED BY <1>1

\* The first units of a text made from three.
LEMMA ThreeTexts ==
  ASSUME NEW S, NEW h \in Seq(S), Len(h) >= 3, NEW v \in Seq(S), NEW e \in S
  PROVE  LET r == h \o v \o <<e>>
         IN  /\ r \in Seq(S) /\ Len(r) = Len(h) + Len(v) + 1
             /\ r[1] = h[1] /\ r[2] = h[2] /\ r[3] = h[3]
<1> DEFINE hv == h \o v
<1>1. hv \in Seq(S) /\ Len(hv) = Len(h) + Len(v) /\ Len(v) \in Nat /\ Len(h) \in Nat
  OBVIOUS
<1>2. hv[1] = h[1] /\ hv[2] = h[2] /\ hv[3] = h[3]
  OBVIOUS
<1> HIDE DEF hv
<1> DEFINE r == hv \o <<e>>
<1>3. r \in Seq(S) /\ Len(r) = Len(h) + Len(v) + 1
  BY <1>1
<1>4. r[1] = hv[1] /\ r[2] = hv[2] /\ r[3] = hv[3]
  BY <1>1
<1> QED BY <1>2, <1>3, <1>4 DEF hv

\* The units of a bulk reply.
LEMMA RedisBulkUnits ==
  ASSUME NEW v \in Redis!RedisValue
  PROVE  LET r == Redis!Bulk(v)
         IN  /\ r \in Seq(RedisUnit) /\ Len(r) = Len(v) + 4
             /\ r[1] = "$" /\ r[2] = Redis!Lengths[Len(v) + 2] /\ r[3] = "nl"
             /\ r[2] \in {"0", "1", "2", "3"}
<1>1. v \in Seq(RedisUnit) /\ Len(v) \in 0..3
  BY RedisValueIsText
<1>2. Redis!Lengths[Len(v) + 2] \in {"0", "1", "2", "3"}
  BY <1>1, RedisLengths
<1> DEFINE u == Redis!Lengths[Len(v) + 2]
<1>3. u \in RedisUnit
  BY <1>2 DEF RedisUnit
<1> HIDE DEF u
<1>4. /\ <<"$", u, "nl">> \in Seq(RedisUnit) /\ Len(<<"$", u, "nl">>) = 3
      /\ <<"$", u, "nl">>[1] = "$" /\ <<"$", u, "nl">>[2] = u /\ <<"$", u, "nl">>[3] = "nl"
  BY <1>3 DEF RedisUnit
<1> DEFINE h == <<"$", u, "nl">>
<1> HIDE DEF h
<1>5. h \in Seq(RedisUnit) /\ Len(h) = 3 /\ h[1] = "$" /\ h[2] = u /\ h[3] = "nl"
  BY <1>4 DEF h
<1>6. <<"nl">> \in Seq(RedisUnit) /\ Len(<<"nl">>) = 1
  BY DEF RedisUnit
<1>7. LET r == h \o v \o <<"nl">>
      IN  /\ r \in Seq(RedisUnit) /\ Len(r) = Len(v) + 4
          /\ r[1] = "$" /\ r[2] = u /\ r[3] = "nl"
  <2>1. "nl" \in RedisUnit
    BY DEF RedisUnit
  <2>2. h \in Seq(RedisUnit) /\ Len(h) >= 3
    BY <1>5
  <2> DEFINE r == h \o v \o <<"nl">>
  <2>3. /\ r \in Seq(RedisUnit) /\ Len(r) = Len(h) + Len(v) + 1
        /\ r[1] = h[1] /\ r[2] = h[2] /\ r[3] = h[3]
    BY <1>1, <2>1, <2>2, ThreeTexts
  <2> HIDE DEF r
  <2>4. /\ r \in Seq(RedisUnit) /\ Len(r) = Len(v) + 4
        /\ r[1] = "$" /\ r[2] = u /\ r[3] = "nl"
    BY <1>1, <1>5, <2>3
  <2> QED BY <2>4 DEF r
<1>8. Redis!Bulk(v) = h \o v \o <<"nl">>
  BY DEF Redis!Bulk, u, h
<1> QED BY <1>2, <1>7, <1>8 DEF u

\* Every reply is short or null, or a bulk reply.
RedisShape(cmd, r) ==
  /\ r \in Seq(RedisUnit) /\ r # Redis!Nothing
  /\ \/ Len(r) = 2 /\ r[1] = "-" /\ r[2] = "nl"
     \/ Len(r) = 2 /\ r[1] = "+" /\ r[2] = "nl" /\ cmd.op = "SET"
     \/ Len(r) = 3 /\ r[1] = "$" /\ r[2] = "-1" /\ r[3] = "nl" /\ cmd.op = "GET"
     \/ /\ Len(r) \in 4..7 /\ r[1] = "$" /\ r[3] = "nl" /\ cmd.op = "GET"
        /\ r[2] = Redis!Lengths[Len(r) - 2] /\ r[2] \in {"0", "1", "2", "3"}

\* A reply has one of the shapes.
LEMMA RedisReplyShape ==
  ASSUME NEW cmd, NEW r, RedisReplyTo(cmd, r)
  PROVE  RedisShape(cmd, r)
<1>1. CASE r = <<"-", "nl">>
  BY <1>1 DEF RedisShape, Redis!Nothing, RedisUnit
<1>2. CASE cmd.op = "SET" /\ r = <<"+", "nl">>
  BY <1>2 DEF RedisShape, Redis!Nothing, RedisUnit
<1>3. CASE cmd.op = "GET" /\ r = <<"$", "-1", "nl">>
  BY <1>3 DEF RedisShape, Redis!Nothing, RedisUnit
<1>4. ASSUME cmd.op = "GET", NEW v \in Redis!RedisValue, r = Redis!Bulk(v)
      PROVE  RedisShape(cmd, r)
  <2>1. Len(v) \in 0..3
    BY RedisValueIsText
  <2>2. /\ r \in Seq(RedisUnit) /\ Len(r) = Len(v) + 4
        /\ r[1] = "$" /\ r[2] = Redis!Lengths[Len(v) + 2] /\ r[3] = "nl"
        /\ r[2] \in {"0", "1", "2", "3"}
    BY <1>4, RedisBulkUnits
  <2>3. r # Redis!Nothing
    BY <2>2 DEF Redis!Nothing
  <2>4. Len(v) + 2 = Len(r) - 2 /\ Len(r) \in 4..7
    <3> DEFINE n == Len(v)
               l == Len(r)
    <3>1. n \in 0..3 /\ l = n + 4
      BY <2>1, <2>2
    <3> HIDE DEF n, l
    <3>2. n + 2 = l - 2 /\ l \in 4..7
      BY <3>1
    <3> QED BY <3>2 DEF n, l
  <2> QED BY <1>4, <2>2, <2>3, <2>4 DEF RedisShape
<1> QED BY <1>1, <1>2, <1>3, <1>4 DEF RedisReplyTo

\* std::stoi reads the length that the server wrote.
LEMMA RedisAnnounced ==
  ASSUME NEW line \in Seq(RedisUnit), Len(line) = 2
  PROVE  /\ line[2] = "-1" => Redis!Announced(line) = -1
         /\ \A n \in 0..3 : line[2] = Redis!Lengths[n + 2] => Redis!Announced(line) = n
<1> DEFINE I == {i \in 1..Len(Redis!Lengths) : Redis!Lengths[i] = line[2]}
<1>1. ASSUME NEW m \in 1..5, line[2] = Redis!Lengths[m]
      PROVE  Redis!Announced(line) = m - 2
  <2>1. I = {m}
    BY <1>1 DEF Redis!Lengths
  <2>2. Redis!Min(I) = m
    BY <2>1 DEF Redis!Min
  <2>3. Redis!SelectInSeq(Redis!Lengths, LAMBDA u : u = line[2]) = m
    BY <2>1, <2>2 DEF Redis!SelectInSeq
  <2> QED BY <2>3 DEF Redis!Announced
<1>2. Redis!Lengths[1] = "-1"
  BY DEF Redis!Lengths
<1>3. line[2] = "-1" => Redis!Announced(line) = -1
  BY <1>1, <1>2
<1>4. ASSUME NEW n \in 0..3, line[2] = Redis!Lengths[n + 2]
      PROVE  Redis!Announced(line) = n
  <2>1. n + 2 \in 1..5 /\ (n + 2) - 2 = n
    OBVIOUS
  <2> QED BY <1>1, <1>4, <2>1
<1> QED BY <1>3, <1>4

\* What std::stoi reads is a number in any case.
LEMMA RedisAnnouncedType ==
  ASSUME NEW line
  PROVE  Redis!Announced(line) \in Int
<1> DEFINE I == {i \in 1..Len(Redis!Lengths) : Redis!Lengths[i] = line[2]}
<1>1. I \in SUBSET Nat
  BY DEF Redis!Lengths
<1>2. I # {} => Redis!Min(I) \in Int
  <2> SUFFICES ASSUME I # {} PROVE Redis!Min(I) \in Int
    OBVIOUS
  <2> HIDE DEF I
  <2>1. \E m \in I : \A n \in I : m <= n
    BY <1>1, LeastNumber
  <2>2. Redis!Min(I) \in I
    BY <2>1 DEF Redis!Min
  <2>3. \A i \in I : i \in Int
    BY <1>1
  <2> QED BY <2>2, <2>3
<1>3. Redis!SelectInSeq(Redis!Lengths, LAMBDA u : u = line[2]) \in Int
  BY <1>2 DEF Redis!SelectInSeq
<1> QED BY <1>3 DEF Redis!Announced

\* The invariant's types are those of the model.
LEMMA RedisTypesOK == RedisTypes => Redis!TypeOK
<1> SUFFICES ASSUME RedisTypes PROVE Redis!TypeOK
  OBVIOUS
<1>1. \A i \in 1..Len(dCommands) : dCommands[i] \in [caller : Caller, command : Redis!Command]
  BY ElementOfSeq DEF RedisTypes
<1>2. \A c \in Caller : dCall[c] # Redis!Idle => dCall[c].command \in Redis!Command
  BY DEF RedisTypes, RedisCall
<1> QED BY <1>1, <1>2 DEF RedisTypes, Redis!TypeOK

\* What the server replies to a command.
LEMMA RedisServerReplies ==
  ASSUME RedisTypes, NEW cmd \in Redis!Command, NEW r \in Redis!Replies(cmd)
  PROVE  RedisReplyTo(cmd, r) /\ r \in Seq(RedisUnit)
<1>1. (cmd.op = "GET" /\ cmd.key \in RedisKey) \/ (cmd.op = "SET" /\ cmd.key \in RedisKey)
  BY DEF Redis!Command
<1>2. RedisReplyTo(cmd, r)
  <2>1. CASE cmd.op = "SET"
    BY <2>1 DEF Redis!Replies, RedisReplyTo
  <2>2. CASE cmd.op = "GET" /\ dStore[cmd.key] = Redis!Nothing
    BY <2>2 DEF Redis!Replies, RedisReplyTo
  <2>3. CASE cmd.op = "GET" /\ dStore[cmd.key] # Redis!Nothing
    <3>1. dStore[cmd.key] \in Redis!RedisValue
      BY <1>1, <2>3 DEF RedisTypes
    <3>2. r = <<"-", "nl">> \/ r = Redis!Bulk(dStore[cmd.key])
      BY <2>3 DEF Redis!Replies
    <3> QED BY <2>3, <3>1, <3>2 DEF RedisReplyTo
  <2> QED BY <1>1, <2>1, <2>2, <2>3
<1> QED BY <1>2, RedisReplyShape DEF RedisShape

\* At first nothing has been sent.
LEMMA RedisInit == Redis!Init => RedisInv
<1> SUFFICES ASSUME Redis!Init PROVE RedisInv
  OBVIOUS
<1>1. Redis!Nothing \in Seq(RedisUnit)
  BY DEF Redis!Nothing, RedisUnit
<1>2. RedisTypes
  <2>1. dStore \in [RedisKey -> Redis!RedisValue \cup {Redis!Nothing}]
    BY DEF Redis!Init
  <2>2. dOpen \in BOOLEAN /\ dAlive \in BOOLEAN /\ dOverlapped \in BOOLEAN
    BY DEF Redis!Init
  <2>3. dIssued \in 0..MaxCommands
    BY PartsAssumption DEF Redis!Init
  <2>4. dCall \in [Caller -> RedisCall \cup {Redis!Idle}]
    BY DEF Redis!Init
  <2>5. dAnswer \in [Caller -> Seq(RedisUnit)]
    BY <1>1 DEF Redis!Init
  <2>6. /\ dCommands \in Seq([caller : Caller, command : Redis!Command])
        /\ dStream \in Seq(RedisUnit)
    BY DEF Redis!Init
  <2> QED BY <2>1, <2>2, <2>3, <2>4, <2>5, <2>6 DEF RedisTypes
<1>3. RedisInStep
  BY DEF Redis!Init, RedisInStep, RedisQuiet
<1> QED BY <1>2, <1>3 DEF RedisInv, ResultIsOwn, Redis!ResultIsOwn, Redis!Init

\* A call that has ended, or goes on.
LEMMA RedisParseTypes ==
  ASSUME RedisTypes, NEW c \in Caller, dCall[c].pc = "line",
         Redis!Parse(c, dCall[c].line)
  PROVE  dCall' \in [Caller -> RedisCall \cup {Redis!Idle}]
<1>1. dCall[c] \in RedisCall
  BY DEF RedisTypes, Redis!Idle
<1>2. ASSUME NEW x, Redis!Return(c, x)
      PROVE  dCall' \in [Caller -> RedisCall \cup {Redis!Idle}]
  BY <1>2 DEF Redis!Return, RedisTypes
<1>3. CASE /\ Redis!Announced(dCall[c].line) >= 0
           /\ dCall' = [dCall EXCEPT ![c].pc = "bulk",
                          ![c].need = Redis!BulkNeeds(Redis!Announced(dCall[c].line))]
  <2> DEFINE n == Redis!BulkNeeds(Redis!Announced(dCall[c].line))
             y == [dCall[c] EXCEPT !.pc = "bulk", !.need = n]
  <2>1. n \in Nat
    BY <1>3, RedisAnnouncedType DEF Redis!BulkNeeds
  <2> HIDE DEF n
  <2>2. y \in RedisCall
    BY <1>1, <2>1 DEF RedisCall
  <2>3. dCall' = [dCall EXCEPT ![c] = y]
    BY <1>3 DEF n, RedisTypes
  <2> HIDE DEF y
  <2> QED BY <2>2, <2>3 DEF RedisTypes
<1> QED BY <1>2, <1>3 DEF Redis!Parse

\* Every step keeps the types.
LEMMA RedisTypesNext == RedisTypes /\ [Redis!Next]_(Redis!vars) => RedisTypes'
<1> SUFFICES ASSUME RedisTypes, [Redis!Next]_(Redis!vars) PROVE RedisTypes'
  OBVIOUS
<1> DEFINE CommandSent == [caller : Caller, command : Redis!Command]
<1>0. /\ dStore \in [RedisKey -> Redis!RedisValue \cup {Redis!Nothing}]
      /\ dOpen \in BOOLEAN /\ dAlive \in BOOLEAN /\ dOverlapped \in BOOLEAN
      /\ dIssued \in 0..MaxCommands
      /\ dCommands \in Seq(CommandSent)
      /\ dStream \in Seq(RedisUnit)
      /\ dCall \in [Caller -> RedisCall \cup {Redis!Idle}]
      /\ dAnswer \in [Caller -> Seq(RedisUnit)]
  BY DEF RedisTypes
<1> SUFFICES
      /\ dStore' \in [RedisKey -> Redis!RedisValue \cup {Redis!Nothing}]
      /\ dOpen' \in BOOLEAN /\ dAlive' \in BOOLEAN /\ dOverlapped' \in BOOLEAN
      /\ dIssued' \in 0..MaxCommands
      /\ dCommands' \in Seq(CommandSent)
      /\ dStream' \in Seq(RedisUnit)
      /\ dCall' \in [Caller -> RedisCall \cup {Redis!Idle}]
      /\ dAnswer' \in [Caller -> Seq(RedisUnit)]
  BY DEF RedisTypes, RedisCall
<1> HIDE DEF CommandSent
<1>1. CASE Redis!Serve
  <2> DEFINE c == Head(dCommands).caller
             cmd == Head(dCommands).command
  <2>1. Head(dCommands) \in CommandSent /\ Tail(dCommands) \in Seq(CommandSent)
    BY <1>0, <1>1, HeadTailProperties DEF Redis!Serve
  <2>2. c \in Caller /\ cmd \in Redis!Command
    BY <2>1 DEF CommandSent
  <2> HIDE DEF c, cmd
  <2>3. PICK r \in Redis!Replies(cmd) :
          /\ dStream' = dStream \o r
          /\ dAnswer' = [dAnswer EXCEPT ![c] = r]
          /\ dStore' = IF cmd.op = "SET" /\ r[1] = "+"
                       THEN [dStore EXCEPT ![cmd.key] = cmd.value] ELSE dStore
    BY <1>1 DEF Redis!Serve, c, cmd
  <2>4. r \in Seq(RedisUnit)
    BY <2>2, RedisServerReplies
  <2>5. dStream' \in Seq(RedisUnit) /\ dAnswer' \in [Caller -> Seq(RedisUnit)]
    BY <1>0, <2>2, <2>3, <2>4
  <2>6. cmd.op = "SET" => cmd.value \in Redis!RedisValue
    BY <2>2 DEF Redis!Command
  <2>7. dStore' \in [RedisKey -> Redis!RedisValue \cup {Redis!Nothing}]
    BY <1>0, <2>3, <2>6
  <2> QED BY <1>0, <1>1, <2>1, <2>5, <2>7 DEF Redis!Serve
<1>2. CASE Redis!Close
  <2>1. <<>> \in Seq(CommandSent)
    OBVIOUS
  <2> QED BY <1>0, <1>2, <2>1 DEF Redis!Close
<1>3. ASSUME NEW c \in Caller, NEW cmd \in Redis!Command, Redis!Send(c, cmd)
      PROVE  RedisTypes'
  <2> DEFINE y == [pc |-> "line", command |-> cmd, line |-> <<>>, need |-> 0, bulk |-> <<>>]
             z == [caller |-> c, command |-> cmd]
  <2>1. y \in RedisCall
    BY DEF RedisCall
  <2>2. z \in CommandSent
    BY DEF CommandSent
  <2>3. Redis!Nothing \in Seq(RedisUnit)
    BY DEF Redis!Nothing, RedisUnit
  <2>4. dCall' = [dCall EXCEPT ![c] = y] /\ dCommands' = Append(dCommands, z)
    BY <1>3 DEF Redis!Send
  <2> HIDE DEF y, z
  <2>5. dCall' \in [Caller -> RedisCall \cup {Redis!Idle}] /\ dCommands' \in Seq(CommandSent)
    BY <1>0, <2>1, <2>2, <2>4
  <2>6. dAnswer' \in [Caller -> Seq(RedisUnit)]
    BY <1>0, <1>3, <2>3 DEF Redis!Send
  <2>7. dOverlapped' \in BOOLEAN
    BY <1>0, <1>3 DEF Redis!Send
  <2>8. dIssued' \in 0..MaxCommands
    BY <1>0, <1>3, PartsAssumption DEF Redis!Send
  <2>9. UNCHANGED <<dStore, dOpen, dStream, dAlive>>
    BY <1>3 DEF Redis!Send
  <2> QED BY <1>0, <2>5, <2>6, <2>7, <2>8, <2>9 DEF RedisTypes, RedisCall, CommandSent
<1>4. ASSUME NEW c \in Caller, Redis!SendOnClosed(c) PROVE RedisTypes'
  BY <1>0, <1>4 DEF Redis!SendOnClosed, RedisTypes, RedisCall, CommandSent
<1>5. ASSUME NEW c \in Caller, Redis!ReadLine(c) PROVE RedisTypes'
  <2>1. Head(dStream) \in RedisUnit /\ Tail(dStream) \in Seq(RedisUnit)
    BY <1>0, <1>5, HeadTailProperties DEF Redis!ReadLine
  <2>2. dCall' \in [Caller -> RedisCall \cup {Redis!Idle}]
    <3>1. CASE Redis!Parse(c, dCall[c].line)
      BY <1>5, <3>1, RedisParseTypes DEF Redis!ReadLine
    <3>2. CASE dCall' = [dCall EXCEPT ![c].line = Append(@, Head(dStream))]
      <4> DEFINE l == Append(dCall[c].line, Head(dStream))
                 y == [dCall[c] EXCEPT !.line = l]
      <4>1. dCall[c] \in RedisCall
        BY <1>0, <1>5 DEF Redis!ReadLine, Redis!Idle
      <4>2. l \in Seq(RedisUnit)
        BY <2>1, <4>1, AppendProperties DEF RedisCall
      <4>3. dCall' = [dCall EXCEPT ![c] = y]
        BY <1>0, <3>2
      <4> HIDE DEF l
      <4>4. y \in RedisCall
        BY <4>1, <4>2 DEF RedisCall
      <4> HIDE DEF y
      <4> QED BY <1>0, <4>3, <4>4
    <3> QED BY <1>5, <3>1, <3>2 DEF Redis!ReadLine
  <2>3. dStream' = Tail(dStream)
    BY <1>5 DEF Redis!ReadLine
  <2>4. UNCHANGED <<dStore, dOpen, dCommands, dAlive, dIssued, dOverlapped, dAnswer>>
    BY <1>5 DEF Redis!ReadLine
  <2> QED BY <1>0, <2>1, <2>2, <2>3, <2>4 DEF RedisTypes, RedisCall, CommandSent
<1>6. ASSUME NEW c \in Caller, Redis!ReadExact(c) PROVE RedisTypes'
  <2>1. Head(dStream) \in RedisUnit /\ Tail(dStream) \in Seq(RedisUnit)
    BY <1>0, <1>6, HeadTailProperties DEF Redis!ReadExact
  <2>2. dCall' \in [Caller -> RedisCall \cup {Redis!Idle}]
    <3>1. CASE \E x : Redis!Return(c, x)
      BY <1>0, <3>1 DEF Redis!Return
    <3>2. CASE dCall' = [dCall EXCEPT ![c].bulk = Append(dCall[c].bulk, Head(dStream))]
      <4> DEFINE l == Append(dCall[c].bulk, Head(dStream))
                 y == [dCall[c] EXCEPT !.bulk = l]
      <4>1. dCall[c] \in RedisCall
        BY <1>0, <1>6 DEF Redis!ReadExact, Redis!Idle
      <4>2. l \in Seq(RedisUnit)
        BY <2>1, <4>1, AppendProperties DEF RedisCall
      <4>3. dCall' = [dCall EXCEPT ![c] = y]
        BY <1>0, <3>2
      <4> HIDE DEF l
      <4>4. y \in RedisCall
        BY <4>1, <4>2 DEF RedisCall
      <4> HIDE DEF y
      <4> QED BY <1>0, <4>3, <4>4
    <3> QED BY <1>6, <3>1, <3>2 DEF Redis!ReadExact
  <2>3. dStream' = Tail(dStream)
    BY <1>6 DEF Redis!ReadExact
  <2>4. UNCHANGED <<dStore, dOpen, dCommands, dAlive, dIssued, dOverlapped, dAnswer>>
    BY <1>6 DEF Redis!ReadExact
  <2> QED BY <1>0, <2>1, <2>2, <2>3, <2>4 DEF RedisTypes, RedisCall, CommandSent
<1>7. ASSUME NEW c \in Caller, Redis!ReadFails(c) PROVE RedisTypes'
  BY <1>0, <1>7 DEF Redis!ReadFails, Redis!Return, RedisTypes, RedisCall, CommandSent
<1>8. CASE UNCHANGED Redis!vars
  BY <1>0, <1>8 DEF Redis!vars
<1> QED BY <1>1, <1>2, <1>3, <1>4, <1>5, <1>6, <1>7, <1>8
        DEF Redis!Next, RedisTypes, RedisCall, CommandSent

\* The reply to the only call goes into an empty stream.
LEMMA RedisServeStep ==
  ASSUME RedisInv, Redis!Serve, ~dOverlapped
  PROVE  RedisInStep'
<1>1. PICK c \in Caller : RedisOnly(c) /\ RedisWaiting(c)
  BY DEF RedisInv, RedisInStep, Redis!Serve, RedisQuiet, RedisCutOff, RedisReading
<1> DEFINE cmd == dCall[c].command
<1>2. Head(dCommands).caller = c /\ Head(dCommands).command = cmd /\ Tail(dCommands) = <<>>
  BY <1>1 DEF RedisWaiting
<1>3. PICK r \in Redis!Replies(cmd) :
        /\ dStream' = dStream \o r
        /\ dAnswer' = [dAnswer EXCEPT ![c] = r]
  BY <1>2 DEF Redis!Serve
<1>4. dCall[c] \in RedisCall
  BY <1>1 DEF RedisInv, RedisTypes, RedisOnly
<1>5. cmd \in Redis!Command
  BY <1>4 DEF RedisCall
<1>6. RedisReplyTo(cmd, r) /\ r \in Seq(RedisUnit) /\ RedisShape(cmd, r)
  BY <1>5, RedisServerReplies, RedisReplyShape DEF RedisInv
<1>7. Len(r) >= 2 /\ Len(r) \in Nat /\ RedisLine(r) \in {2, 3}
  BY <1>6 DEF RedisShape, RedisLine
<1>8. /\ dStream = <<>> /\ dCall[c].pc = "line" /\ dCall[c].line = <<>>
      /\ dCall[c].bulk = <<>>
  BY <1>1 DEF RedisWaiting, RedisFresh
<1>9. dStream' = r /\ dAnswer'[c] = r /\ dCall' = dCall /\ dCommands' = <<>>
  BY <1>1, <1>2, <1>3, <1>6, <1>8 DEF Redis!Serve, RedisInv, RedisTypes
<1>10. r = SubSeq(r, 0 + 1, Len(r)) /\ <<>> = SubSeq(r, 1, 0)
  BY <1>6
<1>11. RedisReceived(c, r, 0)'
  <2>1. RedisLine(r) > 0
    BY <1>7
  <2> QED BY <1>8, <1>9, <1>10, <2>1 DEF RedisReceived
<1>12. RedisReading(c)'
  BY <1>6, <1>7, <1>9, <1>11 DEF RedisReading
<1>13. RedisOnly(c)'
  BY <1>1, <1>9 DEF RedisOnly
<1> QED BY <1>12, <1>13 DEF RedisInStep

\* When the server closes the connection, a command that waits is lost.
LEMMA RedisCloseStep ==
  ASSUME RedisInv, Redis!Close, ~dOverlapped
  PROVE  RedisInStep'
<1>1. /\ UNCHANGED <<dStream, dCall, dAnswer>>
      /\ dCommands' = <<>> /\ dOpen' = FALSE
  BY DEF Redis!Close
<1>2. CASE RedisQuiet
  BY <1>1, <1>2 DEF RedisQuiet, RedisInStep
<1>3. ASSUME NEW c \in Caller, RedisOnly(c), RedisWaiting(c) \/ RedisCutOff(c)
      PROVE  RedisInStep'
  BY <1>1, <1>3 DEF RedisOnly, RedisWaiting, RedisCutOff, RedisFresh, RedisInStep
<1>4. ASSUME NEW c \in Caller, RedisOnly(c), RedisReading(c)
      PROVE  RedisInStep'
  <2>1. RedisReading(c)'
    BY <1>1, <1>4 DEF RedisReading, RedisReceived
  <2>2. RedisOnly(c)'
    BY <1>1, <1>4 DEF RedisOnly
  <2> QED BY <2>1, <2>2 DEF RedisInStep
<1> QED BY <1>2, <1>3, <1>4 DEF RedisInv, RedisInStep

\* A call that does not overlap finds nothing left of the calls before it.
LEMMA RedisSendStep ==
  ASSUME RedisInv, NEW c \in Caller, NEW cmd \in Redis!Command, Redis!Send(c, cmd),
         ~dOverlapped'
  PROVE  RedisInStep'
<1>1. \A d \in Caller : dCall[d] = Redis!Idle
  BY DEF Redis!Send
<1>2. ~dOverlapped
  BY DEF Redis!Send
<1>3. dCommands = <<>> /\ dStream = <<>>
  BY <1>1, <1>2 DEF RedisInv, RedisInStep, RedisQuiet, RedisOnly
<1> DEFINE y == [pc |-> "line", command |-> cmd, line |-> <<>>, need |-> 0, bulk |-> <<>>]
           z == [caller |-> c, command |-> cmd]
<1>4. /\ dCall' = [dCall EXCEPT ![c] = y] /\ dCommands' = Append(dCommands, z)
      /\ dAnswer' = [dAnswer EXCEPT ![c] = Redis!Nothing]
      /\ dStream' = dStream /\ dOpen' = dOpen /\ dOpen
  BY DEF Redis!Send
<1>5. dCall'[c] = y /\ dAnswer'[c] = Redis!Nothing /\ dStream' = <<>>
  BY <1>3, <1>4 DEF RedisInv, RedisTypes
<1>6. dCommands' = <<z>>
  BY <1>3, <1>4
<1>7. y.pc = "line" /\ y.line = <<>> /\ y.bulk = <<>> /\ y.command = cmd /\ y # Redis!Idle
  BY DEF Redis!Idle
<1> HIDE DEF y
<1>8. RedisFresh(c)'
  BY <1>5, <1>7 DEF RedisFresh
<1>9. RedisWaiting(c)'
  BY <1>4, <1>5, <1>6, <1>7, <1>8 DEF RedisWaiting
<1>10. RedisOnly(c)'
  BY <1>1, <1>4, <1>5, <1>7 DEF RedisOnly, RedisInv, RedisTypes
<1> QED BY <1>9, <1>10 DEF RedisInStep

\* The only call returns what its reply says, and leaves nothing.
LEMMA RedisReturnStep ==
  ASSUME RedisInv, NEW c \in Caller, NEW x, RedisOnly(c), Redis!Return(c, x),
         x = Redis!Meaning(dAnswer[c]), dCommands' = <<>>, dStream' = <<>>
  PROVE  RedisInStep' /\ ResultIsOwn'
<1>1. dCall' = [dCall EXCEPT ![c] = Redis!Idle]
  BY DEF Redis!Return
<1>2. \A d \in Caller : dCall'[d] = Redis!Idle
  BY <1>1 DEF RedisOnly, RedisInv, RedisTypes
<1>3. RedisQuiet'
  BY <1>2 DEF RedisQuiet
<1> DEFINE a == dAnswer[c]
           b == dCall[c].command
<1>4. dFinished' = [command |-> b, answer |-> a, result |-> x]
  BY DEF Redis!Return
<1> HIDE DEF a, b
<1>5. dFinished'.answer = a /\ dFinished'.result = x
  BY <1>4
<1>6. x = Redis!Meaning(a)
  BY DEF a
<1>7. ResultIsOwn'
  BY <1>5, <1>6 DEF ResultIsOwn, Redis!ResultIsOwn
<1> QED BY <1>3, <1>7 DEF RedisInStep

\* Where a line ends: at the end of a short reply, or before the value.
LEMMA RedisLineEnds ==
  ASSUME NEW cmd, NEW r, RedisShape(cmd, r), NEW p \in 0..(Len(r) - 1), p < RedisLine(r)
  PROVE  /\ r[p + 1] = "nl" <=> p + 1 = RedisLine(r)
         /\ RedisLine(r) \in {2, 3} /\ RedisLine(r) <= Len(r)
         /\ Len(r) \in Nat
<1>1. Len(r) \in Nat /\ RedisLine(r) \in {2, 3} /\ RedisLine(r) <= Len(r)
  BY DEF RedisShape, RedisLine
<1>2. p = 0 \/ p = 1 \/ p = 2
  BY <1>1
<1>3. r[1] # "nl"
  BY DEF RedisShape
<1>4. CASE RedisLine(r) = 2
  <2>1. r[2] = "nl"
    BY <1>4 DEF RedisShape, RedisLine
  <2> QED BY <1>1, <1>2, <1>3, <1>4, <2>1
<1>5. CASE RedisLine(r) = 3
  <2>1. r[2] # "nl" /\ r[3] = "nl"
    BY <1>5 DEF RedisShape, RedisLine
  <2> QED BY <1>1, <1>2, <1>3, <1>5, <2>1
<1> QED BY <1>1, <1>4, <1>5

\* What a reply says, by its shape.
LEMMA RedisMeaning ==
  ASSUME NEW cmd, NEW r, RedisShape(cmd, r)
  PROVE  /\ r[1] = "-" => Redis!Meaning(r) = Redis!Fails
         /\ r[1] = "+" => Redis!Meaning(r) = Redis!Gives(Redis!Nothing)
         /\ r[1] = "$" /\ r[2] = "-1" => Redis!Meaning(r) = Redis!Fails
         /\ r[1] = "$" /\ r[2] # "-1" =>
              Redis!Meaning(r) = Redis!Gives(SubSeq(r, 4, Len(r) - 1))
  BY DEF RedisShape, Redis!Meaning

\* The first line of a reply has been read.
LEMMA RedisParseStep ==
  ASSUME RedisInv, NEW c \in Caller, RedisOnly(c), NEW r, r = dAnswer[c],
         RedisShape(dCall[c].command, r), RedisReplyTo(dCall[c].command, r),
         NEW line, line = SubSeq(r, 1, RedisLine(r) - 1), dCall[c].bulk = <<>>,
         Redis!Parse(c, line), dCommands' = <<>>, dAnswer' = dAnswer,
         dStream' = SubSeq(r, RedisLine(r) + 1, Len(r)),
         dOverlapped' = dOverlapped
  PROVE  RedisInStep' /\ ResultIsOwn'
<1> DEFINE cmd == dCall[c].command
<1>1. dCall[c] \in RedisCall
  BY DEF RedisInv, RedisTypes, RedisOnly
<1>2. r \in Seq(RedisUnit)
  BY DEF RedisShape
<1>3. CASE r[1] # "$"
  <2>1. RedisLine(r) = 2 /\ Len(r) = 2 /\ r[1] \in {"-", "+"}
    BY <1>3 DEF RedisLine, RedisShape
  <2>2. line = SubSeq(r, 1, 1) /\ dStream' = SubSeq(r, 3, 2)
    BY <2>1
  <2>3. line # <<>> /\ line[1] = r[1] /\ dStream' = <<>>
    BY <1>2, <2>1, <2>2
  <2>4. Redis!Return(c, Redis!Result(c, r[1], FALSE, <<>>))
    BY <1>3, <2>3 DEF Redis!Parse
  <2>5. cmd.op = "SET" \/ (cmd.op = "GET" /\ r[1] = "-")
    BY <1>1, <1>3, <2>1 DEF RedisShape, RedisCall, Redis!Command
  <2>6. Redis!Result(c, r[1], FALSE, <<>>) = Redis!Meaning(r)
    BY <1>3, <2>1, <2>5, RedisMeaning DEF Redis!Result, Redis!SetResult, Redis!GetResult
  <2> QED BY <2>3, <2>4, <2>6, RedisReturnStep
<1>4. CASE r[1] = "$"
  <2>1. RedisLine(r) = 3 /\ Len(r) >= 3 /\ cmd.op = "GET" /\ r[2] # "nl"
    BY <1>4 DEF RedisLine, RedisShape
  <2>2. line = SubSeq(r, 1, 2) /\ dStream' = SubSeq(r, 4, Len(r))
    BY <2>1
  <2>3. line \in Seq(RedisUnit) /\ Len(line) = 2 /\ line[1] = "$" /\ line[2] = r[2]
    BY <1>2, <1>4, <2>1, <2>2
  <2>4. line # <<>>
    BY <1>2, <2>1, <2>2
  <2>5. CASE r[2] = "-1"
    <3>1. Redis!Announced(line) = -1
      BY <2>3, <2>5, RedisAnnounced
    <3>2. Redis!Return(c, Redis!Result(c, "$", TRUE, <<>>))
      <4>1. line[1] = "$" /\ -1 # -2 /\ ~(-1 >= 0)
        BY <2>3
      <4> QED BY <2>4, <3>1, <4>1 DEF Redis!Parse
    <3>3. Redis!Result(c, "$", TRUE, <<>>) = Redis!Meaning(r)
      BY <1>4, <2>1, <2>5, RedisMeaning DEF Redis!Result, Redis!GetResult
    <3>4. Len(r) = 3
      BY <2>5 DEF RedisShape
    <3>5. dStream' = <<>>
      BY <1>2, <2>2, <3>4
    <3> QED BY <3>2, <3>3, <3>5, RedisReturnStep
  <2>6. CASE r[2] # "-1"
    <3>1. Len(r) \in 4..7 /\ r[2] = Redis!Lengths[Len(r) - 2]
      BY <1>4, <2>1, <2>6 DEF RedisShape
    <3>2. Redis!Announced(line) = Len(r) - 4
      <4> DEFINE n == Len(r) - 4
      <4>1. n \in 0..3 /\ n + 2 = Len(r) - 2
        BY <3>1
      <4> HIDE DEF n
      <4>2. line[2] = Redis!Lengths[n + 2]
        BY <2>3, <3>1, <4>1
      <4>3. Redis!Announced(line) = n
        BY <2>3, <4>1, <4>2, RedisAnnounced
      <4> QED BY <4>3 DEF n
    <3>3. /\ Redis!Announced(line) >= 0 /\ Redis!Announced(line) \in Int
          /\ Redis!BulkNeeds(Redis!Announced(line)) = Len(r) - 3
      <4> DEFINE l == Len(r)
      <4>1. l \in 4..7
        BY <3>1
      <4> HIDE DEF l
      <4>2. l - 4 >= 0 /\ l - 4 \in Int /\ (l - 4) + 1 = l - 3
        BY <4>1
      <4> QED BY <3>2, <4>2 DEF Redis!BulkNeeds, l
    <3>4. /\ dCall' = [dCall EXCEPT ![c].pc = "bulk", ![c].need = Len(r) - 3]
          /\ dFinished' = dFinished
      <4>1. line[1] = "$"
        BY <2>3
      <4>2. Redis!Announced(line) # -2 /\ Redis!Announced(line) # -1
        BY <3>3
      <4> HIDE DEF cmd
      <4> QED BY <2>4, <3>3, <4>1, <4>2 DEF Redis!Parse
    <3>5. /\ dCall'[c].pc = "bulk" /\ dCall'[c].need = Len(r) - 3
          /\ dCall'[c].bulk = dCall[c].bulk /\ dCall'[c].command = cmd
          /\ \A d \in Caller \ {c} : dCall'[d] = dCall[d]
      BY <1>1, <3>4 DEF RedisInv, RedisTypes, RedisCall
    <3>6. <<>> = SubSeq(r, 4, 3) /\ 3 \in 0..(Len(r) - 1) /\ Len(r) >= 4 /\ 3 >= 3
      <4>1. <<>> = SubSeq(r, 4, 3)
        BY <1>2, SubSeqEmpty
      <4> DEFINE l == Len(r)
      <4>2. l \in 4..7
        BY <3>1
      <4> HIDE DEF l
      <4>3. 3 \in 0..(l - 1) /\ l >= 4 /\ 3 >= 3
        BY <4>2
      <4> QED BY <4>1, <4>3 DEF l
    <3>7. RedisReceived(c, r, 3)'
      <4>0. 3 + 1 = 4
        OBVIOUS
      <4>1. dStream' = SubSeq(r, 3 + 1, Len(r))
        BY <2>2, <4>0, Zenon
      <4>2. dCall'[c].bulk = SubSeq(r, 4, 3)
        BY <3>5, <3>6
      <4> QED BY <1>4, <2>6, <3>5, <3>6, <4>1, <4>2 DEF RedisReceived
    <3>8. RedisReading(c)'
      BY <3>5, <3>6, <3>7 DEF RedisReading
    <3>9. RedisOnly(c)'
      BY <3>5 DEF RedisOnly, Redis!Idle
    <3>10. ResultIsOwn'
      BY <3>4 DEF RedisInv, ResultIsOwn, Redis!ResultIsOwn
    <3> QED BY <3>8, <3>9, <3>10 DEF RedisInStep
  <2> QED BY <2>5, <2>6
<1> QED BY <1>3, <1>4

\* read_line reads the reply to the only call.
LEMMA RedisReadLineStep ==
  ASSUME RedisInv, NEW c \in Caller, Redis!ReadLine(c), ~dOverlapped
  PROVE  RedisInStep' /\ ResultIsOwn'
<1>1. RedisOnly(c) /\ RedisReading(c)
  <2>1. dCall[c] # Redis!Idle /\ dStream # <<>>
    BY DEF Redis!ReadLine, Redis!Idle
  <2> QED BY <2>1 DEF RedisInv, RedisInStep, RedisQuiet, RedisOnly, RedisWaiting,
                      RedisCutOff, RedisFresh
<1> DEFINE cmd == dCall[c].command
           r == dAnswer[c]
<1>2. RedisReplyTo(cmd, r) /\ RedisShape(cmd, r) /\ dCommands = <<>>
  BY <1>1, RedisReplyShape DEF RedisReading
<1>3. PICK p \in 0..(Len(r) - 1) : RedisReceived(c, r, p)
  BY <1>1 DEF RedisReading
<1>4. /\ dStream = SubSeq(r, p + 1, Len(r)) /\ p < RedisLine(r)
      /\ dCall[c].line = SubSeq(r, 1, p) /\ dCall[c].bulk = <<>>
  BY <1>3 DEF RedisReceived, Redis!ReadLine
<1>5. r \in Seq(RedisUnit) /\ dCall[c] \in RedisCall
  BY <1>1, <1>2 DEF RedisShape, RedisOnly, RedisInv, RedisTypes
<1>6. /\ r[p + 1] = "nl" <=> p + 1 = RedisLine(r)
      /\ RedisLine(r) \in {2, 3} /\ RedisLine(r) <= Len(r) /\ Len(r) \in Nat
  BY <1>2, <1>4, RedisLineEnds
<1>7. Head(dStream) = r[p + 1] /\ Tail(dStream) = SubSeq(r, p + 2, Len(r))
  BY <1>4, <1>5, SubSeqStep
<1>8. UNCHANGED <<dStore, dOpen, dCommands, dAlive, dIssued, dOverlapped, dAnswer>>
  BY DEF Redis!ReadLine
<1>9. dStream' = SubSeq(r, p + 2, Len(r))
  BY <1>7 DEF Redis!ReadLine
<1>10. CASE r[p + 1] = "nl"
  <2>1. p = RedisLine(r) - 1 /\ p + 2 = RedisLine(r) + 1
    BY <1>6, <1>10
  <2>2. Redis!Parse(c, dCall[c].line)
    BY <1>7, <1>10 DEF Redis!ReadLine
  <2>3. PICK line : line = dCall[c].line
    OBVIOUS
  <2>4. PICK q : q = dAnswer[c]
    OBVIOUS
  <2>5. /\ RedisShape(dCall[c].command, q) /\ RedisReplyTo(dCall[c].command, q)
        /\ line = SubSeq(q, 1, RedisLine(q) - 1)
        /\ dStream' = SubSeq(q, RedisLine(q) + 1, Len(q))
        /\ dCommands' = <<>> /\ dAnswer' = dAnswer /\ dOverlapped' = dOverlapped
        /\ Redis!Parse(c, line) /\ dCall[c].bulk = <<>>
    BY <1>2, <1>4, <1>8, <1>9, <2>1, <2>2, <2>3, <2>4
  <2> QED BY <1>1, <2>4, <2>5, RedisParseStep
<1>11. CASE r[p + 1] # "nl"
  <2>1. p + 1 < RedisLine(r) /\ p + 1 \in 0..(Len(r) - 1) /\ (p + 1) + 1 = p + 2
    <3> DEFINE l == RedisLine(r)
               n == Len(r)
    <3>1. p + 1 # l /\ p < l /\ l \in {2, 3} /\ l <= n /\ n \in Nat /\ p \in Nat
      BY <1>4, <1>6, <1>11
    <3> HIDE DEF l, n
    <3>2. p + 1 < l /\ p + 1 \in 0..(n - 1) /\ (p + 1) + 1 = p + 2
      BY <3>1
    <3> QED BY <3>2 DEF l, n
  <2>2. /\ dCall' = [dCall EXCEPT ![c].line = Append(@, r[p + 1])]
        /\ dFinished' = dFinished
    BY <1>7, <1>11 DEF Redis!ReadLine
  <2>3. /\ dCall'[c].line = Append(dCall[c].line, r[p + 1])
        /\ dCall'[c].pc = dCall[c].pc /\ dCall'[c].bulk = dCall[c].bulk
        /\ dCall'[c].command = cmd
        /\ \A d \in Caller \ {c} : dCall'[d] = dCall[d]
    BY <1>5, <2>2 DEF RedisInv, RedisTypes, RedisCall
  <2>4. dCall'[c].line = SubSeq(r, 1, p + 1)
    <3>1. 1 \in 1..Len(r) /\ p \in (1 - 1)..(Len(r) - 1)
      BY <1>6
    <3> QED BY <1>4, <1>5, <2>3, <3>1, SubSeqGrows
  <2>5. RedisReceived(c, dAnswer[c], p + 1)'
    BY <1>4, <1>8, <1>9, <2>1, <2>3, <2>4 DEF RedisReceived, Redis!ReadLine
  <2>6. RedisReading(c)'
    BY <1>2, <1>8, <2>1, <2>3, <2>5 DEF RedisReading
  <2>7. RedisOnly(c)'
    BY <1>1, <2>3 DEF RedisOnly, Redis!Idle, Redis!ReadLine
  <2>8. ResultIsOwn'
    BY <1>8, <2>2 DEF RedisInv, ResultIsOwn, Redis!ResultIsOwn
  <2> QED BY <2>6, <2>7, <2>8 DEF RedisInStep
<1> QED BY <1>10, <1>11

\* read_exact reads the value of the reply to the only call.
LEMMA RedisReadExactStep ==
  ASSUME RedisInv, NEW c \in Caller, Redis!ReadExact(c), ~dOverlapped
  PROVE  RedisInStep' /\ ResultIsOwn'
<1>1. RedisOnly(c) /\ RedisReading(c)
  <2>1. dCall[c] # Redis!Idle /\ dStream # <<>>
    BY DEF Redis!ReadExact, Redis!Idle
  <2> QED BY <2>1 DEF RedisInv, RedisInStep, RedisQuiet, RedisOnly, RedisWaiting,
                      RedisCutOff, RedisFresh
<1> DEFINE cmd == dCall[c].command
           r == dAnswer[c]
           b == Append(dCall[c].bulk, Head(dStream))
<1>2. RedisReplyTo(cmd, r) /\ RedisShape(cmd, r) /\ dCommands = <<>>
  BY <1>1, RedisReplyShape DEF RedisReading
<1>3. PICK p \in 0..(Len(r) - 1) : RedisReceived(c, r, p)
  BY <1>1 DEF RedisReading
<1>4. /\ dStream = SubSeq(r, p + 1, Len(r)) /\ p >= 3 /\ Len(r) >= 4
      /\ r[1] = "$" /\ r[2] # "-1"
      /\ dCall[c].need = Len(r) - 3 /\ dCall[c].bulk = SubSeq(r, 4, p)
  BY <1>3 DEF RedisReceived, Redis!ReadExact
<1>5. r \in Seq(RedisUnit) /\ dCall[c] \in RedisCall /\ Len(r) \in Nat /\ cmd.op = "GET"
  BY <1>1, <1>2, <1>4 DEF RedisShape, RedisOnly, RedisInv, RedisTypes
<1>6. Head(dStream) = r[p + 1] /\ Tail(dStream) = SubSeq(r, p + 2, Len(r))
  BY <1>4, <1>5, SubSeqStep
<1>7. b = SubSeq(r, 4, p + 1)
  <2>1. 4 \in 1..Len(r) /\ p \in (4 - 1)..(Len(r) - 1)
    BY <1>4, <1>5
  <2> QED BY <1>4, <1>5, <1>6, <2>1, SubSeqGrows
<1>8. Len(b) = p - 2
  BY <1>4, <1>5, <1>7
<1>9. UNCHANGED <<dStore, dOpen, dCommands, dAlive, dIssued, dOverlapped, dAnswer>>
  BY DEF Redis!ReadExact
<1>10. dStream' = SubSeq(r, p + 2, Len(r))
  BY <1>6 DEF Redis!ReadExact
<1>11. CASE Len(b) < dCall[c].need
  <2>1. p + 1 \in 0..(Len(r) - 1) /\ p + 1 >= 3 /\ (p + 1) + 1 = p + 2
    BY <1>4, <1>5, <1>8, <1>11
  <2>2. /\ dCall' = [dCall EXCEPT ![c].bulk = b] /\ dFinished' = dFinished
    <3>1. Len(b) # dCall[c].need
      BY <1>4, <1>5, <1>8, <1>11
    <3> QED BY <3>1 DEF Redis!ReadExact
  <2>3. /\ dCall'[c].bulk = b
        /\ dCall'[c].pc = dCall[c].pc /\ dCall'[c].need = dCall[c].need
        /\ dCall'[c].command = cmd
        /\ \A d \in Caller \ {c} : dCall'[d] = dCall[d]
    BY <1>5, <2>2 DEF RedisInv, RedisTypes, RedisCall
  <2>4. RedisReceived(c, dAnswer[c], p + 1)'
    BY <1>4, <1>7, <1>9, <1>10, <2>1, <2>3 DEF RedisReceived, Redis!ReadExact
  <2>5. RedisReading(c)'
    BY <1>2, <1>9, <2>1, <2>3, <2>4 DEF RedisReading
  <2>6. RedisOnly(c)'
    BY <1>1, <2>3 DEF RedisOnly, Redis!Idle, Redis!ReadExact
  <2>7. ResultIsOwn'
    BY <1>9, <2>2 DEF RedisInv, ResultIsOwn, Redis!ResultIsOwn
  <2> QED BY <2>5, <2>6, <2>7 DEF RedisInStep
<1>12. CASE ~(Len(b) < dCall[c].need)
  <2>1. Redis!Return(c, Redis!Result(c, "$", FALSE, SubSeq(b, 1, Len(b) - 1)))
    BY <1>12 DEF Redis!ReadExact
  <2>2. p + 1 = Len(r)
    BY <1>4, <1>5, <1>8, <1>12, SMTT(30)
  <2>3. SubSeq(b, 1, Len(b) - 1) = SubSeq(r, 4, Len(r) - 1)
    BY <1>4, <1>5, <1>7, <2>2, SubSeqOfBulk
  <2>4. Redis!Result(c, "$", FALSE, SubSeq(b, 1, Len(b) - 1))
          = Redis!Gives(SubSeq(r, 4, Len(r) - 1))
    BY <1>5, <2>3 DEF Redis!Result, Redis!GetResult
  <2>5. Redis!Meaning(r) = Redis!Gives(SubSeq(r, 4, Len(r) - 1))
    BY <1>2, <1>4, RedisMeaning
  <2>6. dStream' = <<>> /\ dCommands' = <<>>
    BY <1>2, <1>5, <1>9, <1>10, <2>2
  <2> QED BY <1>1, <2>1, <2>4, <2>5, <2>6, RedisReturnStep
<1> QED BY <1>11, <1>12

\* A call that finds the connection closed was never answered.
LEMMA RedisReadFailsStep ==
  ASSUME RedisInv, NEW c \in Caller, Redis!ReadFails(c), ~dOverlapped
  PROVE  RedisInStep' /\ ResultIsOwn'
<1>1. dCall[c] # Redis!Idle /\ dStream = <<>> /\ ~dOpen /\ Redis!Return(c, Redis!Fails)
  BY DEF Redis!ReadFails
<1>2. ~RedisReading(c)
  <2> SUFFICES ASSUME RedisReading(c) PROVE FALSE
    OBVIOUS
  <2>1. PICK p \in 0..(Len(dAnswer[c]) - 1) : RedisReceived(c, dAnswer[c], p)
    BY DEF RedisReading
  <2>2. dStream = SubSeq(dAnswer[c], p + 1, Len(dAnswer[c])) /\ dAnswer[c] \in Seq(RedisUnit)
    BY <2>1 DEF RedisReceived, RedisInv, RedisTypes
  <2>3. dStream # <<>>
    BY <2>2, SubSeqStep
  <2> QED BY <1>1, <2>3
<1>3. RedisOnly(c) /\ RedisCutOff(c)
  BY <1>1, <1>2 DEF RedisInv, RedisInStep, RedisQuiet, RedisOnly, RedisWaiting
<1>4. Redis!Meaning(dAnswer[c]) = Redis!Fails
  BY <1>3 DEF RedisCutOff, RedisFresh, Redis!Meaning
<1>5. dStream' = <<>> /\ dCommands' = <<>>
  BY <1>1, <1>3 DEF Redis!ReadFails, RedisCutOff
<1> QED BY <1>1, <1>3, <1>4, <1>5, RedisReturnStep

\* Every step keeps the inductive invariant of the Redis client.
LEMMA RedisNext == RedisInv /\ [Redis!Next]_(Redis!vars) => RedisInv'
<1> SUFFICES ASSUME RedisInv, [Redis!Next]_(Redis!vars) PROVE RedisInv'
  OBVIOUS
<1>1. RedisTypes'
  BY RedisTypesNext DEF RedisInv
<1>2. RedisInStep' /\ ResultIsOwn'
  <2>0. ASSUME dOverlapped' PROVE RedisInStep' /\ ResultIsOwn'
    BY <2>0 DEF RedisInStep, ResultIsOwn, Redis!ResultIsOwn
  <2> SUFFICES ASSUME ~dOverlapped' PROVE RedisInStep' /\ ResultIsOwn'
    BY <2>0
  <2>1. ASSUME dFinished' = dFinished, ~dOverlapped PROVE ResultIsOwn'
    BY <2>1 DEF RedisInv, ResultIsOwn, Redis!ResultIsOwn
  <2>2. CASE Redis!Serve
    BY <2>1, <2>2, RedisServeStep DEF Redis!Serve
  <2>3. CASE Redis!Close
    BY <2>1, <2>3, RedisCloseStep DEF Redis!Close
  <2>4. ASSUME NEW c \in Caller, NEW cmd \in Redis!Command, Redis!Send(c, cmd)
        PROVE  RedisInStep' /\ ResultIsOwn'
    BY <2>1, <2>4, RedisSendStep DEF Redis!Send
  <2>5. CASE UNCHANGED <<dStore, dOpen, dCommands, dStream, dCall, dIssued, dOverlapped,
                         dAnswer, dFinished>>
    <3>1. ResultIsOwn'
      BY <2>1, <2>5
    <3>2. RedisInStep'
      BY <2>5 DEF RedisInv, RedisInStep, RedisQuiet, RedisOnly, RedisWaiting, RedisCutOff,
                  RedisFresh, RedisReading, RedisReceived
    <3> QED BY <3>1, <3>2
  <2>6. ASSUME NEW c \in Caller, Redis!SendOnClosed(c)
        PROVE  RedisInStep' /\ ResultIsOwn'
    BY <2>5, <2>6 DEF Redis!SendOnClosed
  <2>7. ASSUME NEW c \in Caller, Redis!ReadLine(c) PROVE RedisInStep' /\ ResultIsOwn'
    BY <2>7, RedisReadLineStep DEF Redis!ReadLine
  <2>8. ASSUME NEW c \in Caller, Redis!ReadExact(c) PROVE RedisInStep' /\ ResultIsOwn'
    BY <2>8, RedisReadExactStep DEF Redis!ReadExact
  <2>9. ASSUME NEW c \in Caller, Redis!ReadFails(c) PROVE RedisInStep' /\ ResultIsOwn'
    BY <2>9, RedisReadFailsStep DEF Redis!ReadFails
  <2>10. CASE UNCHANGED Redis!vars
    BY <2>5, <2>10 DEF Redis!vars
  <2> QED BY <2>2, <2>3, <2>4, <2>6, <2>7, <2>8, <2>9, <2>10 DEF Redis!Next
<1> QED BY <1>1, <1>2 DEF RedisInv

\* A call that is in step with the stream has something to wait for.
LEMMA RedisNeverStuck == RedisInv => NeverStuck
<1> SUFFICES ASSUME RedisInv, dAlive, ~dOverlapped, NEW c \in Caller, dCall[c] # Redis!Idle
             PROVE  dCommands # <<>> \/ dStream # <<>> \/ ~dOpen
  BY DEF NeverStuck, Redis!NeverStuck
<1>1. RedisWaiting(c) \/ RedisCutOff(c) \/ RedisReading(c)
  BY DEF RedisInv, RedisInStep, RedisQuiet, RedisOnly
<1>2. ASSUME RedisReading(c) PROVE dStream # <<>>
  <2>1. PICK p \in 0..(Len(dAnswer[c]) - 1) : RedisReceived(c, dAnswer[c], p)
    BY <1>2 DEF RedisReading
  <2>2. dStream = SubSeq(dAnswer[c], p + 1, Len(dAnswer[c])) /\ dAnswer[c] \in Seq(RedisUnit)
    BY <2>1 DEF RedisReceived, RedisInv, RedisTypes
  <2> QED BY <2>2, SubSeqStep
<1>3. RedisWaiting(c) => dCommands # <<>>
  BY DEF RedisWaiting
<1> QED BY <1>1, <1>2, <1>3 DEF RedisCutOff

\* The inductive invariant holds throughout.
LEMMA RedisInductive == Redis!Spec => []RedisInv
  BY RedisInit, RedisNext, PTL DEF Redis!Spec

(***************************************************************************)
(* The types of the Redis client hold throughout.                          *)
(***************************************************************************)
THEOREM RedisClientTypes == Redis!Spec => []Redis!TypeOK
<1>1. RedisInv => Redis!TypeOK
  BY RedisTypesOK DEF RedisInv
<1> QED BY <1>1, RedisInductive, PTL

(***************************************************************************)
(* As long as calls do not overlap, set and get return what the server     *)
(* replied to their own command, however the replies arrive and whatever   *)
(* they contain, and a call that was cut off fails.                        *)
(***************************************************************************)
THEOREM RedisResultIsOwn == Redis!Spec => []ResultIsOwn
<1>1. RedisInv => ResultIsOwn
  BY DEF RedisInv
<1> QED BY <1>1, RedisInductive, PTL

(***************************************************************************)
(* As long as calls do not overlap, no call waits for a reply that cannot  *)
(* come.                                                                   *)
(***************************************************************************)
THEOREM RedisCallNeverStuck == Redis!Spec => []NeverStuck
  BY RedisNeverStuck, RedisInductive, PTL

-----------------------------------------------------------------------------
(* The settings.                                                           *)

\* What the environment, or a file once it is read, can be.
SettingsSource == Settings!Source \cup {Settings!NoSource}

\* The largest int is HalfRange - 1.
HalfRange == 2^(IntBits - 1)
SettingsInt == (-HalfRange)..(HalfRange - 1)

\* An int has a sign and at least 16 bits, and size_t is wider.
LEMMA IntWidth ==
  /\ HalfRange \in Nat /\ HalfRange >= 32768
  /\ 2^IntBits = 2 * HalfRange
  /\ 2^SizeBits \in Nat /\ 2^SizeBits >= 2 * HalfRange
<1>1. IntBits - 1 \in Nat /\ 15 <= IntBits - 1 /\ IntBits \in Nat /\ SizeBits \in Nat
      /\ IntBits <= SizeBits /\ (IntBits - 1) + 1 = IntBits
  BY PartsAssumption
<1>2. HalfRange \in Nat
  BY <1>1, PowerPositive DEF HalfRange
<1>3. 2^15 <= HalfRange
  BY <1>1, PowerMonotone DEF HalfRange
<1>4. 2^15 = 32768
  OBVIOUS
<1>5. 2^((IntBits - 1) + 1) = 2 * HalfRange
  BY <1>1, PowerDouble DEF HalfRange
<1>6. 2^IntBits = 2 * HalfRange
  BY <1>1, <1>5
<1>7. 2^SizeBits \in Nat /\ 2^IntBits <= 2^SizeBits
  BY <1>1, PowerPositive, PowerMonotone
<1> QED BY <1>2, <1>3, <1>4, <1>6, <1>7

\* The conversion of a long to an int gives an int.
LEMMA ToIntRange ==
  ASSUME NEW n \in Int
  PROVE  Settings!ToInt(n) \in SettingsInt
<1>1. Settings!ToInt(n) = ((n + HalfRange) % (2 * HalfRange)) - HalfRange
  BY IntWidth DEF Settings!ToInt, HalfRange
<1>2. PICK h \in Nat : h = HalfRange /\ h >= 1
  BY IntWidth
<1>3. (n + h) % (2 * h) \in 0..(2 * h - 1)
  BY <1>2
<1>4. ((n + h) % (2 * h)) - h \in (-h)..(h - 1)
  BY <1>2, <1>3
<1> QED BY <1>1, <1>2, <1>4 DEF SettingsInt

\* What the texts are.
LEMMA TextFacts ==
  ASSUME NEW t \in Settings!Text
  PROVE  /\ t.n \in Int /\ t.kind \in {"unset", "nan", "other", "number"}
         /\ t.kind = "nan" => t = Settings!NaN
<1>1. SomeNumbers \subseteq Int
  BY IntWidth DEF SomeNumbers, HalfRange
<1>2. CASE t = Settings!Unset
  BY <1>2 DEF Settings!Unset
<1>3. CASE t = Settings!NaN
  <2>1. t.kind = "nan" /\ t.n = 0
    BY <1>3 DEF Settings!NaN
  <2> QED BY <1>3, <2>1
<1>4. CASE t = [kind |-> "other", n |-> 0]
  BY <1>4
<1>5. CASE t \in {Settings!Number(n) : n \in SomeNumbers}
  <2>1. PICK n \in SomeNumbers : t = Settings!Number(n)
    BY <1>5
  <2>2. t.kind = "number" /\ t.n = n
    BY <2>1 DEF Settings!Number
  <2> QED BY <1>1, <2>2
<1> QED BY <1>2, <1>3, <1>4, <1>5 DEF Settings!Text

\* The sources have texts, and so has what get_setting returns.
LEMMA GetSettingText ==
  ASSUME NEW e \in SettingsSource, NEW f \in SettingsSource, NEW s
  PROVE  Settings!GetSetting(e, f, s) \in Settings!Text
<1>1. Settings!Unset \in Settings!Text
  BY DEF Settings!Text
<1>2. \A g \in SettingsSource : g.text \in Settings!Text
  BY <1>1 DEF SettingsSource, Settings!Source, Settings!NoSource
<1> QED BY <1>1, <1>2 DEF Settings!GetSetting, Settings!TextOf

\* The defaults fit into an int.
LEMMA DefaultRange ==
  ASSUME NEW s \in Settings!IntSetting \cup {"aggregation_window_ms"}, s # "query_bf_aggregation_ms"
  PROVE  Settings!Default[s] \in Nat /\ Settings!Default[s] <= 9000
  BY DEF Settings!IntSetting, Settings!PositiveSetting, Settings!NaturalSetting,
         Settings!PortSetting, Settings!Default

\* Every number that is loaded is an int.
LEMMA LoadedInts ==
  ASSUME NEW e \in SettingsSource, NEW f \in SettingsSource, NEW s \in Settings!IntSetting
  PROVE  Settings!LoadConfig(e, f).ints[s] \in SettingsInt
<1>1. ASSUME NEW x, NEW b \in SettingsInt PROVE Settings!GetSettingInt(e, f, x, b) \in SettingsInt
  <2>1. Settings!GetSetting(e, f, x) \in Settings!Text
    BY GetSettingText
  <2>2. Settings!GetSetting(e, f, x).n \in Int
    BY <2>1, TextFacts
  <2>3. Settings!ToInt(Settings!GetSetting(e, f, x).n) \in SettingsInt
    BY <2>2, ToIntRange
  <2> QED BY <2>3 DEF Settings!GetSettingInt
<1>2. ASSUME NEW d \in Nat, d <= 9000 PROVE d \in SettingsInt
  <2>1. PICK h \in Nat : h = HalfRange /\ h >= 32768
    BY IntWidth
  <2>2. d \in (-h)..(h - 1)
    BY <1>2, <2>1
  <2> QED BY <2>1, <2>2 DEF SettingsInt
<1>3. CASE s = "query_bf_aggregation_ms"
  <2>1. Settings!Default["aggregation_window_ms"] \in SettingsInt
    <3>1. PICK d \in Nat : d <= 9000 /\ d = Settings!Default["aggregation_window_ms"]
      BY DefaultRange
    <3>2. d \in SettingsInt
      BY <1>2, <3>1
    <3> QED BY <3>1, <3>2
  <2> DEFINE b == Settings!GetSettingInt(e, f, "aggregation_window_ms",
                                         Settings!Default["aggregation_window_ms"])
  <2>2. b \in SettingsInt
    BY <1>1, <2>1
  <2>3. Settings!LoadConfig(e, f).ints[s] = Settings!GetSettingInt(e, f, s, b)
    BY <1>3 DEF Settings!LoadConfig
  <2> HIDE DEF b
  <2> QED BY <1>1, <2>2, <2>3
<1>4. CASE s # "query_bf_aggregation_ms"
  <2>1. Settings!Default[s] \in SettingsInt
    <3>1. PICK d \in Nat : d <= 9000 /\ d = Settings!Default[s]
      BY <1>4, DefaultRange
    <3>2. d \in SettingsInt
      BY <1>2, <3>1
    <3> QED BY <3>1, <3>2
  <2>2. Settings!LoadConfig(e, f).ints[s] = Settings!GetSettingInt(e, f, s, Settings!Default[s])
    BY <1>4 DEF Settings!LoadConfig
  <2> QED BY <1>1, <2>1, <2>2
<1> QED BY <1>3, <1>4

\* A neighbor that parse_neighbors keeps.
GoodNeighbor(H) == {x \in [host : H, port : Int] : x.host # "" /\ x.port > 0}

\* One turn of its loop.
KeepNeighbor(kept, n) ==
  IF Settings!Usable(n) THEN Append(kept, [host |-> n.host, port |-> Settings!ToInt(n.port)])
  ELSE kept

\* parse_neighbors keeps nothing without a host or with a port that is not positive.
LEMMA ParsedNeighbors ==
  ASSUME NEW H, NEW list \in Seq([host : H, port : Int])
  PROVE  Settings!ParseNeighbors(list) \in Seq(GoodNeighbor(H))
<1> DEFINE n == Len(list)
           A == [host : H, port : Int]
           V == Seq(GoodNeighbor(H))
           body(iter, s) == IF s = {} THEN <<>>
                            ELSE KeepNeighbor(iter[s \ {Greatest(s)}], list[Greatest(s)])
           iter == CHOOSE iter : iter = [s \in SUBSET (1..n) |-> body(iter, s)]
           step == [z \in V \X A |-> KeepNeighbor(z[1], z[2])]
<1>1. n \in Nat /\ DOMAIN list = 1..n /\ list \in [1..n -> A]
  <2>1. n \in Nat /\ list \in Seq(A)
    OBVIOUS
  <2> HIDE DEF A
  <2> QED BY <2>1
<1>2. Settings!ParseNeighbors(list) = iter[1..n]
  BY <1>1 DEF Settings!ParseNeighbors, Settings!FoldLeft, Settings!MapThenFoldSet, Settings!Max,
              Greatest, KeepNeighbor
<1>3. \A v \in V, a \in A : KeepNeighbor(v, a) \in V
  <2> SUFFICES ASSUME NEW v \in V, NEW a \in A PROVE KeepNeighbor(v, a) \in V
    OBVIOUS
  <2>1. CASE Settings!Usable(a)
    <3>1. Settings!ToInt(a.port) \in Int
      BY IntWidth, ToIntRange DEF SettingsInt
    <3>2. [host |-> a.host, port |-> Settings!ToInt(a.port)] \in GoodNeighbor(H)
      BY <2>1, <3>1 DEF GoodNeighbor, Settings!Usable
    <3> QED BY <2>1, <3>2 DEF KeepNeighbor
  <2>2. CASE ~Settings!Usable(a)
    BY <2>2 DEF KeepNeighbor
  <2> QED BY <2>1, <2>2
<1>4. step \in [V \X A -> V]
  BY <1>3
<1>5. \A v \in V, a \in A : step[<<v, a>>] = KeepNeighbor(v, a)
  OBVIOUS
<1>6. <<>> \in V
  OBVIOUS
<1> HIDE DEF n, A, V, step
<1>7. PICK g \in [SUBSET (1..n) -> V] : FoldsLeft(g, n, list, <<>>, step)
  BY <1>1, <1>4, <1>6, FoldLeftExists
<1>8. g = [s \in SUBSET (1..n) |-> body(g, s)]
  <2>1. ASSUME NEW s \in SUBSET (1..n) PROVE g[s] = body(g, s)
    <3>1. CASE s = {}
      BY <1>7, <3>1 DEF FoldsLeft
    <3>2. CASE s # {}
      <4>1. Greatest(s) \in 1..n
        BY <1>1, <3>2, GreatestPosition
      <4>2. g[s \ {Greatest(s)}] \in V /\ list[Greatest(s)] \in A
        BY <1>1, <1>7, <4>1
      <4>3. g[s] = step[<<g[s \ {Greatest(s)}], list[Greatest(s)]>>]
        BY <1>7, <3>2 DEF FoldsLeft
      <4> QED BY <1>5, <3>2, <4>2, <4>3
    <3> QED BY <3>1, <3>2
  <2> HIDE DEF body
  <2> QED BY <1>7, <2>1
<1>9. iter = [s \in SUBSET (1..n) |-> body(iter, s)]
  BY <1>8
<1> HIDE DEF iter
<1>10. ASSUME NEW s \in SUBSET (1..n), s # {}, iter[s \ {Greatest(s)}] \in V
       PROVE  iter[s] = step[<<iter[s \ {Greatest(s)}], list[Greatest(s)]>>]
  <2>1. list[Greatest(s)] \in A
    BY <1>1, <1>10, GreatestPosition
  <2> QED BY <1>5, <1>9, <1>10, <2>1
<1>11. iter[{}] = <<>>
  BY <1>9
<1>12. iter[1..n] \in V
  <2>1. FoldEquations(iter, n, list, V, <<>>, step)
    BY <1>10, <1>11 DEF FoldEquations
  <2>2. FoldPrefixes(iter, n, list, V, <<>>, step)
    BY <1>1, <1>4, <1>6, <2>1, FoldLeftSteps
  <2> QED BY <1>1, <2>2 DEF FoldPrefixes
<1> QED BY <1>2, <1>12 DEF V

\* The lists that the sources give.
LEMMA SourceLists ==
  ASSUME NEW f \in SettingsSource
  PROVE  f.neighbors \in Seq([host : {"", "b", "c", "d"}, port : Int])
<1> DEFINE A == [host : {"", "b", "c", "d"}, port : Int]
<1>1. SomeLists \subseteq Seq(A)
  BY DEF SomeLists
<1>2. <<>> \in Seq(A)
  OBVIOUS
<1> HIDE DEF A
<1>3. f.neighbors = <<>> \/ f.neighbors \in SomeLists
  BY DEF SettingsSource, Settings!Source, Settings!NoSource
<1>4. f.neighbors \in Seq(A)
  BY <1>1, <1>2, <1>3
<1> QED BY <1>4 DEF A

\* The neighbors that are loaded have a host and a positive port.
LEMMA LoadedNeighbors ==
  ASSUME NEW e \in SettingsSource, NEW f \in SettingsSource
  PROVE  \A i \in 1..Len(Settings!LoadConfig(e, f).neighbors) :
           /\ Settings!LoadConfig(e, f).neighbors[i].host # ""
           /\ Settings!LoadConfig(e, f).neighbors[i].port > 0
<1> DEFINE list == IF e.neighbors # <<>> THEN e.neighbors ELSE f.neighbors
<1>1. list \in Seq([host : {"", "b", "c", "d"}, port : Int])
  BY SourceLists
<1>2. Settings!LoadConfig(e, f).neighbors = Settings!ParseNeighbors(list)
  BY DEF Settings!LoadConfig
<1> HIDE DEF list
<1>3. Settings!ParseNeighbors(list) \in Seq(GoodNeighbor({"", "b", "c", "d"}))
  BY <1>1, ParsedNeighbors
<1>4. \A i \in 1..Len(Settings!ParseNeighbors(list)) :
        Settings!ParseNeighbors(list)[i] \in GoodNeighbor({"", "b", "c", "d"})
  BY <1>3, ElementOfSeq
<1> QED BY <1>2, <1>4 DEF GoodNeighbor

\* The neighbors of the environment hide those of the file.
LEMMA EnvironmentNeighbors ==
  ASSUME NEW e, NEW f, NEW g, e.neighbors # <<>>
  PROVE  Settings!LoadConfig(e, f).neighbors = Settings!LoadConfig(e, g).neighbors
  BY DEF Settings!LoadConfig

\* A filter of at most seven missing bits, or of any size that is not negative,
\* can be allocated: only the sum with 7 of a size of -8 or less stays near the
\* top of size_t.
LEMMA SmallFilterFits ==
  ASSUME NEW bits \in SettingsInt, bits > -8
  PROVE  Settings!FilterBytes(bits) <= MaxBytes
<1>1. PICK h \in Nat : h = HalfRange /\ h >= 32768
  BY IntWidth
<1>2. PICK m \in Nat : m = 2^SizeBits /\ m >= 2 * h
  BY IntWidth, <1>1
<1>3. MaxBytes \in Int /\ MaxBytes >= h
  BY <1>1, PartsAssumption DEF HalfRange
<1>4. bits \in Int /\ bits <= h - 1
  BY <1>1 DEF SettingsInt
<1>5. Settings!FilterBytes(bits) = (((bits % m) + 7) % m) \div 8
  BY <1>2 DEF Settings!FilterBytes
<1>6. CASE bits >= 0
  <2>1. bits % m = bits
    BY <1>1, <1>2, <1>4, <1>6
  <2>2. (bits + 7) % m = bits + 7
    BY <1>1, <1>2, <1>4, <1>6
  <2>3. (bits + 7) \div 8 <= h
    BY <1>1, <1>4, <1>6
  <2>4. (bits + 7) \div 8 \in Int
    BY <1>4
  <2> QED BY <1>1, <1>3, <1>5, <2>1, <2>2, <2>3, <2>4
<1>7. CASE bits < 0
  <2>1. bits % m = m + bits
    BY <1>1, <1>2, <1>4, <1>7
  <2>2. (m + bits + 7) % m = bits + 7
    BY <1>1, <1>2, <1>4, <1>7
  <2>3. (bits + 7) \div 8 = 0
    BY <1>4, <1>7
  <2> QED BY <1>1, <1>3, <1>5, <2>1, <2>2, <2>3
<1> QED BY <1>4, <1>6, <1>7

\* The inductive invariant: what a process has loaded, what it then found out
\* about it, and where its topology comes from.
SettingsInv ==
  /\ sEnv \in SettingsSource /\ sFile \in Settings!Source \cup {Settings!Missing}
  /\ sSeen \subseteq SettingsSource
  /\ sRewrites \in 0..MaxRewrites
  /\ sPhase \in {"off", "aborted", "refused", "no_redis", "no_socket", "running"}
  /\ sPhase # "off" => \E f \in SettingsSource : sConfig = Settings!LoadConfig(sEnv, f)
  /\ sPhase = "aborted" => ~Settings!Constructs(sConfig)
  /\ sPhase \notin {"off", "aborted", "refused"} => Settings!ValidateConfig(sConfig)
  /\ sPhase = "running" =>
       \E f \in sSeen : sTopology = Settings!LoadConfig(sEnv, f).neighbors
  /\ sPhase = "running" /\ sRewrites = 0 =>
       /\ sConfig = Settings!LoadConfig(sEnv, Settings!Read(sFile))
       /\ sTopology = sConfig.neighbors

\* A file that could be read gives a source, and so does one that could not.
LEMMA ReadGivesSource ==
  ASSUME NEW f \in Settings!Source \cup {Settings!Missing}
  PROVE  Settings!Read(f) \in SettingsSource
  BY DEF Settings!Read, SettingsSource

\* The start establishes the invariant.
LEMMA BootSettings ==
  ASSUME NEW e \in Settings!Source, NEW f \in Settings!Source \cup {Settings!Missing},
         SettingsInv, Settings!Boot(e, f)
  PROVE  SettingsInv'
<1>1. PICK g \in SettingsSource : g = Settings!Read(f)
  BY ReadGivesSource
<1>2. /\ sEnv' = e /\ sFile' = f /\ sSeen' = {g} /\ sRewrites' = sRewrites
      /\ sConfig' = Settings!LoadConfig(e, g)
  BY <1>1 DEF Settings!Boot
<1>3. \/ sPhase' = "aborted" /\ ~Settings!Constructs(sConfig')
      \/ sPhase' = "refused"
      \/ sPhase' = "no_redis" /\ Settings!ValidateConfig(sConfig')
      \/ /\ sPhase' \in {"running", "no_socket"} /\ Settings!ValidateConfig(sConfig')
         /\ sTopology' = sConfig'.neighbors
  BY DEF Settings!Boot, Settings!ConnectFails, Settings!Start
<1>4. sEnv' \in SettingsSource /\ sFile' \in Settings!Source \cup {Settings!Missing}
      /\ sSeen' \subseteq SettingsSource /\ sRewrites' \in 0..MaxRewrites
  BY <1>1, <1>2 DEF SettingsInv, SettingsSource
<1>5. \E j \in SettingsSource : sConfig' = Settings!LoadConfig(sEnv', j)
  BY <1>1, <1>2
<1>6. sPhase' = "running" => \E j \in sSeen' : sTopology' = Settings!LoadConfig(sEnv', j).neighbors
  BY <1>2, <1>3
<1>7. sPhase' \in {"off", "aborted", "refused", "no_redis", "no_socket", "running"}
  BY <1>3
<1>8. sPhase' = "aborted" => ~Settings!Constructs(sConfig')
  BY <1>3
<1>9. sPhase' \notin {"off", "aborted", "refused"} => Settings!ValidateConfig(sConfig')
  BY <1>3
<1>10. sPhase' = "running" =>
         /\ sConfig' = Settings!LoadConfig(sEnv', Settings!Read(sFile'))
         /\ sTopology' = sConfig'.neighbors
  BY <1>1, <1>2, <1>3
<1> QED BY <1>4, <1>5, <1>6, <1>7, <1>8, <1>9, <1>10 DEF SettingsInv

\* A change of the file alone keeps it.
LEMMA RewriteSettings ==
  ASSUME NEW f \in Settings!Source \cup {Settings!Missing}, SettingsInv, Settings!Rewrite(f)
  PROVE  SettingsInv'
<1>1. /\ sEnv' = sEnv /\ sPhase' = sPhase /\ sConfig' = sConfig
      /\ sTopology' = sTopology /\ sSeen' = sSeen /\ sFile' = f
  BY DEF Settings!Rewrite
<1>2. sRewrites' \in 0..MaxRewrites /\ sRewrites' # 0
  BY PartsAssumption DEF Settings!Rewrite, SettingsInv
<1> QED BY <1>1, <1>2 DEF SettingsInv

\* A reload takes the topology from a file that could be read.
LEMMA ReloadSettings ==
  ASSUME SettingsInv, Settings!Reload
  PROVE  SettingsInv'
<1>1. /\ sEnv' = sEnv /\ sPhase' = sPhase /\ sConfig' = sConfig
      /\ sRewrites' = sRewrites /\ sFile' = sFile /\ sFile # Settings!Missing
      /\ sSeen' = sSeen \cup {sFile}
      /\ sTopology' = Settings!LoadConfig(sEnv, sFile).neighbors
  BY DEF Settings!Reload, Settings!Reloadable, Settings!Read
<1>2. sFile \in SettingsSource
  BY <1>1 DEF SettingsInv, SettingsSource
<1>3. sSeen' \subseteq SettingsSource
  BY <1>1, <1>2 DEF SettingsInv
<1>4. \E f \in sSeen' : sTopology' = Settings!LoadConfig(sEnv', f).neighbors
  BY <1>1
<1>5. sPhase' = "running" /\ sRewrites' = 0 =>
        /\ sConfig' = Settings!LoadConfig(sEnv', Settings!Read(sFile'))
        /\ sTopology' = sConfig'.neighbors
  <2>1. Settings!Read(sFile) = sFile
    BY <1>1 DEF Settings!Read
  <2> QED BY <1>1, <2>1 DEF SettingsInv
<1> QED BY <1>1, <1>3, <1>4, <1>5 DEF SettingsInv

\* Nothing is loaded at first.
LEMMA InitSettings == Settings!Init => SettingsInv
  BY PartsAssumption DEF Settings!Init, SettingsInv, SettingsSource

\* Every step keeps the invariant.
LEMMA NextSettings == SettingsInv /\ [Settings!Next]_Settings!vars => SettingsInv'
<1> SUFFICES ASSUME SettingsInv, [Settings!Next]_Settings!vars PROVE SettingsInv'
  OBVIOUS
<1>1. \A e : Settings!FilesFor(e) \subseteq Settings!Source \cup {Settings!Missing}
  BY DEF Settings!FilesFor
<1>2. CASE UNCHANGED Settings!vars
  BY <1>2 DEF Settings!vars, SettingsInv
<1>3. ASSUME NEW e \in Settings!Source, NEW f \in Settings!FilesFor(e), Settings!Boot(e, f)
      PROVE  SettingsInv'
  BY <1>1, <1>3, BootSettings
<1>4. ASSUME NEW f \in Settings!FilesFor(sEnv), Settings!Rewrite(f) PROVE SettingsInv'
  BY <1>1, <1>4, RewriteSettings
<1>5. CASE Settings!Reload
  BY <1>5, ReloadSettings
<1> QED BY <1>2, <1>3, <1>4, <1>5 DEF Settings!Next

\* The invariant holds in every state.
LEMMA SettingsAlways == Settings!Spec => []SettingsInv
  BY InitSettings, NextSettings, PTL DEF Settings!Spec

\* Whatever number an environment or a file gives, what the settings hold is an
\* int.
LEMMA SettingsTyped == SettingsInv => Settings!TypeOK
<1> SUFFICES ASSUME SettingsInv PROVE Settings!TypeOK
  OBVIOUS
<1>1. ASSUME sPhase # "off", NEW s \in Settings!IntSetting
      PROVE  sConfig.ints[s] \in -(2^(IntBits - 1))..(2^(IntBits - 1) - 1)
  <2>1. sEnv \in SettingsSource /\ \E f \in SettingsSource : sConfig = Settings!LoadConfig(sEnv, f)
    BY <1>1 DEF SettingsInv
  <2>2. sConfig.ints[s] \in SettingsInt
    BY <2>1, LoadedInts
  <2> QED BY <2>2 DEF SettingsInt, HalfRange
<1> QED BY <1>1 DEF SettingsInv, SettingsSource, Settings!TypeOK

\* The state of the configuration has its types, wherever the settings come from.
THEOREM SettingsTypes == Settings!Spec => []Settings!TypeOK
  BY SettingsTyped, SettingsAlways, PTL

\* Settings that cannot be used are reported by validate_config, but for a
\* content_bf_bits of -8 or less, which ends the process in the constructor of
\* Node: for every width of int and size_t and whatever can be allocated.
THEOREM SettingsInvalidIsReported == Settings!Spec => []InvalidIsReported
<1>1. SettingsInv => InvalidIsReported
  <2> SUFFICES ASSUME SettingsInv PROVE InvalidIsReported
    OBVIOUS
  <2>1. ASSUME sPhase = "aborted" PROVE sConfig.ints["content_bf_bits"] <= -8
    <3>1. sEnv \in SettingsSource /\ ~Settings!Constructs(sConfig)
          /\ \E f \in SettingsSource : sConfig = Settings!LoadConfig(sEnv, f)
      BY <2>1 DEF SettingsInv
    <3>2. "content_bf_bits" \in Settings!IntSetting
      BY DEF Settings!IntSetting, Settings!PositiveSetting
    <3>3. PICK b \in SettingsInt : b = sConfig.ints["content_bf_bits"]
      BY <3>1, <3>2, LoadedInts
    <3>4. ~(Settings!FilterBytes(b) <= MaxBytes)
      BY <3>1, <3>3 DEF Settings!Constructs
    <3>5. ~(b > -8)
      BY <3>3, <3>4, SmallFilterFits
    <3>6. b \in Int
      BY <3>3, IntWidth DEF SettingsInt
    <3> QED BY <3>3, <3>5, <3>6
  <2>2. sPhase \notin {"off", "aborted", "refused"} => Settings!ValidateConfig(sConfig)
    BY DEF SettingsInv
  <2> QED BY <2>1, <2>2 DEF InvalidIsReported, Settings!InvalidIsReported
<1> QED BY <1>1, SettingsAlways, PTL

\* A number in the environment decides, whatever the file says, and a text that
\* is not a number hides the file's.
THEOREM SettingsEnvironmentDecides == Settings!Spec => []EnvironmentDecides
<1>1. SettingsInv => EnvironmentDecides
  <2> SUFFICES ASSUME SettingsInv, sPhase # "off",
                      sEnv.setting \in Settings!IntSetting \ {"query_bf_aggregation_ms"}
               PROVE  /\ sEnv.text.kind = "number" =>
                           sConfig.ints[sEnv.setting] = Settings!ToInt(sEnv.text.n)
                      /\ sEnv.text.kind \in {"other", "nan"} =>
                           sConfig.ints[sEnv.setting] = Settings!Default[sEnv.setting]
    BY DEF EnvironmentDecides, Settings!EnvironmentDecides
  <2>1. PICK f \in SettingsSource : sConfig = Settings!LoadConfig(sEnv, f)
    BY DEF SettingsInv
  <2>2. PICK s \in Settings!IntSetting : s = sEnv.setting /\ s # "query_bf_aggregation_ms"
    OBVIOUS
  <2>3. sConfig.ints[s] = Settings!GetSettingInt(sEnv, f, s, Settings!Default[s])
    BY <2>1, <2>2 DEF Settings!LoadConfig
  <2>4. sEnv.text.kind # "unset" => Settings!GetSetting(sEnv, f, s) = sEnv.text
    BY <2>2 DEF Settings!GetSetting, Settings!TextOf, Settings!Unset
  <2> QED BY <2>2, <2>3, <2>4 DEF Settings!GetSettingInt
<1> QED BY <1>1, SettingsAlways, PTL

\* The topology always comes from settings that could be read, and every
\* neighbor in it has a host and a positive port.
THEOREM SettingsTopologyWasGiven == Settings!Spec => []TopologyWasGiven
<1>1. SettingsInv => TopologyWasGiven
  <2> SUFFICES ASSUME SettingsInv, sPhase = "running"
               PROVE  /\ \E f \in sSeen : sTopology = Settings!LoadConfig(sEnv, f).neighbors
                      /\ \A i \in 1..Len(sTopology) :
                           sTopology[i].host # "" /\ sTopology[i].port > 0
    BY DEF TopologyWasGiven, Settings!TopologyWasGiven
  <2>1. /\ sEnv \in SettingsSource /\ sSeen \subseteq SettingsSource
        /\ \E f \in sSeen : sTopology = Settings!LoadConfig(sEnv, f).neighbors
    BY DEF SettingsInv
  <2>2. PICK f \in SettingsSource : sTopology = Settings!LoadConfig(sEnv, f).neighbors
    BY <2>1
  <2> QED BY <2>1, <2>2, LoadedNeighbors
<1> QED BY <1>1, SettingsAlways, PTL

\* Rewrites are counted.
LEMMA CountedRewrites == SettingsInv => sRewrites \in Nat
<1>1. SettingsInv => sRewrites \in 0..MaxRewrites
  BY Zenon DEF SettingsInv
<1>2. MaxRewrites \in Nat
  BY Zenon, PartsAssumption
<1>3. \A m \in Nat : \A r \in 0..m : r \in Nat
  OBVIOUS
<1> QED BY <1>1, <1>2, <1>3, Zenon

\* The only way past validate_config for a port that is not one: a reload of a
\* file that was changed after the start, with no neighbors in the environment.
THEOREM SettingsUncheckedNeedsRewrite == Settings!Spec => []UncheckedNeedsRewrite
<1>1. SettingsInv => UncheckedNeedsRewrite
  <2> SUFFICES ASSUME SettingsInv, sPhase = "running",
                      sRewrites = 0 \/ sEnv.neighbors # <<>>
               PROVE  \A i \in 1..Len(sTopology) : sTopology[i].port \in Settings!Port
    BY CountedRewrites DEF UncheckedNeedsRewrite, Settings!UncheckedNeedsRewrite
  <2>1. sTopology = sConfig.neighbors
    <3>1. CASE sRewrites = 0
      BY <3>1 DEF SettingsInv
    <3>2. CASE sEnv.neighbors # <<>>
      <4>1. PICK f, g \in SettingsSource :
              /\ sConfig = Settings!LoadConfig(sEnv, f)
              /\ sTopology = Settings!LoadConfig(sEnv, g).neighbors
        BY DEF SettingsInv
      <4> QED BY <3>2, <4>1, EnvironmentNeighbors
    <3> QED BY <3>1, <3>2
  <2>2. Settings!NeighborsOK(sConfig)
    BY DEF SettingsInv, Settings!ValidateConfig
  <2> QED BY <2>1, <2>2 DEF Settings!NeighborsOK
<1> QED BY <1>1, SettingsAlways, PTL

-----------------------------------------------------------------------------
(* The datagrams.                                                          *)

\* What a text on the wire is made of.
WireUnit == {"DATA", "CBF", "QBF", "|", "i", "o", "1", "2", "k", "x", "0", "f"}
WireText == Seq(WireUnit)

\* What split returns: at least one part.
WireParts == {p \in Seq(WireText) : p # <<>>}

\* One turn of its loop.
SplitStep(parts, u) ==
  IF u = "|" THEN Append(parts, <<>>)
  ELSE Append(SubSeq(parts, 1, Len(parts) - 1), Append(parts[Len(parts)], u))

\* A turn adds a part or extends the last one.
LEMMA SplitStepType ==
  ASSUME NEW p \in WireParts, NEW u \in WireUnit
  PROVE  SplitStep(p, u) \in WireParts
<1>1. p \in Seq(WireText) /\ Len(p) \in Nat /\ Len(p) >= 1
  BY DEF WireParts
<1>2. p[Len(p)] \in WireText
  BY <1>1
<1>3. Append(p[Len(p)], u) \in WireText
  BY <1>2 DEF WireText
<1>4. <<>> \in WireText
  BY DEF WireText
<1>5. SubSeq(p, 1, Len(p) - 1) \in Seq(WireText)
  BY <1>1
<1>6. ASSUME NEW q \in Seq(WireText), NEW t \in WireText
      PROVE  Append(q, t) \in Seq(WireText) /\ Append(q, t) # <<>>
  BY AppendProperties
<1> QED BY <1>1, <1>3, <1>4, <1>5, <1>6 DEF SplitStep, WireParts

\* The values that the loop runs through.
SplitRun(q, text) ==
  /\ q[0] = << <<>> >>
  /\ \A i \in 0..Len(text) : q[i] \in WireParts
  /\ \A i \in 1..Len(text) : q[i] = SplitStep(q[i - 1], text[i])

\* split runs through such values and returns the last of them.
LEMMA SplitRuns ==
  ASSUME NEW text \in WireText
  PROVE  \E q : SplitRun(q, text) /\ Codec!Split(text) = q[Len(text)]
<1> DEFINE n == Len(text)
           body(iter, s) == IF s = {} THEN << <<>> >>
                            ELSE SplitStep(iter[s \ {Greatest(s)}], text[Greatest(s)])
           iter == CHOOSE iter : iter = [s \in SUBSET (1..n) |-> body(iter, s)]
           step == [z \in WireParts \X WireUnit |-> SplitStep(z[1], z[2])]
<1>1. n \in Nat /\ DOMAIN text = 1..n /\ text \in [1..n -> WireUnit]
  <2>1. n \in Nat /\ text \in Seq(WireUnit)
    BY DEF WireText
  <2> QED BY <2>1
<1>2. Codec!Split(text) = iter[1..n]
  BY <1>1 DEF Codec!Split, Codec!FoldLeft, Codec!MapThenFoldSet, Codec!Max, Codec!Front, Codec!Last,
              Greatest, SplitStep
<1>3. step \in [WireParts \X WireUnit -> WireParts]
  BY SplitStepType
<1>4. \A p \in WireParts, u \in WireUnit : step[<<p, u>>] = SplitStep(p, u)
  OBVIOUS
<1>5. << <<>> >> \in WireParts
  BY DEF WireParts, WireText
<1> HIDE DEF n, step
<1>6. PICK g \in [SUBSET (1..n) -> WireParts] : FoldsLeft(g, n, text, << <<>> >>, step)
  BY <1>1, <1>3, <1>5, FoldLeftExists
<1>7. g = [s \in SUBSET (1..n) |-> body(g, s)]
  <2>1. ASSUME NEW s \in SUBSET (1..n) PROVE g[s] = body(g, s)
    <3>1. CASE s = {}
      BY <1>6, <3>1 DEF FoldsLeft
    <3>2. CASE s # {}
      <4>1. Greatest(s) \in 1..n
        BY <1>1, <3>2, GreatestPosition
      <4>2. g[s \ {Greatest(s)}] \in WireParts /\ text[Greatest(s)] \in WireUnit
        BY <1>1, <1>6, <4>1
      <4>3. g[s] = step[<<g[s \ {Greatest(s)}], text[Greatest(s)]>>]
        BY <1>6, <3>2 DEF FoldsLeft
      <4> QED BY <1>4, <3>2, <4>2, <4>3
    <3> QED BY <3>1, <3>2
  <2> HIDE DEF body
  <2> QED BY <1>6, <2>1
<1>8. iter = [s \in SUBSET (1..n) |-> body(iter, s)]
  BY <1>7
<1> HIDE DEF iter
<1>9. FoldEquations(iter, n, text, WireParts, << <<>> >>, step)
  <2>1. ASSUME NEW s \in SUBSET (1..n), s # {}, iter[s \ {Greatest(s)}] \in WireParts
        PROVE  iter[s] = step[<<iter[s \ {Greatest(s)}], text[Greatest(s)]>>]
    <3>1. text[Greatest(s)] \in WireUnit
      BY <1>1, <2>1, GreatestPosition
    <3> QED BY <1>4, <1>8, <2>1, <3>1
  <2>2. iter[{}] = << <<>> >>
    BY <1>8
  <2> QED BY <2>1, <2>2 DEF FoldEquations
<1>10. /\ iter[1..0] = << <<>> >>
       /\ \A i \in 0..n : iter[1..i] \in WireParts
       /\ \A i \in 1..n : iter[1..i] = step[<<iter[1..(i - 1)], text[i]>>]
  <2>1. FoldPrefixes(iter, n, text, WireParts, << <<>> >>, step)
    BY <1>1, <1>3, <1>5, <1>9, FoldLeftSteps
  <2> QED BY <2>1 DEF FoldPrefixes
<1> DEFINE q == [i \in 0..n |-> iter[1..i]]
<1>11. q[0] = << <<>> >> /\ (\A i \in 0..n : q[i] \in WireParts) /\ q[n] = iter[1..n]
  BY <1>1, <1>10
<1>12. ASSUME NEW i \in 1..n PROVE q[i] = SplitStep(q[i - 1], text[i])
  <2>1. i - 1 \in 0..n /\ i \in 0..n /\ text[i] \in WireUnit
    BY <1>1
  <2>2. iter[1..(i - 1)] \in WireParts
    BY <1>10, <2>1
  <2>3. q[i] = iter[1..i] /\ q[i - 1] = iter[1..(i - 1)]
    BY <2>1
  <2> QED BY <1>4, <1>10, <2>1, <2>2, <2>3
<1> HIDE DEF q
<1>13. SplitRun(q, text)
  BY <1>11, <1>12 DEF SplitRun, n
<1> QED BY <1>2, <1>11, <1>13 DEF n

\* How split treats the first and every further unit of a text.
LEMMA SplitSteps ==
  /\ Codec!Split(<<>>) = << <<>> >>
  /\ \A t \in WireText : Codec!Split(t) \in WireParts
  /\ \A t \in WireText : \A u \in WireUnit :
       Codec!Split(Append(t, u)) = SplitStep(Codec!Split(t), u)
<1>1. Codec!Split(<<>>) = << <<>> >>
  <2>1. <<>> \in WireText /\ Len(<<>>) = 0
    BY DEF WireText
  <2>2. PICK q : SplitRun(q, <<>>) /\ Codec!Split(<<>>) = q[Len(<<>>)]
    BY <2>1, SplitRuns
  <2> QED BY <2>1, <2>2 DEF SplitRun
<1>2. ASSUME NEW t \in WireText PROVE Codec!Split(t) \in WireParts
  <2>1. PICK q : SplitRun(q, t) /\ Codec!Split(t) = q[Len(t)]
    BY SplitRuns
  <2>2. Len(t) \in 0..Len(t)
    BY DEF WireText
  <2> QED BY <2>1, <2>2 DEF SplitRun
<1>3. ASSUME NEW t \in WireText, NEW u \in WireUnit
      PROVE  Codec!Split(Append(t, u)) = SplitStep(Codec!Split(t), u)
  <2> DEFINE v == Append(t, u)
             n == Len(t)
  <2>1. /\ v \in WireText /\ n \in Nat /\ Len(v) = n + 1 /\ v[n + 1] = u
        /\ \A i \in 1..n : v[i] = t[i]
    BY DEF WireText
  <2> HIDE DEF v
  <2>2. PICK p : SplitRun(p, t) /\ Codec!Split(t) = p[n]
    BY SplitRuns
  <2>3. PICK q : SplitRun(q, v) /\ Codec!Split(v) = q[n + 1]
    BY <2>1, SplitRuns
  <2> HIDE DEF n
  <2>4. \A i \in 0..n : i \in {j \in 0..n : p[j] = q[j]}
    <3> DEFINE S == {j \in 0..n : p[j] = q[j]}
    <3>1. 0 \in S
      BY <2>1, <2>2, <2>3 DEF SplitRun
    <3>2. ASSUME NEW i \in 0..(n - 1), i \in S PROVE i + 1 \in S
      <4>1. i + 1 \in 1..n /\ i + 1 \in 1..(n + 1) /\ (i + 1) - 1 = i
        BY <2>1
      <4>2. p[i + 1] = SplitStep(p[i], t[i + 1])
        BY <2>2, <4>1 DEF SplitRun, n
      <4>3. q[i + 1] = SplitStep(q[i], v[i + 1])
        BY <2>1, <2>3, <4>1 DEF SplitRun
      <4> QED BY <2>1, <3>2, <4>1, <4>2, <4>3
    <3> HIDE DEF S
    <3>3. \A i \in 0..n : i \in S
      BY <2>1, <3>1, <3>2, NumbersUpTo
    <3> QED BY <3>3 DEF S
  <2>5. p[n] = q[n]
    BY <2>1, <2>4
  <2>6. q[n + 1] = SplitStep(q[n], u)
    <3>1. n + 1 \in 1..Len(v) /\ (n + 1) - 1 = n
      BY <2>1
    <3>2. q[n + 1] = SplitStep(q[(n + 1) - 1], v[n + 1])
      BY <2>3, <3>1 DEF SplitRun
    <3> QED BY <2>1, <3>1, <3>2
  <2> QED BY <2>2, <2>3, <2>5, <2>6 DEF v
<1> QED BY <1>1, <1>2, <1>3

\* What a turn of the loop changes.
LEMMA SplitStepShape ==
  ASSUME NEW p \in WireParts, NEW u \in WireUnit
  PROVE  /\ u = "|" => /\ Len(SplitStep(p, u)) = Len(p) + 1
                       /\ \A i \in 1..Len(p) : SplitStep(p, u)[i] = p[i]
                       /\ SplitStep(p, u)[Len(p) + 1] = <<>>
         /\ u # "|" => /\ Len(SplitStep(p, u)) = Len(p)
                       /\ \A i \in 1..(Len(p) - 1) : SplitStep(p, u)[i] = p[i]
                       /\ SplitStep(p, u)[Len(p)] = Append(p[Len(p)], u)
<1> DEFINE n == Len(p)
<1>1. p \in Seq(WireText) /\ n \in Nat /\ n >= 1
  BY DEF WireParts
<1>2. CASE u = "|"
  <2>1. SplitStep(p, u) = Append(p, <<>>)
    BY <1>2 DEF SplitStep
  <2>2. <<>> \in WireText
    BY DEF WireText
  <2> QED BY <1>1, <1>2, <2>1, <2>2
<1>3. CASE u # "|"
  <2> DEFINE r == SubSeq(p, 1, n - 1)
             t == Append(p[n], u)
  <2>1. SplitStep(p, u) = Append(r, t)
    BY <1>3 DEF SplitStep
  <2>2. p[n] \in WireText
    BY <1>1
  <2>3. t \in WireText
    BY <2>2 DEF WireText
  <2>4. r \in Seq(WireText) /\ Len(r) = n - 1 /\ \A i \in 1..(n - 1) : r[i] = p[i]
    <3>1. \A i \in 1..(n - 1) : p[i] \in WireText
      BY <1>1
    <3> HIDE DEF n
    <3>2. /\ r \in Seq(WireText) /\ Len(r) = IF 1 <= n - 1 THEN (n - 1) - 1 + 1 ELSE 0
          /\ \A i \in 1..((n - 1) - 1 + 1) : r[i] = p[1 + i - 1]
      BY <1>1, <3>1, SubSeqProperties
    <3> QED BY <1>1, <3>2
  <2> HIDE DEF r, t
  <2>5. /\ Len(Append(r, t)) = n /\ Append(r, t)[n] = t
        /\ \A i \in 1..(n - 1) : Append(r, t)[i] = r[i]
    BY <1>1, <2>3, <2>4
  <2> QED BY <1>3, <2>1, <2>4, <2>5 DEF t
<1> QED BY <1>2, <1>3

\* A part in front of others.
InFront(a, p) == <<a>> \o p

\* Where the parts are then.
LEMMA InFrontShape ==
  ASSUME NEW a \in WireText, NEW p \in Seq(WireText)
  PROVE  /\ InFront(a, p) \in Seq(WireText)
         /\ Len(InFront(a, p)) = Len(p) + 1
         /\ InFront(a, p)[1] = a
         /\ \A i \in 1..Len(p) : InFront(a, p)[i + 1] = p[i]
  BY DEF InFront

\* They are the parts of a split if the others are.
LEMMA InFrontParts ==
  ASSUME NEW a \in WireText, NEW p \in WireParts
  PROVE  InFront(a, p) \in WireParts
<1>1. p \in Seq(WireText)
  BY DEF WireParts
<1>2. InFront(a, p) \in Seq(WireText) /\ Len(InFront(a, p)) = Len(p) + 1 /\ Len(p) \in Nat
  BY <1>1, InFrontShape
<1>3. InFront(a, p) # <<>>
  BY <1>2
<1> QED BY <1>2, <1>3 DEF WireParts

\* The loop does not touch what is in front.
LEMMA SplitStepInFront ==
  ASSUME NEW a \in WireText, NEW p \in WireParts, NEW u \in WireUnit
  PROVE  SplitStep(InFront(a, p), u) = InFront(a, SplitStep(p, u))
<1> DEFINE n == Len(p)
           q == InFront(a, p)
           l == SplitStep(q, u)
           z == SplitStep(p, u)
           r == InFront(a, z)
<1>1. p \in Seq(WireText) /\ n \in Nat /\ n >= 1
  BY DEF WireParts
<1>2. z \in WireParts /\ z \in Seq(WireText)
  BY SplitStepType DEF WireParts
<1>3. q \in WireParts
  BY InFrontParts
<1>4. l \in Seq(WireText)
  BY <1>3, SplitStepType DEF WireParts
<1>5. Len(q) = n + 1 /\ q[1] = a /\ \A i \in 1..n : q[i + 1] = p[i]
  BY <1>1, InFrontShape
<1>6. /\ r \in Seq(WireText) /\ Len(r) = Len(z) + 1 /\ r[1] = a
      /\ \A i \in 1..Len(z) : r[i + 1] = z[i]
  BY <1>2, InFrontShape
<1>7. CASE u = "|"
  <2>1. Len(z) = n + 1 /\ (\A i \in 1..n : z[i] = p[i]) /\ z[n + 1] = <<>>
    BY <1>7, SplitStepShape
  <2>2. Len(l) = Len(q) + 1 /\ (\A i \in 1..Len(q) : l[i] = q[i]) /\ l[Len(q) + 1] = <<>>
    BY <1>3, <1>7, SplitStepShape
  <2> HIDE DEF n, q, l, z, r
  <2>3. ASSUME NEW i \in 1..(n + 2) PROVE l[i] = r[i]
    <3>1. CASE i = 1
      BY <1>1, <1>5, <1>6, <2>1, <2>2, <3>1
    <3>2. CASE i \in 2..(n + 1)
      <4>1. PICK j \in 1..n : i = j + 1
        <5>1. i - 1 \in 1..n /\ i = (i - 1) + 1
          BY <1>1, <3>2
        <5> QED BY <5>1
      <4>2. l[i] = q[j + 1] /\ r[i] = z[j]
        BY <1>1, <1>5, <1>6, <2>1, <2>2, <4>1
      <4> QED BY <1>5, <2>1, <4>1, <4>2
    <3>3. CASE i = n + 2
      <4>1. l[i] = <<>>
        BY <1>1, <1>5, <2>2, <3>3
      <4>2. r[(n + 1) + 1] = z[n + 1]
        BY <1>1, <1>6, <2>1
      <4> QED BY <1>1, <2>1, <3>3, <4>1, <4>2
    <3> QED BY <1>1, <3>1, <3>2, <3>3
  <2>4. Len(l) = n + 2 /\ Len(r) = n + 2
    BY <1>1, <1>5, <1>6, <2>1, <2>2
  <2>5. l = r
    BY <1>1, <1>4, <1>6, <2>3, <2>4, SeqEqual
  <2> QED BY <2>5 DEF l, r, q, z
<1>8. CASE u # "|"
  <2>1. /\ Len(z) = n /\ (\A i \in 1..(n - 1) : z[i] = p[i])
        /\ z[n] = Append(p[n], u)
    BY <1>8, SplitStepShape
  <2>2. /\ Len(l) = Len(q) /\ (\A i \in 1..(Len(q) - 1) : l[i] = q[i])
        /\ l[Len(q)] = Append(q[Len(q)], u)
    BY <1>3, <1>8, SplitStepShape
  <2> HIDE DEF n, q, l, z, r
  <2>3. ASSUME NEW i \in 1..(n + 1) PROVE l[i] = r[i]
    <3>1. CASE i = 1
      BY <1>1, <1>5, <1>6, <2>1, <2>2, <3>1
    <3>2. CASE i \in 2..n
      <4>1. PICK j \in 1..(n - 1) : i = j + 1
        <5>1. i - 1 \in 1..(n - 1) /\ i = (i - 1) + 1
          BY <1>1, <3>2
        <5> QED BY <5>1
      <4>2. l[i] = q[j + 1] /\ r[i] = z[j]
        BY <1>1, <1>5, <1>6, <2>1, <2>2, <4>1
      <4>3. q[j + 1] = p[j]
        BY <1>1, <1>5, <4>1
      <4> QED BY <2>1, <4>1, <4>2, <4>3
    <3>3. CASE i = n + 1
      <4>1. l[n + 1] = Append(q[n + 1], u)
        BY <1>1, <1>5, <2>2
      <4>2. r[n + 1] = z[n] /\ q[n + 1] = p[n]
        BY <1>1, <1>5, <1>6, <2>1
      <4> QED BY <2>1, <3>3, <4>1, <4>2
    <3> QED BY <1>1, <3>1, <3>2, <3>3
  <2>4. Len(l) = n + 1 /\ Len(r) = n + 1
    BY <1>1, <1>5, <1>6, <2>1, <2>2
  <2>5. l = r
    BY <1>1, <1>4, <1>6, <2>3, <2>4, SeqEqual
  <2> QED BY <2>5 DEF l, r, q, z
<1> QED BY <1>7, <1>8

\* A text without separator.
NoBar(t) == \A i \in 1..Len(t) : t[i] # "|"

\* It is a part of its own.
LEMMA SplitNoBar ==
  ASSUME NEW t \in WireText, NoBar(t)
  PROVE  Codec!Split(t) = <<t>>
<1> DEFINE S == {s \in WireText : NoBar(s) => Codec!Split(s) = <<s>>}
<1>1. <<>> \in S
  BY SplitSteps DEF WireText
<1>2. ASSUME NEW s \in WireText, NEW u \in WireUnit, s \in S PROVE Append(s, u) \in S
  <2>1. /\ Append(s, u) \in WireText /\ Len(Append(s, u)) = Len(s) + 1 /\ Len(s) \in Nat
        /\ Append(s, u)[Len(s) + 1] = u /\ \A i \in 1..Len(s) : Append(s, u)[i] = s[i]
    BY DEF WireText
  <2>2. ASSUME NoBar(Append(s, u)) PROVE Codec!Split(Append(s, u)) = <<Append(s, u)>>
    <3>1. u # "|" /\ NoBar(s)
      BY <2>1, <2>2 DEF NoBar
    <3>2. Codec!Split(s) = <<s>>
      BY <1>2, <3>1
    <3>3. Codec!Split(Append(s, u)) = SplitStep(<<s>>, u)
      BY <3>2, SplitSteps
    <3>4. SplitStep(<<s>>, u) = Append(SubSeq(<<s>>, 1, 0), Append(s, u))
      BY <3>1 DEF SplitStep
    <3>5. SubSeq(<<s>>, 1, 0) = <<>>
      BY SubSeqEmpty
    <3>6. Append(<<>>, Append(s, u)) = <<Append(s, u)>>
      BY <2>1
    <3> QED BY <3>3, <3>4, <3>5, <3>6
  <2> QED BY <2>1, <2>2
<1> HIDE DEF S
<1>3. Seq(WireUnit) \subseteq S
  BY <1>1, <1>2, AllSequences DEF WireText
<1> QED BY <1>3 DEF S, WireText

\* Two texts with a separator between them.
Joined(a, b) == Append(a, "|") \o b

\* Where their units are.
LEMMA JoinedShape ==
  ASSUME NEW a \in WireText, NEW b \in WireText
  PROVE  /\ Joined(a, b) \in WireText
         /\ Len(Joined(a, b)) = Len(a) + 1 + Len(b)
         /\ \A i \in 1..Len(a) : Joined(a, b)[i] = a[i]
         /\ Joined(a, b)[Len(a) + 1] = "|"
         /\ \A i \in 1..Len(b) : Joined(a, b)[Len(a) + 1 + i] = b[i]
<1> DEFINE c == Append(a, "|")
<1>1. "|" \in WireUnit /\ a \in Seq(WireUnit) /\ b \in Seq(WireUnit)
  BY DEF WireUnit, WireText
<1>2. /\ c \in Seq(WireUnit) /\ Len(c) = Len(a) + 1 /\ c[Len(a) + 1] = "|"
      /\ \A i \in 1..Len(a) : c[i] = a[i]
  BY <1>1, AppendProperties
<1>3. Len(a) \in Nat /\ Len(b) \in Nat
  BY <1>1
<1> HIDE DEF c
<1>4. /\ c \o b \in Seq(WireUnit) /\ Len(c \o b) = Len(c) + Len(b)
      /\ \A i \in 1..(Len(c) + Len(b)) : (c \o b)[i] = IF i <= Len(c) THEN c[i] ELSE b[i - Len(c)]
  BY <1>1, <1>2, ConcatProperties
<1>5. Joined(a, b) = c \o b
  BY DEF Joined, c
<1>6. ASSUME NEW i \in 1..Len(a) PROVE (c \o b)[i] = a[i]
  BY <1>2, <1>3, <1>4
<1>7. (c \o b)[Len(a) + 1] = "|"
  BY <1>2, <1>3, <1>4
<1>8. ASSUME NEW i \in 1..Len(b) PROVE (c \o b)[Len(a) + 1 + i] = b[i]
  <2>1. Len(a) + 1 + i \in 1..(Len(c) + Len(b)) /\ ~(Len(a) + 1 + i <= Len(c))
        /\ Len(a) + 1 + i - Len(c) = i
    BY <1>2, <1>3
  <2> QED BY <1>4, <2>1
<1> QED BY <1>2, <1>3, <1>4, <1>5, <1>6, <1>7, <1>8 DEF WireText

\* The first text of two is a part of its own, if it has no separator.
LEMMA SplitJoined ==
  ASSUME NEW a \in WireText, NoBar(a), NEW b \in WireText
  PROVE  Codec!Split(Joined(a, b)) = InFront(a, Codec!Split(b))
<1> DEFINE S == {s \in WireText : Codec!Split(Joined(a, s)) = InFront(a, Codec!Split(s))}
<1>0. "|" \in WireUnit /\ <<>> \in WireText
  BY DEF WireUnit, WireText
<1>1. <<>> \in S
  <2>1. Append(a, "|") \in Seq(WireUnit)
    BY <1>0, AppendProperties DEF WireText
  <2>2. Joined(a, <<>>) = Append(a, "|")
    BY <2>1, ConcatEmptySeq DEF Joined
  <2>3. Codec!Split(Append(a, "|")) = SplitStep(<<a>>, "|")
    BY <1>0, SplitNoBar, SplitSteps
  <2>4. SplitStep(<<a>>, "|") = Append(<<a>>, <<>>)
    BY DEF SplitStep
  <2>5. Append(<<a>>, <<>>) = <<a>> \o << <<>> >>
    BY <1>0, AppendIsConcat
  <2>6. Codec!Split(<<>>) = << <<>> >>
    BY SplitSteps
  <2> QED BY <1>0, <2>2, <2>3, <2>4, <2>5, <2>6 DEF InFront
<1>2. ASSUME NEW s \in WireText, NEW u \in WireUnit, s \in S PROVE Append(s, u) \in S
  <2>1. Append(s, u) \in WireText
    BY AppendProperties DEF WireText
  <2>2. Joined(a, s) \in WireText
    BY JoinedShape
  <2>3. Joined(a, Append(s, u)) = Append(Joined(a, s), u)
    <3> DEFINE l == Joined(a, Append(s, u))
               r == Append(Joined(a, s), u)
    <3>1. /\ l \in WireText /\ Len(l) = Len(a) + 1 + Len(Append(s, u))
          /\ (\A i \in 1..Len(a) : l[i] = a[i]) /\ l[Len(a) + 1] = "|"
          /\ \A i \in 1..Len(Append(s, u)) : l[Len(a) + 1 + i] = Append(s, u)[i]
      BY <2>1, JoinedShape
    <3>2. /\ Joined(a, s) \in WireText /\ Len(Joined(a, s)) = Len(a) + 1 + Len(s)
          /\ (\A i \in 1..Len(a) : Joined(a, s)[i] = a[i]) /\ Joined(a, s)[Len(a) + 1] = "|"
          /\ \A i \in 1..Len(s) : Joined(a, s)[Len(a) + 1 + i] = s[i]
      BY JoinedShape
    <3>3. /\ r \in WireText /\ Len(r) = Len(Joined(a, s)) + 1 /\ r[Len(Joined(a, s)) + 1] = u
          /\ \A i \in 1..Len(Joined(a, s)) : r[i] = Joined(a, s)[i]
      BY <2>2, AppendProperties DEF WireText
    <3>4. /\ Len(Append(s, u)) = Len(s) + 1 /\ Append(s, u)[Len(s) + 1] = u
          /\ (\A i \in 1..Len(s) : Append(s, u)[i] = s[i]) /\ Len(s) \in Nat /\ Len(a) \in Nat
      BY AppendProperties DEF WireText
    <3> DEFINE m == Len(a)
               n == Len(s)
    <3> HIDE DEF l, r
    <3>5. Len(l) = m + 1 + n + 1 /\ Len(r) = m + 1 + n + 1 /\ m \in Nat /\ n \in Nat
      BY <3>1, <3>2, <3>3, <3>4
    <3>6. ASSUME NEW i \in 1..Len(l) PROVE l[i] = r[i]
      <4>1. CASE i \in 1..m
        BY <3>1, <3>2, <3>3, <3>4, <4>1
      <4>2. CASE i = m + 1
        BY <3>1, <3>2, <3>3, <3>4, <4>2
      <4>3. CASE i \in (m + 2)..(m + 1 + n)
        <5>1. PICK j \in 1..n : i = m + 1 + j
          <6>1. i - m - 1 \in 1..n /\ i = m + 1 + (i - m - 1)
            BY <3>5, <4>3
          <6> QED BY <6>1
        <5>2. l[m + 1 + j] = s[j]
          BY <3>1, <3>4, <5>1
        <5>3. r[m + 1 + j] = Joined(a, s)[m + 1 + j]
          BY <3>2, <3>3, <3>4, <5>1
        <5> QED BY <3>2, <5>1, <5>2, <5>3
      <4>4. CASE i = m + 1 + n + 1
        <5>1. l[m + 1 + (n + 1)] = u
          BY <3>1, <3>4
        <5>2. r[m + 1 + n + 1] = u
          BY <3>2, <3>3
        <5> QED BY <3>5, <4>4, <5>1, <5>2
      <4> QED BY <3>5, <4>1, <4>2, <4>3, <4>4
    <3>7. l = r
      BY <3>1, <3>3, <3>5, <3>6, SeqEqual DEF WireText
    <3> QED BY <3>7 DEF l, r
  <2>4. Codec!Split(Append(Joined(a, s), u)) = SplitStep(InFront(a, Codec!Split(s)), u)
    BY <1>2, <2>2, SplitSteps
  <2>5. Codec!Split(s) \in WireParts /\ Codec!Split(Append(s, u)) = SplitStep(Codec!Split(s), u)
    BY SplitSteps
  <2>6. SplitStep(InFront(a, Codec!Split(s)), u) = InFront(a, SplitStep(Codec!Split(s), u))
    BY <2>5, SplitStepInFront
  <2> QED BY <2>1, <2>3, <2>4, <2>5, <2>6
<1> HIDE DEF S
<1>3. Seq(WireUnit) \subseteq S
  BY <1>1, <1>2, AllSequences DEF WireText
<1> QED BY <1>3 DEF S, WireText

\* The first l units of a text.
LEMMA PrefixShape ==
  ASSUME NEW t \in WireText, NEW l \in 0..Len(t)
  PROVE  /\ SubSeq(t, 1, l) \in WireText /\ Len(SubSeq(t, 1, l)) = l
         /\ \A i \in 1..l : SubSeq(t, 1, l)[i] = t[i]
         /\ l = Len(t) => SubSeq(t, 1, l) = t
<1>1. t \in Seq(WireUnit) /\ Len(t) \in Nat /\ l \in Nat /\ l <= Len(t)
  BY DEF WireText
<1>2. \A i \in 1..l : t[i] \in WireUnit
  BY <1>1
<1>3. /\ SubSeq(t, 1, l) \in Seq(WireUnit)
      /\ Len(SubSeq(t, 1, l)) = IF 1 <= l THEN l - 1 + 1 ELSE 0
      /\ \A i \in 1..(l - 1 + 1) : SubSeq(t, 1, l)[i] = t[1 + i - 1]
  BY <1>1, <1>2, SubSeqProperties
<1>4. Len(SubSeq(t, 1, l)) = l /\ \A i \in 1..l : SubSeq(t, 1, l)[i] = t[i]
  BY <1>1, <1>3
<1>5. l = Len(t) => SubSeq(t, 1, l) = t
  BY <1>1, <1>3, <1>4, SeqEqual
<1> QED BY <1>3, <1>4, <1>5 DEF WireText

\* A prefix of a prefix is a prefix.
LEMMA PrefixOfPrefix ==
  ASSUME NEW t \in WireText, NEW l \in 0..Len(t), NEW j \in 0..l
  PROVE  SubSeq(SubSeq(t, 1, l), 1, j) = SubSeq(t, 1, j)
<1> DEFINE p == SubSeq(t, 1, l)
<1>1. Len(t) \in Nat /\ j \in 0..Len(t)
  BY DEF WireText
<1>2. p \in WireText /\ Len(p) = l /\ \A i \in 1..l : p[i] = t[i]
  BY PrefixShape
<1> HIDE DEF p
<1>3. SubSeq(p, 1, j) \in WireText /\ Len(SubSeq(p, 1, j)) = j /\ \A i \in 1..j : SubSeq(p, 1, j)[i] = p[i]
  BY <1>2, PrefixShape
<1>4. SubSeq(t, 1, j) \in WireText /\ Len(SubSeq(t, 1, j)) = j /\ \A i \in 1..j : SubSeq(t, 1, j)[i] = t[i]
  BY <1>1, PrefixShape
<1>5. SubSeq(p, 1, j) = SubSeq(t, 1, j)
  BY <1>1, <1>2, <1>3, <1>4, SeqEqual DEF WireText
<1> QED BY <1>5 DEF p

\* Where a cut through two joined texts is.
LEMMA CutJoined ==
  ASSUME NEW a \in WireText, NEW b \in WireText, NEW l \in 0..Len(Joined(a, b))
  PROVE  /\ l <= Len(a) => SubSeq(Joined(a, b), 1, l) = SubSeq(a, 1, l)
         /\ ~(l <= Len(a)) =>
              /\ l - Len(a) - 1 \in 0..Len(b)
              /\ SubSeq(Joined(a, b), 1, l) = Joined(a, SubSeq(b, 1, l - Len(a) - 1))
<1> DEFINE t == Joined(a, b)
           m == Len(a)
           n == Len(b)
           c == SubSeq(t, 1, l)
<1>1. /\ t \in WireText /\ Len(t) = m + 1 + n /\ (\A i \in 1..m : t[i] = a[i])
      /\ t[m + 1] = "|" /\ \A i \in 1..n : t[m + 1 + i] = b[i]
  BY JoinedShape
<1>2. m \in Nat /\ n \in Nat
  BY DEF WireText
<1>3. c \in WireText /\ Len(c) = l /\ \A i \in 1..l : c[i] = t[i]
  BY <1>1, PrefixShape
<1>4. l \in Nat /\ l <= m + 1 + n
  BY <1>1, <1>2
<1>5. ASSUME l <= m PROVE c = SubSeq(a, 1, l)
  <2>1. l \in 0..m
    BY <1>2, <1>4, <1>5
  <2>2. /\ SubSeq(a, 1, l) \in WireText /\ Len(SubSeq(a, 1, l)) = l
        /\ \A i \in 1..l : SubSeq(a, 1, l)[i] = a[i]
    BY <2>1, PrefixShape
  <2> HIDE DEF t, c, m, n
  <2>3. \A i \in 1..l : c[i] = SubSeq(a, 1, l)[i]
    BY <1>1, <1>2, <1>3, <1>4, <1>5, <2>2
  <2> QED BY <1>3, <2>2, <2>3, SeqEqual DEF WireText
<1>6. ASSUME ~(l <= m)
      PROVE  l - m - 1 \in 0..n /\ c = Joined(a, SubSeq(b, 1, l - m - 1))
  <2> DEFINE j == l - m - 1
             p == SubSeq(b, 1, j)
             r == Joined(a, p)
  <2>1. j \in 0..n /\ l = m + 1 + j
    BY <1>2, <1>4, <1>6
  <2>2. p \in WireText /\ Len(p) = j /\ \A i \in 1..j : p[i] = b[i]
    BY <2>1, PrefixShape
  <2> HIDE DEF t, c, n, j, p
  <2>3. /\ r \in WireText /\ Len(r) = m + 1 + Len(p) /\ (\A i \in 1..m : r[i] = a[i])
        /\ r[m + 1] = "|" /\ \A i \in 1..Len(p) : r[m + 1 + i] = p[i]
    BY <2>2, JoinedShape
  <2> HIDE DEF r, m
  <2>4. ASSUME NEW i \in 1..l PROVE c[i] = r[i]
    <3>1. CASE i \in 1..m
      BY <1>1, <1>2, <1>3, <2>3, <3>1
    <3>2. CASE i = m + 1
      BY <1>1, <1>2, <1>3, <2>3, <3>2
    <3>3. CASE i \in (m + 2)..l
      <4>1. PICK k \in 1..j : i = m + 1 + k
        <5>1. i - m - 1 \in 1..j /\ i = m + 1 + (i - m - 1)
          BY <1>2, <2>1, <3>3
        <5> QED BY <5>1
      <4>2. k \in 1..n
        BY <1>2, <2>1, <4>1
      <4>3. c[i] = b[k]
        BY <1>1, <1>3, <4>1, <4>2
      <4>4. r[i] = p[k]
        BY <2>2, <2>3, <4>1
      <4> QED BY <2>2, <4>1, <4>3, <4>4
    <3> QED BY <1>2, <1>4, <3>1, <3>2, <3>3
  <2>5. c = r
    BY <1>3, <2>1, <2>2, <2>3, <2>4, SeqEqual DEF WireText
  <2> QED BY <2>1, <2>5 DEF r, p, j, n, m
<1> QED BY <1>5, <1>6

\* What split makes of two joined texts that are cut off.
LEMMA SplitCut ==
  ASSUME NEW a \in WireText, NoBar(a), NEW b \in WireText, NEW l \in 0..Len(Joined(a, b))
  PROVE  /\ l <= Len(a) => Codec!Split(SubSeq(Joined(a, b), 1, l)) = <<SubSeq(a, 1, l)>>
         /\ ~(l <= Len(a)) =>
              /\ l - Len(a) - 1 \in 0..Len(b)
              /\ Codec!Split(SubSeq(Joined(a, b), 1, l))
                   = InFront(a, Codec!Split(SubSeq(b, 1, l - Len(a) - 1)))
<1>1. CASE l <= Len(a)
  <2>1. l \in 0..Len(a)
    BY <1>1, JoinedShape DEF WireText
  <2>2. /\ SubSeq(a, 1, l) \in WireText /\ Len(SubSeq(a, 1, l)) = l
        /\ \A i \in 1..l : SubSeq(a, 1, l)[i] = a[i]
    BY <2>1, PrefixShape
  <2>3. NoBar(SubSeq(a, 1, l))
    <3>1. \A i \in 1..l : i \in 1..Len(a)
      BY <2>1 DEF WireText
    <3> QED BY <2>2, <3>1 DEF NoBar
  <2>4. Codec!Split(SubSeq(a, 1, l)) = <<SubSeq(a, 1, l)>>
    BY <2>2, <2>3, SplitNoBar
  <2> QED BY <1>1, <2>4, CutJoined
<1>2. CASE ~(l <= Len(a))
  <2>1. /\ l - Len(a) - 1 \in 0..Len(b)
        /\ SubSeq(Joined(a, b), 1, l) = Joined(a, SubSeq(b, 1, l - Len(a) - 1))
    BY <1>2, CutJoined
  <2>2. SubSeq(b, 1, l - Len(a) - 1) \in WireText
    BY <2>1, PrefixShape
  <2> QED BY <1>2, <2>1, <2>2, SplitJoined
<1> QED BY <1>1, <1>2

\* The first part of a split is the text up to its first separator.
LEMMA SplitFirst ==
  ASSUME NEW b \in WireText
  PROVE  /\ Codec!Split(b)[1] = Codec!UpToBar(b)
         /\ \E j \in 0..Len(b) : Codec!UpToBar(b) = SubSeq(b, 1, j)
         /\ NoBar(b) => Codec!UpToBar(b) = b
<1> DEFINE n == Len(b)
           I == {i \in 1..n : b[i] = "|"}
           least == CHOOSE x \in I : \A y \in I : x =< y
           bar == IF I # {} THEN least ELSE 0
<1>0. b \in Seq(WireUnit) /\ n \in Nat
  BY DEF WireText
<1>1. Codec!UpToBar(b) = IF bar = 0 THEN b ELSE SubSeq(b, 1, bar - 1)
  BY DEF Codec!UpToBar, Codec!SelectInSeq, Codec!Min
<1>2. CASE I = {}
  <2>1. NoBar(b)
    BY <1>2 DEF NoBar
  <2>2. Codec!UpToBar(b) = b
    BY <1>1, <1>2
  <2>3. Codec!Split(b) = <<b>>
    BY <2>1, SplitNoBar
  <2>4. n \in 0..n /\ SubSeq(b, 1, n) = b
    BY <1>0, PrefixShape
  <2>5. Codec!Split(b)[1] = Codec!UpToBar(b)
    BY <2>2, <2>3
  <2>6. \E j \in 0..n : Codec!UpToBar(b) = SubSeq(b, 1, j)
    BY <2>2, <2>4
  <2> QED BY <2>2, <2>5, <2>6
<1>3. CASE I # {}
  <2>1. I \in SUBSET Nat
    BY <1>0
  <2>2. \E x \in I : \A y \in I : x =< y
    <3> HIDE DEF I
    <3> QED BY <1>3, <2>1, LeastNumber
  <2>3. least \in I /\ \A y \in I : least <= y
    BY <2>2
  <2>4. least \in 1..n /\ b[least] = "|" /\ bar = least
    BY <1>3, <2>3
  <2> HIDE DEF least, bar
  <2>5. PICK x \in 1..n : x = least /\ b[x] = "|" /\ \A y \in I : x <= y
    BY <2>3, <2>4
  <2> DEFINE a == SubSeq(b, 1, x - 1)
             r == SubSeq(b, x + 1, n)
  <2>6. Codec!UpToBar(b) = a
    BY <1>0, <1>1, <2>4, <2>5
  <2>7. x - 1 \in 0..n
    BY <1>0, <2>5
  <2>8. a \in WireText /\ Len(a) = x - 1 /\ \A i \in 1..(x - 1) : a[i] = b[i]
    BY <2>7, PrefixShape
  <2>9. NoBar(a)
    <3>1. ASSUME NEW i \in 1..(x - 1) PROVE b[i] # "|"
      <4>1. i \in 1..n /\ ~(x <= i)
        BY <1>0, <2>5
      <4> QED BY <2>5, <4>1
    <3> QED BY <2>8, <3>1 DEF NoBar
  <2>10. r \in WireText /\ Len(r) = n - x /\ \A i \in 1..(n - x) : r[i] = b[x + i]
    <3>1. \A i \in (x + 1)..n : b[i] \in WireUnit
      BY <1>0, <2>5
    <3>2. x \in Int /\ n \in Int /\ x <= n /\ x + 1 \in Int
      BY <1>0, <2>5
    <3> HIDE DEF n
    <3>3. /\ r \in Seq(WireUnit) /\ Len(r) = IF x + 1 <= n THEN n - (x + 1) + 1 ELSE 0
          /\ \A i \in 1..(n - (x + 1) + 1) : r[i] = b[x + 1 + i - 1]
      BY <3>1, <3>2, SubSeqProperties
    <3> HIDE DEF r
    <3>4. Len(r) = n - x
      BY <3>2, <3>3
    <3>5. \A i \in 1..(n - x) : r[i] = b[x + i]
      BY <3>2, <3>3
    <3> QED BY <3>3, <3>4, <3>5 DEF WireText
  <2> HIDE DEF a, r, n, I
  <2>11. Joined(a, r) = b
    <3>1. /\ Joined(a, r) \in WireText /\ Len(Joined(a, r)) = Len(a) + 1 + Len(r)
          /\ (\A i \in 1..Len(a) : Joined(a, r)[i] = a[i]) /\ Joined(a, r)[Len(a) + 1] = "|"
          /\ \A i \in 1..Len(r) : Joined(a, r)[Len(a) + 1 + i] = r[i]
      BY <2>8, <2>10, JoinedShape
    <3>2. Len(Joined(a, r)) = n
      BY <1>0, <2>5, <2>8, <2>10, <3>1
    <3>3. ASSUME NEW i \in 1..n PROVE Joined(a, r)[i] = b[i]
      <4>1. CASE i \in 1..(x - 1)
        BY <2>8, <3>1, <4>1
      <4>2. CASE i = x
        BY <1>0, <2>5, <2>8, <3>1, <4>2
      <4>3. CASE i \in (x + 1)..n
        <5>1. PICK k \in 1..(n - x) : i = x + k
          <6>1. i - x \in 1..(n - x) /\ i = x + (i - x)
            BY <1>0, <2>5, <4>3
          <6> QED BY <6>1
        <5>2. (x - 1) + 1 + k = x + k
          BY <1>0, <2>5, <5>1
        <5>3. Joined(a, r)[(x - 1) + 1 + k] = r[k]
          BY <2>8, <2>10, <3>1, <5>1
        <5> QED BY <2>10, <5>1, <5>2, <5>3
      <4> QED BY <1>0, <2>5, <4>1, <4>2, <4>3
    <3> QED BY <1>0, <3>1, <3>2, <3>3, SeqEqual DEF WireText, n
  <2>12. Codec!Split(b) = InFront(a, Codec!Split(r))
    BY <2>8, <2>9, <2>10, <2>11, SplitJoined
  <2>13. Codec!Split(r) \in Seq(WireText)
    BY <2>10, SplitSteps DEF WireParts
  <2>14. Codec!Split(b)[1] = a
    <3>1. PICK p \in Seq(WireText) : p = Codec!Split(r)
      BY <2>13
    <3>2. InFront(a, p)[1] = a
      BY <2>8, <3>1, InFrontShape
    <3> QED BY <2>12, <3>1, <3>2
  <2>15. ~NoBar(b)
    BY <2>5 DEF NoBar, n
  <2>16. \E j \in 0..n : a = SubSeq(b, 1, j)
    BY <2>7 DEF a
  <2> QED BY <2>6, <2>14, <2>15, <2>16 DEF n
<1> QED BY <1>2, <1>3

\* A byte is a text of two half bytes.
LEMMA PairIsText ==
  ASSUME NEW H, NEW x \in H \X H
  PROVE  x \in Seq(H) /\ Len(x) = 2
<1>1. x \in [1..2 -> H]
  <2>1. PICK a \in H, b \in H : x = <<a, b>>
    OBVIOUS
  <2>2. DOMAIN <<a, b>> = 1..2 /\ <<a, b>> = [i \in 1..2 |-> <<a, b>>[i]]
        /\ \A i \in 1..2 : <<a, b>>[i] \in H
    OBVIOUS
  <2> QED BY <2>1, <2>2
<1>2. PICK n \in Nat : n = 2
  OBVIOUS
<1>3. x \in [1..n -> H] /\ DOMAIN x = 1..n
  BY <1>1, <1>2
<1>4. x \in Seq(H) /\ Len(x) = n
  BY <1>3
<1> QED BY <1>2, <1>4

\* A text with one more byte.
LEMMA ConcatPair ==
  ASSUME NEW H, NEW s \in Seq(H), NEW x \in H \X H
  PROVE  /\ s \o x \in Seq(H) /\ Len(s \o x) = Len(s) + 2
         /\ \A i \in 1..Len(s) : (s \o x)[i] = s[i]
         /\ (s \o x)[Len(s) + 1] = x[1] /\ (s \o x)[Len(s) + 2] = x[2]
<1>1. x \in Seq(H) /\ Len(x) = 2
  BY PairIsText
<1>2. PICK y \in Seq(H) : y = x
  BY <1>1
<1>3. PICK m \in Nat : m = Len(y) /\ m = 2
  BY <1>1, <1>2
<1>4. /\ s \o y \in Seq(H) /\ Len(s \o y) = Len(s) + Len(y)
      /\ \A i \in 1..(Len(s) + Len(y)) : (s \o y)[i] = IF i <= Len(s) THEN s[i] ELSE y[i - Len(s)]
  BY ConcatProperties
<1>5. PICK l \in Nat : l = Len(s)
  OBVIOUS
<1>6. /\ s \o y \in Seq(H) /\ Len(s \o y) = l + m
      /\ \A i \in 1..(l + m) : (s \o y)[i] = IF i <= l THEN s[i] ELSE y[i - l]
  BY <1>3, <1>4, <1>5
<1>7. \A i \in 1..l : (s \o y)[i] = s[i]
  BY <1>3, <1>6
<1>8. (s \o y)[l + 1] = y[1] /\ (s \o y)[l + 2] = y[2]
  <2>1. l + 1 \in 1..(l + m) /\ l + 2 \in 1..(l + m) /\ (l + 1) - l = 1 /\ (l + 2) - l = 2
        /\ ~(l + 1 <= l) /\ ~(l + 2 <= l)
    BY <1>3
  <2> QED BY <1>6, <2>1
<1>9. Len(s \o y) = l + 2
  BY <1>3, <1>6
<1> QED BY <1>2, <1>5, <1>6, <1>7, <1>8, <1>9

\* The text h holds the first i bytes of f.
HexOf(h, f, i) ==
  /\ h \in Seq(Codec!HalfByte) /\ Len(h) = 2 * i
  /\ \A k \in 1..i : h[2 * k - 1] = f[k][1] /\ h[2 * k] = f[k][2]

\* It does with one more byte.
LEMMA HexStep ==
  ASSUME NEW n \in Nat, NEW f \in [1..n -> Codec!HalfByte \X Codec!HalfByte],
         NEW i \in 0..(n - 1), NEW h, HexOf(h, f, i)
  PROVE  HexOf(h \o f[i + 1], f, i + 1)
<1> DEFINE x == f[i + 1]
           r == h \o x
<1>1. x \in Codec!HalfByte \X Codec!HalfByte /\ i \in Nat
  OBVIOUS
<1>2. h \in Seq(Codec!HalfByte) /\ Len(h) = 2 * i
  BY DEF HexOf
<1> HIDE DEF x
<1>3. /\ r \in Seq(Codec!HalfByte) /\ Len(r) = Len(h) + 2
      /\ \A j \in 1..Len(h) : r[j] = h[j]
      /\ r[Len(h) + 1] = x[1] /\ r[Len(h) + 2] = x[2]
  BY <1>1, <1>2, ConcatPair, ZenonT(40)
<1> HIDE DEF r
<1>4. ASSUME NEW k \in 1..(i + 1) PROVE r[2 * k - 1] = f[k][1] /\ r[2 * k] = f[k][2]
  <2>1. CASE k \in 1..i
    <3>1. 2 * k - 1 \in 1..(2 * i) /\ 2 * k \in 1..(2 * i)
      BY <1>1, <2>1
    <3>2. r[2 * k - 1] = h[2 * k - 1] /\ r[2 * k] = h[2 * k]
      BY <1>2, <1>3, <3>1
    <3> QED BY <2>1, <3>2 DEF HexOf
  <2>2. CASE k = i + 1
    <3>1. 2 * k - 1 = 2 * i + 1 /\ 2 * k = 2 * i + 2
      BY <1>1, <2>2
    <3> QED BY <1>2, <1>3, <2>2, <3>1 DEF x
  <2> QED BY <1>1, <2>1, <2>2
<1>5. Len(r) = 2 * (i + 1)
  BY <1>1, <1>2, <1>3
<1> QED BY <1>3, <1>4, <1>5 DEF HexOf, r, x

\* Two texts that hold the same bytes are the same.
LEMMA HexUnique ==
  ASSUME NEW n \in Nat, NEW f, NEW h, NEW l, HexOf(h, f, n), HexOf(l, f, n)
  PROVE  h = l
<1>1. /\ h \in Seq(Codec!HalfByte) /\ l \in Seq(Codec!HalfByte)
      /\ Len(h) = 2 * n /\ Len(l) = 2 * n
  BY DEF HexOf
<1>2. ASSUME NEW j \in 1..(2 * n) PROVE h[j] = l[j]
  <2>1. PICK k \in 1..n : j = 2 * k - 1 \/ j = 2 * k
    <3>1. (j + 1) \div 2 \in 1..n /\ (j = 2 * ((j + 1) \div 2) - 1 \/ j = 2 * ((j + 1) \div 2))
      OBVIOUS
    <3> QED BY <3>1
  <2> QED BY <2>1 DEF HexOf
<1> QED BY <1>1, <1>2, SeqEqual

\* to_hex writes the bytes of a filter one after the other.
LEMMA ToHexShape ==
  ASSUME NEW n \in Nat, n >= 1, NEW f \in [1..n -> Codec!HalfByte \X Codec!HalfByte]
  PROVE  HexOf(Codec!ToHex(f), f, n)
<1> DEFINE H == Codec!HalfByte
           body(it, i) == IF i = 1 THEN f[i] ELSE it[i - 1] \o f[i]
           it == CHOOSE it : it = [i \in 1..n |-> body(it, i)]
           g == [i \in 1..n |-> [j \in 1..(2 * i) |->
                   IF j % 2 = 1 THEN f[(j + 1) \div 2][1] ELSE f[j \div 2][2]]]
<1>1. Len(f) = n /\ n # 0
  <2>1. f \in Seq(Codec!HalfByte \X Codec!HalfByte) /\ DOMAIN f = 1..n
    OBVIOUS
  <2> QED BY <2>1
<1>2. Codec!ToHex(f) = it[n]
  BY <1>1 DEF Codec!ToHex, Codec!FlattenSeq
<1>3. ASSUME NEW i \in 1..n PROVE HexOf(g[i], f, i)
  <2> DEFINE u == [j \in 1..(2 * i) |-> IF j % 2 = 1 THEN f[(j + 1) \div 2][1] ELSE f[j \div 2][2]]
  <2>0. g[i] = u /\ i \in Nat /\ 2 * i \in Nat
    OBVIOUS
  <2>1. ASSUME NEW j \in 1..(2 * i)
        PROVE  (IF j % 2 = 1 THEN f[(j + 1) \div 2][1] ELSE f[j \div 2][2]) \in H
    <3>1. (j + 1) \div 2 \in 1..n
      OBVIOUS
    <3>2. j % 2 # 1 => j \div 2 \in 1..n
      OBVIOUS
    <3>3. \A k \in 1..n : f[k][1] \in H /\ f[k][2] \in H
      OBVIOUS
    <3> QED BY <3>1, <3>2, <3>3
  <2>2. u \in [1..(2 * i) -> H]
    BY <2>1
  <2>3. u \in Seq(H) /\ Len(u) = 2 * i
    <3> HIDE DEF u
    <3>1. u \in Seq(H) /\ DOMAIN u = 1..(2 * i)
      BY <2>0, <2>2
    <3> QED BY <2>0, <3>1
  <2>4. ASSUME NEW k \in 1..i PROVE u[2 * k - 1] = f[k][1] /\ u[2 * k] = f[k][2]
    <3>1. 2 * k - 1 \in 1..(2 * i) /\ 2 * k \in 1..(2 * i)
      OBVIOUS
    <3>2. (2 * k - 1) % 2 = 1 /\ (2 * k) % 2 # 1 /\ ((2 * k - 1) + 1) \div 2 = k /\ (2 * k) \div 2 = k
      OBVIOUS
    <3> QED BY <3>1, <3>2
  <2> HIDE DEF u, g
  <2> QED BY <2>0, <2>3, <2>4 DEF HexOf
<1>4. ASSUME NEW i \in 1..n PROVE g[i] = body(g, i)
  <2>1. HexOf(g[i], f, i)
    BY <1>3
  <2> HIDE DEF g
  <2>2. CASE i = 1
    <3>1. HexOf(f[1], f, 1)
      <4>1. f[1] \in Seq(H) /\ Len(f[1]) = 2
        <5>1. f[1] \in H \X H
          BY <1>1
        <5> QED BY <5>1, PairIsText
      <4>2. \A k \in 1..1 : 2 * k - 1 = 1 /\ 2 * k = 2 /\ k = 1
        OBVIOUS
      <4> QED BY <4>1, <4>2 DEF HexOf
    <3> QED BY <2>1, <2>2, <3>1, HexUnique
  <2>3. CASE i # 1
    <3>1. i - 1 \in 1..n /\ i - 1 \in 0..(n - 1) /\ (i - 1) + 1 = i /\ i \in Nat
      BY <2>3
    <3>2. HexOf(g[i - 1], f, i - 1)
      BY <1>3, <3>1
    <3>3. HexOf(g[i - 1] \o f[(i - 1) + 1], f, (i - 1) + 1)
      BY <3>1, <3>2, HexStep
    <3>4. HexOf(g[i - 1] \o f[i], f, i)
      BY <3>1, <3>3
    <3>5. g[i] = g[i - 1] \o f[i]
      BY <2>1, <3>1, <3>4, HexUnique
    <3> QED BY <2>3, <3>5
  <2> QED BY <2>2, <2>3
<1>5. g = [i \in 1..n |-> body(g, i)]
  <2>1. DOMAIN g = 1..n /\ g = [i \in 1..n |-> g[i]]
    OBVIOUS
  <2> HIDE DEF g, body
  <2> QED BY <1>4, <2>1
<1>6. it = [i \in 1..n |-> body(it, i)]
  <2> HIDE DEF g
  <2> QED BY <1>5
<1> HIDE DEF it, g
<1>7. \A i \in 0..(n - 1) : i \in {j \in 0..(n - 1) : HexOf(it[j + 1], f, j + 1)}
  <2> DEFINE S == {j \in 0..(n - 1) : HexOf(it[j + 1], f, j + 1)}
  <2>1. 0 \in S
    <3>1. 1 \in 1..n /\ it[1] = f[1]
      BY <1>6
    <3>2. HexOf(f[1], f, 1)
      <4>1. f[1] \in Seq(H) /\ Len(f[1]) = 2
        <5>1. f[1] \in H \X H
          BY <1>1
        <5> QED BY <5>1, PairIsText
      <4>2. \A k \in 1..1 : 2 * k - 1 = 1 /\ 2 * k = 2 /\ k = 1
        OBVIOUS
      <4> QED BY <4>1, <4>2 DEF HexOf
    <3> QED BY <3>1, <3>2
  <2>2. ASSUME NEW i \in 0..((n - 1) - 1), i \in S PROVE i + 1 \in S
    <3>1. i + 1 \in 0..(n - 1) /\ (i + 1) + 1 \in 1..n /\ (i + 1) + 1 # 1 /\ ((i + 1) + 1) - 1 = i + 1
      OBVIOUS
    <3>2. it[(i + 1) + 1] = it[i + 1] \o f[(i + 1) + 1]
      BY <1>6, <3>1
    <3>3. HexOf(it[i + 1] \o f[(i + 1) + 1], f, (i + 1) + 1)
      BY <2>2, <3>1, HexStep
    <3> QED BY <3>1, <3>2, <3>3
  <2> HIDE DEF S
  <2>3. n - 1 \in Nat
    OBVIOUS
  <2>4. \A i \in 0..(n - 1) : i \in S
    BY <2>1, <2>2, <2>3, NumbersUpTo
  <2> QED BY <2>4 DEF S
<1>8. n - 1 \in 0..(n - 1) /\ (n - 1) + 1 = n
  OBVIOUS
<1>9. HexOf(it[n], f, n)
  BY <1>7, <1>8
<1> QED BY <1>2, <1>9

-----------------------------------------------------------------------------
(* The stamp of a Query-BF.                                                *)

StampUnit == {"1", "2"}

\* The value of a digit.
Digit(u) == Codec!SelectInSeq(Codec!Digits, LAMBDA e : e = u)

\* It is 1 or 2.
LEMMA DigitValue ==
  /\ Digit("1") = 1 /\ Digit("2") = 2
  /\ \A u \in StampUnit : Digit(u) \in Nat /\ Digit(u) >= 1
<1> DEFINE I(u) == {i \in 1..Len(<<"1", "2">>) : <<"1", "2">>[i] = u}
           least(u) == CHOOSE x \in I(u) : \A y \in I(u) : x =< y
<1>1. \A u : Digit(u) = IF I(u) # {} THEN least(u) ELSE 0
  BY DEF Digit, Codec!SelectInSeq, Codec!Min, Codec!Digits
<1>2. I("1") = {1} /\ I("2") = {2}
  OBVIOUS
<1>3. least("1") = 1 /\ least("2") = 2
  BY <1>2
<1> HIDE DEF I, least
<1>4. Digit("1") = 1 /\ Digit("2") = 2
  BY <1>1, <1>2, <1>3
<1> QED BY <1>4 DEF StampUnit

\* The values that the loop of parse_uint64 runs through.
StampRun(q, t) ==
  /\ q[0] = 0
  /\ \A i \in 0..Len(t) : q[i] \in Nat
  /\ \A i \in 1..Len(t) : q[i] = 10 * q[i - 1] + Digit(t[i])

\* parse_uint64 runs through such values and returns the last of them.
LEMMA StampRuns ==
  ASSUME NEW t \in Seq(StampUnit), t # <<>>
  PROVE  \E q : StampRun(q, t) /\ Codec!ParseUint64(t) = q[Len(t)]
<1> DEFINE n == Len(t)
           body(iter, s) == IF s = {} THEN 0
                            ELSE 10 * iter[s \ {Greatest(s)}] + Digit(t[Greatest(s)])
           iter == CHOOSE iter : iter = [s \in SUBSET (1..n) |-> body(iter, s)]
           step == [z \in Nat \X StampUnit |-> 10 * z[1] + Digit(z[2])]
<1>1. n \in Nat /\ DOMAIN t = 1..n /\ t \in [1..n -> StampUnit]
  OBVIOUS
<1>2. Codec!ParseUint64(t) = iter[1..n]
  <2>1. Codec!ToSet(t) \subseteq Codec!ToSet(Codec!Digits)
    <3>1. Codec!ToSet(Codec!Digits) = StampUnit
      <4>1. DOMAIN <<"1", "2">> = {1, 2} /\ <<"1", "2">>[1] = "1" /\ <<"1", "2">>[2] = "2"
        OBVIOUS
      <4> QED BY <4>1 DEF Codec!ToSet, Codec!Digits, StampUnit
    <3>2. Codec!ToSet(t) \subseteq StampUnit
      BY <1>1 DEF Codec!ToSet
    <3> QED BY <3>1, <3>2
  <2>2. Codec!ParseUint64(t)
          = Codec!FoldLeft(LAMBDA m, d : 10 * m + Codec!SelectInSeq(Codec!Digits, LAMBDA e : e = d), 0, t)
    BY <2>1 DEF Codec!ParseUint64
  <2> QED BY <1>1, <2>2 DEF Codec!FoldLeft, Codec!MapThenFoldSet, Codec!Max, Codec!SelectInSeq,
                            Codec!Min, Greatest, Digit
<1>3. step \in [Nat \X StampUnit -> Nat]
  BY DigitValue
<1>4. \A m \in Nat, u \in StampUnit : step[<<m, u>>] = 10 * m + Digit(u)
  OBVIOUS
<1> HIDE DEF n, step
<1>6. PICK g \in [SUBSET (1..n) -> Nat] : FoldsLeft(g, n, t, 0, step)
  BY <1>1, <1>3, FoldLeftExists
<1>7. g = [s \in SUBSET (1..n) |-> body(g, s)]
  <2>1. ASSUME NEW s \in SUBSET (1..n) PROVE g[s] = body(g, s)
    <3>1. CASE s = {}
      BY <1>6, <3>1 DEF FoldsLeft
    <3>2. CASE s # {}
      <4>1. Greatest(s) \in 1..n
        BY <1>1, <3>2, GreatestPosition
      <4>2. g[s \ {Greatest(s)}] \in Nat /\ t[Greatest(s)] \in StampUnit
        BY <1>1, <1>6, <4>1
      <4>3. g[s] = step[<<g[s \ {Greatest(s)}], t[Greatest(s)]>>]
        BY <1>6, <3>2 DEF FoldsLeft
      <4> QED BY <1>4, <3>2, <4>2, <4>3
    <3> QED BY <3>1, <3>2
  <2> HIDE DEF body
  <2> QED BY <1>6, <2>1
<1>8. iter = [s \in SUBSET (1..n) |-> body(iter, s)]
  BY <1>7
<1> HIDE DEF iter
<1>9. FoldEquations(iter, n, t, Nat, 0, step)
  <2>1. ASSUME NEW s \in SUBSET (1..n), s # {}, iter[s \ {Greatest(s)}] \in Nat
        PROVE  iter[s] = step[<<iter[s \ {Greatest(s)}], t[Greatest(s)]>>]
    <3>1. t[Greatest(s)] \in StampUnit
      BY <1>1, <2>1, GreatestPosition
    <3> QED BY <1>4, <1>8, <2>1, <3>1
  <2>2. iter[{}] = 0
    BY <1>8
  <2> QED BY <2>1, <2>2 DEF FoldEquations
<1>10. /\ iter[1..0] = 0
       /\ \A i \in 0..n : iter[1..i] \in Nat
       /\ \A i \in 1..n : iter[1..i] = step[<<iter[1..(i - 1)], t[i]>>]
  <2>1. FoldPrefixes(iter, n, t, Nat, 0, step)
    BY <1>1, <1>3, <1>9, FoldLeftSteps
  <2> QED BY <2>1 DEF FoldPrefixes
<1> DEFINE q == [i \in 0..n |-> iter[1..i]]
<1>11. q[0] = 0 /\ (\A i \in 0..n : q[i] \in Nat) /\ q[n] = iter[1..n]
  BY <1>1, <1>10
<1>12. ASSUME NEW i \in 1..n PROVE q[i] = 10 * q[i - 1] + Digit(t[i])
  <2>1. i - 1 \in 0..n /\ i \in 0..n /\ t[i] \in StampUnit
    BY <1>1
  <2>2. iter[1..(i - 1)] \in Nat
    BY <1>10, <2>1
  <2>3. q[i] = iter[1..i] /\ q[i - 1] = iter[1..(i - 1)]
    BY <2>1
  <2> QED BY <1>4, <1>10, <2>1, <2>2, <2>3
<1> HIDE DEF q
<1>13. StampRun(q, t)
  BY <1>11, <1>12 DEF StampRun, n
<1> QED BY <1>2, <1>11, <1>13 DEF n

\* A stamp that is cut off is not larger, and one of which nothing is left is none.
LEMMA StampOrder ==
  /\ Codec!ParseUint64(<<>>) = -1
  /\ \A t \in Seq(StampUnit) : t # <<>> => Codec!ParseUint64(t) \in Nat
  /\ \A t \in Seq(StampUnit) : \A j \in 1..Len(t) :
       Codec!ParseUint64(SubSeq(t, 1, j)) <= Codec!ParseUint64(t)
<1>1. Codec!ParseUint64(<<>>) = -1
  BY DEF Codec!ParseUint64
<1>2. ASSUME NEW t \in Seq(StampUnit), t # <<>> PROVE Codec!ParseUint64(t) \in Nat
  <2>1. PICK q : StampRun(q, t) /\ Codec!ParseUint64(t) = q[Len(t)]
    BY <1>2, StampRuns
  <2> QED BY <2>1 DEF StampRun
<1>3. ASSUME NEW t \in Seq(StampUnit), NEW j \in 1..Len(t)
      PROVE  Codec!ParseUint64(SubSeq(t, 1, j)) <= Codec!ParseUint64(t)
  <2> DEFINE v == SubSeq(t, 1, j)
             n == Len(t)
  <2>0. n \in Nat /\ j \in Nat /\ j >= 1 /\ j <= n /\ \A i \in 1..n : t[i] \in StampUnit
    OBVIOUS
  <2>1. v \in Seq(StampUnit) /\ Len(v) = j /\ \A i \in 1..j : v[i] = t[i]
    <3>1. \A i \in 1..j : t[i] \in StampUnit
      BY <2>0
    <3>2. /\ SubSeq(t, 1, j) \in Seq(StampUnit)
          /\ Len(SubSeq(t, 1, j)) = IF 1 <= j THEN j - 1 + 1 ELSE 0
          /\ \A i \in 1..(j - 1 + 1) : SubSeq(t, 1, j)[i] = t[1 + i - 1]
      BY <2>0, <3>1, SubSeqProperties
    <3> QED BY <2>0, <3>2
  <2>2. v # <<>> /\ t # <<>>
    BY <2>0, <2>1
  <2> HIDE DEF v
  <2>3. PICK p : StampRun(p, t) /\ Codec!ParseUint64(t) = p[n]
    BY <2>2, StampRuns
  <2>4. PICK q : StampRun(q, v) /\ Codec!ParseUint64(v) = q[j]
    BY <2>1, <2>2, StampRuns
  <2>5. /\ p[0] = 0 /\ (\A i \in 0..n : p[i] \in Nat)
        /\ \A i \in 1..n : p[i] = 10 * p[i - 1] + Digit(t[i])
    BY <2>3 DEF StampRun
  <2>6. q[0] = 0 /\ \A i \in 1..j : q[i] = 10 * q[i - 1] + Digit(t[i])
    BY <2>1, <2>4 DEF StampRun
  <2> HIDE DEF n
  <2>7. \A i \in 0..j : i \in {k \in 0..j : p[k] = q[k]}
    <3> DEFINE S == {k \in 0..j : p[k] = q[k]}
    <3>1. 0 \in S
      BY <2>0, <2>5, <2>6
    <3>2. ASSUME NEW i \in 0..(j - 1), i \in S PROVE i + 1 \in S
      <4>1. i + 1 \in 1..j /\ i + 1 \in 1..n /\ (i + 1) - 1 = i
        BY <2>0
      <4>2. p[i + 1] = 10 * p[i] + Digit(t[i + 1])
        BY <2>5, <4>1
      <4>3. q[i + 1] = 10 * q[i] + Digit(t[i + 1])
        BY <2>6, <4>1
      <4> QED BY <3>2, <4>1, <4>2, <4>3
    <3> HIDE DEF S
    <3>3. \A i \in 0..j : i \in S
      BY <2>0, <3>1, <3>2, NumbersUpTo
    <3> QED BY <3>3 DEF S
  <2>8. p[j] = q[j]
    BY <2>0, <2>7
  <2>9. \A i \in 0..n : i \in {k \in 0..n : k >= j => p[j] <= p[k]}
    <3> DEFINE S == {k \in 0..n : k >= j => p[j] <= p[k]}
    <3>1. 0 \in S
      BY <2>0
    <3>2. ASSUME NEW i \in 0..(n - 1), i \in S PROVE i + 1 \in S
      <4>1. i + 1 \in 1..n /\ i + 1 \in 0..n /\ i \in 0..n /\ (i + 1) - 1 = i /\ j \in 0..n
        BY <2>0
      <4>2. p[i + 1] = 10 * p[i] + Digit(t[i + 1]) /\ p[i] \in Nat /\ p[j] \in Nat
        BY <2>5, <4>1
      <4>3. Digit(t[i + 1]) \in Nat
        BY <2>0, <4>1, DigitValue
      <4>4. p[i] <= p[i + 1]
        BY <4>2, <4>3
      <4>5. CASE i >= j
        BY <2>5, <3>2, <4>1, <4>2, <4>4, <4>5
      <4>6. CASE i + 1 = j
        BY <2>5, <4>1, <4>6
      <4>7. CASE i + 1 < j
        BY <4>1, <4>7
      <4> QED BY <2>0, <4>5, <4>6, <4>7
    <3> HIDE DEF S
    <3>3. \A i \in 0..n : i \in S
      BY <2>0, <3>1, <3>2, NumbersUpTo
    <3> QED BY <3>3 DEF S
  <2>10. p[j] <= p[n]
    BY <2>0, <2>9
  <2> QED BY <2>3, <2>4, <2>8, <2>10 DEF v
<1> QED BY <1>1, <1>2, <1>3

\* The ttl that every message is sent with.
LEMMA TtlValue == Codec!ParseInt(<<"1">>) = 1
<1>1. <<"1">> \in Seq(StampUnit) /\ <<"1">> # <<>> /\ Len(<<"1">>) = 1 /\ <<"1">>[1] = "1"
  BY DEF StampUnit
<1>2. PICK q : StampRun(q, <<"1">>) /\ Codec!ParseUint64(<<"1">>) = q[1]
  BY <1>1, StampRuns
<1>3. q[1] = 10 * q[0] + Digit("1") /\ q[0] = 0
  BY <1>1, <1>2 DEF StampRun
<1>4. Codec!ParseUint64(<<"1">>) = 1
  BY <1>2, <1>3, DigitValue
<1> QED BY <1>4 DEF Codec!ParseInt

-----------------------------------------------------------------------------
(* A message that is cut off.                                              *)

\* A cut through the first of two joined texts, or behind it.
LEMMA CutLayer ==
  ASSUME NEW a \in WireText, NoBar(a), NEW b \in WireText, NEW l \in 0..Len(Joined(a, b))
  PROVE  /\ Len(Joined(a, b)) = Len(a) + 1 + Len(b) /\ Len(a) \in Nat /\ Len(b) \in Nat
         /\ \/ l <= Len(a) /\ Len(Codec!Split(SubSeq(Joined(a, b), 1, l))) < 2
            \/ \E i \in 0..Len(b) :
                 /\ l = Len(a) + 1 + i
                 /\ Codec!Split(SubSeq(Joined(a, b), 1, l)) = InFront(a, Codec!Split(SubSeq(b, 1, i)))
<1>1. Len(Joined(a, b)) = Len(a) + 1 + Len(b) /\ Len(a) \in Nat /\ Len(b) \in Nat
  <2>1. Len(Joined(a, b)) = Len(a) + 1 + Len(b)
    BY JoinedShape
  <2>2. Len(a) \in Nat /\ Len(b) \in Nat
    BY DEF WireText
  <2> QED BY <2>1, <2>2
<1>2. CASE l <= Len(a)
  <2>1. Codec!Split(SubSeq(Joined(a, b), 1, l)) = <<SubSeq(a, 1, l)>>
    BY <1>2, SplitCut
  <2>2. \A e : Len(<<e>>) < 2
    OBVIOUS
  <2>3. Len(Codec!Split(SubSeq(Joined(a, b), 1, l))) < 2
    BY <2>1, <2>2
  <2> QED BY <1>1, <1>2, <2>3
<1>3. CASE ~(l <= Len(a))
  <2>1. /\ l - Len(a) - 1 \in 0..Len(b)
        /\ Codec!Split(SubSeq(Joined(a, b), 1, l))
             = InFront(a, Codec!Split(SubSeq(b, 1, l - Len(a) - 1)))
    BY <1>3, SplitCut
  <2>2. l = Len(a) + 1 + (l - Len(a) - 1)
    BY <1>1
  <2> QED BY <1>1, <2>1, <2>2
<1> QED BY <1>2, <1>3

\* Four parts in front of a text, and in front of the parts of one.
FourJoined(a, b, c, d, r) == Joined(a, Joined(b, Joined(c, Joined(d, r))))
FourInFront(a, b, c, d, p) == InFront(a, InFront(b, InFront(c, InFront(d, p))))

\* Where the parts are.
FourPlaces(w, a, b, c, d, p) ==
  /\ Len(w) = Len(p) + 4
  /\ w[1] = a /\ w[2] = b /\ w[3] = c /\ w[4] = d
  /\ \A i \in 1..Len(p) : w[i + 4] = p[i]

\* They are there.
LEMMA FourShape ==
  ASSUME NEW a \in WireText, NEW b \in WireText, NEW c \in WireText, NEW d \in WireText,
         NEW p \in Seq(WireText)
  PROVE  FourPlaces(FourInFront(a, b, c, d, p), a, b, c, d, p)
<1> DEFINE x == InFront(d, p)
           y == InFront(c, x)
           z == InFront(b, y)
           w == InFront(a, z)
<1>1. /\ x \in Seq(WireText) /\ Len(x) = Len(p) + 1 /\ x[1] = d
      /\ \A i \in 1..Len(p) : x[i + 1] = p[i]
  BY InFrontShape
<1> HIDE DEF x
<1>2. /\ y \in Seq(WireText) /\ Len(y) = Len(x) + 1 /\ y[1] = c
      /\ \A i \in 1..Len(x) : y[i + 1] = x[i]
  BY <1>1, InFrontShape
<1> HIDE DEF y
<1>3. /\ z \in Seq(WireText) /\ Len(z) = Len(y) + 1 /\ z[1] = b
      /\ \A i \in 1..Len(y) : z[i + 1] = y[i]
  BY <1>2, InFrontShape
<1> HIDE DEF z
<1>4. /\ w \in Seq(WireText) /\ Len(w) = Len(z) + 1 /\ w[1] = a
      /\ \A i \in 1..Len(z) : w[i + 1] = z[i]
  BY <1>3, InFrontShape
<1> HIDE DEF w
<1>5. PICK n \in Nat : n = Len(p)
  OBVIOUS
<1>6. Len(x) = n + 1 /\ Len(y) = n + 2 /\ Len(z) = n + 3 /\ Len(w) = n + 4
  BY <1>1, <1>2, <1>3, <1>4, <1>5
<1>7. w[2] = z[1] /\ w[3] = z[2] /\ z[2] = y[1] /\ w[4] = z[3] /\ z[3] = y[2] /\ y[2] = x[1]
  <2>1. 1 \in 1..Len(z) /\ 2 \in 1..Len(z) /\ 3 \in 1..Len(z) /\ 1 \in 1..Len(y) /\ 2 \in 1..Len(y)
        /\ 1 \in 1..Len(x) /\ 1 + 1 = 2 /\ 2 + 1 = 3 /\ 3 + 1 = 4
    BY <1>6
  <2>2. w[1 + 1] = z[1] /\ w[2 + 1] = z[2] /\ w[3 + 1] = z[3]
    BY <1>4, <2>1
  <2>3. z[1 + 1] = y[1] /\ z[2 + 1] = y[2] /\ y[1 + 1] = x[1]
    BY <1>2, <1>3, <2>1
  <2> QED BY <2>1, <2>2, <2>3
<1>8. ASSUME NEW i \in 1..Len(p) PROVE w[i + 4] = p[i]
  <2>1. i + 3 \in 1..Len(z) /\ i + 2 \in 1..Len(y) /\ i + 1 \in 1..Len(x)
        /\ (i + 3) + 1 = i + 4 /\ (i + 2) + 1 = i + 3 /\ (i + 1) + 1 = i + 2
    BY <1>5, <1>6
  <2>2. w[(i + 3) + 1] = z[i + 3]
    BY <1>4, <2>1
  <2>3. z[(i + 2) + 1] = y[i + 2]
    BY <1>3, <2>1
  <2>4. y[(i + 1) + 1] = x[i + 1]
    BY <1>2, <2>1
  <2> QED BY <1>1, <2>1, <2>2, <2>3, <2>4
<1>9. FourInFront(a, b, c, d, p) = w
  BY DEF FourInFront, w, x, y, z
<1>10. Len(w) = Len(p) + 4 /\ w[1] = a /\ w[2] = b /\ w[3] = c /\ w[4] = d
  BY <1>1, <1>2, <1>3, <1>4, <1>5, <1>6, <1>7
<1> QED BY <1>8, <1>9, <1>10 DEF FourPlaces

\* What split makes of four parts and a text r that are cut off after l units:
\* fewer than five parts if the cut is in front of the text.
FourParts(p, w, l, a, b, c, d, r) ==
  \/ l < Len(w) - Len(r) /\ Len(p) < 5
  \/ \E i \in 0..Len(r) : /\ l = Len(w) - Len(r) + i
                          /\ p = FourInFront(a, b, c, d, Codec!Split(SubSeq(r, 1, i)))

\* It does.
LEMMA FourCut ==
  ASSUME NEW a \in WireText, NoBar(a), NEW b \in WireText, NoBar(b),
         NEW c \in WireText, NoBar(c), NEW d \in WireText, NoBar(d),
         NEW r \in WireText, NEW l \in 0..Len(FourJoined(a, b, c, d, r))
  PROVE  FourParts(Codec!Split(SubSeq(FourJoined(a, b, c, d, r), 1, l)),
                   FourJoined(a, b, c, d, r), l, a, b, c, d, r)
<1> DEFINE x == Joined(d, r)
           y == Joined(c, x)
           z == Joined(b, y)
           w == Joined(a, z)
<1>0. FourJoined(a, b, c, d, r) = w
  BY DEF FourJoined
<1>1. x \in WireText
  BY JoinedShape
<1> HIDE DEF x
<1>2. y \in WireText
  BY <1>1, JoinedShape
<1> HIDE DEF y
<1>3. z \in WireText
  BY <1>2, JoinedShape
<1> HIDE DEF z
<1>4. l \in 0..Len(w) /\ Len(w) = Len(a) + 1 + Len(z) /\ Len(z) = Len(b) + 1 + Len(y)
      /\ Len(y) = Len(c) + 1 + Len(x) /\ Len(x) = Len(d) + 1 + Len(r)
      /\ Len(a) \in Nat /\ Len(b) \in Nat /\ Len(c) \in Nat /\ Len(d) \in Nat /\ Len(r) \in Nat
  <2>1. Len(x) = Len(d) + 1 + Len(r)
    BY JoinedShape DEF x
  <2>2. Len(y) = Len(c) + 1 + Len(x)
    BY <1>1, JoinedShape DEF y
  <2>3. Len(z) = Len(b) + 1 + Len(y)
    BY <1>2, JoinedShape DEF z
  <2>4. Len(w) = Len(a) + 1 + Len(z)
    BY <1>3, JoinedShape
  <2>5. Len(a) \in Nat /\ Len(b) \in Nat /\ Len(c) \in Nat /\ Len(d) \in Nat /\ Len(r) \in Nat
    BY DEF WireText
  <2> QED BY <1>0, <2>1, <2>2, <2>3, <2>4, <2>5
<1>P. ASSUME NEW t \in WireText, NEW i \in 0..Len(t)
      PROVE  Codec!Split(SubSeq(t, 1, i)) \in Seq(WireText)
  <2>1. SubSeq(t, 1, i) \in WireText
    BY PrefixShape
  <2> QED BY <2>1, SplitSteps DEF WireParts
<1>5. ASSUME l <= Len(a) /\ Len(Codec!Split(SubSeq(w, 1, l))) < 2
      PROVE  l < Len(w) - Len(r) /\ Len(Codec!Split(SubSeq(w, 1, l))) < 5
  <2> HIDE DEF w
  <2> QED BY <1>4, <1>5
<1>6. ASSUME NEW i1 \in 0..Len(z), l = Len(a) + 1 + i1,
             Codec!Split(SubSeq(w, 1, l)) = InFront(a, Codec!Split(SubSeq(z, 1, i1)))
      PROVE  \/ l < Len(w) - Len(r) /\ Len(Codec!Split(SubSeq(w, 1, l))) < 5
             \/ \E i \in 0..Len(r) :
                  /\ l = Len(w) - Len(r) + i
                  /\ Codec!Split(SubSeq(w, 1, l)) = FourInFront(a, b, c, d, Codec!Split(SubSeq(r, 1, i)))
  <2>1. PICK p1 \in Seq(WireText) : p1 = Codec!Split(SubSeq(z, 1, i1))
    BY <1>3, <1>P
  <2>2. Len(Codec!Split(SubSeq(w, 1, l))) = Len(p1) + 1
    <3>1. Len(InFront(a, p1)) = Len(p1) + 1
      BY InFrontShape
    <3> QED BY <1>6, <2>1, <3>1
  <2>3. CASE i1 <= Len(b) /\ Len(p1) < 2
    <3>1. l < Len(w) - Len(r)
      <4> HIDE DEF w
      <4> QED BY <1>4, <1>6, <2>3
    <3>2. Len(Codec!Split(SubSeq(w, 1, l))) < 5
      BY <2>2, <2>3
    <3> QED BY <3>1, <3>2
  <2>4. ASSUME NEW i2 \in 0..Len(y), i1 = Len(b) + 1 + i2,
               p1 = InFront(b, Codec!Split(SubSeq(y, 1, i2)))
        PROVE  \/ l < Len(w) - Len(r) /\ Len(Codec!Split(SubSeq(w, 1, l))) < 5
               \/ \E i \in 0..Len(r) :
                    /\ l = Len(w) - Len(r) + i
                    /\ Codec!Split(SubSeq(w, 1, l)) = FourInFront(a, b, c, d, Codec!Split(SubSeq(r, 1, i)))
    <3>1. PICK p2 \in Seq(WireText) : p2 = Codec!Split(SubSeq(y, 1, i2))
      BY <1>2, <1>P
    <3>2. Len(p1) = Len(p2) + 1
      BY <2>4, <3>1, InFrontShape
    <3>3. CASE i2 <= Len(c) /\ Len(p2) < 2
      <4>1. l < Len(w) - Len(r)
        <5> HIDE DEF w
        <5> QED BY <1>4, <1>6, <2>4, <3>3, SMTT(30)
      <4>2. Len(Codec!Split(SubSeq(w, 1, l))) < 5
        BY <2>2, <3>2, <3>3
      <4> QED BY <4>1, <4>2
    <3>4. ASSUME NEW i3 \in 0..Len(x), i2 = Len(c) + 1 + i3,
                 p2 = InFront(c, Codec!Split(SubSeq(x, 1, i3)))
          PROVE  \/ l < Len(w) - Len(r) /\ Len(Codec!Split(SubSeq(w, 1, l))) < 5
                 \/ \E i \in 0..Len(r) :
                      /\ l = Len(w) - Len(r) + i
                      /\ Codec!Split(SubSeq(w, 1, l)) = FourInFront(a, b, c, d, Codec!Split(SubSeq(r, 1, i)))
      <4>1. PICK p3 \in Seq(WireText) : p3 = Codec!Split(SubSeq(x, 1, i3))
        BY <1>1, <1>P
      <4>2. Len(p2) = Len(p3) + 1
        BY <3>4, <4>1, InFrontShape
      <4>3. CASE i3 <= Len(d) /\ Len(p3) < 2
        <5>1. l < Len(w) - Len(r)
          <6> HIDE DEF w
          <6> QED BY <1>4, <1>6, <2>4, <3>4, <4>3
        <5>2. Len(Codec!Split(SubSeq(w, 1, l))) < 5
          BY <2>2, <3>2, <4>2, <4>3
        <5> QED BY <5>1, <5>2
      <4>4. ASSUME NEW i4 \in 0..Len(r), i3 = Len(d) + 1 + i4,
                   p3 = InFront(d, Codec!Split(SubSeq(r, 1, i4)))
            PROVE  /\ l = Len(w) - Len(r) + i4
                   /\ Codec!Split(SubSeq(w, 1, l)) = FourInFront(a, b, c, d, Codec!Split(SubSeq(r, 1, i4)))
        <5>1. l = Len(w) - Len(r) + i4
          BY <1>4, <1>6, <2>4, <3>4, <4>4
        <5>2. Codec!Split(SubSeq(w, 1, l)) = InFront(a, InFront(b, InFront(c, p3)))
          BY <1>6, <2>1, <2>4, <3>1, <3>4, <4>1
        <5> QED BY <4>4, <5>1, <5>2 DEF FourInFront
      <4>5. \/ i3 <= Len(d) /\ Len(p3) < 2
            \/ \E i4 \in 0..Len(r) : i3 = Len(d) + 1 + i4 /\ p3 = InFront(d, Codec!Split(SubSeq(r, 1, i4)))
        BY <4>1, CutLayer DEF x
      <4> QED BY <4>3, <4>4, <4>5
    <3>5. \/ i2 <= Len(c) /\ Len(p2) < 2
          \/ \E i3 \in 0..Len(x) : i2 = Len(c) + 1 + i3 /\ p2 = InFront(c, Codec!Split(SubSeq(x, 1, i3)))
      BY <1>1, <3>1, CutLayer DEF y
    <3> QED BY <3>3, <3>4, <3>5
  <2>5. \/ i1 <= Len(b) /\ Len(p1) < 2
        \/ \E i2 \in 0..Len(y) : i1 = Len(b) + 1 + i2 /\ p1 = InFront(b, Codec!Split(SubSeq(y, 1, i2)))
    BY <1>2, <2>1, CutLayer DEF z
  <2> QED BY <2>3, <2>4, <2>5
<1>7. \/ l <= Len(a) /\ Len(Codec!Split(SubSeq(w, 1, l))) < 2
      \/ \E i1 \in 0..Len(z) :
           l = Len(a) + 1 + i1 /\ Codec!Split(SubSeq(w, 1, l)) = InFront(a, Codec!Split(SubSeq(z, 1, i1)))
  BY <1>3, <1>4, CutLayer
<1> HIDE DEF w
<1>8. \/ l < Len(w) - Len(r) /\ Len(Codec!Split(SubSeq(w, 1, l))) < 5
      \/ \E i \in 0..Len(r) :
           /\ l = Len(w) - Len(r) + i
           /\ Codec!Split(SubSeq(w, 1, l)) = FourInFront(a, b, c, d, Codec!Split(SubSeq(r, 1, i)))
  BY <1>5, <1>6, <1>7
<1> QED BY <1>0, <1>8 DEF FourParts

-----------------------------------------------------------------------------
(* The messages.                                                           *)

\* What every message that is sent looks like, with filters of n bytes.
WireMessage(m, n) ==
  /\ m.type \in {"DATA", "CBF", "QBF"}
  /\ m.id \in {<<>>, <<"i">>} /\ m.origin = <<"o">> /\ m.ttl = <<"1">>
  /\ m.key \in WireText /\ m.key # <<>> /\ m.value \in WireText
  /\ m.type = "DATA" => m.id = <<"i">>
  /\ m.type # "DATA" => \E f : HexOf(m.key, f, n)
  /\ m.type = "QBF" => m.value \in Seq(StampUnit) /\ m.value # <<>>

\* Bounded texts are texts.
LEMMA BoundedText ==
  ASSUME NEW U, NEW s \in Codec!BoundedSeq(U, MaxText)
  PROVE  s \in Seq(U)
<1>1. MaxText \in Nat
  BY PartsAssumption DEF Positive
<1>2. PICK k \in 0..MaxText : s \in [1..k -> U]
  BY DEF Codec!BoundedSeq, Codec!SeqOf
<1> QED BY <1>1, <1>2

\* A text over some of the units of the wire.
LEMMA SomeUnits ==
  ASSUME NEW U \in SUBSET WireUnit, NEW s \in Seq(U)
  PROVE  s \in WireText
<1>1. Len(s) \in Nat /\ s \in [1..Len(s) -> U]
  OBVIOUS
<1>2. s \in [1..Len(s) -> WireUnit]
  BY <1>1
<1> QED BY <1>1, <1>2 DEF WireText

\* Every message that is sent looks like that.
LEMMA SentForm ==
  ASSUME NEW n \in FilterSizes, NEW m \in Codec!Messages(n)
  PROVE  WireMessage(m, n)
<1>0. n \in Nat /\ n >= 1
  BY PartsAssumption DEF Positive
<1>1. {"k", "|"} \in SUBSET WireUnit /\ {"x", "|"} \in SUBSET WireUnit /\ StampUnit \in SUBSET WireUnit
      /\ Codec!HalfByte \in SUBSET WireUnit /\ <<>> \in WireText
  BY DEF WireUnit, StampUnit, Codec!HalfByte, WireText
<1>2. Codec!ToSet(Codec!Digits) = StampUnit
  <2>1. DOMAIN <<"1", "2">> = {1, 2} /\ <<"1", "2">>[1] = "1" /\ <<"1", "2">>[2] = "2"
    OBVIOUS
  <2> QED BY <2>1 DEF Codec!ToSet, Codec!Digits, StampUnit
<1>3. ASSUME NEW f \in Codec!Filter(n)
      PROVE  /\ HexOf(Codec!ToHex(f), f, n) /\ Codec!ToHex(f) \in WireText /\ Codec!ToHex(f) # <<>>
  <2>1. HexOf(Codec!ToHex(f), f, n)
    BY <1>0, ToHexShape DEF Codec!Filter
  <2>2. PICK h : h = Codec!ToHex(f)
    OBVIOUS
  <2>3. h \in Seq(Codec!HalfByte) /\ Len(h) = 2 * n
    BY <2>1, <2>2 DEF HexOf
  <2>4. h \in WireText
    BY <1>1, <2>3, SomeUnits
  <2>5. h # <<>>
    BY <1>0, <2>3
  <2> QED BY <2>1, <2>2, <2>4, <2>5
<1>4. CASE \E k \in Codec!Texts({"k", "|"}), v \in Codec!BoundedSeq({"x", "|"}, MaxText) :
             m = Codec!Sent("DATA", <<"i">>, k, v)
  <2>1. PICK k \in Codec!Texts({"k", "|"}), v \in Codec!BoundedSeq({"x", "|"}, MaxText) :
             m = Codec!Sent("DATA", <<"i">>, k, v)
    BY <1>4
  <2>2. k \in Codec!BoundedSeq({"k", "|"}, MaxText) /\ k # <<>>
    BY DEF Codec!Texts
  <2>3. k \in Seq({"k", "|"}) /\ v \in Seq({"x", "|"})
    BY <2>2, BoundedText
  <2>4. k \in WireText /\ v \in WireText
    BY <1>1, <2>3, SomeUnits
  <2>5. m.type = "DATA" /\ m.id = <<"i">> /\ m.origin = <<"o">> /\ m.ttl = <<"1">> /\ m.key = k /\ m.value = v
    BY <2>1 DEF Codec!Sent
  <2> QED BY <2>2, <2>4, <2>5 DEF WireMessage
<1>5. CASE \E f \in Codec!Filter(n) : m = Codec!Sent("CBF", <<>>, Codec!ToHex(f), <<>>)
  <2>1. PICK f \in Codec!Filter(n) : m = Codec!Sent("CBF", <<>>, Codec!ToHex(f), <<>>)
    BY <1>5
  <2>2. /\ m.type = "CBF" /\ m.id = <<>> /\ m.origin = <<"o">> /\ m.ttl = <<"1">>
        /\ m.key = Codec!ToHex(f) /\ m.value = <<>>
    BY <2>1 DEF Codec!Sent
  <2> QED BY <1>1, <1>3, <2>2 DEF WireMessage
<1>6. CASE \E f \in Codec!Filter(n), s \in Codec!Texts(Codec!ToSet(Codec!Digits)) :
             m = Codec!Sent("QBF", <<"i">>, Codec!ToHex(f), s)
  <2>1. PICK f \in Codec!Filter(n), s \in Codec!Texts(Codec!ToSet(Codec!Digits)) :
             m = Codec!Sent("QBF", <<"i">>, Codec!ToHex(f), s)
    BY <1>6
  <2>2. s \in Codec!BoundedSeq(StampUnit, MaxText) /\ s # <<>>
    BY <1>2 DEF Codec!Texts
  <2>3. s \in Seq(StampUnit)
    BY <2>2, BoundedText
  <2>4. s \in WireText
    BY <1>1, <2>3, SomeUnits
  <2>5. /\ m.type = "QBF" /\ m.id = <<"i">> /\ m.origin = <<"o">> /\ m.ttl = <<"1">>
        /\ m.key = Codec!ToHex(f) /\ m.value = s
    BY <2>1 DEF Codec!Sent
  <2> QED BY <1>3, <2>2, <2>3, <2>4, <2>5 DEF WireMessage
<1> QED BY <1>4, <1>5, <1>6 DEF Codec!Messages

\* A separator between two texts behind a third.
LEMMA BarConcat ==
  ASSUME NEW s \in WireText, NEW a \in WireText, NEW b \in WireText
  PROVE  s \o a \o <<"|">> \o b = s \o Joined(a, b)
<1>1. "|" \in WireUnit /\ s \in Seq(WireUnit) /\ a \in Seq(WireUnit) /\ b \in Seq(WireUnit)
  BY DEF WireUnit, WireText
<1>2. PICK u \in Seq(WireUnit) : u = <<"|">>
  <2>1. <<"|">> \in Seq(WireUnit)
    BY <1>1
  <2> QED BY <2>1
<1>3. Append(a, "|") = a \o u
  BY <1>1, <1>2, AppendIsConcat
<1>4. a \o u \in Seq(WireUnit)
  BY <1>1, <1>2, ConcatProperties
<1>5. (s \o a) \o u = s \o (a \o u)
  BY <1>1, <1>2, ConcatAssociative
<1>6. (s \o (a \o u)) \o b = s \o ((a \o u) \o b)
  <2>1. PICK w \in Seq(WireUnit) : w = a \o u
    BY <1>4
  <2>2. (s \o w) \o b = s \o (w \o b)
    BY <1>1, ConcatAssociative
  <2> QED BY <2>1, <2>2
<1> QED BY <1>2, <1>3, <1>5, <1>6 DEF Joined

\* The parts of a message on the wire.
LEMMA WireForm ==
  ASSUME NEW n \in Nat, NEW m, WireMessage(m, n)
  PROVE  /\ <<m.type>> \in WireText /\ m.id \in WireText /\ m.origin \in WireText /\ m.ttl \in WireText
         /\ NoBar(<<m.type>>) /\ NoBar(m.id) /\ NoBar(m.origin) /\ NoBar(m.ttl)
         /\ Joined(m.key, m.value) \in WireText
         /\ Codec!ToWire(m) = FourJoined(<<m.type>>, m.id, m.origin, m.ttl, Joined(m.key, m.value))
<1>1. m.type \in WireUnit \ {"|"} /\ "|" \in WireUnit /\ "i" \in WireUnit \ {"|"}
      /\ "o" \in WireUnit \ {"|"} /\ "1" \in WireUnit \ {"|"}
  BY DEF WireMessage, WireUnit
<1>2. ASSUME NEW u \in WireUnit \ {"|"} PROVE <<u>> \in WireText /\ NoBar(<<u>>)
  BY DEF WireText, NoBar
<1>3. <<>> \in WireText /\ NoBar(<<>>)
  BY DEF WireText, NoBar
<1>4. PICK t \in WireText : t = <<m.type>> /\ NoBar(t)
  BY <1>1, <1>2
<1>5. PICK i \in WireText : i = m.id /\ NoBar(i)
  BY <1>1, <1>2, <1>3 DEF WireMessage
<1>6. PICK o \in WireText : o = m.origin /\ NoBar(o)
  BY <1>1, <1>2 DEF WireMessage
<1>7. PICK l \in WireText : l = m.ttl /\ NoBar(l)
  BY <1>1, <1>2 DEF WireMessage
<1>8. PICK k \in WireText, v \in WireText : k = m.key /\ v = m.value
  BY DEF WireMessage
<1>9. Joined(k, v) \in WireText
  BY JoinedShape
<1>10. Joined(l, Joined(k, v)) \in WireText
  BY <1>9, JoinedShape
<1>11. Joined(o, Joined(l, Joined(k, v))) \in WireText
  BY <1>10, JoinedShape
<1> DEFINE h == <<m.type, "|">>
           b == <<"|">>
<1>12. h \in WireText /\ b \in WireText /\ h = Append(t, "|")
  <2>1. h \in Seq(WireUnit)
    BY <1>1
  <2>2. b \in Seq(WireUnit)
    BY <1>1
  <2>3. h = Append(t, "|")
    BY <1>4
  <2> QED BY <2>1, <2>2, <2>3 DEF WireText
<1>13. Codec!ToWire(m) = h \o i \o b \o o \o b \o l \o b \o k \o b \o v
  BY <1>5, <1>6, <1>7, <1>8 DEF Codec!ToWire
<1> HIDE DEF h
<1>C. ASSUME NEW x \in WireText, NEW y \in WireText PROVE x \o y \in WireText
  BY ConcatProperties DEF WireText
<1>14. h \o i \o b \in WireText
  <2>1. h \o i \in WireText
    BY <1>12, <1>C
  <2> QED BY <1>12, <1>C, <2>1
<1>15. h \o i \o b \o o \o b \in WireText
  <2>1. h \o i \o b \o o \in WireText
    BY <1>14, <1>C
  <2> QED BY <1>12, <1>C, <2>1
<1>16. h \o i \o b \o o \o b \o l \o b \in WireText
  <2>1. h \o i \o b \o o \o b \o l \in WireText
    BY <1>15, <1>C
  <2> QED BY <1>12, <1>C, <2>1
<1>17. h \o i \o b \o o \o b \o l \o b \o k \o b \o v
         = h \o i \o b \o o \o b \o l \o b \o Joined(k, v)
  BY <1>16, BarConcat, ZenonT(40)
<1>18. h \o i \o b \o o \o b \o l \o b \o Joined(k, v)
         = h \o i \o b \o o \o b \o Joined(l, Joined(k, v))
  BY <1>9, <1>15, BarConcat, ZenonT(40)
<1>19. h \o i \o b \o o \o b \o Joined(l, Joined(k, v))
         = h \o i \o b \o Joined(o, Joined(l, Joined(k, v)))
  BY <1>10, <1>14, BarConcat, ZenonT(40)
<1>20. h \o i \o b \o Joined(o, Joined(l, Joined(k, v)))
         = h \o Joined(i, Joined(o, Joined(l, Joined(k, v))))
  <2>1. PICK r \in WireText : r = Joined(o, Joined(l, Joined(k, v)))
    BY <1>11
  <2>2. PICK s \in WireText : s = h
    BY <1>12
  <2>3. s \o i \o <<"|">> \o r = s \o Joined(i, r)
    BY BarConcat, ZenonT(40)
  <2> QED BY <2>1, <2>2, <2>3
<1>21. Codec!ToWire(m) = FourJoined(t, i, o, l, Joined(k, v))
  BY <1>12, <1>13, <1>17, <1>18, <1>19, <1>20 DEF FourJoined, Joined
<1> QED BY <1>4, <1>5, <1>6, <1>7, <1>8, <1>9, <1>21

-----------------------------------------------------------------------------
(* What the receiver reads.                                                *)

\* from_wire found all parts of m, and k and v in the places of key and value.
Parsed(m, k, v) ==
  [type |-> m.type, id |-> m.id, origin |-> <<"o">>, ttl |-> 1, key |-> k, value |-> v]

\* Of a message that is cut off after l units, either only a prefix of the key
\* arrives or all of it and a prefix of the value.
Arrives(m, l, k, v) ==
  \/ /\ l < Len(Codec!ToWire(m)) - Len(m.value) /\ v = <<>>
     /\ \E j \in 0..Len(m.key) : k = SubSeq(m.key, 1, j)
  \/ /\ k = m.key
     /\ \E i \in 0..Len(m.value) :
          /\ l = Len(Codec!ToWire(m)) - Len(m.value) + i
          /\ v = Codec!UpToBar(SubSeq(m.value, 1, i))

\* The parts q of a key a and a value b that are cut off after l units.
KeyValueParts(q, l, a, b) ==
  \/ /\ l <= Len(a) /\ ~(Len(q) >= 2)
     /\ \E j \in 0..Len(a) : q[1] = SubSeq(a, 1, j)
  \/ /\ q[1] = a /\ Len(q) >= 2
     /\ \E i \in 0..Len(b) : l = Len(a) + 1 + i /\ q[2] = Codec!UpToBar(SubSeq(b, 1, i))

\* What split makes of them if the key has no separator.
LEMMA KeyValueCut ==
  ASSUME NEW a \in WireText, NoBar(a), NEW b \in WireText, NEW l \in 0..Len(Joined(a, b)),
         NEW q \in WireParts, q = Codec!Split(SubSeq(Joined(a, b), 1, l))
  PROVE  KeyValueParts(q, l, a, b)
<1>1. Len(Joined(a, b)) = Len(a) + 1 + Len(b)
  BY JoinedShape
<1>2. Len(a) \in Nat /\ Len(b) \in Nat
  BY DEF WireText
<1>3. CASE l <= Len(a)
  <2>1. q = <<SubSeq(a, 1, l)>>
    BY <1>3, SplitCut
  <2>2. \A e : ~(Len(<<e>>) >= 2) /\ <<e>>[1] = e
    OBVIOUS
  <2>3. ~(Len(q) >= 2) /\ q[1] = SubSeq(a, 1, l)
    BY <2>1, <2>2
  <2>4. l \in 0..Len(a)
    BY <1>1, <1>2, <1>3
  <2> QED BY <1>3, <2>3, <2>4 DEF KeyValueParts
<1>4. CASE ~(l <= Len(a))
  <2>1. /\ l - Len(a) - 1 \in 0..Len(b)
        /\ q = InFront(a, Codec!Split(SubSeq(b, 1, l - Len(a) - 1)))
    BY <1>4, SplitCut
  <2>2. PICK i \in 0..Len(b) : i = l - Len(a) - 1
    BY <2>1
  <2>3. l = Len(a) + 1 + i
    BY <1>1, <1>2, <2>2
  <2>4. SubSeq(b, 1, i) \in WireText
    BY PrefixShape
  <2>5. PICK p \in Seq(WireText) : p = Codec!Split(SubSeq(b, 1, i)) /\ p # <<>>
    BY <2>4, SplitSteps DEF WireParts
  <2>6. q = InFront(a, p)
    BY <2>1, <2>2, <2>5
  <2>7. Len(p) \in Nat /\ Len(p) >= 1
    BY <2>5
  <2>8. /\ Len(InFront(a, p)) = Len(p) + 1 /\ InFront(a, p)[1] = a
        /\ \A j \in 1..Len(p) : InFront(a, p)[j + 1] = p[j]
    BY InFrontShape
  <2>9. q[1] = a /\ Len(q) >= 2
    BY <2>6, <2>7, <2>8
  <2>10. q[2] = p[1]
    <3>1. 1 \in 1..Len(p) /\ 1 + 1 = 2
      BY <2>7
    <3>2. InFront(a, p)[1 + 1] = p[1]
      BY <2>8, <3>1
    <3> QED BY <2>6, <3>1, <3>2
  <2>11. p[1] = Codec!UpToBar(SubSeq(b, 1, i))
    BY <2>4, <2>5, SplitFirst
  <2> QED BY <2>3, <2>9, <2>10, <2>11 DEF KeyValueParts
<1> QED BY <1>3, <1>4

\* from_wire drops a message that is cut off in front of its key, and finds all
\* parts of any other.
LEMMA WireRead ==
  ASSUME NEW n \in Nat, NEW m, WireMessage(m, n), NEW l \in 0..Len(Codec!ToWire(m))
  PROVE  \/ /\ l < Len(Codec!ToWire(m)) - Len(m.value)
            /\ Codec!FromWire(SubSeq(Codec!ToWire(m), 1, l)) = Codec!Dropped
         \/ \E k, v : /\ Codec!FromWire(SubSeq(Codec!ToWire(m), 1, l)) = Parsed(m, k, v)
                      /\ NoBar(m.key) => Arrives(m, l, k, v)
<1>1. PICK a \in WireText, b \in WireText, c \in WireText, d \in WireText :
        /\ a = <<m.type>> /\ b = m.id /\ c = m.origin /\ d = m.ttl
        /\ NoBar(a) /\ NoBar(b) /\ NoBar(c) /\ NoBar(d)
  BY WireForm
<1>2. PICK k0 \in WireText, v0 \in WireText : k0 = m.key /\ v0 = m.value
  BY DEF WireMessage
<1>3. PICK r \in WireText : r = Joined(k0, v0)
  BY JoinedShape
<1>4. PICK w : w = Codec!ToWire(m)
  OBVIOUS
<1>5. w = FourJoined(a, b, c, d, r)
  BY <1>1, <1>2, <1>3, <1>4, WireForm
<1>6. Len(r) = Len(k0) + 1 + Len(v0)
  BY <1>3, JoinedShape
<1>7. Len(k0) \in Nat /\ Len(v0) \in Nat
  BY DEF WireText
<1>8. PICK p : p = Codec!Split(SubSeq(w, 1, l))
  OBVIOUS
<1>9. Codec!FromWire(SubSeq(w, 1, l))
        = IF Len(p) < 5 THEN Codec!Dropped
          ELSE [type |-> IF p[1] = <<>> THEN "UNKNOWN" ELSE p[1][1],
                id |-> p[2], origin |-> p[3], ttl |-> Codec!ParseInt(p[4]), key |-> p[5],
                value |-> IF Len(p) >= 6 THEN p[6] ELSE <<>>]
  BY <1>8 DEF Codec!FromWire
<1>L. l \in 0..Len(w) /\ l \in 0..Len(FourJoined(a, b, c, d, r))
  BY <1>4, <1>5
<1>W. Len(w) \in Nat
  <2>1. Joined(d, r) \in WireText
    BY JoinedShape
  <2>2. Joined(c, Joined(d, r)) \in WireText
    BY <2>1, JoinedShape
  <2>3. Joined(b, Joined(c, Joined(d, r))) \in WireText
    BY <2>2, JoinedShape
  <2>4. w \in WireText
    BY <1>5, <2>3, JoinedShape DEF FourJoined
  <2> QED BY <2>4 DEF WireText
<1>10. CASE l < Len(w) - Len(r) /\ Len(p) < 5
  <2>1. l < Len(w) - Len(v0)
    BY <1>6, <1>7, <1>10, <1>L, <1>W
  <2>2. Codec!FromWire(SubSeq(w, 1, l)) = Codec!Dropped
    BY <1>9, <1>10
  <2> QED BY <1>2, <1>4, <2>1, <2>2
<1>11. ASSUME NEW i \in 0..Len(r), l = Len(w) - Len(r) + i,
              p = FourInFront(a, b, c, d, Codec!Split(SubSeq(r, 1, i)))
       PROVE  \E k, v : /\ Codec!FromWire(SubSeq(w, 1, l)) = Parsed(m, k, v)
                        /\ NoBar(m.key) => Arrives(m, l, k, v)
  <2>1. SubSeq(r, 1, i) \in WireText
    BY PrefixShape
  <2>2. PICK q \in WireParts : q = Codec!Split(SubSeq(r, 1, i))
    BY <2>1, SplitSteps
  <2>3. q \in Seq(WireText) /\ Len(q) \in Nat /\ Len(q) >= 1
    BY DEF WireParts
  <2>4. /\ Len(p) = Len(q) + 4
        /\ p[1] = a /\ p[2] = b /\ p[3] = c /\ p[4] = d
        /\ \A j \in 1..Len(q) : p[j + 4] = q[j]
    <3>1. FourPlaces(FourInFront(a, b, c, d, q), a, b, c, d, q)
      BY <2>3, FourShape
    <3>2. p = FourInFront(a, b, c, d, q)
      BY <1>11, <2>2
    <3> QED BY <3>1, <3>2 DEF FourPlaces
  <2>5. ~(Len(p) < 5) /\ (Len(p) >= 6 <=> Len(q) >= 2)
    BY <2>3, <2>4
  <2>6. p[5] = q[1] /\ (Len(q) >= 2 => p[6] = q[2])
    <3>1. 1 \in 1..Len(q) /\ 1 + 4 = 5 /\ 2 + 4 = 6 /\ (Len(q) >= 2 => 2 \in 1..Len(q))
      BY <2>3
    <3>2. p[1 + 4] = q[1] /\ (Len(q) >= 2 => p[2 + 4] = q[2])
      BY <2>4, <3>1
    <3> QED BY <3>1, <3>2
  <2>7. (IF p[1] = <<>> THEN "UNKNOWN" ELSE p[1][1]) = m.type
    <3>1. \A e : <<e>> # <<>> /\ <<e>>[1] = e
      OBVIOUS
    <3> QED BY <1>1, <2>4, <3>1
  <2>8. Codec!ParseInt(p[4]) = 1
    BY <1>1, <2>4, TtlValue DEF WireMessage
  <2>9. p[2] = m.id /\ p[3] = <<"o">>
    BY <1>1, <2>4 DEF WireMessage
  <2>10. PICK v : v = IF Len(q) >= 2 THEN q[2] ELSE <<>>
    OBVIOUS
  <2>11. (IF Len(p) >= 6 THEN p[6] ELSE <<>>) = v
    BY <2>5, <2>6, <2>10
  <2>12. Codec!FromWire(SubSeq(w, 1, l)) = Parsed(m, q[1], v)
    BY <1>9, <2>5, <2>6, <2>7, <2>8, <2>9, <2>11 DEF Parsed
  <2>13. ASSUME NoBar(k0) PROVE Arrives(m, l, q[1], v)
    <3>1. i \in 0..Len(Joined(k0, v0)) /\ q = Codec!Split(SubSeq(Joined(k0, v0), 1, i))
      BY <1>3, <2>2
    <3>2. \/ /\ i <= Len(k0) /\ ~(Len(q) >= 2)
             /\ \E j \in 0..Len(k0) : q[1] = SubSeq(k0, 1, j)
          \/ /\ q[1] = k0 /\ Len(q) >= 2
             /\ \E j \in 0..Len(v0) : i = Len(k0) + 1 + j /\ q[2] = Codec!UpToBar(SubSeq(v0, 1, j))
      <4>1. KeyValueParts(q, i, k0, v0)
        BY <2>13, <3>1, KeyValueCut
      <4> QED BY <4>1 DEF KeyValueParts
    <3>3. ASSUME i <= Len(k0), ~(Len(q) >= 2), NEW j \in 0..Len(k0), q[1] = SubSeq(k0, 1, j)
          PROVE  Arrives(m, l, q[1], v)
      <4>1. l < Len(w) - Len(v0)
        BY <1>6, <1>7, <1>11, <1>W, <3>3
      <4>2. v = <<>>
        BY <2>10, <3>3
      <4> QED BY <1>2, <1>4, <3>3, <4>1, <4>2 DEF Arrives
    <3>4. ASSUME q[1] = k0, Len(q) >= 2, NEW j \in 0..Len(v0), i = Len(k0) + 1 + j,
                 q[2] = Codec!UpToBar(SubSeq(v0, 1, j))
          PROVE  Arrives(m, l, q[1], v)
      <4>1. l = Len(w) - Len(v0) + j
        BY <1>6, <1>7, <1>11, <1>W, <3>4
      <4>2. v = Codec!UpToBar(SubSeq(v0, 1, j))
        BY <2>10, <3>4
      <4> QED BY <1>2, <1>4, <3>4, <4>1, <4>2 DEF Arrives
    <3> QED BY <3>2, <3>3, <3>4
  <2> QED BY <1>2, <2>12, <2>13
<1>12. \/ l < Len(w) - Len(r) /\ Len(p) < 5
       \/ \E i \in 0..Len(r) :
            /\ l = Len(w) - Len(r) + i
            /\ p = FourInFront(a, b, c, d, Codec!Split(SubSeq(r, 1, i)))
  <2>1. FourParts(Codec!Split(SubSeq(FourJoined(a, b, c, d, r), 1, l)),
                  FourJoined(a, b, c, d, r), l, a, b, c, d, r)
    BY <1>1, <1>L, FourCut
  <2> QED BY <1>5, <1>8, <2>1 DEF FourParts
<1> QED BY <1>4, <1>10, <1>11, <1>12

\* What the handlers take from it.
LEMMA HandledIs ==
  ASSUME NEW n, NEW m, WireMessage(m, n), NEW k, NEW v, NEW r, r = Codec!Handled(Parsed(m, k, v))
  PROVE  /\ m.type = "DATA" =>
              IF k # <<>> THEN r = [type |-> "DATA", key |-> k, value |-> v] ELSE r = Codec!Dropped
         /\ m.type = "CBF" =>
              IF k # <<>> /\ Codec!FromHex(k) # <<>>
              THEN r = [type |-> "CBF", filter |-> Codec!FromHex(k)] ELSE r = Codec!Dropped
         /\ m.type = "QBF" =>
              IF k # <<>> /\ Codec!FromHex(k) # <<>> /\ Codec!ParseUint64(v) >= 0
              THEN r = [type |-> "QBF", filter |-> Codec!FromHex(k), created |-> Codec!ParseUint64(v)]
              ELSE r = Codec!Dropped
<1>1. PICK f : f = Parsed(m, k, v)
  OBVIOUS
<1>2. /\ f.type = m.type /\ f.id = m.id /\ f.origin = <<"o">> /\ f.ttl = 1
      /\ f.key = k /\ f.value = v
  BY <1>1 DEF Parsed
<1>3. m.type \in {"DATA", "CBF", "QBF"} /\ (m.type = "DATA" => m.id = <<"i">>)
  BY DEF WireMessage
<1>4. \A e : <<e>> # <<>>
  OBVIOUS
<1>5. f # Codec!Dropped
  BY <1>2, <1>3 DEF Codec!Dropped
<1>6. ~(f = Codec!Dropped \/ f.origin = <<>> \/ f.key = <<>>
        \/ (f.type = "DATA" /\ f.id = <<>>) \/ (f.type # "CBF" /\ f.ttl <= 0)) <=> k # <<>>
  BY <1>2, <1>3, <1>4, <1>5
<1>7. r = IF k = <<>> THEN Codec!Dropped
          ELSE CASE f.type = "DATA" -> [type |-> "DATA", key |-> f.key, value |-> f.value]
                 [] f.type = "CBF" /\ Codec!FromHex(f.key) # <<>> ->
                      [type |-> "CBF", filter |-> Codec!FromHex(f.key)]
                 [] f.type = "QBF" /\ Codec!FromHex(f.key) # <<>> /\ Codec!ParseUint64(f.value) >= 0 ->
                      [type |-> "QBF", filter |-> Codec!FromHex(f.key), created |-> Codec!ParseUint64(f.value)]
                 [] OTHER -> Codec!Dropped
  BY <1>1, <1>6 DEF Codec!Handled
<1>8. CASE m.type = "DATA"
  BY <1>2, <1>7, <1>8
<1>9. CASE m.type = "CBF"
  BY <1>2, <1>7, <1>9
<1>10. CASE m.type = "QBF"
  BY <1>2, <1>7, <1>10
<1> QED BY <1>3, <1>8, <1>9, <1>10

\* from_hex reads a text of the right length and to_hex writes it again.
LEMMA HexReadBack ==
  ASSUME NEW n \in Nat, n >= 1, wBytes = n, NEW h, NEW f0, HexOf(h, f0, n)
  PROVE  Codec!FromHex(h) # <<>> /\ Codec!ToHex(Codec!FromHex(h)) = h
<1> DEFINE g == [i \in 1..n |-> <<h[2 * i - 1], h[2 * i]>>]
<1>1. h \in Seq(Codec!HalfByte) /\ Len(h) = 2 * n
  BY DEF HexOf
<1>2. Codec!FromHex(h) = g
  BY <1>1 DEF Codec!FromHex
<1>3. ASSUME NEW i \in 1..n PROVE h[2 * i - 1] \in Codec!HalfByte /\ h[2 * i] \in Codec!HalfByte
  <2>1. 2 * i - 1 \in 1..Len(h) /\ 2 * i \in 1..Len(h)
    BY <1>1
  <2> QED BY <1>1, <2>1
<1>4. g \in [1..n -> Codec!HalfByte \X Codec!HalfByte]
  BY <1>3
<1>5. HexOf(h, g, n)
  <2>1. \A i \in 1..n : g[i][1] = h[2 * i - 1] /\ g[i][2] = h[2 * i]
    OBVIOUS
  <2> HIDE DEF g
  <2> QED BY <1>1, <2>1 DEF HexOf
<1> HIDE DEF g
<1>6. HexOf(Codec!ToHex(g), g, n)
  BY <1>4, ToHexShape
<1>7. Codec!ToHex(g) = h
  BY <1>5, <1>6, HexUnique
<1>8. g # <<>>
  <2>1. DOMAIN g = 1..n /\ 1 \in 1..n
    BY <1>4
  <2>2. DOMAIN <<>> = 1..0
    OBVIOUS
  <2>3. 1 \notin 1..0
    OBVIOUS
  <2> QED BY <2>1, <2>2, <2>3
<1> QED BY <1>2, <1>7, <1>8

\* What may come of a message m with a receive buffer of the given size.
WireOutcome(r, m, size) ==
  LET whole == Len(Codec!ToWire(m))
  IN  /\ r.type \in {"dropped", "DATA", "CBF", "QBF"}
      /\ r.type = "DATA" /\ whole - Len(m.value) <= size /\ "|" \notin Codec!ToSet(m.key) =>
           /\ m.type = "DATA" /\ r.key = m.key
           /\ Codec!IsPrefix(r.value, m.value)
           /\ whole <= size => r.value = Codec!UpToBar(m.value)
      /\ r.type \in {"CBF", "QBF"} => m.type = r.type /\ Codec!ToHex(r.filter) = m.key
      /\ r.type = "QBF" => r.created <= Codec!ParseUint64(m.value)
      /\ whole <= size /\ m.type # "DATA" => r.type = m.type

\* A text without separator, as a set of units.
LEMMA NoBarSet ==
  ASSUME NEW t \in WireText
  PROVE  NoBar(t) <=> "|" \notin Codec!ToSet(t)
<1>1. DOMAIN t = 1..Len(t)
  BY DEF WireText
<1> QED BY <1>1 DEF NoBar, Codec!ToSet

\* A text up to its first separator is a prefix of it.
LEMMA UpToBarPrefix ==
  ASSUME NEW t \in WireText, NEW i \in 0..Len(t), NEW v, v = Codec!UpToBar(SubSeq(t, 1, i))
  PROVE  Codec!IsPrefix(v, t) /\ (i = Len(t) => v = Codec!UpToBar(t))
<1>0. Len(t) \in Nat
  BY DEF WireText
<1>1. SubSeq(t, 1, i) \in WireText /\ Len(SubSeq(t, 1, i)) = i /\ (i = Len(t) => SubSeq(t, 1, i) = t)
  BY PrefixShape
<1>2. PICK j \in 0..i : v = SubSeq(SubSeq(t, 1, i), 1, j)
  BY <1>1, SplitFirst
<1>3. v = SubSeq(t, 1, j) /\ j \in 0..Len(t)
  BY <1>0, <1>2, PrefixOfPrefix
<1>4. v \in WireText /\ Len(v) = j
  BY <1>3, PrefixShape
<1>5. SubSeq(v, 1, j) = v
  <2>1. j \in 0..Len(v)
    BY <1>0, <1>4
  <2> QED BY <1>4, <2>1, PrefixShape
<1>6. Codec!IsPrefix(v, t)
  BY <1>0, <1>3, <1>4, <1>5 DEF Codec!IsPrefix
<1> QED BY <1>1, <1>6

\* A key that is written as a filter has no separator, and only all of it is
\* read as one.
LEMMA FilterKey ==
  ASSUME NEW n \in Nat, n >= 1, wBytes = n, NEW t \in WireText, NEW f, HexOf(t, f, n)
  PROVE  /\ NoBar(t)
         /\ \A j \in 0..Len(t) : Codec!FromHex(SubSeq(t, 1, j)) # <<>> => SubSeq(t, 1, j) = t
<1>1. t \in Seq(Codec!HalfByte) /\ Len(t) = 2 * n
  BY DEF HexOf
<1>2. NoBar(t)
  <2>1. \A i \in 1..Len(t) : t[i] \in Codec!HalfByte
    BY <1>1
  <2> QED BY <2>1 DEF NoBar, Codec!HalfByte
<1>3. ASSUME NEW j \in 0..Len(t), Codec!FromHex(SubSeq(t, 1, j)) # <<>> PROVE SubSeq(t, 1, j) = t
  <2>1. Len(SubSeq(t, 1, j)) = j /\ (j = Len(t) => SubSeq(t, 1, j) = t)
    BY PrefixShape
  <2>2. Len(SubSeq(t, 1, j)) = 2 * n
    BY <1>3 DEF Codec!FromHex
  <2> QED BY <1>1, <2>1, <2>2
<1> QED BY <1>2, <1>3

\* What is left of a stamp is not larger than the stamp.
LEMMA StampLeft ==
  ASSUME NEW t \in Seq(StampUnit), NEW i \in 0..Len(t), NEW v, v = Codec!UpToBar(SubSeq(t, 1, i)),
         t \in WireText, Codec!ParseUint64(v) >= 0
  PROVE  Codec!ParseUint64(v) <= Codec!ParseUint64(t)
<1>1. /\ SubSeq(t, 1, i) \in WireText /\ Len(SubSeq(t, 1, i)) = i
      /\ \A k \in 1..i : SubSeq(t, 1, i)[k] = t[k]
  BY PrefixShape
<1>2. NoBar(SubSeq(t, 1, i))
  <2>1. \A k \in 1..i : k \in 1..Len(t)
    OBVIOUS
  <2>2. \A k \in 1..Len(t) : t[k] \in StampUnit
    OBVIOUS
  <2> QED BY <1>1, <2>1, <2>2 DEF NoBar, StampUnit
<1>3. v = SubSeq(t, 1, i)
  BY <1>1, <1>2, SplitFirst
<1>4. CASE i = 0
  <2>1. v = <<>>
    BY <1>3, <1>4, SubSeqEmpty
  <2> QED BY <2>1, StampOrder
<1>5. CASE i # 0
  <2>1. i \in 1..Len(t)
    BY <1>5
  <2> QED BY <1>3, <2>1, StampOrder
<1> QED BY <1>4, <1>5

\* What the receiver makes of a message that all of the parts arrive of.
LEMMA ParsedOutcome ==
  ASSUME NEW n \in Nat, n >= 1, wBytes = n, NEW m, WireMessage(m, n), NEW size \in Nat,
         NEW whole \in Nat, whole = Len(Codec!ToWire(m)),
         NEW l, l = (IF whole <= size THEN whole ELSE size),
         NEW k, NEW v, NoBar(m.key) => Arrives(m, l, k, v),
         NEW r, r = Codec!Handled(Parsed(m, k, v))
  PROVE  WireOutcome(r, m, size)
<1>1. PICK k0 \in WireText, v0 \in WireText : k0 = m.key /\ v0 = m.value /\ k0 # <<>>
  BY DEF WireMessage
<1>2. Len(k0) \in Nat /\ Len(v0) \in Nat
  BY DEF WireText
<1>3. ASSUME NoBar(k0), whole - Len(v0) <= size
      PROVE  /\ k = k0
             /\ \E i \in 0..Len(v0) : l = whole - Len(v0) + i /\ v = Codec!UpToBar(SubSeq(v0, 1, i))
  <2>1. Arrives(m, l, k, v)
    BY <1>1, <1>3
  <2>2. ~(l < whole - Len(v0))
    BY <1>2, <1>3
  <2> QED BY <1>1, <2>1, <2>2 DEF Arrives
<1>4. CASE m.type = "DATA"
  <2>1. r = Codec!Dropped \/ r = [type |-> "DATA", key |-> k, value |-> v]
    BY <1>4, HandledIs
  <2>2. CASE r = Codec!Dropped
    <3>1. r.type = "dropped"
      BY <2>2 DEF Codec!Dropped
    <3> QED BY <1>4, <3>1 DEF WireOutcome
  <2>3. CASE r = [type |-> "DATA", key |-> k, value |-> v]
    <3>1. r.type = "DATA" /\ r.key = k /\ r.value = v
      BY <2>3
    <3>2. ASSUME whole - Len(m.value) <= size, "|" \notin Codec!ToSet(m.key)
          PROVE  /\ r.key = m.key /\ Codec!IsPrefix(r.value, m.value)
                 /\ whole <= size => r.value = Codec!UpToBar(m.value)
      <4>1. NoBar(k0)
        BY <1>1, <3>2, NoBarSet
      <4>2. PICK i \in 0..Len(v0) : l = whole - Len(v0) + i /\ v = Codec!UpToBar(SubSeq(v0, 1, i))
        BY <1>1, <1>3, <3>2, <4>1
      <4>3. Codec!IsPrefix(v, v0) /\ (i = Len(v0) => v = Codec!UpToBar(v0))
        BY <4>2, UpToBarPrefix
      <4>4. whole <= size => i = Len(v0)
        BY <1>2, <4>2
      <4> QED BY <1>1, <1>3, <3>1, <3>2, <4>1, <4>3, <4>4
    <3> QED BY <1>4, <3>1, <3>2 DEF WireOutcome
  <2> QED BY <2>1, <2>2, <2>3
<1>5. CASE m.type # "DATA"
  <2>1. PICK f : HexOf(k0, f, n)
    BY <1>1, <1>5 DEF WireMessage
  <2>2. /\ NoBar(k0)
        /\ \A j \in 0..Len(k0) : Codec!FromHex(SubSeq(k0, 1, j)) # <<>> => SubSeq(k0, 1, j) = k0
    BY <2>1, FilterKey
  <2>3. Codec!FromHex(k0) # <<>> /\ Codec!ToHex(Codec!FromHex(k0)) = k0
    BY <2>1, HexReadBack
  <2>4. Arrives(m, l, k, v)
    BY <1>1, <2>2
  <2>5. Codec!FromHex(k) # <<>> => k = k0
    BY <1>1, <2>2, <2>4 DEF Arrives
  <2>6. ASSUME whole <= size PROVE k = k0 /\ v = Codec!UpToBar(v0)
    <3>1. whole - Len(v0) <= size
      BY <1>2, <2>6
    <3>2. PICK i \in 0..Len(v0) : l = whole - Len(v0) + i /\ v = Codec!UpToBar(SubSeq(v0, 1, i))
      BY <1>3, <2>2, <3>1
    <3>3. i = Len(v0)
      BY <1>2, <2>6, <3>2
    <3> QED BY <1>3, <2>2, <3>1, <3>2, <3>3, UpToBarPrefix
  <2>7. CASE m.type = "CBF"
    <3>1. IF k # <<>> /\ Codec!FromHex(k) # <<>>
          THEN r = [type |-> "CBF", filter |-> Codec!FromHex(k)] ELSE r = Codec!Dropped
      BY <2>7, HandledIs
    <3>2. CASE k # <<>> /\ Codec!FromHex(k) # <<>>
      <4>1. r.type = "CBF" /\ r.filter = Codec!FromHex(k)
        BY <3>1, <3>2
      <4>2. Codec!ToHex(r.filter) = m.key
        BY <1>1, <2>3, <2>5, <3>2, <4>1
      <4> QED BY <2>7, <4>1, <4>2 DEF WireOutcome
    <3>3. CASE ~(k # <<>> /\ Codec!FromHex(k) # <<>>)
      <4>1. r.type = "dropped"
        BY <3>1, <3>3 DEF Codec!Dropped
      <4>2. ~(whole <= size)
        BY <1>1, <2>3, <2>6, <3>3
      <4> QED BY <4>1, <4>2 DEF WireOutcome
    <3> QED BY <3>2, <3>3
  <2>8. CASE m.type = "QBF"
    <3>0. v0 \in Seq(StampUnit) /\ v0 # <<>>
      BY <1>1, <2>8 DEF WireMessage
    <3>1. IF k # <<>> /\ Codec!FromHex(k) # <<>> /\ Codec!ParseUint64(v) >= 0
          THEN r = [type |-> "QBF", filter |-> Codec!FromHex(k), created |-> Codec!ParseUint64(v)]
          ELSE r = Codec!Dropped
      BY <2>8, HandledIs
    <3>2. CASE k # <<>> /\ Codec!FromHex(k) # <<>> /\ Codec!ParseUint64(v) >= 0
      <4>1. r.type = "QBF" /\ r.filter = Codec!FromHex(k) /\ r.created = Codec!ParseUint64(v)
        BY <3>1, <3>2
      <4>2. Codec!ToHex(r.filter) = m.key
        BY <1>1, <2>3, <2>5, <3>2, <4>1
      <4>3. v # <<>>
        BY <3>2, StampOrder
      <4>4. PICK i \in 0..Len(v0) : v = Codec!UpToBar(SubSeq(v0, 1, i))
        BY <1>1, <2>4, <4>3 DEF Arrives
      <4>5. r.created <= Codec!ParseUint64(m.value)
        BY <1>1, <3>0, <3>2, <4>1, <4>4, StampLeft
      <4> QED BY <2>8, <4>1, <4>2, <4>5 DEF WireOutcome
    <3>3. CASE ~(k # <<>> /\ Codec!FromHex(k) # <<>> /\ Codec!ParseUint64(v) >= 0)
      <4>1. r.type = "dropped"
        BY <3>1, <3>3 DEF Codec!Dropped
      <4>2. ASSUME whole <= size PROVE FALSE
        <5>1. NoBar(v0)
          <6>1. \A i \in 1..Len(v0) : v0[i] \in StampUnit
            BY <3>0
          <6> QED BY <6>1 DEF NoBar, StampUnit
        <5>2. v = v0
          BY <2>6, <4>2, <5>1, SplitFirst
        <5>3. Codec!ParseUint64(v) \in Nat
          BY <3>0, <5>2, StampOrder
        <5> QED BY <1>1, <2>3, <2>6, <3>3, <4>2, <5>3
      <4> QED BY <4>1, <4>2 DEF WireOutcome
    <3> QED BY <3>2, <3>3
  <2> QED BY <1>5, <2>7, <2>8 DEF WireMessage
<1> QED BY <1>4, <1>5

\* What the receiver makes of a datagram.
LEMMA ReceiveOutcome ==
  ASSUME wBytes \in FilterSizes, wLimit \in Nat, NEW m, WireMessage(m, wBytes),
         NEW r, r = Codec!Handled(Codec!FromWire(Codec!Cut(Codec!ToWire(m))))
  PROVE  WireOutcome(r, m, wLimit)
<1>1. PICK n \in Nat : n = wBytes /\ n >= 1 /\ WireMessage(m, n)
  BY PartsAssumption DEF Positive
<1>2. PICK w \in WireText : w = Codec!ToWire(m)
  <2>1. /\ <<m.type>> \in WireText /\ m.id \in WireText /\ m.origin \in WireText /\ m.ttl \in WireText
        /\ Joined(m.key, m.value) \in WireText
        /\ Codec!ToWire(m) = FourJoined(<<m.type>>, m.id, m.origin, m.ttl, Joined(m.key, m.value))
    BY <1>1, WireForm
  <2>2. PICK a \in WireText, b \in WireText, c \in WireText, d \in WireText, e \in WireText :
          Codec!ToWire(m) = Joined(a, Joined(b, Joined(c, Joined(d, e))))
    BY <2>1 DEF FourJoined
  <2>3. Joined(d, e) \in WireText
    BY JoinedShape
  <2>4. Joined(c, Joined(d, e)) \in WireText
    BY <2>3, JoinedShape
  <2>5. Joined(b, Joined(c, Joined(d, e))) \in WireText
    BY <2>4, JoinedShape
  <2> QED BY <2>2, <2>5, JoinedShape
<1>3. PICK whole \in Nat : whole = Len(Codec!ToWire(m))
  BY <1>2 DEF WireText
<1>4. PICK l : l = (IF whole <= wLimit THEN whole ELSE wLimit)
  OBVIOUS
<1>5. Codec!Cut(Codec!ToWire(m)) = SubSeq(Codec!ToWire(m), 1, l) /\ l \in 0..Len(Codec!ToWire(m))
  BY <1>3, <1>4 DEF Codec!Cut
<1>6. CASE /\ l < Len(Codec!ToWire(m)) - Len(m.value)
           /\ Codec!FromWire(SubSeq(Codec!ToWire(m), 1, l)) = Codec!Dropped
  <2>1. r = Codec!Dropped
    BY <1>5, <1>6 DEF Codec!Handled
  <2>2. r.type = "dropped"
    BY <2>1 DEF Codec!Dropped
  <2>3. Len(m.value) \in Nat
    BY DEF WireMessage, WireText
  <2>4. ~(whole <= wLimit)
    BY <1>3, <1>4, <1>6, <2>3
  <2> QED BY <1>3, <2>2, <2>4 DEF WireOutcome
<1>7. ASSUME NEW k, NEW v, Codec!FromWire(SubSeq(Codec!ToWire(m), 1, l)) = Parsed(m, k, v),
             NoBar(m.key) => Arrives(m, l, k, v)
      PROVE  WireOutcome(r, m, wLimit)
  <2>1. r = Codec!Handled(Parsed(m, k, v))
    BY <1>5, <1>7
  <2> QED BY <1>1, <1>3, <1>4, <1>7, <2>1, ParsedOutcome
<1> QED BY <1>1, <1>5, <1>6, <1>7, WireRead

-----------------------------------------------------------------------------
\* What the receiver has made of a message is what may come of it.
WireInv ==
  \/ /\ wLimit = 0 /\ wBytes = 0
     /\ wMessage = Codec!Nothing /\ wDatagram = Codec!Nothing /\ wReceived = Codec!Nothing
  \/ /\ wLimit \in Limits /\ wBytes \in FilterSizes /\ wMessage \in Codec!Messages(wBytes)
     /\ wDatagram = [type |-> "wire", text |-> Codec!ToWire(wMessage)]
     /\ wReceived = Codec!Nothing \/ WireOutcome(wReceived, wMessage, wLimit)

\* Nothing is on its way at first.
LEMMA InitWire == Codec!Init => WireInv
  BY DEF Codec!Init, WireInv

\* Sending and receiving keep the invariant.
LEMMA NextWire == WireInv /\ [Codec!Next]_Codec!vars => WireInv'
<1> SUFFICES ASSUME WireInv, [Codec!Next]_Codec!vars PROVE WireInv'
  OBVIOUS
<1>1. ASSUME NEW l \in Limits, NEW n \in FilterSizes, NEW m \in Codec!Messages(n), Codec!SendTo(l, n, m)
      PROVE  WireInv'
  <2>1. wMessage = Codec!Nothing
    BY <1>1 DEF Codec!SendTo
  <2>2. wReceived = Codec!Nothing
    <3>1. CASE wBytes \in FilterSizes /\ wMessage \in Codec!Messages(wBytes)
      <4>1. WireMessage(wMessage, wBytes)
        BY <3>1, SentForm
      <4> QED BY <2>1, <4>1 DEF WireMessage, Codec!Nothing
    <3> QED BY <3>1 DEF WireInv
  <2>3. /\ wLimit' = l /\ wBytes' = n /\ wMessage' = m /\ wReceived' = Codec!Nothing
        /\ wDatagram' = [type |-> "wire", text |-> Codec!ToWire(m)]
    BY <1>1, <2>2 DEF Codec!SendTo
  <2> QED BY <2>3 DEF WireInv
<1>2. CASE Codec!Receive
  <2>1. /\ wDatagram # Codec!Nothing /\ UNCHANGED <<wLimit, wBytes, wMessage, wDatagram>>
        /\ wReceived' = Codec!Handled(Codec!FromWire(Codec!Cut(wDatagram.text)))
    BY <1>2 DEF Codec!Receive
  <2>2. /\ wLimit \in Limits /\ wBytes \in FilterSizes /\ wMessage \in Codec!Messages(wBytes)
        /\ wDatagram = [type |-> "wire", text |-> Codec!ToWire(wMessage)]
    BY <2>1 DEF WireInv
  <2>3. PICK m : m = wMessage
    OBVIOUS
  <2>4. PICK r : r = wReceived'
    OBVIOUS
  <2>5. r = Codec!Handled(Codec!FromWire(Codec!Cut(Codec!ToWire(m))))
    BY <2>1, <2>2, <2>3, <2>4
  <2>6. WireMessage(m, wBytes) /\ wLimit \in Nat
    BY <2>2, <2>3, SentForm, PartsAssumption
  <2>7. WireOutcome(r, m, wLimit)
    BY <2>2, <2>5, <2>6, ReceiveOutcome
  <2> QED BY <2>1, <2>2, <2>3, <2>4, <2>7 DEF WireInv
<1>3. CASE UNCHANGED Codec!vars
  BY <1>3 DEF WireInv, Codec!vars
<1> QED BY <1>1, <1>2, <1>3 DEF Codec!Next

\* It holds always.
LEMMA WireAlways == Codec!Spec => []WireInv
  BY InitWire, NextWire, PTL DEF Codec!Spec

\* Only kinds that the handlers return are received.
LEMMA WireTyped == WireInv => Codec!TypeOK
  BY DEF WireInv, WireOutcome, Codec!TypeOK, Codec!Nothing

\* Buffers and filters have their sizes, and what the receiver keeps is of one
\* of the kinds that the handlers return.
THEOREM WireTypes == Codec!Spec => []Codec!TypeOK
  BY WireTyped, WireAlways, PTL

\* handle_data stores a value only under the key it was sent with, and all of it
\* or a prefix: for keys and values of every length, and receive buffers of
\* every size.
THEOREM WireDataIsPrefix == Codec!Spec => []DataIsPrefix
<1>1. WireInv => DataIsPrefix
  BY DEF WireInv, WireOutcome, DataIsPrefix, Codec!DataIsPrefix, Codec!KeyFits, Codec!Fits, Codec!Nothing
<1> QED BY <1>1, WireAlways, PTL

\* A filter is received as it was sent or not at all, one that fits into the
\* buffer is received, and a stamp that is cut off never looks younger: for
\* filters and stamps of every length, and receive buffers of every size.
THEOREM WireFiltersAreIntact == Codec!Spec => []FiltersAreIntact
<1>1. WireInv => FiltersAreIntact
  BY DEF WireInv, WireOutcome, FiltersAreIntact, Codec!FiltersAreIntact, Codec!Fits, Codec!Nothing
<1> QED BY <1>1, WireAlways, PTL

-----------------------------------------------------------------------------
(***************************************************************************)
(* The parts of a node side by side, as TLC runs them: each one keeps the  *)
(* inductive invariant that is proved of it alone, because no other part   *)
(* writes its state while it is exercised.                                 *)
(***************************************************************************)

\* The part that is exercised keeps its invariant.
PartsInv ==
  /\ focus \in {"sync", "query", "limiter", "content", "timers", "redis", "codec", "settings"}
  /\ focus = "sync" => IInv
  /\ focus = "query" => QueryInv
  /\ focus = "limiter" => LimiterInv
  /\ focus = "content" => ContentInv
  /\ focus = "timers" => TimersInv
  /\ focus = "redis" => RedisInv
  /\ focus = "codec" => WireInv
  /\ focus = "settings" => SettingsInv

\* All of them hold at first.
LEMMA InitParts == AllInit => PartsInv
  BY InitIInv, QueryInit, LimiterInit, ContentInit, TimersInit, RedisInit, InitWire, InitSettings
     DEF AllInit, PartsInv

\* A step is one of the part that is exercised, or leaves its state as it is.
LEMMA NextParts == PartsInv /\ [AllNext]_allVars => PartsInv'
<1> SUFFICES ASSUME PartsInv, [AllNext]_allVars PROVE PartsInv'
  OBVIOUS
<1>1. focus' = focus
  BY DEF AllNext, allVars
<1>2. focus = "sync" => IInv'
  <2>1. focus = "sync" => [Next]_vars
    BY DEF AllNext, allVars, tables
  <2> QED BY <2>1, NextIInv DEF PartsInv
<1>3. focus = "query" => QueryInv'
  <2>1. focus = "query" => [Query!Next]_(Query!vars)
    BY DEF AllNext, allVars, tables, query, Query!vars
  <2> QED BY <2>1, QueryStep DEF PartsInv
<1>4. focus = "limiter" => LimiterInv'
  <2>1. focus = "limiter" => [Limiter!Next]_(Limiter!vars)
    BY DEF AllNext, allVars, tables, limiter, Limiter!vars
  <2> QED BY <2>1, LimiterStep DEF PartsInv
<1>5. focus = "content" => ContentInv'
  <2>1. focus = "content" => [Content!Next]_(Content!vars)
    BY DEF AllNext, allVars, tables, content, Content!vars
  <2> QED BY <2>1, ContentStep DEF PartsInv
<1>6. focus = "timers" => TimersInv'
  <2>1. focus = "timers" => [Timers!Next]_(Timers!vars)
    BY DEF AllNext, allVars, tables, timers, Timers!vars, Timers!tables, Timers!ghosts
  <2> QED BY <2>1, TimersStep DEF PartsInv
<1>7. focus = "redis" => RedisInv'
  <2>1. focus = "redis" => [Redis!Next]_(Redis!vars)
    BY DEF AllNext, allVars, redis, Redis!vars
  <2> QED BY <2>1, RedisNext DEF PartsInv
<1>8. focus = "codec" => WireInv'
  <2>1. focus = "codec" => [Codec!Next]_(Codec!vars)
    BY DEF AllNext, allVars, codec, Codec!vars
  <2> QED BY <2>1, NextWire DEF PartsInv
<1>9. focus = "settings" => SettingsInv'
  <2>1. focus = "settings" => [Settings!Next]_(Settings!vars)
    BY DEF AllNext, allVars, settings, Settings!vars
  <2> QED BY <2>1, NextSettings DEF PartsInv
<1> QED BY <1>1, <1>2, <1>3, <1>4, <1>5, <1>6, <1>7, <1>8, <1>9 DEF PartsInv

\* The state of every part keeps its type: the table, its callers' positions and
\* times, what is buffered, in flight and on the wire, and the settings, for
\* every value of the constants.
THEOREM PartsTypes == AllSpec => []PartsTypeOK
<1>1. PartsInv => PartsTypeOK
  BY RedisTypesOK, WireTyped, SettingsTyped
     DEF PartsInv, PartsTypeOK, IInv, QueryInv, LimiterInv, ContentInv, TimersInv, TimersTyped, RedisInv
<1> QED BY <1>1, InitParts, NextParts, PTL DEF AllSpec
=============================================================================
