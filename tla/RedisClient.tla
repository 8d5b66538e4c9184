----------------------------- MODULE RedisClient -----------------------------
(***************************************************************************)
(* src/netos/cache/redis_client.cpp: commands and replies over one stream  *)
(* socket, which the threads of a node use without a lock.  A reply is a   *)
(* sequence of units: a type, a length, the units of a value, and "nl" for *)
(* a line ending, which a value may contain as well.  A command is written *)
(* by one send; the server answers in order, may refuse a command, and may *)
(* close the connection.                                                   *)
(***************************************************************************)
EXTENDS Integers, Sequences, SequencesExt

CONSTANTS
  Caller,       \* the threads that call set and get
  RedisKey,
  MaxLength,    \* bound on the length of a value, at most 3
  MaxCommands   \* bound on the commands of a behavior

VARIABLES
  store,      \* external: what the server holds
  open,       \* external: the server has the connection open
  commands,   \* external: sent, and not yet served
  stream,     \* the units of the replies that have not been received
  call,       \* per caller: the command, and how much of its reply is read
  alive,      \* the process runs
  issued,     \* bound: commands sent so far
  overlapped, \* ghost: a call has begun during another
  answer,     \* ghost: per caller, the reply the server gave to its command
  finished    \* ghost: the latest call that returned: command, reply, result

vars == <<store, open, commands, stream, call, alive, issued,
          overlapped, answer, finished>>

Nothing == <<"nothing">>
NoCall == [result |-> "none"]

\* Values: text, and text that looks like a line ending.
RedisValue == BoundedSeq({"x", "nl"}, MaxLength)

Idle == [pc |-> "idle"]
Command == [op : {"SET"}, key : RedisKey, value : RedisValue]
           \cup [op : {"GET"}, key : RedisKey]

\* Lengths as they appear on the wire, from the one of a null reply.
Lengths == <<"-1", "0", "1", "2", "3">>

Init ==
  /\ store = [k \in RedisKey |-> Nothing]
  /\ open = TRUE /\ commands = <<>> /\ stream = <<>>
  /\ call = [c \in Caller |-> Idle]
  /\ alive = TRUE /\ issued = 0 /\ overlapped = FALSE
  /\ answer = [c \in Caller |-> Nothing]
  /\ finished = NoCall

-----------------------------------------------------------------------------
(* The server.                                                             *)

Bulk(v) == <<"$", Lengths[Len(v) + 2], "nl">> \o v \o <<"nl">>

\* What the server may reply to a command.
Replies(cmd) ==
  {<<"-", "nl">>} \cup
  (IF cmd.op = "SET" THEN {<<"+", "nl">>}
   ELSE {IF store[cmd.key] = Nothing THEN <<"$", "-1", "nl">> ELSE Bulk(store[cmd.key])})

Serve ==
  /\ open /\ commands # <<>>
  /\ LET c == Head(commands).caller
         cmd == Head(commands).command
     IN  \E reply \in Replies(cmd) :
           /\ stream' = stream \o reply
           /\ answer' = [answer EXCEPT ![c] = reply]
           /\ store' = IF cmd.op = "SET" /\ reply[1] = "+"
                       THEN [store EXCEPT ![cmd.key] = cmd.value] ELSE store
  /\ commands' = Tail(commands)
  /\ UNCHANGED <<open, call, alive, issued, overlapped, finished>>

\* Replies that were sent can still be read.
Close ==
  /\ open
  /\ open' = FALSE /\ commands' = <<>>
  /\ UNCHANGED <<store, stream, call, alive, issued, overlapped, answer, finished>>

-----------------------------------------------------------------------------
(* The client.                                                             *)

\* send_command on an open connection.
Send(c, cmd) ==
  /\ alive /\ open /\ issued < MaxCommands
  /\ call[c] = Idle
  /\ commands' = Append(commands, [caller |-> c, command |-> cmd])
  /\ call' = [call EXCEPT ![c] =
                [pc |-> "line", command |-> cmd, line |-> <<>>, need |-> 0, bulk |-> <<>>]]
  /\ issued' = issued + 1
  /\ overlapped' = (overlapped \/ \E d \in Caller : call[d] # Idle)
  /\ answer' = [answer EXCEPT ![c] = Nothing]
  /\ UNCHANGED <<store, open, stream, alive, finished>>

\* send on a connection the server has closed: without MSG_NOSIGNAL the
\* process receives SIGPIPE, and does not handle it.
SendOnClosed(c) ==
  /\ alive /\ ~open /\ issued < MaxCommands
  /\ call[c] = Idle
  /\ alive' = FALSE
  /\ UNCHANGED <<store, open, commands, stream, call, issued, overlapped, answer, finished>>

Fails == [ok |-> FALSE]
Gives(v) == [ok |-> TRUE, value |-> v]

Return(c, result) ==
  /\ call' = [call EXCEPT ![c] = Idle]
  /\ finished' = [command |-> call[c].command, answer |-> answer[c], result |-> result]

\* Mutant: an error reply counts as success.
MutSetResult(type) == Gives(Nothing)

\* What set makes of a reply.
SetResult(type) == IF type = "-" THEN Fails ELSE Gives(Nothing)

\* What get makes of one: a miss and an error are both nullopt.
GetResult(type, isNull, payload) ==
  IF type = "$" /\ ~isNull THEN Gives(payload) ELSE Fails

Result(c, type, isNull, payload) ==
  IF call[c].command.op = "SET" THEN SetResult(type) ELSE GetResult(type, isNull, payload)

\* Mutant: the line ending is counted twice.
MutBulkNeeds(length) == length + 2

\* What read_exact is asked for: the value and the line ending.
BulkNeeds(length) == length + 1

\* The length that std::stoi reads from a "$" line: a number, -1 for null, or
\* -2 when it throws.
Announced(line) ==
  IF Len(line) < 2 THEN -2
  ELSE SelectInSeq(Lengths, LAMBDA u : u = line[2]) - 2

\* read_resp after read_line: the line is complete.
Parse(c, line) ==
  \/ /\ line = <<>>
     /\ Return(c, Fails)
  \/ /\ line # <<>> /\ line[1] # "$"
     /\ Return(c, Result(c, line[1], FALSE, <<>>))
  \/ /\ line # <<>> /\ line[1] = "$"
     /\ \/ /\ Announced(line) = -2
           /\ Return(c, Fails)
        \/ /\ Announced(line) = -1
           /\ Return(c, Result(c, "$", TRUE, <<>>))
        \/ /\ Announced(line) >= 0
           /\ call' = [call EXCEPT ![c].pc = "bulk", ![c].need = BulkNeeds(Announced(line))]
           /\ UNCHANGED finished

\* One recv of read_line.
ReadLine(c) ==
  /\ alive /\ call[c].pc = "line" /\ stream # <<>>
  /\ stream' = Tail(stream)
  /\ \/ /\ Head(stream) = "nl"
        /\ Parse(c, call[c].line)
     \/ /\ Head(stream) # "nl"
        /\ call' = [call EXCEPT ![c].line = Append(@, Head(stream))]
        /\ UNCHANGED finished
  /\ UNCHANGED <<store, open, commands, alive, issued, overlapped, answer>>

\* One recv of read_exact, which returns any part of what is needed.
ReadExact(c) ==
  /\ alive /\ call[c].pc = "bulk" /\ stream # <<>>
  /\ stream' = Tail(stream)
  /\ LET bulk == Append(call[c].bulk, Head(stream))
     IN  \/ /\ Len(bulk) < call[c].need
            /\ call' = [call EXCEPT ![c].bulk = bulk]
            /\ UNCHANGED finished
         \/ /\ Len(bulk) = call[c].need
            /\ Return(c, Result(c, "$", FALSE, SubSeq(bulk, 1, Len(bulk) - 1)))
  /\ UNCHANGED <<store, open, commands, alive, issued, overlapped, answer>>

\* recv returns 0: the server has closed the connection.
ReadFails(c) ==
  /\ alive /\ call[c] # Idle
  /\ stream = <<>> /\ ~open
  /\ Return(c, Fails)
  /\ UNCHANGED <<store, open, commands, stream, alive, issued, overlapped, answer>>

Next ==
  \/ Serve \/ Close
  \/ \E c \in Caller :
       \/ \E cmd \in Command : Send(c, cmd)
       \/ SendOnClosed(c)
       \/ ReadLine(c) \/ ReadExact(c) \/ ReadFails(c)

Spec == Init /\ [][Next]_vars

-----------------------------------------------------------------------------
TypeOK ==
  /\ store \in [RedisKey -> RedisValue \cup {Nothing}]
  /\ open \in BOOLEAN /\ alive \in BOOLEAN /\ overlapped \in BOOLEAN
  /\ issued \in 0..MaxCommands
  /\ \A i \in 1..Len(commands) : commands[i] \in [caller : Caller, command : Command]
  /\ \A c \in Caller : call[c] # Idle => call[c].command \in Command

\* What a reply says of its command.
Meaning(reply) ==
  IF reply = Nothing \/ reply[1] = "-" \/ (reply[1] = "$" /\ reply[2] = "-1") THEN Fails
  ELSE IF reply[1] = "+" THEN Gives(Nothing)
  ELSE Gives(SubSeq(reply, 4, Len(reply) - 1))

(***************************************************************************)
(* set and get return what the server replied to their own command, also   *)
(* when a value contains line endings, replies arrive in pieces, or the    *)
(* connection is closed; and a call that was cut off fails.  That is so as *)
(* long as calls have not overlapped: nothing keeps their replies apart.   *)
(***************************************************************************)
ResultIsOwn ==
  finished # NoCall /\ ~overlapped => finished.result = Meaning(finished.answer)

(***************************************************************************)
(* A call never waits for a reply that cannot come (the sockets have no    *)
(* timeout): its command is still to be served, units are there to be      *)
(* read, or the connection is closed; again without overlapping calls.     *)
(***************************************************************************)
NeverStuck ==
  alive /\ ~overlapped =>
    \A c \in Caller : call[c] # Idle => commands # <<>> \/ stream # <<>> \/ ~open

(***************************************************************************)
(* "Redis SET errors are logged as data_state=store_failed": set returns   *)
(* false when the server refused the command.                              *)
(***************************************************************************)
RefusedSetFails ==
  finished # NoCall /\ finished.command.op = "SET" /\ finished.answer = <<"-", "nl">>
    => ~finished.result.ok
=============================================================================
