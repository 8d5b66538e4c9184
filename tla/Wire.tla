-------------------------------- MODULE Wire --------------------------------
(***************************************************************************)
(* A message on its way through Message::to_wire, one datagram, the        *)
(* receive buffer of UdpTransport, Message::from_wire and the checks of    *)
(* the handlers.  Texts are sequences of units, and the buffer is scaled   *)
(* down with them.                                                         *)
(***************************************************************************)
EXTENDS Integers, Sequences, SequencesExt

CONSTANTS
  Limits,        \* sizes of the receive buffer, scaled
  FilterSizes,   \* sizes of a filter in bytes, (bit_count + 7) / 8
  MaxText        \* bound on the length of a key, a value and a stamp

VARIABLES
  limit,      \* what recvfrom returns at most
  bytes,      \* the size of this deployment's filters
  message,    \* what was sent
  datagram,   \* the text on its way
  received    \* what the receiver makes of it

vars == <<limit, bytes, message, datagram, received>>

Nothing == [type |-> "nothing"]
Dropped == [type |-> "dropped"]

Texts(units) == BoundedSeq(units, MaxText) \ {<<>>}

-----------------------------------------------------------------------------
(* Filters: a byte is a pair of half bytes, the high one first.            *)

HalfByte == {"0", "f"}
Filter(n) == [1..n -> HalfByte \X HalfByte]

\* BloomFilter::to_hex
ToHex(filter) == FlattenSeq(filter)

\* Mutant: a text that is too short is padded.
MutFromHex(hex) ==
  LET unit(i) == IF i <= Len(hex) THEN hex[i] ELSE "0"
  IN  [i \in 1..bytes |-> <<unit(2 * i - 1), unit(2 * i)>>]

\* BloomFilter::from_hex, <<>> for nullopt.
FromHex(hex) ==
  IF Len(hex) = 2 * bytes /\ \A i \in 1..Len(hex) : hex[i] \in HalfByte
  THEN [i \in 1..bytes |-> <<hex[2 * i - 1], hex[2 * i]>>]
  ELSE <<>>

\* A decimal stamp; parse_uint64 gives -1 where the code returns false.
Digits == <<"1", "2">>
ParseUint64(text) ==
  IF text # <<>> /\ ToSet(text) \subseteq ToSet(Digits)
  THEN FoldLeft(LAMBDA n, d : 10 * n + SelectInSeq(Digits, LAMBDA e : e = d), 0, text)
  ELSE -1

\* parse_int with the fallback 0
ParseInt(text) == IF ParseUint64(text) >= 0 THEN ParseUint64(text) ELSE 0

-----------------------------------------------------------------------------
(* What nodes send.                                                        *)

Sent(type, id, key, value) ==
  [type |-> type, id |-> id, origin |-> <<"o">>, ttl |-> <<"1">>, key |-> key, value |-> value]

Messages(n) ==
  {Sent("DATA", <<"i">>, k, v) : k \in Texts({"k", "|"}), v \in BoundedSeq({"x", "|"}, MaxText)}
  \cup {Sent("CBF", <<>>, ToHex(f), <<>>) : f \in Filter(n)}
  \cup {Sent("QBF", <<"i">>, ToHex(f), s) : f \in Filter(n), s \in Texts(ToSet(Digits))}

Init ==
  /\ limit = 0 /\ bytes = 0
  /\ message = Nothing /\ datagram = Nothing /\ received = Nothing

\* Message::to_wire
ToWire(m) ==
  <<m.type, "|">> \o m.id \o <<"|">> \o m.origin \o <<"|">> \o m.ttl
    \o <<"|">> \o m.key \o <<"|">> \o m.value

\* Any message, in a deployment with any of the sizes.
SendTo(l, n, m) ==
  /\ message = Nothing
  /\ limit' = l /\ bytes' = n /\ message' = m
  /\ datagram' = [type |-> "wire", text |-> ToWire(m)]
  /\ UNCHANGED received

-----------------------------------------------------------------------------
(* The receiver.                                                           *)

\* split(wire, '|', false)
Split(text) ==
  FoldLeft(LAMBDA parts, u : IF u = "|" THEN Append(parts, <<>>)
                             ELSE Append(Front(parts), Append(Last(parts), u)),
           << <<>> >>, text)

\* Mutant: the last part is taken for the value.
MutFromWire(text) ==
  LET parts == Split(text)
  IN  IF Len(parts) < 5 THEN Dropped
      ELSE [type |-> IF parts[1] = <<>> THEN "UNKNOWN" ELSE parts[1][1],
            id |-> parts[2], origin |-> parts[3], ttl |-> ParseInt(parts[4]), key |-> parts[5],
            value |-> IF Len(parts) >= 6 THEN Last(parts) ELSE <<>>]

\* Message::from_wire, Dropped for nullopt.
FromWire(text) ==
  LET parts == Split(text)
  IN  IF Len(parts) < 5 THEN Dropped
      ELSE [type |-> IF parts[1] = <<>> THEN "UNKNOWN" ELSE parts[1][1],
            id |-> parts[2], origin |-> parts[3], ttl |-> ParseInt(parts[4]), key |-> parts[5],
            value |-> IF Len(parts) >= 6 THEN parts[6] ELSE <<>>]

\* What handle_data, handle_content_bloom and handle_query_bloom take from a
\* message that passes their checks.
Handled(m) ==
  IF m = Dropped \/ m.origin = <<>> \/ m.key = <<>>
     \/ (m.type = "DATA" /\ m.id = <<>>) \/ (m.type # "CBF" /\ m.ttl <= 0)
  THEN Dropped
  ELSE CASE m.type = "DATA" -> [type |-> "DATA", key |-> m.key, value |-> m.value]
         [] m.type = "CBF" /\ FromHex(m.key) # <<>> ->
              [type |-> "CBF", filter |-> FromHex(m.key)]
         [] m.type = "QBF" /\ FromHex(m.key) # <<>> /\ ParseUint64(m.value) >= 0 ->
              [type |-> "QBF", filter |-> FromHex(m.key), created |-> ParseUint64(m.value)]
         [] OTHER -> Dropped

\* recvfrom fills the buffer and drops the rest.
Cut(text) == SubSeq(text, 1, IF Len(text) <= limit THEN Len(text) ELSE limit)

Receive ==
  /\ datagram # Nothing /\ received = Nothing
  /\ received' = Handled(FromWire(Cut(datagram.text)))
  /\ UNCHANGED <<limit, bytes, message, datagram>>

Next ==
  \/ \E l \in Limits, n \in FilterSizes : \E m \in Messages(n) : SendTo(l, n, m)
  \/ Receive

Spec == Init /\ [][Next]_vars

-----------------------------------------------------------------------------
TypeOK ==
  /\ limit \in Limits \cup {0} /\ bytes \in FilterSizes \cup {0}
  /\ received.type \in {"nothing", "dropped", "DATA", "CBF", "QBF"}

Fits == Len(ToWire(message)) <= limit

\* The message up to the key and its separator fits into the buffer.
KeyFits == Len(ToWire(message)) - Len(message.value) <= limit

\* A text up to its first separator.
UpToBar(text) ==
  LET bar == SelectInSeq(text, LAMBDA u : u = "|")
  IN  IF bar = 0 THEN text ELSE SubSeq(text, 1, bar - 1)

(***************************************************************************)
(* A value may be cut off, by a separator in it or by the receive buffer,  *)
(* but never altered, and never stored under another key: for a key        *)
(* without separator that fits, handle_data stores the key and a prefix of *)
(* the value, all of it if it fits and has no separator.                   *)
(***************************************************************************)
DataIsPrefix ==
  received.type = "DATA" /\ KeyFits /\ "|" \notin ToSet(message.key) =>
    /\ message.type = "DATA"
    /\ received.key = message.key
    /\ IsPrefix(received.value, message.value)
    /\ Fits => received.value = UpToBar(message.value)

(***************************************************************************)
(* Filters are never altered on the way: a filter that is cut off is       *)
(* rejected, because from_hex insists on the exact length (a missing half  *)
(* byte would be a false negative), a filter that fits is accepted, and a  *)
(* Query-BF whose stamp is cut off only looks older, so that the receiver  *)
(* drops it as expired and never keeps it longer.                          *)
(***************************************************************************)
FiltersAreIntact ==
  /\ received.type \in {"CBF", "QBF"} =>
       /\ message.type = received.type
       /\ ToHex(received.filter) = message.key
  /\ received.type = "QBF" => received.created <= ParseUint64(message.value)
  /\ received # Nothing /\ Fits /\ message.type # "DATA" => received.type = message.type
=============================================================================
