------------------------------ MODULE MCNetOS ------------------------------
(***************************************************************************)
(* Instances of NetOS for TLC.                                             *)
(***************************************************************************)
EXTENDS NetOSProperties, TLC

CONSTANTS a, b, c, k1, k2, v1, v2, v3

\* Topologies.
Pair == (a :> {b}) @@ (b :> {a})
Line == (a :> {b}) @@ (b :> {a, c}) @@ (c :> {b})
Ring == (a :> {b}) @@ (b :> {c}) @@ (c :> {a})

\* Hop counts of these topologies.
Hops(topo) ==
  [x \in Node |-> [y \in Node |->
     IF x = y THEN 0 ELSE IF y \in topo[x] THEN 1 ELSE 2]]

PairHops == Hops(Pair)
LineHops == Hops(Line)
RingHops == [x \in Node |-> [y \in Node |-> IF x = y THEN 0 ELSE 1]]

NoReload == [n \in Node |-> {}]

\* A reload at b finds the same neighbors.
ReloadAtB == [n \in Node |-> IF n = b THEN {{a}} ELSE {}]

\* Reloads at both nodes of a pair.
ReloadPair == [n \in Node |-> {Node \ {n}}]

\* A reload at b turns its link around.
ReloadRing == [n \in Node |-> IF n = b THEN {{a}} ELSE {}]

\* v2 holds a separator: the receiver reads v3.
Wire == (v1 :> v1) @@ (v2 :> v3) @@ (v3 :> v3)

OneWire == (v1 :> v1)

Entry(k, v) == [key |-> k, value |-> v]

\* One key, held by one node.
SeedAtB == [n \in Node |-> IF n = b THEN <<Entry(k1, v1)>> ELSE <<>>]
SeedAtC == [n \in Node |-> IF n = c THEN <<Entry(k1, v1)>> ELSE <<>>]
OtherAtB == [n \in Node |-> IF n = b THEN <<Entry(k2, v2)>> ELSE <<>>]
TwoAtB == [n \in Node |-> IF n = b THEN <<Entry(k1, v1), Entry(k2, v2)>> ELSE <<>>]
OtherAtBHolderAtC ==
  [n \in Node |-> IF n = b THEN <<Entry(k2, v2)>>
                  ELSE IF n = c THEN <<Entry(k1, v1)>> ELSE <<>>]

AskAtA == [n \in Node |-> IF n = a THEN <<k1>> ELSE <<>>]
AskTwoAtA == [n \in Node |-> IF n = a THEN <<k1, k2>> ELSE <<>>]

\* Hash positions: apart, k2 inside k1 (a filter with k1 matches k2
\* as well), the reverse, or the same.
Apart == (k1 :> {1}) @@ (k2 :> {2})
Within == (k1 :> {1, 2}) @@ (k2 :> {2})
Around == (k1 :> {1}) @@ (k2 :> {1, 2})
Same == (k1 :> {1}) @@ (k2 :> {1})
Single == (k1 :> {1})

\* Messages with a missing or unreadable field.
Bad(t, i, o, ttl, k, v) ==
  [type |-> t, id |-> i, origin |-> o, ttl |-> ttl, key |-> k, value |-> v]

Malformed == {
  Bad("UNKNOWN", None, None, 0, None, None),
  Bad("REQ", None, a, 1, k1, None),
  Bad("REQ", <<b, 9>>, None, 1, k1, None),
  Bad("REQ", <<b, 9>>, a, 0, k1, None),
  Bad("REQ", <<b, 9>>, a, 1, None, None),
  Bad("DATA", None, a, 1, k2, v1),
  Bad("DATA", <<b, 9>>, None, 1, k2, v1),
  Bad("DATA", <<b, 9>>, a, 0, k2, v1),
  Bad("DATA", <<b, 9>>, a, 1, None, v1),
  Bad("CBF", None, None, 1, {1}, None),
  Bad("CBF", None, b, 1, Garbage, None),
  Bad("QBF", <<b, 9>>, None, 1, {1}, Stamp),
  Bad("QBF", <<b, 9>>, a, 0, {1}, Stamp),
  Bad("QBF", <<b, 9>>, a, 1, Garbage, Stamp),
  Bad("QBF", <<b, 9>>, a, 1, {1}, Garbage),
  Bad("QBF", <<b, 9>>, a, 1, {1}, None) }

NothingInjected == {}
=============================================================================
