--------------------------- MODULE Configuration ---------------------------
(***************************************************************************)
(* src/netos/core/config.cpp and config_validation.cpp, the start of a     *)
(* node in main.cpp, and the topology reload thread of node.cpp: settings  *)
(* come from the environment, else from a file that may change or vanish   *)
(* at any time, else from a default.                                       *)
(***************************************************************************)
EXTENDS Integers, Sequences, SequencesExt

CONSTANTS
  IntBits,      \* the width of an int, scaled
  SizeBits,     \* the width of size_t, scaled
  MaxBytes,     \* the largest vector that can be allocated, scaled
  Numbers,      \* numbers that a setting may be given
  Lists,        \* neighbor lists that NETOS_NEIGHBORS may be given
  MaxRewrites   \* bound on the changes of the file

VARIABLES
  env,        \* the environment of the process
  file,       \* external: the config file
  rewrites,   \* bound: changes of the file so far
  phase,      \* of the process
  config,     \* config_
  topology,   \* network_.topology_
  seen        \* ghost: the settings that loads have found

vars == <<env, file, rewrites, phase, config, topology, seen>>

-----------------------------------------------------------------------------
(* Settings and their texts.                                               *)

PositiveSetting == {
  "request_ttl", "query_ttl_ms", "sync_table_capacity",
  "content_bf_bits", "content_bf_hashes", "content_bf_exchange_ms",
  "content_bf_ttl_ms", "content_bf_fallback_ms", "query_bf_bits",
  "query_bf_hashes", "query_bf_aggregation_ms", "query_bf_ttl_ms",
  "broadcast_attempt_limit", "broadcast_window_ms", "forward_workers",
  "forward_queue_max" }
NaturalSetting == {"request_delay_ms", "query_bf_max_keys", "topology_reload_ms"}
PortSetting == {"bind_port"}
IntSetting == PositiveSetting \cup NaturalSetting \cup PortSetting

\* The old name of query_bf_aggregation_ms, query_bf_max_fill_ratio in
\* percent, and the policy of the forward queue.
Setting == IntSetting \cup {"aggregation_window_ms", "max_fill_ratio", "drop_policy"}

Default == [
  request_ttl |-> 3, query_ttl_ms |-> 1500, sync_table_capacity |-> 128,
  content_bf_bits |-> 512, content_bf_hashes |-> 3,
  content_bf_exchange_ms |-> 1000, content_bf_ttl_ms |-> 3000,
  content_bf_fallback_ms |-> 300, query_bf_bits |-> 1024, query_bf_hashes |-> 4,
  query_bf_ttl_ms |-> 2000, broadcast_attempt_limit |-> 3,
  broadcast_window_ms |-> 1000, forward_workers |-> 1, forward_queue_max |-> 1024,
  request_delay_ms |-> 800, query_bf_max_keys |-> 0, topology_reload_ms |-> 0,
  bind_port |-> 9000, aggregation_window_ms |-> 200, max_fill_ratio |-> 90 ]

\* A text: missing or empty, a number, "nan", or anything else.
Unset == [kind |-> "unset", n |-> 0]
NaN == [kind |-> "nan", n |-> 0]
Number(n) == [kind |-> "number", n |-> n]
Text == {Unset, NaN, [kind |-> "other", n |-> 0]} \cup {Number(n) : n \in Numbers}

\* A source of settings: bound to one setting, or the period of the reload
\* thread and the neighbors; the rest is unset.
Source ==
  [setting : Setting, text : Text, neighbors : {<<>>}]
  \cup [setting : {"topology_reload_ms"}, text : Text, neighbors : Lists]
NoSource == [setting |-> "bind_port", text |-> Unset, neighbors |-> <<>>]
Missing == [setting |-> "missing"]

TextOf(source, s) == IF source.setting = s THEN source.text ELSE Unset

-----------------------------------------------------------------------------
(* load_config                                                             *)

\* load_env_file: a file that cannot be opened gives no settings.
Read(f) == IF f = Missing THEN NoSource ELSE f

\* Mutant: the file goes first.
MutGetSetting(e, f, s) == IF TextOf(f, s) # Unset THEN TextOf(f, s) ELSE TextOf(e, s)

\* get_setting
GetSetting(e, f, s) == IF TextOf(e, s) # Unset THEN TextOf(e, s) ELSE TextOf(f, s)

\* static_cast<int> of a long
ToInt(n) == ((n + 2^(IntBits - 1)) % 2^IntBits) - 2^(IntBits - 1)

\* get_setting_int: text that is not a number gives the fallback.
GetSettingInt(e, f, s, fallback) ==
  LET text == GetSetting(e, f, s)
  IN  IF text.kind = "number" THEN ToInt(text.n) ELSE fallback

\* get_setting_double; strtod reads "nan".
GetSettingDouble(e, f, s) ==
  LET text == GetSetting(e, f, s)
  IN  IF text.kind \in {"number", "nan"} THEN text ELSE Number(Default[s])

\* The parts of NETOS_NEIGHBORS that have a host and a positive port.
Usable(neighbor) == neighbor.host # "" /\ ToInt(neighbor.port) > 0

ParseNeighbors(list) ==
  FoldLeft(LAMBDA kept, n : IF Usable(n) THEN Append(kept, [host |-> n.host, port |-> ToInt(n.port)])
                            ELSE kept,
           <<>>, list)

LoadConfig(e, f) ==
  LET fallback(s) ==
        IF s = "query_bf_aggregation_ms"
        THEN GetSettingInt(e, f, "aggregation_window_ms", Default["aggregation_window_ms"])
        ELSE Default[s]
  IN  [ints |-> [s \in IntSetting |-> GetSettingInt(e, f, s, fallback(s))],
       max_fill_ratio |-> GetSettingDouble(e, f, "max_fill_ratio"),
       drop_newest |-> GetSetting(e, f, "drop_policy") = Unset,
       neighbors |-> ParseNeighbors(IF e.neighbors # <<>> THEN e.neighbors ELSE f.neighbors)]

-----------------------------------------------------------------------------
(* validate_config                                                         *)

Port == 1..65535

PositiveOK(c) == \A s \in PositiveSetting : c.ints[s] > 0

\* A comparison with nan is false, so nan passes.
RatioOK(c) == ~(c.max_fill_ratio.n < 0 \/ c.max_fill_ratio.n > 100)

\* Mutant: no upper bound.
MutNeighborsOK(c) == \A i \in 1..Len(c.neighbors) : c.neighbors[i].port > 0

NeighborsOK(c) == \A i \in 1..Len(c.neighbors) : c.neighbors[i].port \in Port

ValidateConfig(c) ==
  /\ PositiveOK(c)
  /\ \A s \in NaturalSetting : c.ints[s] >= 0
  /\ \A s \in PortSetting : c.ints[s] \in Port
  /\ RatioOK(c)
  /\ c.drop_newest
  /\ NeighborsOK(c)

-----------------------------------------------------------------------------
(* The process.                                                            *)

NotLoaded == [neighbors |-> <<>>]

Init ==
  /\ env = NoSource /\ file = Missing /\ rewrites = 0
  /\ phase = "off"
  /\ config = NotLoaded
  /\ topology = <<>>
  /\ seen = {}

\* Mutant: the sum is not reduced to size_t.
MutFilterBytes(bits) == ((bits % 2^SizeBits) + 7) \div 8

\* BloomFilter's constructor: the bytes of a filter, in size_t.
FilterBytes(bits) == (((bits % 2^SizeBits) + 7) % 2^SizeBits) \div 8

\* Node::Node makes the tables before Node::init validates their sizes: the
\* local Content-BF of a negative size cannot be allocated.
Constructs(c) == FilterBytes(c.ints["content_bf_bits"]) <= MaxBytes

\* RedisClient::connect fails, and Node::init with it.
ConnectFails == phase' = "no_redis" /\ UNCHANGED topology

\* Node::init installs the topology; Node::run goes on when UdpTransport::start
\* gets its socket and can bind it.
Start ==
  /\ phase' \in {"running", "no_socket"}
  /\ topology' = config'.neighbors

\* main: load_config (a failed load is only logged), Node::Node, Node::init
\* (validate_config first), Node::run.
Boot(e, f) ==
  /\ phase = "off"
  /\ env' = e /\ file' = f
  /\ seen' = {Read(f)}
  /\ config' = LoadConfig(e, Read(f))
  /\ \/ /\ ~Constructs(config')
        /\ phase' = "aborted" /\ UNCHANGED topology
     \/ /\ Constructs(config') /\ ~ValidateConfig(config')
        /\ phase' = "refused" /\ UNCHANGED topology
     \/ /\ Constructs(config') /\ ValidateConfig(config')
        /\ ConnectFails \/ Start
  /\ UNCHANGED rewrites

\* The file is changed, removed or created, or half of it is written.  Only
\* its neighbors will be used, by a thread that must have been started.
Rewrite(f) ==
  /\ phase = "running" /\ rewrites < MaxRewrites
  /\ config.ints["topology_reload_ms"] > 0
  /\ Read(f).text = Unset
  /\ file' = f /\ rewrites' = rewrites + 1
  /\ UNCHANGED <<env, phase, config, topology, seen>>

\* Mutant: a failed load is treated as at the start.
MutReloadable == TRUE

\* The load succeeded.
Reloadable == file # Missing

\* One round of start_topology_reload: neither validate_config nor any other
\* setting takes part.
Reload ==
  /\ phase = "running" /\ config.ints["topology_reload_ms"] > 0
  /\ Reloadable
  /\ topology' = LoadConfig(env, Read(file)).neighbors
  /\ seen' = IF file # Missing THEN seen \cup {file} ELSE seen
  /\ UNCHANGED <<env, file, rewrites, phase, config>>

\* Files with settings that compete with, or complete, those of a source.
FilesFor(e) ==
  {f \in Source : f.setting \in
     {e.setting} \cup (IF e.setting = "query_bf_aggregation_ms"
                       THEN {"aggregation_window_ms"} ELSE {})}
  \cup {Missing}

Next ==
  \/ phase = "off" /\ \E e \in Source : \E f \in FilesFor(e) : Boot(e, f)
  \/ \E f \in FilesFor(env) : Rewrite(f)
  \/ Reload

Spec == Init /\ [][Next]_vars
-----------------------------------------------------------------------------
Neighbor == [host : STRING, port : Int]

TypeOK ==
  /\ env \in Source \cup {NoSource} /\ file \in Source \cup {Missing}
  /\ phase \in {"off", "aborted", "refused", "no_redis", "no_socket", "running"}
  /\ phase # "off" =>
       \A s \in IntSetting : config.ints[s] \in -(2^(IntBits - 1))..(2^(IntBits - 1) - 1)
  /\ rewrites \in 0..MaxRewrites

(***************************************************************************)
(* An environment that gives a readable number decides, whatever the file  *)
(* says; and one that gives an unreadable text hides the file's number, so *)
(* that the default is used.                                               *)
(***************************************************************************)
EnvironmentDecides ==
  phase # "off" /\ env.setting \in IntSetting \ {"query_bf_aggregation_ms"} =>
    /\ env.text.kind = "number" => config.ints[env.setting] = ToInt(env.text.n)
    /\ env.text.kind \in {"other", "nan"} => config.ints[env.setting] = Default[env.setting]

(***************************************************************************)
(* Settings that cannot be used are reported by validate_config, with one  *)
(* exception: a content_bf_bits of -8 or less ends the process before, in  *)
(* the constructor of Node.                                                *)
(***************************************************************************)
InvalidIsReported ==
  /\ phase = "aborted" => config.ints["content_bf_bits"] <= -8
  /\ phase \notin {"off", "aborted", "refused"} => ValidateConfig(config)

(***************************************************************************)
(* The reload thread never leaves a node with neighbors that no file gave: *)
(* the topology always comes from a file that could be read (or from the   *)
(* start of the node), so that a file that is missing for a while changes  *)
(* nothing, and every neighbor has a host and a positive port.             *)
(***************************************************************************)
TopologyWasGiven ==
  phase = "running" =>
    /\ \E f \in seen : topology = LoadConfig(env, f).neighbors
    /\ \A i \in 1..Len(topology) : topology[i].host # "" /\ topology[i].port > 0

(***************************************************************************)
(* The reload thread does not run validate_config, and this is what gets   *)
(* past it: a running node has a neighbor with a port that is not one only *)
(* if its file was changed after the start, and never if the environment   *)
(* gives the neighbors.  At the start every neighbor is validated, and a   *)
(* round on the file as it was then changes nothing.                       *)
(***************************************************************************)
UncheckedNeedsRewrite ==
  phase = "running" /\ (\E i \in 1..Len(topology) : topology[i].port \notin Port) =>
    rewrites > 0 /\ env.neighbors = <<>>
=============================================================================
