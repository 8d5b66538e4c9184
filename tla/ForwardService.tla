--------------------------- MODULE ForwardService ---------------------------
(***************************************************************************)
(* What the forwarding queue promises its callers, without threads, locks  *)
(* or a queue: every message handed over is, once, either attempted on the *)
(* network or dropped, it is dropped only when Capacity accepted messages  *)
(* are still waiting, the caller of a direct send hears of the outcome     *)
(* exactly once, and no message is kept forever.                           *)
(***************************************************************************)
EXTENDS Naturals, FiniteSets

CONSTANTS
  Item,        \* the messages
  Direct,      \* those sent with send_direct: they have an on_failure callback
  Notified,    \* direct sends that have an on_success callback too
  Capacity     \* max_depth

VARIABLES
  status,      \* where a message is
  callback     \* which callback of a message has run

svars == <<status, callback>>

Waiting == {i \in Item : status[i] = "accepted"}

SInit ==
  /\ status = [i \in Item |-> "idle"]
  /\ callback = [i \in Item |-> "none"]

Submit(i) ==
  /\ status[i] = "idle"
  /\ status' = [status EXCEPT ![i] = "submitted"]
  /\ UNCHANGED callback

Accept(i) ==
  /\ status[i] = "submitted"
  /\ status' = [status EXCEPT ![i] = "accepted"]
  /\ UNCHANGED callback

Fail(i) == callback' = [callback EXCEPT ![i] = IF i \in Direct THEN "failure" ELSE @]

Drop(i) ==
  /\ status[i] = "submitted"
  /\ Cardinality(Waiting) >= Capacity
  /\ status' = [status EXCEPT ![i] = "dropped"]
  /\ Fail(i)

Attempt(i) ==
  /\ status[i] \in {"submitted", "accepted"}
  /\ status' = [status EXCEPT ![i] = "attempted"]
  /\ \/ callback' = [callback EXCEPT ![i] = IF i \in Notified THEN "success" ELSE @]
     \/ Fail(i)

Resolve(i) == Drop(i) \/ Attempt(i)

SNext == \E i \in Item : Submit(i) \/ Accept(i) \/ Resolve(i)

SSpec == SInit /\ [][SNext]_svars /\ \A i \in Item : WF_svars(Resolve(i))
=============================================================================
