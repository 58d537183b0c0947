----------------------------- MODULE MqttSession -----------------------------
(***************************************************************************)
(* The MQTT clients of the server (internal/mqtt/handler.go) and of the    *)
(* vehicles (cmd/simulator): clean session, automatic reconnect, one       *)
(* Subscribe after the first connect, everything published at QoS 1.       *)
(*                                                                         *)
(* The library keeps a publish until it is acknowledged and sends it again *)
(* after a reconnect; it does not subscribe again, and the broker forgets  *)
(* a clean session with its link.  What the broker does with a packet is   *)
(* left to the module that extends this one.                               *)
(***************************************************************************)
EXTENDS Sequences

CONSTANTS
  Clients,
  Outages     \* TRUE: links fail

VARIABLES
  link,         \* link[c]: the connection of client c
  subscribed,   \* subscribed[c]: the broker knows c's subscriptions
  outbox        \* outbox[c]: what c has published, not yet acknowledged

sessionVars == <<link, subscribed, outbox>>

\* NewHandler and ConnectMQTT: connected, subscribed once, first packets out.
SessionInit(first) ==
  /\ link = [c \in Clients |-> "up"]
  /\ subscribed = [c \in Clients |-> TRUE]
  /\ outbox = first

Publish(c, packets) ==
  /\ outbox' = [outbox EXCEPT ![c] = @ \o packets]
  /\ UNCHANGED <<link, subscribed>>

Unacknowledged(c) == outbox[c] # <<>>

\* The broker acknowledges the oldest packet of c.
Acknowledge(c) ==
  /\ link[c] = "up"
  /\ Unacknowledged(c)
  /\ outbox' = [outbox EXCEPT ![c] = Tail(@)]
  /\ UNCHANGED <<link, subscribed>>

Disconnect(c) ==
  /\ Outages
  /\ link[c] = "up"
  /\ link' = [link EXCEPT ![c] = "down"]
  /\ subscribed' = [subscribed EXCEPT ![c] = FALSE]
  /\ UNCHANGED outbox

\* A mutant of Reconnect: a client that lost its session gives up.
MutReconnect(c) ==
  /\ link[c] = "down"
  /\ subscribed[c]
  /\ link' = [link EXCEPT ![c] = "up"]
  /\ UNCHANGED <<subscribed, outbox>>

\* SetAutoReconnect; nothing subscribes again.
Reconnect(c) ==
  /\ link[c] = "down"
  /\ link' = [link EXCEPT ![c] = "up"]
  /\ UNCHANGED <<subscribed, outbox>>

=============================================================================
