--------------------------- MODULE AtlasChannels ---------------------------
(***************************************************************************)
(* What the parts of ATLAS exchange on the way of a client command:        *)
(*                                                                         *)
(*   cloud   --toGateway-->  gateway      MQTT, through the broker         *)
(*   cloud   <--toCloud----  gateway      MQTT                             *)
(*   gateway --reqs------->  client       CoAP PUT over DTLS               *)
(*   gateway <--resps------  client       CoAP responses                   *)
(*                                                                         *)
(* MQTT is first-in first-out and delivers a message at most once: both    *)
(* ends connect with a clean session, so what is in flight when a          *)
(* connection breaks is gone (the loss is an action of CommandPath).  A    *)
(* CoAP request may be lost, delayed, and delivered more than once         *)
(* (confirmable messages are retransmitted); "live" says that the gateway  *)
(* still waits for the answer to it.                                       *)
(***************************************************************************)
EXTENDS Integers, Sequences, FiniteSets, Functions

CONSTANTS Devices,       \* identities of the IoT clients behind the gateway
          MaxInFlight    \* bound: messages in flight per MQTT direction

ASSUME ChannelAssumption == Cardinality(Devices) \in Nat /\ MaxInFlight \in Nat

VARIABLES link,          \* the gateway's MQTT connection, see below
          toCloud,       \* MQTT messages on their way to the cloud
          toGateway,     \* MQTT messages on their way to the gateway
          reqs,          \* copies of CoAP requests that may still arrive
          resps          \* answers to outstanding requests, in flight

SeqNo == Nat \ {0}

(***************************************************************************)
(* The connection and the callbacks it has posted to the scheduler:        *)
(*   down    not connected, onDisconnect ran, the reconnect alarm is set   *)
(*   up      connected, onConnect is posted and has not run                *)
(*   ready   connected, onConnect ran: the gateway is subscribed           *)
(*   upLost  connected and lost again before onConnect ran                 *)
(*   lost    not connected, onDisconnect is posted and has not run         *)
(***************************************************************************)
LinkStates == {"down", "up", "ready", "upLost", "lost"}

\* mqtt::async_client::is_connected
IsConnected == link \in {"up", "ready"}

RegisterMsg == [type |-> "REGISTER"]
InfoMsg(owned) == [type |-> "INFO", owner |-> owned]
AckMsg(seq) == [type |-> "ACK", seq |-> seq]
DoneMsg(seq, dev) == [type |-> "DONE", seq |-> seq, dev |-> dev]

InfoMsgs == [type : {"INFO"}, owner : BOOLEAN]
AckMsgs == [type : {"ACK"}, seq : Nat]
DoneMsgs == [type : {"DONE"}, seq : Nat, dev : Devices]
CloudBound == {RegisterMsg} \cup InfoMsgs \cup AckMsgs \cup DoneMsgs

RegisterRequestMsg == [type |-> "REGISTER_REQUEST"]
ClientMsg(cmd) ==
  [type |-> "CLIENT", seq |-> cmd.seq, dev |-> cmd.dev, signed |-> cmd.signed]
DoneAckMsg(seq, dev) == [type |-> "DONE_ACK", seq |-> seq, dev |-> dev]

ClientMsgs == [type : {"CLIENT"}, seq : SeqNo, dev : Devices, signed : BOOLEAN]
DoneAckMsgs == [type : {"DONE_ACK"}, seq : SeqNo, dev : Devices]
GatewayBound == {RegisterRequestMsg} \cup ClientMsgs \cup DoneAckMsgs

Request == [dev : Devices, seq : SeqNo, live : BOOLEAN]
Response == [dev : Devices, ok : BOOLEAN]

(***************************************************************************)
(* The channel ch after msgs are published on it.  What does not fit is    *)
(* dropped: a run covers the behaviours with at most MaxInFlight messages  *)
(* in flight per direction.                                                *)
(***************************************************************************)
Enqueue(ch, msgs) ==
  IF Len(ch) + Len(msgs) <= MaxInFlight THEN ch \o msgs ELSE ch

channelTypeOK ==
  /\ link \in LinkStates
  /\ toCloud \in Seq(CloudBound)
  /\ toGateway \in Seq(GatewayBound)
  /\ reqs \subseteq Request
  /\ resps \subseteq Response

ChannelInit ==
  /\ link = "down"
  /\ toCloud = <<>>
  /\ toGateway = <<>>
  /\ reqs = {}
  /\ resps = {}
=============================================================================
