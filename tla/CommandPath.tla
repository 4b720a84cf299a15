---------------------------- MODULE CommandPath ----------------------------
(***************************************************************************)
(* The life of a client command across ATLAS: cloud, owner, gateway and    *)
(* IoT clients, over an MQTT link that breaks and loses messages and CoAP  *)
(* requests that get lost, delayed and duplicated, with a gateway process  *)
(* that may stop and start again at any moment.                            *)
(***************************************************************************)
EXTENDS GatewayCommands, ClientExecution, CloudCommands

CONSTANT MaxFaults       \* bound: broken links, lost messages and restarts

ASSUME MaxFaultsAssumption == MaxFaults \in Nat

VARIABLE faults          \* faults so far

vars == <<link, toCloud, toGateway, reqs, resps, gatewayVars, clientVars, cloudCmdVars, faults>>

Init ==
  /\ ChannelInit
  /\ GatewayInit
  /\ ClientInit
  /\ CloudInit
  /\ faults = 0

-----------------------------------------------------------------------------
(* MQTT delivery: AtlasCloudCmdParser::parseCmd at the gateway,            *)
(* AtlasGatewayServiceImpl.messageReceived at the cloud.                   *)

ParseCmd(m) ==
  \/ m.type = "CLIENT" /\ HandleClientCommand(m)
  \/ m.type = "DONE_ACK" /\ HandleCommandDoneAck(m)
  \/ m.type = "REGISTER_REQUEST" /\ ReqRegisterCmd

GatewayReceive ==
  /\ toGateway # <<>>
  /\ toGateway' = Tail(toGateway)
  /\ ParseCmd(Head(toGateway))
  /\ UNCHANGED <<link, clientVars, cloudCmdVars, faults>>

MessageReceived(m) ==
  \/ m.type = "REGISTER" /\ RegisterGatewayNow
  \/ m.type = "INFO" /\ UpdateGatewayCommand(m)
  \/ m.type = "ACK" /\ HandleClientCommandAck(m)
  \/ m.type = "DONE" /\ HandleClientCommandDone(m)

CloudReceive ==
  /\ toCloud # <<>>
  /\ toCloud' = Tail(toCloud)
  /\ MessageReceived(Head(toCloud))
  /\ UNCHANGED <<link, reqs, resps, gatewayVars, clientVars, faults>>

-----------------------------------------------------------------------------
(* The steps of each part on its own.                                      *)

GatewayDeviceStep(d) ==
  /\ \/ DeviceCmdRespCallback(d)
     \/ clientState[d] # "down" /\ RegisterNow(d)
  /\ UNCHANGED <<link, toGateway, clientVars, cloudCmdVars, faults>>

PushAlarm ==
  /\ AlarmCallback
  /\ UNCHANGED <<link, toGateway, clientVars, cloudCmdVars, faults>>

AckAlarm ==
  /\ StatusACKCallback
  /\ UNCHANGED <<link, toGateway, clientVars, cloudCmdVars, faults>>

RegisterAlarm ==
  /\ KeepaliveAlarm
  /\ UNCHANGED <<link, toGateway, clientVars, cloudCmdVars, faults>>

SyncAlarm ==
  /\ SyncAlarmCallback
  /\ UNCHANGED <<link, toGateway, clientVars, cloudCmdVars, faults>>

Claim ==
  /\ ClaimGateway
  /\ UNCHANGED <<link, toGateway, clientVars, cloudCmdVars, faults>>

LinkStep ==
  /\ Connect \/ OnConnect \/ OnDisconnect
  /\ UNCHANGED <<clientVars, cloudCmdVars, faults>>

ClientReceive ==
  /\ \E q \in reqs : ExecuteCommandCb(q)
  /\ UNCHANGED <<link, toCloud, toGateway, reqs, gatewayVars, cloudCmdVars, faults>>

ClientStep(d) ==
  /\ CommandExecutionAlarm(d) \/ Boot(d)
  /\ UNCHANGED <<link, toCloud, toGateway, reqs, resps, gatewayVars, cloudCmdVars, faults>>

AdministratorStep ==
  /\ \E d \in Devices : SendCommandToClient(d)
  /\ UNCHANGED <<link, toCloud, reqs, resps, gatewayVars, clientVars, faults>>

OwnerStep ==
  /\ \E approved \in BOOLEAN : SetOwnerCommandStatus(approved)
  /\ UNCHANGED <<link, toCloud, reqs, resps, gatewayVars, clientVars, faults>>

-----------------------------------------------------------------------------
(* Faults.                                                                 *)

\* The gateway loses its connection, and with it the newest messages.
Disconnect ==
  /\ \/ link = "up" /\ link' = "upLost"
     \/ link = "ready" /\ link' = "lost"
  /\ \E n \in 0 .. Len(toCloud) : toCloud' = SubSeq(toCloud, 1, n)
  /\ \E n \in 0 .. Len(toGateway) : toGateway' = SubSeq(toGateway, 1, n)
  /\ UNCHANGED <<reqs, resps, gatewayVars, clientVars, cloudCmdVars>>

\* The cloud misses the next message: it was not connected to the broker.
LoseToCloud ==
  /\ toCloud # <<>>
  /\ toCloud' = Tail(toCloud)
  /\ UNCHANGED <<link, toGateway, reqs, resps, gatewayVars, clientVars, cloudCmdVars>>

\* A stop inside a handler is the handler, or none of it, and then Restart;
\* its messages may be lost.  A stop between the two statements of
\* insertDeviceCommand is RefuseNewCommand (SqlWritesFail) and then Restart.
GatewayRestart ==
  /\ Restart
  /\ UNCHANGED <<clientVars, cloudCmdVars>>

\* The cloud lost its connection or did not hear from the gateway.
CloudInitGateway ==
  /\ InitGateway
  /\ UNCHANGED <<link, toCloud, reqs, resps, gatewayVars, clientVars>>

\* The gateway did not hear from a device.
DeviceExpired ==
  /\ \E d \in Devices : KeepAliveExpired(d)
  /\ UNCHANGED <<link, toGateway, clientVars, cloudCmdVars>>

Fault ==
  /\ faults < MaxFaults
  /\ faults' = faults + 1
  /\ Disconnect \/ LoseToCloud \/ GatewayRestart \/ CloudInitGateway \/ DeviceExpired

-----------------------------------------------------------------------------
Next ==
  \/ GatewayReceive
  \/ CloudReceive
  \/ \E d \in Devices : GatewayDeviceStep(d) \/ ClientStep(d)
  \/ PushAlarm
  \/ AckAlarm
  \/ RegisterAlarm
  \/ SyncAlarm
  \/ Claim
  \/ LinkStep
  \/ ClientReceive
  \/ AdministratorStep
  \/ OwnerStep
  \/ Fault

Spec == Init /\ [][Next]_vars

TypeOK ==
  /\ channelTypeOK
  /\ gatewayTypeOK
  /\ clientTypeOK
  /\ cloudTypeOK
  /\ faults \in 0 .. MaxFaults

-----------------------------------------------------------------------------
(* Properties.                                                             *)

Rows(seq) == {r \in rows : r.seq = seq}
State(seq) == transmitted[seq].state
Stored(seq) == Rows(seq) # {} \/ seq \in accepted

\* While the gateway waits for a CoAP answer from a device, the command it
\* sent is still the first of the device's received list and marked in
\* progress.  deviceCmdRespCallback applies the answer to recvCmds_.front()
\* without comparing: no push, alarm, timeout, error or restart in between
\* may have changed what the front is.
OutstandingIsFront ==
  /\ \A q \in reqs : q.live =>
       /\ recvCmds[q.dev] # <<>>
       /\ recvCmds[q.dev][1] = [seq |-> q.seq, inProgress |-> TRUE]
  /\ \A r \in resps : Outstanding(r.dev)

\* "if true, the command was sent to client" (AtlasCommandDevice.h): a
\* command in progress is the first of its list and the gateway waits for
\* the answer to it.  Otherwise pushCommand would skip it for ever.
InProgressIsOutstanding ==
  \A d \in Devices : \A i \in DOMAIN recvCmds[d] :
    recvCmds[d][i].inProgress => i = 1 /\ Outstanding(d)

\* The lists in memory hold exactly the rows of the table, each device's
\* unexecuted ones in recvCmds and executed ones in execCmds: what a restart
\* reads back is what the gateway was working on.
ListsMatchTable ==
  \A d \in Devices :
    /\ {recvCmds[d][i].seq : i \in DOMAIN recvCmds[d]} =
         {r.seq : r \in {x \in rows : x.dev = d /\ ~x.exec}}
    /\ Range(execCmds[d]) = {r.seq : r \in {x \in rows : x.dev = d /\ x.exec}}

\* A device executes and reports its commands in the order they were issued,
\* across restarts: executed, then waiting, the sequence numbers increase.
OrderPreserved ==
  \A d \in Devices :
    LET order == execCmds[d] \o [i \in DOMAIN recvCmds[d] |-> recvCmds[d][i].seq]
    IN  \A i, j \in DOMAIN order : i < j => order[i] < order[j]

\* handleOldCommand assigns sequenceNumber_ the number of an old command, and
\* start() reads it from the table: neither ever lowers it.
SequenceNumberNeverDecreases == [][sequenceNumber' >= sequenceNumber]_vars

\* A command is stored at most once: whatever the cloud sends again, a new
\* row is for a number above all stored before, one no client has accepted.
StoredOnce ==
  [][\A r \in rows' : r.id > lastId => r.seq > maxSequenceNumber /\ r.seq \notin accepted]_vars

\* handleClientCommandAck: a command the cloud shows as being delivered to
\* the client is in the gateway's table or was accepted by the client; no
\* restart or lost message makes an acknowledged command disappear.
AcknowledgedIsDurable ==
  \A seq \in DOMAIN transmitted : State(seq) = "DELIVERING_TO_CLIENT" => Stored(seq)

\* handleClientCommandDone: "Client command was executed by the client"
\* (AtlasClientCommandState.java) is only shown for a command that a client
\* answered with OK.
ExecutedIsAccepted ==
  \A seq \in DOMAIN transmitted : State(seq) = "EXECUTED" => seq \in accepted

\* A command the owner has not approved, or has rejected, is not in the
\* queue to the gateway, on its way there, in the gateway's table, or
\* accepted by a client.
OwnerDecides ==
  \A seq \in DOMAIN transmitted :
    State(seq) \in {"DELIVERING_TO_OWNER", "REJECTED"} =>
      /\ \A i \in DOMAIN pending : pending[i].seq # seq
      /\ \A i \in DOMAIN toGateway : toGateway[i].type = "CLIENT" => toGateway[i].seq # seq
      /\ ~Stored(seq)

\* handleOldCommand: "Check if the received command is already in db. This is
\* a case when the back-end cloud did not recevied the ACK for first sending
\* of this command" -- a command the cloud still has at the head of its queue
\* and the gateway takes for an old one is in the table.
ResentIsInDb ==
  pending # <<>> /\ pending[1].seq <= sequenceNumber => Rows(pending[1].seq) # {}

\* "Client command was executed by the client": once shown, the state stays.
ExecutedIsFinal ==
  [][\A seq \in DOMAIN transmitted : State(seq) = "EXECUTED" => State(seq)' = "EXECUTED"]_vars

-----------------------------------------------------------------------------
(* Fairness: the scheduler runs what is posted to it, the broker delivers, *)
(* the alarms are periodic.  An alarm fires again and again; that it also  *)
(* does so at moments when the channels have room makes up for their       *)
(* bound, which the real ones do not have.  Faults are not fair.           *)

Room(n) == Len(toCloud) + n <= MaxInFlight /\ Len(toGateway) < MaxInFlight

Fairness ==
  /\ WF_vars(GatewayReceive)
  /\ WF_vars(CloudReceive)
  /\ WF_vars(LinkStep)
  /\ SF_vars(Room(2) /\ RegisterAlarm)
  /\ SF_vars(Room(1) /\ PushAlarm)
  /\ SF_vars(Room(1) /\ AckAlarm)
  /\ WF_vars(OwnerStep)

FairSpec == Spec /\ Fairness

StableLink == <>[](link = "ready" /\ gatewayRegistered)

\* DONE is repeated until the cloud acknowledges it: on a link that in the
\* end stays up, the first executed command of a device in memory is retired
\* from the list (or the gateway restarts and forgets the device).
ExecutedIsRetired ==
  StableLink =>
    \A d \in Devices, seq \in 1 .. MaxCommands :
      (d \in devices /\ execCmds[d] # <<>> /\ execCmds[d][1] = seq)
        ~> (d \notin devices \/ execCmds[d] = <<>> \/ execCmds[d][1] # seq)

\* README: "If approved, the command will be transmitted to the gateway which
\* cryptographically validates the command and then transmits the command to
\* the IoT client device": on a link that in the end stays up, an approved
\* command reaches the gateway.
ApprovedIsDelivered ==
  StableLink =>
    \A seq \in 1 .. MaxCommands :
      (\E i \in DOMAIN pending : pending[i].seq = seq /\ pending[i].signed) ~> Stored(seq)
=============================================================================
