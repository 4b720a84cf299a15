-------------------------- MODULE GatewayCommands --------------------------
(***************************************************************************)
(* The gateway's handling of client commands (claim_approve/AtlasApprove,  *)
(* the command lists of device/AtlasDevice, the DeviceCommand, GatewayMisc *)
(* and Owner tables of sql/AtlasSQLite) and of its registration with the   *)
(* cloud (cloud/AtlasRegisterCloud, cloud/AtlasCloudCmdParser).            *)
(*                                                                         *)
(* The gateway runs every handler on one scheduler thread, so one handler  *)
(* is one action.  The tables survive a restart, the rest does not.        *)
(***************************************************************************)
EXTENDS AtlasChannels

CONSTANTS PushRetryNo,   \* ATLAS_PUSH_COMMAND_RETRY_NO
          AckRetryNo,    \* ATLAS_STATUS_COMMAND_RETRY_NO
          StraySeqs,     \* what execCmds_.front() reads from an empty list
          SqlWritesFail  \* may a single SQLite write fail?

ASSUME GatewayAssumption ==
  /\ PushRetryNo \in Nat
  /\ AckRetryNo \in Nat \ {0}
  /\ StraySeqs \subseteq Nat
  /\ SqlWritesFail \in BOOLEAN

VARIABLES
  rows,              \* table DeviceCommand
  lastId,            \* its AUTOINCREMENT counter
  maxSequenceNumber, \* GatewayMisc.MaxSequenceNumber
  claimed,           \* is there a row in table Owner? (claimed_)
  sequenceNumber,    \* AtlasApprove::sequenceNumber_
  msgACKScheduled,   \* AtlasApprove::msgACKScheduled_
  counterACK,        \* AtlasApprove::counterACK_
  devices,           \* the keys of AtlasDeviceManager::devices_
  recvCmds,          \* AtlasDevice::recvCmds_, per device
  execCmds,          \* AtlasDevice::execCmds_ (sequence numbers), per device
  timeouts,          \* AtlasDevice::deviceCmdTimeouts_, per device
  devRegistered,     \* AtlasDevice::registered_, per device
  cloudRegistered,   \* AtlasRegisterCloud::registered_
  syncAlarm          \* is AtlasDeviceCloud::syncAlarm_ started?

tables == <<rows, lastId, maxSequenceNumber, claimed>>
approveVars == <<sequenceNumber, msgACKScheduled, counterACK>>
deviceVars == <<devices, recvCmds, execCmds, timeouts, devRegistered>>
cloudVars == <<cloudRegistered, syncAlarm>>
gatewayVars == <<tables, approveVars, deviceVars, cloudVars>>

Row == [id : SeqNo, seq : SeqNo, dev : Devices, exec : BOOLEAN]
RecvCmd == [seq : SeqNo, inProgress : BOOLEAN]

gatewayTypeOK ==
  /\ rows \subseteq Row
  /\ lastId \in Nat
  /\ maxSequenceNumber \in Nat
  /\ claimed \in BOOLEAN
  /\ sequenceNumber \in Nat
  /\ msgACKScheduled \in BOOLEAN
  /\ counterACK \in 0 .. AckRetryNo
  /\ devices \subseteq Devices
  /\ recvCmds \in [Devices -> Seq(RecvCmd)]
  /\ execCmds \in [Devices -> Seq(SeqNo)]
  /\ timeouts \in [Devices -> 0 .. PushRetryNo]
  /\ devRegistered \in [Devices -> BOOLEAN]
  /\ cloudRegistered \in BOOLEAN
  /\ syncAlarm \in BOOLEAN

GatewayInit ==
  /\ rows = {}
  /\ lastId = 0
  /\ maxSequenceNumber = 0
  /\ claimed = FALSE
  /\ sequenceNumber = 0
  /\ msgACKScheduled = FALSE
  /\ counterACK = 0
  /\ devices = {}
  /\ recvCmds = [d \in Devices |-> <<>>]
  /\ execCmds = [d \in Devices |-> <<>>]
  /\ timeouts = [d \in Devices |-> 0]
  /\ devRegistered = [d \in Devices |-> FALSE]
  /\ cloudRegistered = FALSE
  /\ syncAlarm = FALSE

-----------------------------------------------------------------------------
(* Messages to the cloud.  tryPublishMessage answers true once the library *)
(* holds the message, and false when there is no connection.               *)

Publish(msgs) == toCloud' = IF IsConnected THEN Enqueue(toCloud, msgs) ELSE toCloud

\* AtlasDeviceCloud: a registered gateway sends its updates; the first that
\* cannot be published starts the sync alarm, which nothing stops.
Update(msgs) ==
  IF cloudRegistered
  THEN Publish(msgs) /\ syncAlarm' = (syncAlarm \/ ~IsConnected)
  ELSE UNCHANGED <<toCloud, syncAlarm>>

\* A REGISTER is followed by a full update of the devices and the gateway.
SendRegisterCmd ==
  /\ Publish(<<RegisterMsg, InfoMsg(claimed)>>)
  /\ cloudRegistered' = (cloudRegistered \/ IsConnected)
  /\ UNCHANGED syncAlarm

\* Seeded fault: the counter is not reset.
AckAttemptsNoReset == counterACK + 1

\* The counter restarts at 1, not at 0, after the last retry.
AckAttempts == IF counterACK = AckRetryNo THEN 1 ELSE counterACK + 1

ResponseCommandACK(seq) ==
  /\ Publish(<<AckMsg(seq)>>)
  /\ msgACKScheduled' = IF IsConnected THEN msgACKScheduled ELSE counterACK # AckRetryNo
  /\ counterACK' = IF IsConnected THEN counterACK ELSE AckAttempts

\* execCmds_.front(), which the code also reads when the list is empty.
ExecutedCommand(exec) == IF exec = <<>> THEN StraySeqs ELSE {exec[1]}

ResponseCommandDONE(d, exec) ==
  \E seq \in ExecutedCommand(exec) : Publish(<<DoneMsg(seq, d)>>)

-----------------------------------------------------------------------------
(* Pushing the first received command of a device d whose list is cmds:    *)
(* the list and the CoAP request that AtlasDevice::pushCommand leaves.     *)

CanPush(d, cmds) ==
  /\ cmds # <<>>
  /\ devRegistered[d]
  /\ ~cmds[1].inProgress

\* Seeded fault: the flag is never cleared.
SetInProgressStuck(cmds, b) == [cmds EXCEPT ![1].inProgress = TRUE]

SetInProgress(cmds, b) == [cmds EXCEPT ![1].inProgress = b]

Pushed(d, cmds) == IF CanPush(d, cmds) THEN SetInProgress(cmds, TRUE) ELSE cmds

PushedReqs(d, cmds) ==
  IF CanPush(d, cmds) THEN {[dev |-> d, seq |-> cmds[1].seq, live |-> TRUE]} ELSE {}

PushCommand(d, cmds) ==
  /\ recvCmds' = [recvCmds EXCEPT ![d] = Pushed(d, cmds)]
  /\ reqs' = reqs \cup PushedReqs(d, cmds)

\* Seeded fault: the request is not erased after its callback.
ForgetNothing(d) == reqs

\* The requests of d nobody waits for any more, and their answers.
Forget(d) == {IF q.dev = d THEN [q EXCEPT !.live = FALSE] ELSE q : q \in reqs}
ForgetResps(d) == {r \in resps : r.dev # d}

-----------------------------------------------------------------------------
(* SQLite.  Every write commits on its own and, with SqlWritesFail, fails  *)
(* on its own.                                                             *)

CheckDeviceCommandBySeqNo(seq) == \E r \in rows : r.seq = seq
CheckDeviceCommandForExecution(seq) == \E r \in rows : r.seq = seq /\ r.exec

\* Seeded fault: the row is not written.
InsertRowSkipped(m) == lastId' = lastId + 1 /\ UNCHANGED rows

InsertRow(m) ==
  /\ lastId' = lastId + 1
  /\ rows' = rows \cup {[id |-> lastId + 1, seq |-> m.seq, dev |-> m.dev, exec |-> FALSE]}

\* Seeded fault: the update matches no row.
MarkExecutedNothing(seq) == UNCHANGED rows

MarkExecutedDeviceCommand(seq) ==
  rows' = {IF r.seq = seq THEN [r EXCEPT !.exec = TRUE] ELSE r : r \in rows}

\* Seeded fault: DELETE without its WHERE clause.
DeleteEverything(seq) == rows' = {}

DeleteDeviceCommand(seq) == rows' = {r \in rows : r.seq # seq}

\* The lists that name each member of a set once, for a set of at most n.
Listings(S, n) == UNION {Bijection(1 .. k, S) : k \in 0 .. n}

\* Seeded fault: the rows come in any order.
InAnyOrder(S) == Listings(S, lastId)

\* A set of rows in the order of their ids, the order selectDeviceCommand
\* meets them in; each row has an id of its own, at most lastId.
InIdOrder(S) ==
  {l \in Listings(S, lastId) : \A i, j \in DOMAIN l : i < j => l[i].id < l[j].id}

-----------------------------------------------------------------------------
(* A client command from the cloud.                                        *)

\* A claimed gateway validates the owner's HMAC, an unclaimed one does not.
Authorised(m) == claimed => m.signed

\* Seeded fault: the last command is not old.
IsOldCommandStrict(m) == m.seq < sequenceNumber

IsOldCommand(m) == m.seq <= sequenceNumber

\* The command is in the table: DONE if it was executed, ACK otherwise.
HandleOldCommand(m) ==
  /\ UNCHANGED <<tables, recvCmds, execCmds, timeouts, devRegistered, cloudVars, reqs, resps>>
  /\ IF ~CheckDeviceCommandBySeqNo(m.seq)
     THEN UNCHANGED <<toCloud, approveVars, devices>>
     ELSE /\ sequenceNumber' = m.seq
          /\ IF CheckDeviceCommandForExecution(m.seq)
             THEN /\ devices' = devices \cup {m.dev}
                  /\ ResponseCommandDONE(m.dev, execCmds[m.dev])
                  /\ UNCHANGED <<msgACKScheduled, counterACK>>
             ELSE /\ ResponseCommandACK(m.seq)
                  /\ UNCHANGED devices

\* insertDeviceCommand stores the row, then the highest sequence number; when
\* the second statement fails the row stays and the command is refused.
RefuseNewCommand(m) ==
  /\ SqlWritesFail
  /\ devices' = devices \cup {m.dev}
  /\ \/ UNCHANGED <<rows, lastId>>
     \/ InsertRow(m)
  /\ UNCHANGED <<maxSequenceNumber, claimed, approveVars, recvCmds, execCmds, timeouts,
                 devRegistered, cloudVars, toCloud, reqs, resps>>

NewRecvCmd(m) == [seq |-> m.seq, inProgress |-> FALSE]

\* Store, acknowledge, and push at once if the ACK could be published.
StoreNewCommand(m) ==
  LET cmds == Append(recvCmds[m.dev], NewRecvCmd(m))
  IN  /\ InsertRow(m)
      /\ maxSequenceNumber' = m.seq
      /\ sequenceNumber' = m.seq
      /\ devices' = devices \cup {m.dev}
      /\ ResponseCommandACK(m.seq)
      /\ IF IsConnected
         THEN PushCommand(m.dev, cmds)
         ELSE recvCmds' = [recvCmds EXCEPT ![m.dev] = cmds] /\ UNCHANGED reqs
      /\ UNCHANGED <<claimed, execCmds, timeouts, devRegistered, cloudVars, resps>>

HandleClientCommand(m) ==
  \/ ~Authorised(m) /\ UNCHANGED <<gatewayVars, toCloud, reqs, resps>>
  \/ Authorised(m) /\ IsOldCommand(m) /\ HandleOldCommand(m)
  \/ Authorised(m) /\ ~IsOldCommand(m) /\ RefuseNewCommand(m)
  \/ Authorised(m) /\ ~IsOldCommand(m) /\ StoreNewCommand(m)

-----------------------------------------------------------------------------
(* The cloud acknowledged a DONE.  The next DONE is sent whether or not    *)
(* the list still holds a command.                                         *)

DoneAckMatches(m) == execCmds[m.dev] # <<>> /\ execCmds[m.dev][1] = m.seq

HandleCommandDoneAck(m) ==
  /\ devices' = devices \cup {m.dev}
  /\ \/ /\ DoneAckMatches(m)
        /\ DeleteDeviceCommand(m.seq)
        /\ execCmds' = [execCmds EXCEPT ![m.dev] = Tail(@)]
        /\ ResponseCommandDONE(m.dev, Tail(execCmds[m.dev]))
     \/ /\ ~DoneAckMatches(m) \/ SqlWritesFail
        /\ UNCHANGED <<rows, execCmds, toCloud>>
  /\ UNCHANGED <<lastId, maxSequenceNumber, claimed, approveVars, recvCmds, timeouts,
                 devRegistered, cloudVars, reqs, resps>>

\* REGISTER_REQUEST from the cloud.
ReqRegisterCmd ==
  /\ SendRegisterCmd
  /\ UNCHANGED <<tables, approveVars, deviceVars, reqs, resps>>

-----------------------------------------------------------------------------
(* The outcome of the request outstanding for device d.  The CoAP client   *)
(* calls the callback, then forgets the request.                           *)

Outstanding(d) == \E q \in reqs : q.dev = d /\ q.live

\* The request is over; what pushCommand(d) does with the list cmds follows.
CompleteAndPush(d, cmds) ==
  /\ recvCmds' = [recvCmds EXCEPT ![d] = Pushed(d, cmds)]
  /\ reqs' = Forget(d) \cup PushedReqs(d, cmds)
  /\ resps' = ForgetResps(d)

Complete(d, cmds) ==
  /\ recvCmds' = [recvCmds EXCEPT ![d] = cmds]
  /\ reqs' = Forget(d)
  /\ resps' = ForgetResps(d)

\* 2.xx: mark the row, move the command to the executed list, report DONE,
\* push the next one.  When the row cannot be marked, the list stays as it is.
CmdRespOK(d) ==
  LET head == recvCmds[d][1]
      exec == Append(execCmds[d], head.seq)
  IN  /\ [dev |-> d, ok |-> TRUE] \in resps
      /\ timeouts' = [timeouts EXCEPT ![d] = 0]
      /\ \/ /\ MarkExecutedDeviceCommand(head.seq)
            /\ execCmds' = [execCmds EXCEPT ![d] = exec]
            /\ ResponseCommandDONE(d, exec)
            /\ CompleteAndPush(d, Tail(recvCmds[d]))
         \/ /\ SqlWritesFail
            /\ CompleteAndPush(d, recvCmds[d])
            /\ UNCHANGED <<rows, execCmds, toCloud>>
      /\ UNCHANGED <<lastId, maxSequenceNumber, claimed, approveVars, devices,
                     devRegistered, cloudVars>>

\* 4.xx, RST or an unknown code: leave the command for the next alarm.
CmdRespError(d) ==
  /\ [dev |-> d, ok |-> FALSE] \in resps
  /\ timeouts' = [timeouts EXCEPT ![d] = 0]
  /\ Complete(d, SetInProgress(recvCmds[d], FALSE))
  /\ UNCHANGED <<tables, approveVars, devices, execCmds, devRegistered, cloudVars, toCloud>>

\* No answer within ATLAS_APPROVED_COMMAND_COAP_TIMEOUT_MS: try again at
\* once, PushRetryNo times, then leave the command for the next alarm.
CmdRespTimeout(d) ==
  LET cmds == SetInProgress(recvCmds[d], FALSE)
  IN  /\ Outstanding(d)
      /\ IF timeouts[d] = PushRetryNo
         THEN /\ timeouts' = [timeouts EXCEPT ![d] = 0]
              /\ Complete(d, cmds)
         ELSE /\ timeouts' = [timeouts EXCEPT ![d] = @ + 1]
              /\ CompleteAndPush(d, cmds)
      /\ UNCHANGED <<tables, approveVars, devices, execCmds, devRegistered, cloudVars, toCloud>>

\* The list cannot be empty when a request is outstanding
\* (CommandPath!OutstandingIsFront); the code checks all the same.
DeviceCmdRespCallback(d) ==
  IF recvCmds[d] = <<>>
  THEN /\ Outstanding(d)
       /\ Complete(d, <<>>)
       /\ UNCHANGED <<tables, approveVars, devices, execCmds, timeouts, devRegistered,
                      cloudVars, toCloud>>
  ELSE CmdRespOK(d) \/ CmdRespError(d) \/ CmdRespTimeout(d)

-----------------------------------------------------------------------------
(* Alarms.                                                                 *)

\* Seeded fault: DONE is not repeated.
NoDoneDevices == {}

DoneDevices == {d \in devices : execCmds[d] # <<>>}

\* Every 30 s, for each device in memory: push, and repeat the first DONE.
\* The order of the devices is that of a hash table.
AlarmCallback ==
  /\ recvCmds' = [d \in Devices |->
                    IF d \in devices THEN Pushed(d, recvCmds[d]) ELSE recvCmds[d]]
  /\ reqs' = reqs \cup UNION {PushedReqs(d, recvCmds[d]) : d \in devices}
  /\ \E order \in Listings(DoneDevices, Cardinality(Devices)) :
       Publish([i \in DOMAIN order |-> DoneMsg(execCmds[order[i]][1], order[i])])
  /\ UNCHANGED <<tables, approveVars, devices, execCmds, timeouts, devRegistered,
                 cloudVars, resps>>

\* Every 10 s while scheduled: repeat the ACK of the last command.
StatusACKCallback ==
  /\ msgACKScheduled
  /\ IF IsConnected
     THEN /\ Publish(<<AckMsg(sequenceNumber)>>)
          /\ msgACKScheduled' = FALSE
          /\ counterACK' = 0
     ELSE ResponseCommandACK(sequenceNumber)
  /\ UNCHANGED <<tables, sequenceNumber, deviceVars, cloudVars, reqs, resps>>

\* The keep-alive alarm while the gateway is not registered with the cloud.
\* (When it is, the alarm sends a KEEPALIVE, which changes nothing here.)
KeepaliveAlarm ==
  /\ ~cloudRegistered
  /\ IsConnected
  /\ SendRegisterCmd
  /\ UNCHANGED <<tables, approveVars, deviceVars, reqs, resps>>

\* Every 10 s once started: a full update.
SyncAlarmCallback ==
  /\ syncAlarm
  /\ cloudRegistered
  /\ Update(<<InfoMsg(claimed)>>)
  /\ UNCHANGED <<tables, approveVars, deviceVars, cloudRegistered, reqs, resps>>

-----------------------------------------------------------------------------
(* The connection to the broker.                                           *)

\* The reconnect alarm calls connect and the broker accepts.
Connect ==
  /\ link = "down"
  /\ link' = "up"
  /\ UNCHANGED <<gatewayVars, toCloud, toGateway, reqs, resps>>

\* AtlasRegisterCloud::onConnect, then AtlasCloudCmdParser::onConnect.
OnConnect ==
  /\ \/ link = "up" /\ link' = "ready"
     \/ link = "upLost" /\ link' = "lost"
  /\ IF cloudRegistered THEN UNCHANGED <<cloudVars, toCloud>> ELSE SendRegisterCmd
  /\ UNCHANGED <<tables, approveVars, deviceVars, toGateway, reqs, resps>>

\* Both listeners' onDisconnect; the reconnect alarm starts.
OnDisconnect ==
  /\ link = "lost"
  /\ link' = "down"
  /\ cloudRegistered' = FALSE
  /\ UNCHANGED <<tables, approveVars, deviceVars, syncAlarm, toCloud, toGateway, reqs, resps>>

-----------------------------------------------------------------------------
(* Devices register with the gateway, and are dropped when their           *)
(* keep-alives stop.  The content of the update is not modelled.           *)

RegisterNow(d) ==
  /\ devices' = devices \cup {d}
  /\ devRegistered' = [devRegistered EXCEPT ![d] = TRUE]
  /\ Update(<<>>)
  /\ UNCHANGED <<tables, approveVars, recvCmds, execCmds, timeouts, cloudRegistered, reqs, resps>>

KeepAliveExpired(d) ==
  /\ devRegistered[d]
  /\ devRegistered' = [devRegistered EXCEPT ![d] = FALSE]
  /\ Update(<<>>)
  /\ UNCHANGED <<tables, approveVars, devices, recvCmds, execCmds, timeouts, cloudRegistered,
                 reqs, resps>>

-----------------------------------------------------------------------------
(* The owner claims the gateway with the short code.                       *)

ClaimGateway ==
  /\ ~claimed
  /\ claimed' = TRUE
  /\ Update(<<InfoMsg(TRUE)>>)
  /\ UNCHANGED <<rows, lastId, maxSequenceNumber, approveVars, deviceVars, cloudRegistered,
                 reqs, resps>>

-----------------------------------------------------------------------------
(* The process ends and starts again.  A device's commands are read from   *)
(* the table when the device is first needed; until then its rows cannot   *)
(* change, so reading them all at the start is the same.                   *)

\* Seeded fault: executed commands are waiting again.
LoadRecvCmdsAll(d) ==
  {[i \in DOMAIN l |-> [seq |-> l[i].seq, inProgress |-> FALSE]] :
     l \in InIdOrder({r \in rows : r.dev = d})}

LoadRecvCmds(d) ==
  {[i \in DOMAIN l |-> [seq |-> l[i].seq, inProgress |-> FALSE]] :
     l \in InIdOrder({r \in rows : r.dev = d /\ ~r.exec})}

LoadExecCmds(d) ==
  {[i \in DOMAIN l |-> l[i].seq] : l \in InIdOrder({r \in rows : r.dev = d /\ r.exec})}

PerDevice(Lists(_)) ==
  {f \in [Devices -> UNION {Lists(d) : d \in Devices}] : \A d \in Devices : f[d] \in Lists(d)}

GetMaxSequenceNumber == maxSequenceNumber

Restart ==
  /\ sequenceNumber' = GetMaxSequenceNumber
  /\ msgACKScheduled' = FALSE
  /\ counterACK' = 0
  /\ devices' = {}
  /\ recvCmds' \in PerDevice(LoadRecvCmds)
  /\ execCmds' \in PerDevice(LoadExecCmds)
  /\ timeouts' = [d \in Devices |-> 0]
  /\ devRegistered' = [d \in Devices |-> FALSE]
  /\ cloudRegistered' = FALSE
  /\ syncAlarm' = FALSE
  /\ link' = "down"
  /\ toGateway' = <<>>
  /\ reqs' = {[q EXCEPT !.live = FALSE] : q \in reqs}
  /\ resps' = {}
  /\ UNCHANGED <<tables, toCloud>>
=============================================================================
