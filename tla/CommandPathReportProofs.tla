---------------------- MODULE CommandPathReportProofs ----------------------
(***************************************************************************)
(* What the cloud shows about a command is true: EXECUTED means that a     *)
(* client accepted it, DELIVERING_TO_CLIENT that the gateway has it in its *)
(* table or a client accepted it.  The owner's decision binds, and the     *)
(* order of issue is the order in which commands travel, are stored, are   *)
(* executed and are read back.                                             *)
(***************************************************************************)
EXTENDS CommandPathSafetyProofs

\* Zenon proves what no pragma is cited for; arithmetic and sequences are for SMT.
USE Zenon

\* The messages to the cloud that are true now.  The gateway can publish a
\* report on command 0, which is none.
TrueDone == {m \in CloudBound : m.type = "DONE" => m.seq = 0 \/ m.seq \in accepted}
TrueAck == {m \in CloudBound : m.type = "ACK" => m.seq = 0 \/ Stored(m.seq)}

DoneInv ==
  /\ toCloud \in Seq(TrueDone)
  /\ ExecutedIsAccepted

AckInv ==
  /\ sequenceNumber = 0 \/ Stored(sequenceNumber)
  /\ maxSequenceNumber = 0 \/ Stored(maxSequenceNumber)
  /\ toCloud \in Seq(TrueAck)
  /\ AcknowledgedIsDurable

-----------------------------------------------------------------------------
(* How the state the cloud shows for a command changes.                    *)

\* A new state is one of before the delivery, or was reported by the message
\* the cloud has just received.
StateChange(seq, before, after) ==
  \/ after = before
  \/ after \in {"DELIVERING_TO_OWNER", "DELIVERING_TO_GATEWAY", "REJECTED"}
  \/ after = "EXECUTED" /\ toCloud # <<>> /\ toCloud[1].type = "DONE" /\ toCloud[1].seq = seq
  \/ after = "DELIVERING_TO_CLIENT" /\ toCloud # <<>> /\ toCloud[1].type = "ACK" /\ toCloud[1].seq = seq

\* handleClientCommandAck and handleClientCommandDone apply the message they
\* received; the administrator and the owner set the earlier states.
LEMMA StateStep ==
  TypeOK /\ [Next]_vars =>
    \A seq \in DOMAIN transmitted' :
      \/ seq \in DOMAIN transmitted /\ StateChange(seq, State(seq), State(seq)')
      \/ State(seq)' \in {"DELIVERING_TO_OWNER", "DELIVERING_TO_GATEWAY"}
\* Setting the state of one command changes no other.
<1>SetStateChange.
  ASSUME TypeOK, NEW n, NEW state \in CommandStates, SetState(n, state),
         StateChange(n, "", state)
  PROVE  \A seq \in DOMAIN transmitted' :
           seq \in DOMAIN transmitted /\ StateChange(seq, State(seq), State(seq)')
  <2> USE <1>SetStateChange
  <2>1. /\ DOMAIN transmitted' = DOMAIN transmitted
        /\ \A i \in DOMAIN transmitted :
             transmitted'[i].state = IF i = n THEN state ELSE transmitted[i].state
    BY SetStateType DEF TypeOK
  <2>2. state # ""
    BY DEF CommandStates
  <2>3. ASSUME NEW seq \in DOMAIN transmitted
        PROVE  StateChange(seq, transmitted[seq].state, transmitted'[seq].state)
    BY <2>1, <2>2 DEF StateChange
  <2> QED
    BY <2>1, <2>3 DEF State
<1> SUFFICES ASSUME TypeOK, [Next]_vars
             PROVE  \A seq \in DOMAIN transmitted' :
                      \/ seq \in DOMAIN transmitted /\ StateChange(seq, State(seq), State(seq)')
                      \/ State(seq)' \in {"DELIVERING_TO_OWNER", "DELIVERING_TO_GATEWAY"}
  OBVIOUS
<1>1. CASE transmitted' = transmitted
  BY <1>1 DEF StateChange, State
<1>2. CASE CloudReceive
  <2> DEFINE m == Head(toCloud)
  <2>1. MessageReceived(m) /\ toCloud # <<>> /\ m = toCloud[1]
    BY <1>2, FirstType DEF CloudReceive, TypeOK, channelTypeOK
  <2> HIDE DEF m
  <2>2. CASE m.type = "ACK" /\ HandleClientCommandAck(m)
    <3>1. CASE SetState(m.seq, "DELIVERING_TO_CLIENT")
      <4>1. "DELIVERING_TO_CLIENT" \in CommandStates
        BY DEF CommandStates
      <4>2. StateChange(m.seq, "", "DELIVERING_TO_CLIENT")
        BY <2>1, <2>2 DEF StateChange
      <4> QED
        BY <3>1, <4>1, <4>2, <1>SetStateChange
    <3> QED
      BY <1>1, <2>2, <3>1 DEF HandleClientCommandAck
  <2>3. CASE m.type = "DONE" /\ HandleClientCommandDone(m)
    <3>1. CASE SetState(m.seq, "EXECUTED")
      <4>1. "EXECUTED" \in CommandStates
        BY DEF CommandStates
      <4>2. StateChange(m.seq, "", "EXECUTED")
        BY <2>1, <2>3 DEF StateChange
      <4> QED
        BY <3>1, <4>1, <4>2, <1>SetStateChange
    <3> QED
      BY <1>1, <2>3, <3>1 DEF HandleClientCommandDone
  <2> QED
    BY <1>1, <2>1, <2>2, <2>3 DEF MessageReceived, RegisterGatewayNow, UpdateGatewayCommand
<1>3. CASE AdministratorStep
  <2>1. PICK d \in Devices, state \in {"DELIVERING_TO_OWNER", "DELIVERING_TO_GATEWAY"} :
          transmitted' = Append(transmitted, [dev |-> d, state |-> state])
    <3>1. PICK d \in Devices : SendCommandToClient(d)
      BY <1>3 DEF AdministratorStep
    <3> QED
      BY <3>1 DEF SendCommandToClient
  <2> DEFINE e == [dev |-> d, state |-> state]
  <2>2. e.state = state /\ transmitted' = Append(transmitted, e) /\ transmitted \in Seq(Transmitted)
    BY <2>1 DEF TypeOK, cloudTypeOK
  <2> HIDE DEF e
  <2>3. \A seq \in DOMAIN transmitted' :
          \/ seq \in DOMAIN transmitted /\ transmitted'[seq] = transmitted[seq]
          \/ transmitted'[seq] = e
    BY <2>2, SMT
  <2> QED
    BY <2>2, <2>3 DEF StateChange, State
<1>4. CASE OwnerStep
  <2>1. \E n : SetState(n, "DELIVERING_TO_GATEWAY") \/ SetState(n, "REJECTED")
    BY <1>4 DEF OwnerStep, SetOwnerCommandStatus, SendApprovedCommandToClient, MarkCommandAsRejected
  <2>2. /\ "DELIVERING_TO_GATEWAY" \in CommandStates
        /\ "REJECTED" \in CommandStates
    BY DEF CommandStates
  <2>3. \A n : StateChange(n, "", "DELIVERING_TO_GATEWAY") /\ StateChange(n, "", "REJECTED")
    BY DEF StateChange
  <2> QED
    BY <2>1, <2>2, <2>3, <1>SetStateChange
<1>5. CASE Fault
  BY <1>1, <1>5 DEF Fault, Disconnect, LoseToCloud, GatewayRestart, CloudInitGateway, InitGateway,
                    DeviceExpired, cloudCmdVars
<1>6. CASE GatewayReceive \/ PushAlarm \/ AckAlarm \/ RegisterAlarm \/ SyncAlarm \/ Claim \/ LinkStep
           \/ ClientReceive
  BY <1>1, <1>6 DEF GatewayReceive, PushAlarm, AckAlarm, RegisterAlarm, SyncAlarm, Claim, LinkStep,
                    ClientReceive, cloudCmdVars
<1>7. ASSUME NEW d \in Devices, GatewayDeviceStep(d) \/ ClientStep(d)
      PROVE  transmitted' = transmitted
  BY <1>7 DEF GatewayDeviceStep, ClientStep, cloudCmdVars
<1> QED
  BY <1>1, <1>2, <1>3, <1>4, <1>5, <1>6, <1>7 DEF Next, vars, cloudCmdVars

-----------------------------------------------------------------------------
(* EXECUTED is only shown for accepted commands.                           *)

\* No step takes back that a client accepted a command.
LEMMA AcceptedGrows ==
  ASSUME [Next]_vars
  PROVE  accepted \subseteq accepted'
<1>1. CASE ClientReceive
  BY <1>1 DEF ClientReceive, ExecuteCommandCb, AcceptCommand, DeferCommand, clientVars
<1>2. ASSUME NEW d \in Devices, GatewayDeviceStep(d) \/ ClientStep(d)
      PROVE  accepted' = accepted
  BY <1>2 DEF GatewayDeviceStep, ClientStep, CommandExecutionAlarm, Boot, clientVars
<1>3. CASE Fault
  BY <1>3 DEF Fault, Disconnect, LoseToCloud, GatewayRestart, CloudInitGateway, DeviceExpired,
              clientVars
<1> QED
  BY <1>1, <1>2, <1>3
     DEF Next, vars, GatewayReceive, CloudReceive, PushAlarm, AckAlarm, RegisterAlarm, SyncAlarm,
         Claim, LinkStep, AdministratorStep, OwnerStep, clientVars

\* The DONE messages stay true, and so does what the cloud makes of them.
LEMMA DoneStep ==
  ASSUME StraySeqs \subseteq {0}, TypeOK, TypeOK', AcceptedInv', DoneInv, [Next]_vars
  PROVE  DoneInv'
<1> DEFINE M == {m \in CloudBound : m.type = "DONE" => m.seq = 0 \/ m.seq \in accepted'}
<1>1. accepted \subseteq accepted' /\ accepted' \subseteq Nat
  BY AcceptedGrows DEF TypeOK, clientTypeOK, SeqNo
<1>2. TrueDone \subseteq M
  BY <1>1 DEF TrueDone
<1>3. toCloud' \in Seq(M)
  <2>1. toCloud \in Seq(M)
    <3> HIDE DEF M
    <3> QED
      BY <1>2, SeqMono DEF DoneInv
  <2>2. RegisterMsg \in M /\ \A b \in BOOLEAN : InfoMsg(b) \in M
    BY MsgTypes DEF RegisterMsg, InfoMsg
  <2>3. AckMsg(sequenceNumber') \in M
    <3>1. AckMsg(sequenceNumber') \in CloudBound
      BY MsgTypes DEF TypeOK, gatewayTypeOK
    <3> QED
      BY <3>1 DEF AckMsg
  <2>4. ASSUME NEW d \in Devices, NEW seq \in ExecutedCommand(execCmds'[d])
        PROVE  DoneMsg(seq, d) \in M
    <3>1. execCmds'[d] \in Seq(accepted')
      BY DEF AcceptedInv
    <3>2. execCmds'[d] # <<>> => execCmds'[d][1] \in accepted'
      BY <3>1, FirstType
    <3>3. seq = 0 \/ seq \in accepted'
      BY <3>2 DEF ExecutedCommand
    <3>4. seq \in Nat
      <4>1. CASE seq = 0
        BY <4>1
      <4>2. CASE seq \in accepted'
        BY <1>1, <4>2
      <4> QED
        BY <3>3, <4>1, <4>2
    <3>5. DoneMsg(seq, d) \in CloudBound
      BY <3>4, MsgTypes
    <3>6. DoneMsg(seq, d).seq = seq
      BY DEF DoneMsg
    <3> QED
      BY <3>3, <3>5, <3>6
  <2> HIDE DEF M
  <2> QED
    BY <2>1, <2>2, <2>3, <2>4, MessagesIn
<1>4. ASSUME NEW seq \in DOMAIN transmitted', State(seq)' = "EXECUTED"
      PROVE  seq \in accepted'
  <2>1. seq # 0
    <3>1. transmitted' \in Seq(Transmitted)
      BY DEF TypeOK, cloudTypeOK
    <3>2. DOMAIN transmitted' = 1 .. Len(transmitted') /\ Len(transmitted') \in Nat
      BY <3>1, SMT
    <3> QED
      BY <3>2, SMT
  <2>2. seq \in DOMAIN transmitted /\ StateChange(seq, State(seq), State(seq)')
    BY <1>4, StateStep
  <2>3. CASE State(seq) = "EXECUTED"
    BY <1>1, <2>2, <2>3 DEF DoneInv, ExecutedIsAccepted
  <2>4. CASE State(seq) # "EXECUTED"
    <3>1. toCloud # <<>> /\ toCloud[1].type = "DONE" /\ toCloud[1].seq = seq
      BY <1>4, <2>2, <2>4 DEF StateChange
    <3>2. toCloud[1] \in TrueDone
      BY <3>1, FirstType DEF DoneInv
    <3> QED
      BY <1>1, <2>1, <3>1, <3>2 DEF TrueDone
  <2> QED
    BY <2>3, <2>4
<1>5. toCloud' \in Seq(TrueDone')
  BY <1>3 DEF TrueDone
<1> QED
  BY <1>4, <1>5 DEF DoneInv, ExecutedIsAccepted

\* If reading execCmds_.front() of an empty list yields no command's number,
\* then "Client command was executed by the client" is only ever shown for a
\* command that a client answered with OK.
THEOREM ExecutedIsAcceptedHolds ==
  ASSUME StraySeqs \subseteq {0}
  PROVE  Spec => []ExecutedIsAccepted
<1>1. Init => DoneInv
  <2>1. <<>> \in Seq(TrueDone)
    BY SMT
  <2> QED
    BY <2>1, SMT DEF Init, ChannelInit, CloudInit, DoneInv, ExecutedIsAccepted
<1>2. TypeOK /\ TypeOK' /\ AcceptedInv' /\ DoneInv /\ [Next]_vars => DoneInv'
  BY DoneStep
<1>3. DoneInv => ExecutedIsAccepted
  BY DEF DoneInv
<1> QED
  BY <1>1, <1>2, <1>3, TypeCorrect, AcceptedInvHolds, PTL DEF Spec

-----------------------------------------------------------------------------
(* DELIVERING_TO_CLIENT is only shown for commands that are not lost.      *)

\* The ACK messages stay true, and so does what the cloud makes of them.
LEMMA AckStep ==
  TypeOK /\ TypeOK' /\ AcceptedInv /\ AckInv /\ [Next]_vars => AckInv'
\* A row is only deleted when its command was accepted.
<1>StoredGrows.
  ASSUME TypeOK, AcceptedInv, [Next]_vars
  PROVE  \A seq : Stored(seq) => Stored(seq)'
  <2> USE <1>StoredGrows
  <2>1. accepted \subseteq accepted'
    BY AcceptedGrows
  <2>2. CASE rows' = rows
    BY <2>1, <2>2 DEF Stored, Rows
  <2>3. ASSUME NEW m, InsertRow(m)
        PROVE  \A seq : Stored(seq) => Stored(seq)'
    BY <2>1, <2>3 DEF InsertRow, Stored, Rows
  <2>4. ASSUME NEW n, MarkExecutedDeviceCommand(n)
        PROVE  \A seq : Stored(seq) => Stored(seq)'
    <3>1. ASSUME NEW r \in rows
          PROVE  \E x \in rows' : x.seq = r.seq
      <4> DEFINE x == IF r.seq = n THEN [r EXCEPT !.exec = TRUE] ELSE r
      <4>1. x \in rows'
        BY <2>4 DEF MarkExecutedDeviceCommand
      <4>2. x.seq = r.seq
        BY DEF TypeOK, gatewayTypeOK, Row
      <4> HIDE DEF x
      <4> QED
        BY <4>1, <4>2
    <3> QED
      BY <2>1, <3>1 DEF Stored, Rows
  <2>5. ASSUME NEW n \in accepted, DeleteDeviceCommand(n)
        PROVE  \A seq : Stored(seq) => Stored(seq)'
    BY <2>1, <2>5 DEF DeleteDeviceCommand, Stored, Rows
  <2>6. CASE GatewayReceive
    <3> DEFINE m == Head(toGateway)
    <3>1. /\ ParseCmd(m)
          /\ m.type = "DONE_ACK" => m \in DoneAckMsgs
      BY <2>6, GatewayMessage
    <3> HIDE DEF m
    <3>2. CASE m.type = "DONE_ACK" /\ DoneAckMatches(m) /\ DeleteDeviceCommand(m.seq)
      <4>1. m.dev \in Devices /\ execCmds[m.dev] \in Seq(accepted)
        BY <3>1, <3>2 DEF DoneAckMsgs, AcceptedInv
      <4>2. m.seq \in accepted
        BY <3>2, <4>1, FirstType DEF DoneAckMatches
      <4> QED
        BY <2>5, <3>2, <4>2
    <3> QED
      BY <2>2, <2>3, <3>1, <3>2
         DEF ParseCmd, HandleClientCommand, HandleOldCommand, RefuseNewCommand, StoreNewCommand,
             HandleCommandDoneAck, ReqRegisterCmd, gatewayVars, tables
  <2>7. ASSUME NEW d \in Devices, GatewayDeviceStep(d)
        PROVE  \A seq : Stored(seq) => Stored(seq)'
    BY <2>2, <2>4, <2>7 DEF GatewayDeviceStep, DeviceCmdRespCallback, CmdRespOK, CmdRespError,
                            CmdRespTimeout, RegisterNow, tables
  <2>8. CASE Fault
    BY <2>2, <2>8 DEF Fault, Disconnect, LoseToCloud, GatewayRestart, Restart, CloudInitGateway,
                      DeviceExpired, KeepAliveExpired, gatewayVars, tables
  <2>9. CASE PushAlarm \/ AckAlarm \/ RegisterAlarm \/ SyncAlarm \/ Claim \/ LinkStep
    BY <2>2, <2>9 DEF PushAlarm, AlarmCallback, AckAlarm, StatusACKCallback, RegisterAlarm,
                      KeepaliveAlarm, SyncAlarm, SyncAlarmCallback, Claim, ClaimGateway, LinkStep,
                      Connect, OnConnect, OnDisconnect, gatewayVars, tables
  <2>10. CASE CloudReceive \/ ClientReceive \/ AdministratorStep \/ OwnerStep \/ UNCHANGED vars
              \/ (\E d \in Devices : ClientStep(d))
    BY <2>2, <2>10 DEF CloudReceive, ClientReceive, AdministratorStep, OwnerStep, ClientStep, vars,
                       gatewayVars, tables
  <2> QED
    BY <2>6, <2>7, <2>8, <2>9, <2>10 DEF Next
\* The number the gateway acknowledges, and the one it starts again with, is
\* that of a stored command: an old command is in the table, a new one was
\* just written.
<1>SequenceNumberStored.
  ASSUME TypeOK, AcceptedInv, [Next]_vars,
         sequenceNumber = 0 \/ Stored(sequenceNumber),
         maxSequenceNumber = 0 \/ Stored(maxSequenceNumber)
  PROVE  /\ sequenceNumber' = 0 \/ Stored(sequenceNumber)'
         /\ maxSequenceNumber' = 0 \/ Stored(maxSequenceNumber)'
  <2> USE <1>SequenceNumberStored
  <2>1. \A seq : Stored(seq) => Stored(seq)'
    BY <1>StoredGrows
  <2>2. CASE UNCHANGED <<sequenceNumber, maxSequenceNumber>>
    BY <2>1, <2>2 DEF Stored, Rows
  <2>3. CASE GatewayReceive
    <3> DEFINE m == Head(toGateway)
    <3>1. ParseCmd(m)
      BY <2>3, GatewayMessage
    <3> HIDE DEF m
    <3>2. CASE HandleOldCommand(m) /\ CheckDeviceCommandBySeqNo(m.seq)
      <4>1. sequenceNumber' = m.seq /\ rows' = rows /\ maxSequenceNumber' = maxSequenceNumber
        BY <3>2 DEF HandleOldCommand, tables
      <4>2. Rows(m.seq) # {}
        BY <3>2 DEF CheckDeviceCommandBySeqNo, Rows
      <4> QED
        BY <2>1, <4>1, <4>2 DEF Stored, Rows
    <3>3. CASE StoreNewCommand(m)
      <4>1. sequenceNumber' = m.seq /\ maxSequenceNumber' = m.seq /\ InsertRow(m)
        BY <3>3 DEF StoreNewCommand
      <4> DEFINE new == [id |-> lastId + 1, seq |-> m.seq, dev |-> m.dev, exec |-> FALSE]
      <4>2. new \in rows' /\ new.seq = m.seq
        BY <4>1 DEF InsertRow
      <4> HIDE DEF new
      <4> QED
        BY <4>1, <4>2 DEF Stored, Rows
    <3> QED
      BY <2>2, <3>1, <3>2, <3>3
         DEF ParseCmd, HandleClientCommand, HandleOldCommand, RefuseNewCommand, HandleCommandDoneAck,
             ReqRegisterCmd, gatewayVars, tables, approveVars
  <2>4. CASE GatewayRestart
    <3>1. sequenceNumber' = maxSequenceNumber /\ maxSequenceNumber' = maxSequenceNumber
      BY <2>4 DEF GatewayRestart, Restart, GetMaxSequenceNumber, tables
    <3> QED
      BY <2>1, <3>1 DEF Stored, Rows
  <2>5. ASSUME NEW d \in Devices, GatewayDeviceStep(d)
        PROVE  UNCHANGED <<sequenceNumber, maxSequenceNumber>>
    BY <2>5 DEF GatewayDeviceStep, DeviceCmdRespCallback, CmdRespOK, CmdRespError, CmdRespTimeout,
                RegisterNow, tables, approveVars
  <2>6. CASE Fault
    BY <2>2, <2>4, <2>6 DEF Fault, Disconnect, LoseToCloud, CloudInitGateway, DeviceExpired,
                            KeepAliveExpired, gatewayVars, tables, approveVars
  <2>7. CASE PushAlarm \/ AckAlarm \/ RegisterAlarm \/ SyncAlarm \/ Claim \/ LinkStep
    BY <2>2, <2>7 DEF PushAlarm, AlarmCallback, AckAlarm, StatusACKCallback, RegisterAlarm,
                      KeepaliveAlarm, SyncAlarm, SyncAlarmCallback, Claim, ClaimGateway, LinkStep,
                      Connect, OnConnect, OnDisconnect, gatewayVars, tables, approveVars
  <2>8. CASE CloudReceive \/ ClientReceive \/ AdministratorStep \/ OwnerStep \/ UNCHANGED vars
             \/ (\E d \in Devices : ClientStep(d))
    BY <2>2, <2>8 DEF CloudReceive, ClientReceive, AdministratorStep, OwnerStep, ClientStep, vars,
                      gatewayVars, tables, approveVars
  <2> QED
    BY <2>2, <2>3, <2>5, <2>6, <2>7, <2>8 DEF Next
<1> SUFFICES ASSUME TypeOK, TypeOK', AcceptedInv, AckInv, [Next]_vars
             PROVE  AckInv'
  OBVIOUS
<1> DEFINE M == {m \in CloudBound : m.type = "ACK" => m.seq = 0 \/ Stored(m.seq)'}
<1>1. \A seq : Stored(seq) => Stored(seq)'
  BY <1>StoredGrows
<1>2. /\ sequenceNumber' = 0 \/ Stored(sequenceNumber)'
      /\ maxSequenceNumber' = 0 \/ Stored(maxSequenceNumber)'
  BY <1>SequenceNumberStored DEF AckInv
<1>3. TrueAck \subseteq M
  BY <1>1 DEF TrueAck
<1>4. toCloud' \in Seq(M)
  <2>1. toCloud \in Seq(M)
    <3> HIDE DEF M
    <3> QED
      BY <1>3, SeqMono DEF AckInv
  <2>2. RegisterMsg \in M /\ \A b \in BOOLEAN : InfoMsg(b) \in M
    BY MsgTypes DEF RegisterMsg, InfoMsg
  <2>3. AckMsg(sequenceNumber') \in M
    <3>1. AckMsg(sequenceNumber') \in CloudBound
      BY MsgTypes DEF TypeOK, gatewayTypeOK
    <3>2. AckMsg(sequenceNumber').seq = sequenceNumber'
      BY DEF AckMsg
    <3> QED
      BY <1>2, <3>1, <3>2 DEF Stored, Rows
  <2>4. ASSUME NEW d \in Devices, NEW seq \in ExecutedCommand(execCmds'[d])
        PROVE  DoneMsg(seq, d) \in M
    <3>1. execCmds'[d] \in Seq(SeqNo)
      BY DEF TypeOK, gatewayTypeOK
    <3>2. execCmds'[d] # <<>> => execCmds'[d][1] \in SeqNo
      BY <3>1, FirstType
    <3>3. seq \in Nat
      BY <3>2, GatewayAssumption DEF ExecutedCommand, SeqNo
    <3>4. DoneMsg(seq, d) \in CloudBound
      BY <3>3, MsgTypes
    <3>5. DoneMsg(seq, d).type = "DONE"
      BY DEF DoneMsg
    <3> QED
      BY <3>4, <3>5
  <2> HIDE DEF M
  <2> QED
    BY <2>1, <2>2, <2>3, <2>4, MessagesIn
<1>5. ASSUME NEW seq \in DOMAIN transmitted', State(seq)' = "DELIVERING_TO_CLIENT"
      PROVE  Stored(seq)'
  <2>1. seq # 0
    <3>1. transmitted' \in Seq(Transmitted)
      BY DEF TypeOK, cloudTypeOK
    <3>2. DOMAIN transmitted' = 1 .. Len(transmitted') /\ Len(transmitted') \in Nat
      BY <3>1, SMT
    <3> QED
      BY <3>2, SMT
  <2>2. seq \in DOMAIN transmitted /\ StateChange(seq, State(seq), State(seq)')
    BY <1>5, StateStep
  <2>3. CASE State(seq) = "DELIVERING_TO_CLIENT"
    BY <1>1, <2>2, <2>3 DEF AckInv, AcknowledgedIsDurable
  <2>4. CASE State(seq) # "DELIVERING_TO_CLIENT"
    <3>1. toCloud # <<>> /\ toCloud[1].type = "ACK" /\ toCloud[1].seq = seq
      BY <1>5, <2>2, <2>4 DEF StateChange
    <3>2. toCloud[1] \in TrueAck
      BY <3>1, FirstType DEF AckInv
    <3>3. Stored(seq)
      BY <2>1, <3>1, <3>2 DEF TrueAck
    <3> QED
      BY <1>1, <3>3
  <2> QED
    BY <2>3, <2>4
<1>6. toCloud' \in Seq(TrueAck')
  BY <1>4 DEF TrueAck, Stored, Rows
<1>7. AcknowledgedIsDurable'
  BY <1>5 DEF AcknowledgedIsDurable, Stored, Rows
<1> QED
  BY <1>2, <1>6, <1>7 DEF AckInv

\* Whatever messages are lost and however often the gateway restarts, a
\* command the cloud shows as being delivered to the client is in the
\* gateway's table or was accepted by a client.
THEOREM AcknowledgedIsDurableHolds ==
  Spec => []AcknowledgedIsDurable
<1>1. Init => AckInv
  <2>1. <<>> \in Seq(TrueAck)
    BY SMT
  <2> QED
    BY <2>1, SMT DEF Init, ChannelInit, GatewayInit, CloudInit, AckInv, AcknowledgedIsDurable
<1>2. TypeOK /\ TypeOK' /\ AcceptedInv /\ AckInv /\ [Next]_vars => AckInv'
  BY AckStep
<1>3. AckInv => AcknowledgedIsDurable
  BY DEF AckInv
<1> QED
  BY <1>1, <1>2, <1>3, TypeCorrect, AcceptedInvHolds, PTL DEF Spec

-----------------------------------------------------------------------------
(* Where the numbers of commands come from.                                *)

\* The commands of the gateway and the clients all have numbers in S.
HeldIn(S, table, lists, requests, done) ==
  /\ \A r \in table : r.seq \in S
  /\ \A d \in Devices : \A i \in DOMAIN lists[d] : lists[d][i].seq \in S
  /\ \A q \in requests : q.seq \in S
  /\ done \subseteq S

\* The lists of a restarted gateway come from the rows of the table.
LEMMA LoadedFromRows ==
  ASSUME TypeOK, Restart, NEW d \in Devices
  PROVE  /\ \A i \in DOMAIN recvCmds'[d] :
              \E r \in rows : r.dev = d /\ ~r.exec /\ r.seq = recvCmds'[d][i].seq
         /\ \A i \in DOMAIN execCmds'[d] :
              \E r \in rows : r.dev = d /\ r.exec /\ r.seq = execCmds'[d][i]
<1>1. recvCmds'[d] \in LoadRecvCmds(d) /\ execCmds'[d] \in LoadExecCmds(d)
  BY DEF Restart, PerDevice
<1>2. ASSUME NEW S, NEW l \in InIdOrder(S), NEW i \in DOMAIN l
      PROVE  l[i] \in S
  BY <1>2, InIdOrderType, SMT DEF TypeOK, gatewayTypeOK
<1>3. ASSUME NEW i \in DOMAIN recvCmds'[d]
      PROVE  \E r \in rows : r.dev = d /\ ~r.exec /\ r.seq = recvCmds'[d][i].seq
  <2>1. PICK l \in InIdOrder({r \in rows : r.dev = d /\ ~r.exec}) :
          recvCmds'[d] = [j \in DOMAIN l |-> [seq |-> l[j].seq, inProgress |-> FALSE]]
    BY <1>1 DEF LoadRecvCmds
  <2>2. i \in DOMAIN l /\ recvCmds'[d][i].seq = l[i].seq
    BY <1>3, <2>1, SMT
  <2>3. l[i] \in {r \in rows : r.dev = d /\ ~r.exec}
    BY <1>2, <2>2
  <2> QED
    BY <2>2, <2>3
<1>4. ASSUME NEW i \in DOMAIN execCmds'[d]
      PROVE  \E r \in rows : r.dev = d /\ r.exec /\ r.seq = execCmds'[d][i]
  <2>1. PICK l \in InIdOrder({r \in rows : r.dev = d /\ r.exec}) :
          execCmds'[d] = [j \in DOMAIN l |-> l[j].seq]
    BY <1>1 DEF LoadExecCmds
  <2>2. i \in DOMAIN l /\ execCmds'[d][i] = l[i].seq
    BY <1>4, <2>1
  <2>3. l[i] \in {r \in rows : r.dev = d /\ r.exec}
    BY <1>2, <2>2
  <2> QED
    BY <2>2, <2>3
<1> QED
  BY <1>3, <1>4

\* A request nobody waits for was sent before.
LEMMA DeadRequests ==
  ASSUME TypeOK, [Next]_vars, NEW q \in reqs', ~q.live
  PROVE  \E p \in reqs : p.seq = q.seq
<1>1. reqs \subseteq Request /\ recvCmds \in [Devices -> Seq(RecvCmd)] /\ devices \subseteq Devices
  BY DEF TypeOK, channelTypeOK, gatewayTypeOK
<1>2. ASSUME NEW d, NEW cmds, NEW p \in PushedReqs(d, cmds)
      PROVE  p.live
  BY <1>2, SMT DEF PushedReqs
<1>3. ASSUME NEW d, q \in Forget(d)
      PROVE  \E p \in reqs : p.seq = q.seq
  BY <1>1, <1>3 DEF Forget, Request
<1>4. CASE reqs' = reqs
  BY <1>4
<1>5. CASE GatewayReceive
  <2>1. \/ reqs' = reqs
        \/ \E d, cmds : reqs' = reqs \cup PushedReqs(d, cmds)
    BY <1>5, GatewayMessage
       DEF ParseCmd, HandleClientCommand, HandleOldCommand, RefuseNewCommand, StoreNewCommand,
           PushCommand, HandleCommandDoneAck, ReqRegisterCmd
  <2> QED
    BY <1>2, <2>1
<1>6. ASSUME NEW d \in Devices, GatewayDeviceStep(d)
      PROVE  \E p \in reqs : p.seq = q.seq
  <2>1. reqs' = reqs \/ reqs' = Forget(d) \/ \E cmds : reqs' = Forget(d) \cup PushedReqs(d, cmds)
    BY <1>6 DEF GatewayDeviceStep, RegisterNow, DeviceCmdRespCallback, CmdRespOK, CmdRespError,
                CmdRespTimeout, Complete, CompleteAndPush
  <2> QED
    BY <1>2, <1>3, <2>1
<1>7. CASE PushAlarm
  <2>1. reqs' = reqs \cup UNION {PushedReqs(d, recvCmds[d]) : d \in devices}
    BY <1>7 DEF PushAlarm, AlarmCallback
  <2> QED
    BY <1>2, <2>1
<1>8. CASE Fault
  <2>1. CASE GatewayRestart
    <3>1. reqs' = {[p EXCEPT !.live = FALSE] : p \in reqs}
      BY <2>1 DEF GatewayRestart, Restart
    <3> QED
      BY <1>1, <3>1 DEF Request
  <2> QED
    BY <1>4, <1>8, <2>1
       DEF Fault, Disconnect, LoseToCloud, CloudInitGateway, DeviceExpired, KeepAliveExpired
<1>9. CASE CloudReceive \/ AdministratorStep \/ OwnerStep \/ ClientReceive
           \/ (\E d \in Devices : ClientStep(d))
  BY <1>4, <1>9 DEF CloudReceive, AdministratorStep, OwnerStep, ClientReceive, ClientStep
<1>10. CASE AckAlarm \/ RegisterAlarm \/ SyncAlarm \/ Claim \/ LinkStep \/ UNCHANGED vars
  BY <1>4, <1>10 DEF AckAlarm, RegisterAlarm, SyncAlarm, Claim, StatusACKCallback, KeepaliveAlarm,
                     SyncAlarmCallback, ClaimGateway, LinkStep, Connect, OnConnect, OnDisconnect, vars
<1> QED
  BY <1>5, <1>6, <1>7, <1>8, <1>9, <1>10 DEF Next

\* A client accepts what a request carries.
LEMMA AcceptedFromRequests ==
  ASSUME [Next]_vars, NEW seq \in accepted', seq \notin accepted
  PROVE  \E q \in reqs : q.seq = seq
<1>1. CASE ClientReceive
  BY <1>1 DEF ClientReceive, ExecuteCommandCb, AcceptCommand, DeferCommand, clientVars
<1>2. CASE accepted' = accepted
  BY <1>2
<1> QED
  BY <1>1, <1>2
     DEF Next, vars, clientVars, GatewayReceive, CloudReceive, GatewayDeviceStep, ClientStep,
         CommandExecutionAlarm, Boot, PushAlarm, AckAlarm, RegisterAlarm, SyncAlarm, Claim, LinkStep,
         AdministratorStep, OwnerStep, Fault, Disconnect, LoseToCloud, GatewayRestart,
         CloudInitGateway, DeviceExpired

\* A step brings no number to the gateway and the clients but that of a
\* command it stores from the channel.
LEMMA HeldStep ==
  ASSUME TypeOK, OutstandingIsFront, [Next]_vars, NEW S,
         HeldIn(S, rows, recvCmds, reqs, accepted),
         ASSUME GatewayReceive, Stores(Head(toGateway)) \/ Refuses(Head(toGateway))
         PROVE  Head(toGateway).seq \in S
  PROVE  HeldIn(S, rows', recvCmds', reqs', accepted')
<1>1. recvCmds \in [Devices -> Seq(RecvCmd)] /\ rows \subseteq Row
  BY DEF TypeOK, gatewayTypeOK
<1>2. ASSUME NEW d \in Devices, SameSeqs(recvCmds'[d], recvCmds[d])
      PROVE  \A i \in DOMAIN recvCmds'[d] : recvCmds'[d][i].seq \in S
  BY <1>2 DEF SameSeqs, HeldIn
<1>3. /\ \A r \in rows' : r.seq \in S
      /\ \A d \in Devices : \A i \in DOMAIN recvCmds'[d] : recvCmds'[d][i].seq \in S
  <2>1. CASE Kept
    BY <1>2, <2>1 DEF Kept, HeldIn
  <2>2. CASE GatewayReceive /\ (Stores(Head(toGateway)) \/ Refuses(Head(toGateway)))
    <3> DEFINE m == Head(toGateway)
    <3>1. m.seq \in S /\ m \in ClientMsgs /\ InsertRow(m)
      BY <2>2 DEF Stores, Refuses
    <3> HIDE DEF m
    <3>2. \A r \in rows' : r.seq \in S
      BY <3>1, SMT DEF InsertRow, HeldIn
    <3>3. CASE Refuses(m)
      BY <3>2, <3>3 DEF Refuses, HeldIn
    <3>4. CASE Stores(m)
      <4>1. m.dev \in Devices /\ NewRecvCmd(m).seq = m.seq /\ NewRecvCmd(m) \in RecvCmd
        BY <3>1 DEF ClientMsgs, NewRecvCmd, RecvCmd
      <4>2. \A i \in DOMAIN Append(recvCmds[m.dev], NewRecvCmd(m)) :
              Append(recvCmds[m.dev], NewRecvCmd(m))[i].seq \in S
        BY <1>1, <3>1, <4>1, SMT DEF HeldIn
      <4>3. \A i \in DOMAIN recvCmds'[m.dev] : recvCmds'[m.dev][i].seq \in S
        BY <3>4, <4>2 DEF Stores, SameSeqs
      <4> QED
        BY <1>2, <3>2, <3>4, <4>1, <4>3 DEF Stores, OthersKept
    <3> QED
      BY <2>2, <3>3, <3>4 DEF m
  <2>3. ASSUME NEW d \in Devices, Executes(d)
        PROVE  /\ \A r \in rows' : r.seq \in S
               /\ \A e \in Devices : \A i \in DOMAIN recvCmds'[e] : recvCmds'[e][i].seq \in S
    <3>1. \A i \in DOMAIN Tail(recvCmds[d]) : Tail(recvCmds[d])[i].seq \in S
      <4>1. \A i \in DOMAIN Tail(recvCmds[d]) :
              i + 1 \in DOMAIN recvCmds[d] /\ Tail(recvCmds[d])[i] = recvCmds[d][i + 1]
        BY <1>1, <2>3, SMT DEF Executes
      <4> QED
        BY <4>1 DEF HeldIn
    <3>2. \A i \in DOMAIN recvCmds'[d] : recvCmds'[d][i].seq \in S
      BY <2>3, <3>1 DEF Executes, SameSeqs
    <3>3. \A r \in rows' : r.seq \in S
      BY <1>1, <2>3 DEF Executes, MarkExecutedDeviceCommand, HeldIn, Row
    <3> QED
      BY <1>2, <2>3, <3>2, <3>3 DEF Executes, OthersKept
  <2>4. ASSUME NEW d \in Devices, Retires(d)
        PROVE  /\ \A r \in rows' : r.seq \in S
               /\ \A e \in Devices : \A i \in DOMAIN recvCmds'[e] : recvCmds'[e][i].seq \in S
    BY <2>4 DEF Retires, DeleteDeviceCommand, HeldIn
  <2>5. CASE Restart
    <3>1. rows' = rows
      BY <2>5 DEF Restart, tables
    <3> QED
      BY <2>5, <3>1, LoadedFromRows, SMT DEF HeldIn
  <2> QED
    BY <2>1, <2>2, <2>3, <2>4, <2>5, ListStep
<1>4. ASSUME NEW q \in reqs'
      PROVE  q.seq \in S
  <2>1. CASE q.live
    <3>1. OutstandingIsFront' /\ q.dev \in Devices /\ recvCmds'[q.dev] \in Seq(RecvCmd)
      <4>1. TypeOK'
        BY TypeStep
      <4> QED
        BY <4>1, OutstandingStep DEF TypeOK, channelTypeOK, gatewayTypeOK, Request
    <3>2. /\ recvCmds'[q.dev] # <<>>
          /\ recvCmds'[q.dev][1] = [seq |-> q.seq, inProgress |-> TRUE]
      BY <2>1, <3>1 DEF OutstandingIsFront
    <3>3. 1 \in DOMAIN recvCmds'[q.dev] /\ recvCmds'[q.dev][1].seq = q.seq
      BY <3>1, <3>2, SMT
    <3> QED
      BY <1>3, <3>1, <3>3
  <2>2. CASE ~q.live
    BY <2>2, DeadRequests DEF HeldIn
  <2> QED
    BY <2>1, <2>2
<1>5. accepted' \subseteq S
  BY AcceptedFromRequests DEF HeldIn
<1> QED
  BY <1>3, <1>4, <1>5 DEF HeldIn

-----------------------------------------------------------------------------
(* OwnerDecides: the numbers of the commands past the owner.               *)

QueuedIn(S, queue, channel) ==
  /\ \A i \in DOMAIN queue : queue[i].seq \in S
  /\ \A i \in DOMAIN channel : channel[i].type = "CLIENT" => channel[i].seq \in S

\* The commands that needed no decision of an owner or were approved.  (The
\* state alone does not tell: a report on the wrong command changes it while
\* the command waits for its owner.)
Decided ==
  {seq \in DOMAIN transmitted :
     /\ transmitted[seq].state \notin Undecided
     /\ \A k \in DOMAIN ownerCommands : ownerCommands[k].seq # seq}

\* The owner's list holds issued commands, each once.
OwnerListed ==
  \A k \in DOMAIN ownerCommands :
    /\ ownerCommands[k].seq \in DOMAIN transmitted
    /\ \A l \in DOMAIN ownerCommands : l < k => ownerCommands[l].seq # ownerCommands[k].seq

\* Only decided commands are in the queue, on their way or further.
OwnerInv ==
  /\ QueuedIn(Decided, pending, toGateway)
  /\ HeldIn(Decided, rows, recvCmds, reqs, accepted)
  /\ OwnerListed

\* The elements of a list without its first.
LEMMA TailIndex ==
  ASSUME NEW S, NEW s \in Seq(S), s # <<>>
  PROVE  \A i \in DOMAIN Tail(s) : i \in Nat /\ i + 1 \in DOMAIN s /\ i + 1 > 1 /\ Tail(s)[i] = s[i + 1]
BY SMT

\* The elements of a list with one more.
LEMMA AppendIndex ==
  ASSUME NEW S, NEW s \in Seq(S), NEW e
  PROVE  /\ \A i \in DOMAIN Append(s, e) :
              \/ i \in DOMAIN s /\ Append(s, e)[i] = s[i]
              \/ i = Len(s) + 1 /\ Append(s, e)[i] = e
         /\ \A i \in DOMAIN s : i \in DOMAIN Append(s, e) /\ Append(s, e)[i] = s[i]
         /\ Len(s) + 1 \in DOMAIN Append(s, e)
         /\ Append(s, e)[Len(s) + 1] = e
         /\ \A i \in DOMAIN s : i \in Nat /\ i < Len(s) + 1
BY SMT

\* What is decided stays so.
DecisionsKept ==
  /\ Decided \subseteq Decided'
  /\ \A i \in DOMAIN pending' : pending'[i].seq \in Decided'
  /\ OwnerListed'

\* Every step keeps undecided commands away from the gateway.
LEMMA OwnerInvStep ==
  TypeOK /\ OutstandingIsFront /\ OwnerInv /\ [Next]_vars => OwnerInv'
\* The channel carries numbers of the queue, earlier or now.
<1>QueuedStep.
  ASSUME TypeOK, [Next]_vars, NEW S, QueuedIn(S, pending, toGateway),
         \A i \in DOMAIN pending' : pending'[i].seq \in S
  PROVE  QueuedIn(S, pending', toGateway')
  <2> USE <1>QueuedStep
  <2>1. toGateway \in Seq(GatewayBound) /\ pending' \in Seq(PendingCmd)
    BY TypeStep DEF TypeOK, channelTypeOK, cloudTypeOK
  <2>2. CASE PartOf(toGateway', toGateway)
    BY <2>2 DEF PartOf, QueuedIn
  <2>3. ASSUME NEW x, ChannelGets(x), x.type = "CLIENT" => pending' # <<>> /\ x.seq = pending'[1].seq
        PROVE  QueuedIn(S, pending', toGateway')
    <3>1. x.type = "CLIENT" => x.seq \in S
      <4>1. pending' # <<>> => 1 \in DOMAIN pending'
        BY <2>1, SMT
      <4> QED
        BY <2>3, <4>1
    <3>2. \A i \in DOMAIN toGateway' :
            (i \in DOMAIN toGateway /\ toGateway'[i] = toGateway[i]) \/ toGateway'[i] = x
      BY <2>1, <2>3, AppendIndex, SMT DEF ChannelGets
    <3> QED
      BY <3>1, <3>2 DEF QueuedIn
  <2>4. ChannelStep
    BY QueueStep
  <2> QED
    BY <2>2, <2>3, <2>4 DEF ChannelStep
\* The queue of an approved or an unowned command.
<1>AppendedIn.
  ASSUME NEW S, NEW cmd \in PendingCmd, pending \in Seq(PendingCmd), pending' = Append(pending, cmd),
         cmd.seq \in S, \A i \in DOMAIN pending : pending[i].seq \in S
  PROVE  \A i \in DOMAIN pending' : pending'[i].seq \in S
  BY <1>AppendedIn, AppendIndex, SMT
\* A new command is for the owner, or is decided at once.
<1>IssueDecided.
  ASSUME TypeOK, OwnerInv, NEW d \in Devices,
         IssuedToOwner(d) \/ \E cmd \in PendingCmd : IssuedToGateway(d, cmd)
  PROVE  DecisionsKept
  <2> USE <1>IssueDecided
  <2> DEFINE n == Len(transmitted) + 1
  <2>1. transmitted \in Seq(Transmitted) /\ ownerCommands \in Seq(OwnerCmd) /\ pending \in Seq(PendingCmd)
    BY DEF TypeOK, cloudTypeOK
  <2>2. \A i \in DOMAIN pending : pending[i].seq \in Decided
    BY DEF OwnerInv, QueuedIn
  <2>3. \A k \in DOMAIN ownerCommands : ownerCommands[k].seq \in DOMAIN transmitted
    BY DEF OwnerInv, OwnerListed
  <2>4. \A seq \in DOMAIN transmitted : seq # n
    BY <2>1, SMT
  <2>5. ASSUME NEW e, transmitted' = Append(transmitted, e)
        PROVE  /\ \A seq \in DOMAIN transmitted : seq \in DOMAIN transmitted' /\ transmitted'[seq] = transmitted[seq]
               /\ n \in DOMAIN transmitted' /\ transmitted'[n] = e
    BY <2>1, <2>5, AppendIndex
  <2> HIDE DEF n
  <2>6. CASE IssuedToOwner(d)
    <3>1. PICK e : transmitted' = Append(transmitted, e)
      BY <2>6 DEF IssuedToOwner
    <3> DEFINE c == [seq |-> n, dev |-> d]
    <3>2. ownerCommands' = Append(ownerCommands, c) /\ c.seq = n
      BY <2>6 DEF IssuedToOwner, GlobalCommandSeqNo, n
    <3> HIDE DEF c
    <3>3. \A k \in DOMAIN ownerCommands' :
            \/ k \in DOMAIN ownerCommands /\ ownerCommands'[k] = ownerCommands[k]
            \/ k = Len(ownerCommands) + 1 /\ ownerCommands'[k] = c
      BY <2>1, <3>2, AppendIndex, SMT
    <3>4. Decided \subseteq Decided'
      BY <2>4, <2>5, <3>1, <3>2, <3>3 DEF Decided
    <3>5. OwnerListed'
      <4> SUFFICES ASSUME NEW k \in DOMAIN ownerCommands'
                   PROVE  /\ ownerCommands'[k].seq \in DOMAIN transmitted'
                          /\ \A l \in DOMAIN ownerCommands' : l < k => ownerCommands'[l].seq # ownerCommands'[k].seq
        BY DEF OwnerListed
      <4>1. CASE k \in DOMAIN ownerCommands /\ ownerCommands'[k] = ownerCommands[k]
        <5>1. \A l \in DOMAIN ownerCommands' : l < k => l \in DOMAIN ownerCommands /\ ownerCommands'[l] = ownerCommands[l]
          BY <2>1, <3>3, <4>1, SMT
        <5> QED
          BY <2>5, <3>1, <4>1, <5>1, SMT DEF OwnerInv, OwnerListed
      <4>2. CASE k = Len(ownerCommands) + 1 /\ ownerCommands'[k] = c
        <5>1. \A l \in DOMAIN ownerCommands' : l < k => l \in DOMAIN ownerCommands /\ ownerCommands'[l] = ownerCommands[l]
          BY <2>1, <3>3, <4>2, SMT
        <5> QED
          BY <2>3, <2>4, <2>5, <3>1, <3>2, <4>2, <5>1
      <4> QED
        BY <3>3, <4>1, <4>2
    <3>6. pending' = pending
      BY <2>6 DEF IssuedToOwner
    <3> QED
      BY <2>2, <3>4, <3>5, <3>6 DEF DecisionsKept
  <2>7. ASSUME NEW cmd \in PendingCmd, IssuedToGateway(d, cmd)
        PROVE  DecisionsKept
    <3> DEFINE e == [dev |-> d, state |-> "DELIVERING_TO_GATEWAY"]
    <3>1. /\ transmitted' = Append(transmitted, e)
          /\ ownerCommands' = ownerCommands
          /\ cmd.seq = n
          /\ pending' = Append(pending, cmd)
      BY <2>7 DEF IssuedToGateway, GlobalCommandSeqNo, n
    <3>2. e.state \notin Undecided
      BY DEF Undecided
    <3> HIDE DEF e
    <3>3. Decided \subseteq Decided'
      BY <2>5, <3>1 DEF Decided
    <3>4. n \in Decided'
      BY <2>3, <2>4, <2>5, <3>1, <3>2 DEF Decided
    <3>5. \A i \in DOMAIN pending' : pending'[i].seq \in Decided'
      BY <2>1, <2>2, <3>1, <3>3, <3>4, <1>AppendedIn
    <3>6. OwnerListed'
      BY <2>5, <3>1 DEF OwnerInv, OwnerListed
    <3> QED
      BY <3>3, <3>5, <3>6 DEF DecisionsKept
  <2> QED
    BY <2>6, <2>7
\* The owner's decision is on a command that is not past the owner; approved
\* it is, and no other entry of the list has its number.
<1>DecisionDecided.
  ASSUME TypeOK, OwnerInv, Rejected \/ \E cmd \in PendingCmd : Approved(cmd)
  PROVE  DecisionsKept
  <2> USE <1>DecisionDecided
  <2> DEFINE n == ownerCommands[1].seq
  <2>1. /\ transmitted \in Seq(Transmitted) /\ ownerCommands \in Seq(OwnerCmd)
        /\ pending \in Seq(PendingCmd) /\ cloudTypeOK
    BY DEF TypeOK, cloudTypeOK
  <2>2. \A i \in DOMAIN pending : pending[i].seq \in Decided
    BY DEF OwnerInv, QueuedIn
  <2>3. ownerCommands # <<>> /\ ownerCommands' = Tail(ownerCommands)
    BY DEF Rejected, Approved
  <2>4. 1 \in DOMAIN ownerCommands /\ n \in DOMAIN transmitted
    <3>1. 1 \in DOMAIN ownerCommands
      BY <2>1, <2>3, SMT
    <3> QED
      BY <3>1 DEF OwnerInv, OwnerListed
  <2>5. \A k \in DOMAIN ownerCommands' :
          k \in Nat /\ k + 1 \in DOMAIN ownerCommands /\ k + 1 > 1 /\ ownerCommands'[k] = ownerCommands[k + 1]
    BY <2>1, <2>3, TailIndex
  <2>6. \A k \in DOMAIN ownerCommands' : ownerCommands'[k].seq # n
    BY <2>4, <2>5, SMT DEF OwnerInv, OwnerListed
  <2>7. n \notin Decided
    BY <2>4 DEF Decided
  <2>8. ASSUME NEW state \in CommandStates, SetState(n, state)
        PROVE  /\ DOMAIN transmitted' = DOMAIN transmitted
               /\ transmitted'[n].state = state
               /\ \A seq \in DOMAIN transmitted : seq # n => transmitted'[seq].state = transmitted[seq].state
    BY <2>1, <2>4, <2>8, SetStateType
  <2> HIDE DEF n
  <2>9. "REJECTED" \in CommandStates /\ "DELIVERING_TO_GATEWAY" \in CommandStates
    BY DEF CommandStates
  <2>10. PICK state \in CommandStates : SetState(n, state)
    BY <2>9 DEF Rejected, Approved, n
  <2>11. Decided \subseteq Decided'
    BY <2>5, <2>7, <2>8, <2>10 DEF Decided
  <2>12. OwnerListed'
    <3>1. ASSUME NEW k \in DOMAIN ownerCommands', NEW l \in DOMAIN ownerCommands', l < k
          PROVE  ownerCommands'[l].seq # ownerCommands'[k].seq
      <4>1. l + 1 < k + 1
        BY <2>5, <3>1, SMT
      <4> QED
        BY <2>5, <3>1, <4>1, SMT DEF OwnerInv, OwnerListed
    <3>2. \A k \in DOMAIN ownerCommands' : ownerCommands'[k].seq \in DOMAIN transmitted'
      BY <2>5, <2>8, <2>10 DEF OwnerInv, OwnerListed
    <3> QED
      BY <3>1, <3>2 DEF OwnerListed
  <2>13. CASE Rejected
    BY <2>2, <2>11, <2>12, <2>13 DEF Rejected, DecisionsKept
  <2>14. ASSUME NEW cmd \in PendingCmd, Approved(cmd)
         PROVE  DecisionsKept
    <3>1. SetState(n, "DELIVERING_TO_GATEWAY") /\ cmd.seq = n /\ pending' = Append(pending, cmd)
      BY <2>14 DEF Approved, n
    <3>2. "DELIVERING_TO_GATEWAY" \notin Undecided
      BY DEF Undecided
    <3>3. n \in Decided'
      BY <2>4, <2>6, <2>8, <2>9, <3>1, <3>2 DEF Decided
    <3>4. \A i \in DOMAIN pending' : pending'[i].seq \in Decided'
      BY <2>1, <2>2, <2>11, <3>1, <3>3, <1>AppendedIn
    <3> QED
      BY <2>11, <2>12, <3>4 DEF DecisionsKept
  <2> QED
    BY <2>13, <2>14
\* Every step keeps the decisions.
<1>DecisionStep.
  ASSUME TypeOK, OwnerInv, [Next]_vars
  PROVE  DecisionsKept
  <2> USE <1>DecisionStep
  <2>1. CASE QueueKept
    <3>1. Decided \subseteq Decided'
      BY <2>1 DEF QueueKept, Decided
    <3>2. \A i \in DOMAIN pending' : pending'[i].seq \in Decided
      BY <2>1 DEF QueueKept, PartOf, OwnerInv, QueuedIn
    <3>3. OwnerListed'
      BY <2>1 DEF QueueKept, OwnerInv, OwnerListed
    <3> QED
      BY <3>1, <3>2, <3>3 DEF DecisionsKept
  <2> QED
    BY <2>1, QueueStep, <1>IssueDecided, <1>DecisionDecided
<1> SUFFICES ASSUME TypeOK, OutstandingIsFront, OwnerInv, [Next]_vars
             PROVE  OwnerInv'
  OBVIOUS
<1>1. DecisionsKept
  BY <1>DecisionStep
<1> DEFINE S == Decided'
<1>2. QueuedIn(S, pending, toGateway) /\ HeldIn(S, rows, recvCmds, reqs, accepted)
  BY <1>1 DEF DecisionsKept, OwnerInv, QueuedIn, HeldIn
<1>3. \A i \in DOMAIN pending' : pending'[i].seq \in S
  BY <1>1 DEF DecisionsKept
<1> HIDE DEF S
<1>4. QueuedIn(S, pending', toGateway')
  BY <1>2, <1>3, <1>QueuedStep
<1>5. ASSUME GatewayReceive, Stores(Head(toGateway)) \/ Refuses(Head(toGateway))
      PROVE  Head(toGateway).seq \in S
  <2>1. Head(toGateway).type = "CLIENT"
    BY <1>5 DEF Stores, Refuses, ClientMsgs
  <2>2. 1 \in DOMAIN toGateway /\ Head(toGateway) = toGateway[1]
    BY <1>5, FirstType, SMT DEF GatewayReceive, TypeOK, channelTypeOK
  <2> QED
    BY <1>2, <2>1, <2>2 DEF QueuedIn
<1>6. HeldIn(S, rows', recvCmds', reqs', accepted')
  BY <1>2, <1>5, HeldStep
<1>7. OwnerListed'
  BY <1>1 DEF DecisionsKept
<1> QED
  BY <1>4, <1>6, <1>7 DEF OwnerInv, S

\* What the owner has to decide is decided before it leaves the cloud: OwnerInv
\* holds in every reachable state, with failing SQLite writes and with stray
\* reports.
THEOREM OwnerInvHolds ==
  Spec => []OwnerInv
<1>1. Init => OwnerInv
  BY SMT DEF Init, ChannelInit, GatewayInit, ClientInit, CloudInit, OwnerInv, QueuedIn, HeldIn, OwnerListed
<1>2. TypeOK /\ OutstandingIsFront /\ OwnerInv /\ [Next]_vars => OwnerInv'
  BY OwnerInvStep
<1> QED
  BY <1>1, <1>2, TypeCorrect, OutstandingIsFrontHolds, PTL DEF Spec

\* A command the owner has not approved, or has rejected, is not in the
\* queue to the gateway, on its way, in the gateway's table, or accepted by a
\* client, whatever reports the gateway sends and whatever is lost.
THEOREM OwnerDecidesHolds ==
  Spec => []OwnerDecides
<1>1. OwnerInv => OwnerDecides
  BY DEF OwnerInv, OwnerDecides, QueuedIn, HeldIn, Decided, Undecided, State, Stored, Rows
<1> QED
  BY <1>1, OwnerInvHolds, PTL

-----------------------------------------------------------------------------
(* The gateway's claim reaches the cloud in order.                         *)

SaysOwned(m) == m.type = "INFO" /\ m.owner
SaysUnowned(m) == m.type = "INFO" /\ ~m.owner

\* Once the cloud knows an owner, or a message to it names one, no later
\* message says that there is none.
ClaimTold(channel, known, claim) ==
  \A i \in DOMAIN channel :
    /\ SaysOwned(channel[i]) => claim
    /\ SaysUnowned(channel[i]) =>
         ~known /\ \A j \in DOMAIN channel : j < i => ~SaysOwned(channel[j])

InfoInv ==
  /\ owner => claimed
  /\ ownerCommands # <<>> => owner
  /\ ClaimTold(toCloud, owner, claimed)

\* The messages whose information about the claim is that of the next state.
Current == {m \in CloudBound : m.type = "INFO" => m.owner = claimed'}

\* What the step does to the channel to the cloud.
MailStep ==
  \/ PartOf(toCloud', toCloud)
  \/ \E msgs \in Seq(Current) : toCloud' = toCloud \o msgs

\* The elements of two lists put together.
LEMMA ConcatIndex ==
  ASSUME NEW S, NEW s \in Seq(S), NEW T, NEW t \in Seq(T)
  PROVE  \A i \in DOMAIN (s \o t) :
           \/ i \in DOMAIN s /\ (s \o t)[i] = s[i]
           \/ \E k \in DOMAIN t : i = Len(s) + k /\ (s \o t)[i] = t[k] /\ \A j \in DOMAIN s : j < i
<1> SUFFICES ASSUME NEW i \in DOMAIN (s \o t), i \notin DOMAIN s
             PROVE  \E k \in DOMAIN t : i = Len(s) + k /\ (s \o t)[i] = t[k] /\ \A j \in DOMAIN s : j < i
  BY SMT
<1>1. i - Len(s) \in DOMAIN t /\ i = Len(s) + (i - Len(s)) /\ (s \o t)[i] = t[i - Len(s)]
  BY SMT
<1>2. \A j \in DOMAIN s : j < i
  BY SMT
<1> QED
  BY <1>1, <1>2

\* The claim is made once and told in order.
LEMMA InfoStep ==
  TypeOK /\ InfoInv /\ [Next]_vars => InfoInv'
\* What the gateway publishes joins the channel or is dropped.
<1>PublishedMail.
  ASSUME TypeOK, NEW msgs \in Seq(Current), Publish(msgs)
  PROVE  MailStep
  <2> USE <1>PublishedMail
  <2>1. toCloud' = toCloud \/ toCloud' = toCloud \o msgs
    BY DEF Publish, Enqueue
  <2> QED
    BY <2>1, Parts DEF MailStep, TypeOK, channelTypeOK
\* ACKs, DONEs and REGISTERs say nothing about the claim, an INFO says what
\* the gateway's table says.
<1>CurrentMessages.
  ASSUME TypeOK, TypeOK'
  PROVE  /\ RegisterMsg \in Current
         /\ InfoMsg(claimed') \in Current
         /\ \A seq \in Nat : AckMsg(seq) \in Current
         /\ \A seq \in Nat, d \in Devices : DoneMsg(seq, d) \in Current
  <2> USE <1>CurrentMessages
  <2>1. claimed' \in BOOLEAN
    BY DEF TypeOK, gatewayTypeOK
  <2>2. RegisterMsg \in Current
    BY MsgTypes DEF Current, RegisterMsg
  <2>3. InfoMsg(claimed') \in Current
    BY <2>1, MsgTypes DEF Current, InfoMsg
  <2>4. \A seq \in Nat : AckMsg(seq) \in Current
    BY MsgTypes DEF Current, AckMsg
  <2>5. \A seq \in Nat, d \in Devices : DoneMsg(seq, d) \in Current
    BY MsgTypes DEF Current, DoneMsg
  <2> QED
    BY <2>2, <2>3, <2>4, <2>5
\* Reports of single commands.
<1>ReportMail.
  ASSUME TypeOK, TypeOK'
  PROVE  /\ \A seq \in Nat : ResponseCommandACK(seq) \/ Publish(<<AckMsg(seq)>>) => MailStep
         /\ \A d \in Devices, exec \in Seq(SeqNo) : ResponseCommandDONE(d, exec) => MailStep
  <2> USE <1>ReportMail
  <2>1. ASSUME NEW seq \in Nat, ResponseCommandACK(seq) \/ Publish(<<AckMsg(seq)>>)
        PROVE  MailStep
    <3>1. <<AckMsg(seq)>> \in Seq(Current)
      BY <1>CurrentMessages, SMT
    <3> QED
      BY <2>1, <3>1, <1>PublishedMail DEF ResponseCommandACK
  <2>2. ASSUME NEW d \in Devices, NEW exec \in Seq(SeqNo), ResponseCommandDONE(d, exec)
        PROVE  MailStep
    <3>1. PICK seq \in ExecutedCommand(exec) : Publish(<<DoneMsg(seq, d)>>)
      BY <2>2 DEF ResponseCommandDONE
    <3>2. seq \in Nat
      BY <3>1, GatewayAssumption, SMT DEF ExecutedCommand, SeqNo
    <3>3. <<DoneMsg(seq, d)>> \in Seq(Current)
      BY <3>2, <1>CurrentMessages, SMT
    <3> QED
      BY <3>1, <3>3, <1>PublishedMail
  <2> QED
    BY <2>1, <2>2
\* REGISTER and the updates of the gateway's information.
<1>RegistrationMail.
  ASSUME TypeOK, TypeOK',
         \/ claimed' = claimed /\ (SendRegisterCmd \/ Update(<<InfoMsg(claimed)>>))
         \/ claimed' = TRUE /\ Update(<<InfoMsg(TRUE)>>)
         \/ Update(<<>>)
  PROVE  MailStep
  <2> USE <1>RegistrationMail
  <2>1. toCloud' = toCloud => MailStep
    BY Parts DEF MailStep, TypeOK, channelTypeOK
  <2>2. <<>> \in Seq(Current)
    BY SMT
  <2>3. <<RegisterMsg, InfoMsg(claimed')>> \in Seq(Current) /\ <<InfoMsg(claimed')>> \in Seq(Current)
    BY <1>CurrentMessages, SMT
  <2>4. CASE claimed' = claimed /\ SendRegisterCmd
    BY <2>3, <2>4, <1>PublishedMail DEF SendRegisterCmd
  <2>5. CASE claimed' = claimed /\ Update(<<InfoMsg(claimed)>>)
    BY <2>1, <2>3, <2>5, <1>PublishedMail DEF Update
  <2>6. CASE claimed' = TRUE /\ Update(<<InfoMsg(TRUE)>>)
    BY <2>1, <2>3, <2>6, <1>PublishedMail DEF Update
  <2>7. CASE Update(<<>>)
    BY <2>1, <2>2, <2>7, <1>PublishedMail DEF Update
  <2> QED
    BY <2>4, <2>5, <2>6, <2>7
\* The push alarm repeats the DONEs of the devices in memory.
<1>AlarmMail.
  ASSUME TypeOK, TypeOK', AlarmCallback
  PROVE  MailStep
  <2> USE <1>AlarmMail
  <2>1. PICK order \in Listings(DoneDevices, Cardinality(Devices)) :
          Publish([i \in DOMAIN order |-> DoneMsg(execCmds[order[i]][1], order[i])])
    BY DEF AlarmCallback
  <2>2. order \in Seq(DoneDevices)
    BY ListingType, ChannelAssumption
  <2>3. \A d \in DoneDevices : DoneMsg(execCmds[d][1], d) \in Current
    <3>1. \A d \in DoneDevices : d \in Devices /\ execCmds[d] # <<>> /\ execCmds[d] \in Seq(SeqNo)
      BY DEF DoneDevices, TypeOK, gatewayTypeOK
    <3>2. \A d \in DoneDevices : d \in Devices /\ execCmds[d][1] \in Nat
      BY <3>1, SMT DEF SeqNo
    <3> QED
      BY <3>2, <1>CurrentMessages
  <2> DEFINE msgs == [i \in DOMAIN order |-> DoneMsg(execCmds[order[i]][1], order[i])]
  <2>4. Len(order) \in Nat /\ msgs \in [1 .. Len(order) -> Current]
    BY <2>2, <2>3, SMT
  <2> HIDE DEF msgs
  <2>5. msgs \in Seq(Current)
    BY <2>4, SMT
  <2> QED
    BY <2>1, <2>5, <1>PublishedMail DEF msgs
\* What a handler of the gateway reports to the cloud.
<1>GatewayReceiveMail.
  ASSUME TypeOK, TypeOK', GatewayReceive
  PROVE  MailStep /\ claimed' = claimed
  <2> USE <1>GatewayReceiveMail
  <2> DEFINE m == Head(toGateway)
  <2>1. /\ ParseCmd(m)
        /\ m.type = "CLIENT" => m \in ClientMsgs
        /\ m.type = "DONE_ACK" => m \in DoneAckMsgs
    BY GatewayMessage
  <2> HIDE DEF m
  <2>2. CASE toCloud' = toCloud /\ claimed' = claimed
    BY <2>2, Parts DEF MailStep, TypeOK, channelTypeOK
  <2>3. execCmds \in [Devices -> Seq(SeqNo)]
    BY DEF TypeOK, gatewayTypeOK
  <2>4. CASE m.type = "CLIENT" /\ HandleClientCommand(m)
    <3>1. m.dev \in Devices /\ m.seq \in Nat
      BY <2>1, <2>4 DEF ClientMsgs, SeqNo
    <3>2. CASE HandleOldCommand(m)
      BY <2>2, <2>3, <3>1, <3>2, <1>ReportMail DEF HandleOldCommand, tables
    <3>3. CASE StoreNewCommand(m)
      BY <3>1, <3>3, <1>ReportMail DEF StoreNewCommand
    <3> QED
      BY <2>2, <2>4, <3>2, <3>3 DEF HandleClientCommand, RefuseNewCommand, gatewayVars, tables
  <2>5. CASE m.type = "DONE_ACK" /\ HandleCommandDoneAck(m)
    <3>1. m.dev \in Devices /\ execCmds[m.dev] \in Seq(SeqNo)
      BY <2>1, <2>3, <2>5 DEF DoneAckMsgs
    <3>2. CASE DoneAckMatches(m) /\ ResponseCommandDONE(m.dev, Tail(execCmds[m.dev]))
      <4>1. Tail(execCmds[m.dev]) \in Seq(SeqNo)
        BY <3>1, <3>2, TailType DEF DoneAckMatches
      <4> QED
        BY <2>5, <3>1, <3>2, <4>1, <1>ReportMail DEF HandleCommandDoneAck
    <3> QED
      BY <2>2, <2>5, <3>2 DEF HandleCommandDoneAck
  <2>6. CASE ReqRegisterCmd
    BY <2>6, <1>RegistrationMail DEF ReqRegisterCmd, tables
  <2> QED
    BY <2>1, <2>4, <2>5, <2>6 DEF ParseCmd
\* Every step adds current messages to the channel or takes messages away,
\* and the gateway stays claimed.
<1>MailSteps.
  ASSUME TypeOK, [Next]_vars
  PROVE  MailStep /\ (claimed => claimed')
  <2> USE <1>MailSteps
  <2>1. TypeOK'
    BY TypeStep
  <2>2. CASE toCloud' = toCloud /\ claimed' = claimed
    BY <2>2, Parts DEF MailStep, TypeOK, channelTypeOK
  <2>3. execCmds \in [Devices -> Seq(SeqNo)] /\ toCloud \in Seq(CloudBound) /\ sequenceNumber \in Nat
    BY DEF TypeOK, gatewayTypeOK, channelTypeOK
  <2>4. CASE GatewayReceive
    BY <2>1, <2>4, <1>GatewayReceiveMail, SMT
  <2>5. CASE CloudReceive
    BY <2>3, <2>5, Parts DEF CloudReceive, MailStep, gatewayVars, tables
  <2>6. ASSUME NEW d \in Devices, GatewayDeviceStep(d)
        PROVE  MailStep /\ claimed' = claimed
    <3>1. CASE RegisterNow(d)
      BY <2>1, <3>1, <1>RegistrationMail DEF RegisterNow, tables
    <3>2. CASE CmdRespOK(d) /\ recvCmds[d] # <<>>
      <4> DEFINE exec == Append(execCmds[d], recvCmds[d][1].seq)
      <4>1. exec \in Seq(SeqNo)
        <5>1. recvCmds[d][1] \in RecvCmd
          BY <3>2, FirstType DEF TypeOK, gatewayTypeOK
        <5> QED
          BY <2>3, <5>1, AppendType DEF RecvCmd
      <4>2. ResponseCommandDONE(d, exec) \/ toCloud' = toCloud
        BY <3>2 DEF CmdRespOK
      <4> HIDE DEF exec
      <4>3. claimed' = claimed
        BY <3>2 DEF CmdRespOK
      <4> QED
        BY <2>1, <2>2, <4>1, <4>2, <4>3, <1>ReportMail
    <3> QED
      BY <2>2, <2>6, <3>1, <3>2
         DEF GatewayDeviceStep, DeviceCmdRespCallback, CmdRespError, CmdRespTimeout, tables
  <2>7. CASE PushAlarm
    BY <2>1, <2>7, <1>AlarmMail DEF PushAlarm, AlarmCallback, tables
  <2>8. CASE AckAlarm
    BY <2>1, <2>3, <2>8, <1>ReportMail DEF AckAlarm, StatusACKCallback, tables
  <2>9. CASE RegisterAlarm \/ SyncAlarm
    <3>1. claimed' = claimed /\ (SendRegisterCmd \/ Update(<<InfoMsg(claimed)>>))
      BY <2>9 DEF RegisterAlarm, SyncAlarm, KeepaliveAlarm, SyncAlarmCallback, tables
    <3> QED
      BY <2>1, <3>1, <1>RegistrationMail
  <2>10. CASE Claim
    <3>1. claimed' = TRUE /\ Update(<<InfoMsg(TRUE)>>)
      BY <2>10 DEF Claim, ClaimGateway
    <3> QED
      BY <2>1, <3>1, <1>RegistrationMail
  <2>11. CASE LinkStep
    <3>1. claimed' = claimed /\ (SendRegisterCmd \/ toCloud' = toCloud)
      BY <2>11 DEF LinkStep, Connect, OnConnect, OnDisconnect, gatewayVars, tables
    <3> QED
      BY <2>1, <2>2, <3>1, <1>RegistrationMail
  <2>12. CASE Fault
    <3>1. CASE Disconnect \/ LoseToCloud
      <4>1. PartOf(toCloud', toCloud)
        BY <2>3, <3>1, Parts DEF Disconnect, LoseToCloud
      <4>2. claimed' = claimed
        BY <3>1 DEF Disconnect, LoseToCloud, gatewayVars, tables
      <4> QED
        BY <4>1, <4>2 DEF MailStep
    <3>2. CASE DeviceExpired
      BY <2>1, <3>2, <1>RegistrationMail, SMT DEF DeviceExpired, KeepAliveExpired, tables
    <3> QED
      BY <2>2, <2>12, <3>1, <3>2
         DEF Fault, GatewayRestart, Restart, CloudInitGateway, gatewayVars, tables
  <2>13. CASE AdministratorStep \/ OwnerStep \/ ClientReceive \/ (\E d \in Devices : ClientStep(d))
    BY <2>2, <2>13 DEF AdministratorStep, OwnerStep, ClientReceive, ClientStep, gatewayVars, tables
  <2>14. CASE UNCHANGED vars
    BY <2>2, <2>14 DEF vars, gatewayVars, tables
  <2> QED
    BY <2>4, <2>5, <2>6, <2>7, <2>8, <2>9, <2>10, <2>11, <2>12, <2>13, <2>14 DEF Next
\* The channel keeps the order of what it says about the claim.
<1>MailTold.
  ASSUME TypeOK, MailStep, claimed => claimed', owner => claimed, ClaimTold(toCloud, owner, claimed)
  PROVE  ClaimTold(toCloud', owner, claimed')
  <2> USE <1>MailTold
  <2>1. toCloud \in Seq(CloudBound)
    BY DEF TypeOK, channelTypeOK
  <2>2. CASE PartOf(toCloud', toCloud)
    <3>1. PICK k \in {0, 1} : \A i \in DOMAIN toCloud' :
            i \in Nat /\ i + k \in DOMAIN toCloud /\ toCloud'[i] = toCloud[i + k]
      BY <2>2 DEF PartOf
    <3>2. ASSUME NEW i \in DOMAIN toCloud', NEW j \in DOMAIN toCloud', j < i
          PROVE  j + k < i + k
      <4>1. i \in Nat /\ j \in Nat
        BY <3>1
      <4> QED
        BY <3>2, <4>1, SMT
    <3> QED
      BY <3>1, <3>2 DEF ClaimTold
  <2>3. ASSUME NEW msgs \in Seq(Current), toCloud' = toCloud \o msgs
        PROVE  ClaimTold(toCloud', owner, claimed')
    <3>1. \A m \in Current : (SaysOwned(m) => claimed') /\ (SaysUnowned(m) => ~claimed')
      BY DEF Current, SaysOwned, SaysUnowned
    <3>2. \A k \in DOMAIN msgs : msgs[k] \in Current
      BY SMT
    <3>3. \A i \in DOMAIN toCloud' :
            \/ i \in DOMAIN toCloud /\ toCloud'[i] = toCloud[i]
            \/ toCloud'[i] \in Current /\ \A j \in DOMAIN toCloud : j < i
      BY <2>1, <2>3, <3>2, ConcatIndex, SMT
    <3> SUFFICES ASSUME NEW i \in DOMAIN toCloud'
                 PROVE  /\ SaysOwned(toCloud'[i]) => claimed'
                        /\ SaysUnowned(toCloud'[i]) =>
                             ~owner /\ \A j \in DOMAIN toCloud' : j < i => ~SaysOwned(toCloud'[j])
      BY DEF ClaimTold
    <3>4. CASE i \in DOMAIN toCloud /\ toCloud'[i] = toCloud[i]
      <4>1. i \in Nat /\ DOMAIN toCloud' \subseteq Nat
        BY <2>1, <2>3, <3>4, SMT
      <4>2. \A j \in DOMAIN toCloud' : j < i => j \in DOMAIN toCloud /\ toCloud'[j] = toCloud[j]
        BY <3>3, <3>4, <4>1, SMT
      <4> QED
        BY <3>4, <4>2 DEF ClaimTold
    <3>5. CASE toCloud'[i] \in Current
      BY <3>1, <3>3, <3>5 DEF ClaimTold
    <3> QED
      BY <3>3, <3>4, <3>5
  <2> QED
    BY <2>2, <2>3 DEF MailStep
<1> SUFFICES ASSUME TypeOK, InfoInv, [Next]_vars
             PROVE  InfoInv'
  OBVIOUS
<1>1. ClaimTold(toCloud', owner, claimed') /\ (claimed => claimed')
  BY <1>MailSteps, <1>MailTold DEF InfoInv
<1>2. ownerCommands' # <<>> => ownerCommands # <<>> \/ owner
  <2>1. CASE QueueKept
    BY <2>1 DEF QueueKept
  <2>2. ASSUME NEW d \in Devices, IssuedToOwner(d) \/ \E cmd \in PendingCmd : IssuedToGateway(d, cmd)
        PROVE  ownerCommands' # <<>> => ownerCommands # <<>> \/ owner
    BY <2>2 DEF IssuedToOwner, IssuedToGateway
  <2>3. CASE Rejected \/ \E cmd \in PendingCmd : Approved(cmd)
    BY <2>3 DEF Rejected, Approved
  <2> QED
    BY <2>1, <2>2, <2>3, QueueStep
<1>3. CASE owner' = owner
  BY <1>1, <1>2, <1>3 DEF InfoInv
<1>4. CASE CloudReceive /\ Head(toCloud).type = "INFO" /\ UpdateGatewayCommand(Head(toCloud))
  <2> DEFINE m == Head(toCloud)
  <2>1. toCloud \in Seq(CloudBound) /\ toCloud # <<>> /\ toCloud' = Tail(toCloud)
    BY <1>4 DEF CloudReceive, TypeOK, channelTypeOK
  <2>2. /\ m = toCloud[1] /\ 1 \in DOMAIN toCloud
        /\ \A i \in DOMAIN toCloud' :
             i \in Nat /\ i + 1 \in DOMAIN toCloud /\ i + 1 > 1 /\ toCloud'[i] = toCloud[i + 1]
    BY <2>1, TailIndex, SMT
  <2>3. owner' = m.owner /\ ownerCommands' = ownerCommands /\ m.type = "INFO" /\ claimed' = claimed
    BY <1>4 DEF UpdateGatewayCommand, CloudReceive, gatewayVars, tables
  <2>4. owner' \in BOOLEAN
    BY TypeStep DEF TypeOK, cloudTypeOK
  <2> HIDE DEF m
  <2>5. SaysOwned(m) \/ SaysUnowned(m)
    BY <2>3 DEF SaysOwned, SaysUnowned
  <2>6. CASE SaysOwned(m)
    <3>1. owner'
      BY <2>3, <2>6 DEF SaysOwned
    <3>2. claimed'
      BY <2>2, <2>3, <2>6 DEF InfoInv, ClaimTold
    <3>3. \A i \in DOMAIN toCloud' : ~SaysUnowned(toCloud'[i])
      BY <2>2, <2>6 DEF InfoInv, ClaimTold
    <3> QED
      BY <3>1, <3>2, <3>3 DEF InfoInv, ClaimTold
  <2>7. CASE SaysUnowned(m)
    <3>1. ~owner' /\ ~owner
      BY <2>2, <2>3, <2>7 DEF SaysUnowned, InfoInv, ClaimTold
    <3>2. ownerCommands' = <<>>
      BY <2>3, <3>1 DEF InfoInv
    <3> QED
      BY <1>1, <3>1, <3>2 DEF InfoInv, ClaimTold
  <2> QED
    BY <2>5, <2>6, <2>7
<1>5. CASE CloudReceive
  BY <1>3, <1>4, <1>5 DEF CloudReceive, MessageReceived, RegisterGatewayNow, HandleClientCommandAck,
                          HandleClientCommandDone
<1>6. CASE AdministratorStep \/ OwnerStep
  BY <1>3, <1>6 DEF AdministratorStep, SendCommandToClient, OwnerStep, SetOwnerCommandStatus
<1>7. CASE Fault
  BY <1>3, <1>7 DEF Fault, Disconnect, LoseToCloud, GatewayRestart, CloudInitGateway, InitGateway,
                    DeviceExpired, cloudCmdVars
<1> QED
  BY <1>3, <1>5, <1>6, <1>7
     DEF Next, vars, cloudCmdVars, GatewayReceive, GatewayDeviceStep, ClientStep, PushAlarm,
         AckAlarm, RegisterAlarm, SyncAlarm, Claim, LinkStep, ClientReceive

-----------------------------------------------------------------------------
(* The numbers on the way of the commands: the gateway's, those in the     *)
(* channel to it, in the cloud's queue, in the owner's list, and the last  *)
(* issued, never decrease.                                                 *)

\* n is no higher than what is queued and listed, or issued last.
Ahead(n, queue, list, last) ==
  /\ n <= last
  /\ \A i \in DOMAIN queue : n <= queue[i].seq
  /\ \A k \in DOMAIN list : n <= list[k].seq

QueueOrder(queue, list, last) ==
  /\ \A i \in DOMAIN queue :
       /\ queue[i].seq <= last
       /\ \A j \in DOMAIN queue : i < j => queue[i].seq <= queue[j].seq
       /\ \A k \in DOMAIN list : queue[i].seq <= list[k].seq
  /\ \A k \in DOMAIN list :
       /\ list[k].seq <= last
       /\ \A l \in DOMAIN list : k < l => list[k].seq <= list[l].seq

\* The step keeps queue and list in order, and what was ahead of their numbers
\* is ahead of the new ones.
OrderKept ==
  /\ QueueOrder(pending', ownerCommands', Len(transmitted'))
  /\ \A n \in Nat : Ahead(n, pending, ownerCommands, Len(transmitted)) =>
                      Ahead(n, pending', ownerCommands', Len(transmitted'))

\* Every step keeps the order of the queue and the owner's list.
LEMMA OrderStep ==
  TypeOK /\ InfoInv /\ QueueOrder(pending, ownerCommands, Len(transmitted)) /\ [Next]_vars =>
    OrderKept
\* A command joins the queue behind the others and before the listed ones.
<1>QueueGrows.
  ASSUME NEW queue \in Seq(PendingCmd), NEW list, NEW last,
         QueueOrder(queue, list, last), NEW cmd \in PendingCmd, cmd.seq <= last,
         \A i \in DOMAIN queue : queue[i].seq <= cmd.seq,
         \A k \in DOMAIN list : cmd.seq <= list[k].seq
  PROVE  QueueOrder(Append(queue, cmd), list, last)
  <2> USE <1>QueueGrows
  <2> DEFINE q == Append(queue, cmd)
  <2>1. /\ \A i \in DOMAIN q : (i \in DOMAIN queue /\ q[i] = queue[i]) \/ (i = Len(queue) + 1 /\ q[i] = cmd)
        /\ \A i \in DOMAIN queue : i \in Nat /\ i < Len(queue) + 1
        /\ Len(queue) \in Nat
    BY AppendIndex, SMT
  <2> HIDE DEF q
  <2>2. ASSUME NEW i \in DOMAIN q, NEW j \in DOMAIN q, i < j
        PROVE  q[i].seq <= q[j].seq
    <3>1. CASE j \in DOMAIN queue /\ q[j] = queue[j]
      <4>1. i \in DOMAIN queue /\ q[i] = queue[i]
        BY <2>1, <2>2, <3>1, SMT
      <4> QED
        BY <2>2, <3>1, <4>1 DEF QueueOrder
    <3>2. CASE j = Len(queue) + 1 /\ q[j] = cmd
      <4>1. i \in DOMAIN queue /\ q[i] = queue[i]
        BY <2>1, <2>2, <3>2, SMT
      <4> QED
        BY <3>2, <4>1
    <3> QED
      BY <2>1, <3>1, <3>2
  <2>3. \A i \in DOMAIN q : q[i].seq <= last /\ \A k \in DOMAIN list : q[i].seq <= list[k].seq
    BY <2>1 DEF QueueOrder
  <2> QED
    BY <2>2, <2>3 DEF QueueOrder, q
\* The owner's list loses its first command.
<1>ListShrinks.
  ASSUME NEW queue, NEW list \in Seq(OwnerCmd), list # <<>>, NEW last, QueueOrder(queue, list, last)
  PROVE  QueueOrder(queue, Tail(list), last)
  <2> USE <1>ListShrinks
  <2> DEFINE t == Tail(list)
  <2>1. \A k \in DOMAIN t : k \in Nat /\ k + 1 \in DOMAIN list /\ t[k] = list[k + 1]
    BY TailIndex
  <2> HIDE DEF t
  <2>2. ASSUME NEW k \in DOMAIN t, NEW l \in DOMAIN t, k < l
        PROVE  t[k].seq <= t[l].seq
    <3>1. k + 1 < l + 1
      BY <2>1, <2>2, SMT
    <3> QED
      BY <2>1, <2>2, <3>1 DEF QueueOrder
  <2>3. /\ \A k \in DOMAIN t : t[k].seq <= last
        /\ \A i \in DOMAIN queue : \A k \in DOMAIN t : queue[i].seq <= t[k].seq
    BY <2>1 DEF QueueOrder
  <2> QED
    BY <2>2, <2>3 DEF QueueOrder, t
\* A command is issued to the owner.
<1>ListGrows.
  ASSUME NEW queue, NEW list \in Seq(OwnerCmd), NEW last, NEW cmd \in OwnerCmd, cmd.seq = last,
         QueueOrder(queue, list, last)
  PROVE  QueueOrder(queue, Append(list, cmd), last)
  <2> USE <1>ListGrows
  <2> DEFINE t == Append(list, cmd)
  <2>1. /\ \A k \in DOMAIN t : (k \in DOMAIN list /\ t[k] = list[k]) \/ (k = Len(list) + 1 /\ t[k] = cmd)
        /\ \A k \in DOMAIN list : k \in Nat /\ k < Len(list) + 1
        /\ Len(list) \in Nat
    BY AppendIndex, SMT
  <2> HIDE DEF t
  <2>2. last <= last
    BY SMT DEF OwnerCmd, SeqNo
  <2>3. ASSUME NEW k \in DOMAIN t, NEW l \in DOMAIN t, k < l
        PROVE  t[k].seq <= t[l].seq
    <3>1. k \in DOMAIN list /\ t[k] = list[k]
      BY <2>1, <2>3, SMT
    <3> QED
      BY <2>1, <2>3, <3>1 DEF QueueOrder
  <2>4. /\ \A k \in DOMAIN t : t[k].seq <= last
        /\ \A i \in DOMAIN queue : \A k \in DOMAIN t : queue[i].seq <= t[k].seq
    BY <2>1, <2>2 DEF QueueOrder
  <2> QED
    BY <2>3, <2>4 DEF QueueOrder, t
\* A new command has the highest number, and is queued only when no other
\* command waits for an owner.
<1>IssueOrder.
  ASSUME TypeOK, InfoInv, QueueOrder(pending, ownerCommands, Len(transmitted)), NEW d \in Devices,
         IssuedToOwner(d) \/ \E cmd \in PendingCmd : IssuedToGateway(d, cmd)
  PROVE  OrderKept
  <2> USE <1>IssueOrder
  <2> DEFINE last == Len(transmitted)
  <2>1. /\ transmitted \in Seq(Transmitted) /\ ownerCommands \in Seq(OwnerCmd)
        /\ pending \in Seq(PendingCmd)
    BY DEF TypeOK, cloudTypeOK
  <2>2. /\ \A i \in DOMAIN pending : pending[i].seq \in Nat
        /\ \A k \in DOMAIN ownerCommands : ownerCommands[k].seq \in Nat
        /\ last \in Nat
    <3>1. /\ \A i \in DOMAIN pending : pending[i] \in PendingCmd
          /\ \A k \in DOMAIN ownerCommands : ownerCommands[k] \in OwnerCmd
          /\ last \in Nat
      BY <2>1, SMT
    <3> QED
      BY <3>1 DEF PendingCmd, OwnerCmd, SeqNo
  <2>3. Len(transmitted') = last + 1
    <3>1. PICK e : transmitted' = Append(transmitted, e)
      BY DEF IssuedToOwner, IssuedToGateway
    <3> QED
      BY <2>1, <3>1, SMT
  <2> HIDE DEF last
  <2>4. QueueOrder(pending, ownerCommands, last) /\ GlobalCommandSeqNo = last + 1
    BY DEF last, GlobalCommandSeqNo
  <2>5. /\ \A i \in DOMAIN pending : pending[i].seq <= last + 1
        /\ \A k \in DOMAIN ownerCommands : ownerCommands[k].seq <= last + 1
    BY <2>2, <2>4, SMT DEF QueueOrder
  <2>6. QueueOrder(pending, ownerCommands, last + 1)
    BY <2>4, <2>5 DEF QueueOrder
  <2>7. CASE IssuedToOwner(d)
    <3> DEFINE c == [seq |-> last + 1, dev |-> d]
    <3>1. ownerCommands' = Append(ownerCommands, c) /\ pending' = pending
      BY <2>4, <2>7 DEF IssuedToOwner
    <3>2. c \in OwnerCmd /\ c.seq = last + 1
      BY <2>2, SMT DEF OwnerCmd, SeqNo
    <3> HIDE DEF c
    <3>3. QueueOrder(pending', ownerCommands', last + 1)
      BY <2>1, <2>6, <3>1, <3>2, <1>ListGrows
    <3>4. \A k \in DOMAIN ownerCommands' :
            (k \in DOMAIN ownerCommands /\ ownerCommands'[k] = ownerCommands[k]) \/ ownerCommands'[k] = c
      BY <2>1, <3>1, AppendIndex, SMT
    <3>5. \A n \in Nat : Ahead(n, pending, ownerCommands, last) => Ahead(n, pending', ownerCommands', last + 1)
      BY <2>2, <3>1, <3>2, <3>4, SMT DEF Ahead
    <3> QED
      BY <2>3, <3>3, <3>5 DEF OrderKept, last
  <2>8. ASSUME NEW cmd \in PendingCmd, IssuedToGateway(d, cmd)
        PROVE  OrderKept
    <3>1. pending' = Append(pending, cmd) /\ cmd.seq = last + 1 /\ ownerCommands = <<>> /\ ownerCommands' = <<>>
      BY <2>4, <2>8 DEF IssuedToGateway, InfoInv
    <3>2. cmd.seq <= last + 1 /\ DOMAIN ownerCommands = {}
      BY <2>2, <3>1, SMT
    <3>3. QueueOrder(pending', ownerCommands', last + 1)
      BY <2>1, <2>5, <2>6, <3>1, <3>2, <1>QueueGrows
    <3>4. \A i \in DOMAIN pending' : (i \in DOMAIN pending /\ pending'[i] = pending[i]) \/ pending'[i] = cmd
      BY <2>1, <3>1, AppendIndex, SMT
    <3>5. \A n \in Nat : Ahead(n, pending, ownerCommands, last) => Ahead(n, pending', ownerCommands', last + 1)
      BY <2>2, <3>1, <3>4, SMT DEF Ahead
    <3> QED
      BY <2>3, <3>3, <3>5 DEF OrderKept, last
  <2> QED
    BY <2>7, <2>8
\* The owner decides on the first command listed; approved, it goes to the
\* end of the queue.
<1>DecisionOrder.
  ASSUME TypeOK, QueueOrder(pending, ownerCommands, Len(transmitted)),
         Rejected \/ \E cmd \in PendingCmd : Approved(cmd)
  PROVE  OrderKept
  <2> USE <1>DecisionOrder
  <2> DEFINE last == Len(transmitted)
  <2>1. /\ transmitted \in Seq(Transmitted) /\ ownerCommands \in Seq(OwnerCmd)
        /\ pending \in Seq(PendingCmd) /\ cloudTypeOK
    BY DEF TypeOK, cloudTypeOK
  <2>2. ownerCommands # <<>> /\ ownerCommands' = Tail(ownerCommands)
    BY DEF Rejected, Approved
  <2>3. Len(transmitted') = last
    <3>1. "REJECTED" \in CommandStates /\ "DELIVERING_TO_GATEWAY" \in CommandStates
      BY DEF CommandStates
    <3>2. PICK state \in CommandStates : SetState(ownerCommands[1].seq, state)
      BY <3>1 DEF Rejected, Approved
    <3>3. transmitted' \in Seq(Transmitted) /\ DOMAIN transmitted' = DOMAIN transmitted
      BY <2>1, <3>2, SetStateType
    <3> QED
      BY <2>1, <3>3, SMT DEF last
  <2> HIDE DEF last
  <2>4. /\ 1 \in DOMAIN ownerCommands
        /\ \A k \in DOMAIN ownerCommands' :
             k \in Nat /\ k + 1 \in DOMAIN ownerCommands /\ k + 1 > 1 /\ ownerCommands'[k] = ownerCommands[k + 1]
    BY <2>1, <2>2, TailIndex, SMT
  <2>5. QueueOrder(pending, ownerCommands, last)
    BY DEF last
  <2>6. QueueOrder(pending, ownerCommands', last)
    BY <2>1, <2>2, <2>5, <1>ListShrinks
  <2>7. CASE Rejected
    <3>1. \A n : Ahead(n, pending, ownerCommands, last) => Ahead(n, pending', ownerCommands', last)
      BY <2>4, <2>7 DEF Rejected, Ahead
    <3> QED
      BY <2>3, <2>6, <2>7, <3>1 DEF Rejected, OrderKept, last
  <2>8. ASSUME NEW cmd \in PendingCmd, Approved(cmd)
        PROVE  OrderKept
    <3>1. pending' = Append(pending, cmd) /\ cmd.seq = ownerCommands[1].seq
      BY <2>8 DEF Approved
    <3>2. /\ cmd.seq <= last
          /\ \A i \in DOMAIN pending : pending[i].seq <= cmd.seq
          /\ \A k \in DOMAIN ownerCommands' : cmd.seq <= ownerCommands'[k].seq
      BY <2>4, <2>5, <3>1 DEF QueueOrder
    <3>3. QueueOrder(pending', ownerCommands', last)
      BY <2>1, <2>6, <3>1, <3>2, <1>QueueGrows
    <3>4. \A i \in DOMAIN pending' : (i \in DOMAIN pending /\ pending'[i] = pending[i]) \/ pending'[i] = cmd
      BY <2>1, <3>1, AppendIndex, SMT
    <3>5. \A n : Ahead(n, pending, ownerCommands, last) => Ahead(n, pending', ownerCommands', last)
      BY <2>4, <3>1, <3>4 DEF Ahead
    <3> QED
      BY <2>3, <3>3, <3>5 DEF OrderKept, last
  <2> QED
    BY <2>7, <2>8
<1> SUFFICES ASSUME TypeOK, InfoInv, QueueOrder(pending, ownerCommands, Len(transmitted)), [Next]_vars
             PROVE  OrderKept
  OBVIOUS
<1>1. CASE QueueKept
  <2>1. /\ pending \in Seq(PendingCmd) /\ transmitted \in Seq(Transmitted)
        /\ pending' \in Seq(PendingCmd) /\ transmitted' \in Seq(Transmitted)
    BY TypeStep DEF TypeOK, cloudTypeOK
  <2>2. Len(transmitted') = Len(transmitted) /\ ownerCommands' = ownerCommands
    BY <1>1, <2>1, SMT DEF QueueKept
  <2>3. PICK k \in {0, 1} : \A i \in DOMAIN pending' :
          i \in Nat /\ i + k \in DOMAIN pending /\ pending'[i] = pending[i + k]
    BY <1>1 DEF QueueKept, PartOf
  <2>4. ASSUME NEW i \in DOMAIN pending', NEW j \in DOMAIN pending', i < j
        PROVE  pending'[i].seq <= pending'[j].seq
    <3>1. i + k < j + k
      <4>1. i \in Nat /\ j \in Nat
        BY <2>3
      <4> QED
        BY <2>4, <4>1, SMT
    <3> QED
      BY <2>3, <2>4, <3>1 DEF QueueOrder
  <2>5. QueueOrder(pending', ownerCommands', Len(transmitted'))
    BY <2>2, <2>3, <2>4 DEF QueueOrder
  <2>6. \A n : Ahead(n, pending, ownerCommands, Len(transmitted)) =>
                 Ahead(n, pending', ownerCommands', Len(transmitted'))
    BY <2>2, <2>3 DEF Ahead
  <2> QED
    BY <2>5, <2>6 DEF OrderKept
<1> QED
  BY <1>1, QueueStep, <1>IssueOrder, <1>DecisionOrder

\* The commands in the channel are in order, from n on.
ChannelOrder(n, channel) ==
  \A i \in DOMAIN channel : channel[i].type = "CLIENT" =>
    /\ n <= channel[i].seq
    /\ \A j \in DOMAIN channel : i < j /\ channel[j].type = "CLIENT" => channel[i].seq <= channel[j].seq

AllAhead(channel, queue, list, last) ==
  \A i \in DOMAIN channel : channel[i].type = "CLIENT" => Ahead(channel[i].seq, queue, list, last)

WayInv ==
  /\ sequenceNumber = maxSequenceNumber
  /\ ChannelOrder(maxSequenceNumber, toGateway)
  /\ Ahead(maxSequenceNumber, pending, ownerCommands, Len(transmitted))
  /\ AllAhead(toGateway, pending, ownerCommands, Len(transmitted))
  /\ QueueOrder(pending, ownerCommands, Len(transmitted))

\* The queue first, then the gateway's number, then the channel.
LEMMA WayStep ==
  TypeOK /\ InfoInv /\ WayInv /\ [Next]_vars => WayInv' /\ maxSequenceNumber' >= maxSequenceNumber
\* What the step leaves in the channel, or sends from the head of the queue,
\* is still in order.
<1>ChannelOrderStep.
  ASSUME TypeOK, [Next]_vars, NEW n \in Nat, NEW list, NEW last, ChannelOrder(n, toGateway),
         Ahead(n, pending', list, last), AllAhead(toGateway, pending', list, last),
         QueueOrder(pending', list, last)
  PROVE  ChannelOrder(n, toGateway') /\ AllAhead(toGateway', pending', list, last)
  <2> USE <1>ChannelOrderStep
  <2>1. toGateway \in Seq(GatewayBound) /\ pending' \in Seq(PendingCmd)
    BY TypeStep DEF TypeOK, channelTypeOK, cloudTypeOK
  <2>2. CASE PartOf(toGateway', toGateway)
    <3>1. PICK k \in {0, 1} : \A i \in DOMAIN toGateway' :
            i \in Nat /\ i + k \in DOMAIN toGateway /\ toGateway'[i] = toGateway[i + k]
      BY <2>2 DEF PartOf
    <3>2. ASSUME NEW i \in DOMAIN toGateway', NEW j \in DOMAIN toGateway', i < j
          PROVE  i + k < j + k
      <4>1. i \in Nat /\ j \in Nat
        BY <3>1
      <4> QED
        BY <3>2, <4>1, SMT
    <3>3. ChannelOrder(n, toGateway')
      BY <3>1, <3>2 DEF ChannelOrder
    <3>4. AllAhead(toGateway', pending', list, last)
      BY <3>1 DEF AllAhead
    <3> QED
      BY <3>3, <3>4
  <2>3. ASSUME NEW x, ChannelGets(x), x.type = "CLIENT" => pending' # <<>> /\ x.seq = pending'[1].seq
        PROVE  ChannelOrder(n, toGateway') /\ AllAhead(toGateway', pending', list, last)
    <3>1. /\ \A i \in DOMAIN toGateway' :
               \/ i \in DOMAIN toGateway /\ toGateway'[i] = toGateway[i]
               \/ i = Len(toGateway) + 1 /\ toGateway'[i] = x
          /\ \A i \in DOMAIN toGateway : i \in Nat /\ i < Len(toGateway) + 1
          /\ Len(toGateway) \in Nat
      BY <2>1, <2>3, AppendIndex, SMT DEF ChannelGets
    <3>2. pending' # <<>> => 1 \in DOMAIN pending' /\ pending'[1] \in PendingCmd
      BY <2>1, SMT
    <3>3. \A i \in DOMAIN pending' : i = 1 \/ 1 < i
      BY <2>1, SMT
    <3>4. pending' # <<>> => Ahead(pending'[1].seq, pending', list, last)
      <4>1. pending' # <<>> => pending'[1].seq <= pending'[1].seq
        BY <3>2, SMT DEF PendingCmd, SeqNo
      <4> QED
        BY <3>2, <3>3, <4>1 DEF QueueOrder, Ahead
    <3>5. x.type = "CLIENT" => Ahead(x.seq, pending', list, last) /\ n <= x.seq
      BY <2>3, <3>2, <3>4 DEF Ahead
    <3>6. \A i \in DOMAIN toGateway : toGateway[i].type = "CLIENT" /\ x.type = "CLIENT" => toGateway[i].seq <= x.seq
      BY <2>3, <3>2 DEF AllAhead, Ahead
    <3>7. AllAhead(toGateway', pending', list, last)
      BY <3>1, <3>5 DEF AllAhead
    <3>8. ASSUME NEW i \in DOMAIN toGateway', NEW j \in DOMAIN toGateway', i < j,
                 toGateway'[i].type = "CLIENT", toGateway'[j].type = "CLIENT"
          PROVE  toGateway'[i].seq <= toGateway'[j].seq
      <4>1. i \in DOMAIN toGateway /\ toGateway'[i] = toGateway[i]
        BY <3>1, <3>8, SMT
      <4> QED
        BY <3>1, <3>6, <3>8, <4>1 DEF ChannelOrder
    <3>9. \A i \in DOMAIN toGateway' : toGateway'[i].type = "CLIENT" => n <= toGateway'[i].seq
      BY <3>1, <3>5 DEF ChannelOrder
    <3> QED
      BY <3>7, <3>8, <3>9 DEF ChannelOrder
  <2>4. ChannelStep
    BY QueueStep
  <2> QED
    BY <2>2, <2>3, <2>4 DEF ChannelStep
\* The gateway's number is that of the last command it stored: an old command
\* it answers is that one.
<1>NumberStep.
  ASSUME TypeOK, WayInv, [Next]_vars
  PROVE  /\ sequenceNumber' = maxSequenceNumber'
         /\ \/ maxSequenceNumber' = maxSequenceNumber
            \/ /\ GatewayReceive /\ Head(toGateway).type = "CLIENT"
               /\ maxSequenceNumber' = Head(toGateway).seq
  <2> USE <1>NumberStep
  <2>1. sequenceNumber = maxSequenceNumber /\ sequenceNumber \in Nat
    BY DEF WayInv, TypeOK, gatewayTypeOK
  <2>2. CASE UNCHANGED <<sequenceNumber, maxSequenceNumber>>
    BY <2>1, <2>2
  <2>3. CASE GatewayReceive
    <3> DEFINE m == Head(toGateway)
    <3>1. ParseCmd(m) /\ (m.type = "CLIENT" => m \in ClientMsgs)
      BY <2>3, GatewayMessage
    <3>2. m = toGateway[1] /\ 1 \in DOMAIN toGateway
      BY <2>3, FirstType, SMT DEF GatewayReceive, TypeOK, channelTypeOK
    <3>3. m.type = "CLIENT" => maxSequenceNumber <= m.seq
      BY <3>2 DEF WayInv, ChannelOrder
    <3> HIDE DEF m
    <3>4. CASE m.type = "CLIENT" /\ IsOldCommand(m) /\ HandleOldCommand(m)
      <4>1. m.seq = sequenceNumber
        BY <2>1, <3>1, <3>3, <3>4, SMT DEF IsOldCommand, ClientMsgs, SeqNo
      <4> QED
        BY <2>1, <3>4, <4>1 DEF HandleOldCommand, approveVars, tables
    <3>5. CASE m.type = "CLIENT" /\ StoreNewCommand(m)
      BY <2>3, <3>5 DEF StoreNewCommand, m
    <3>6. CASE m.type = "CLIENT" /\ HandleClientCommand(m)
      BY <2>2, <3>4, <3>5, <3>6 DEF HandleClientCommand, RefuseNewCommand, gatewayVars, approveVars, tables
    <3> QED
      BY <2>2, <3>1, <3>6 DEF ParseCmd, HandleCommandDoneAck, ReqRegisterCmd, approveVars, tables
  <2>4. ASSUME NEW d \in Devices, GatewayDeviceStep(d)
        PROVE  UNCHANGED <<sequenceNumber, maxSequenceNumber>>
    BY <2>4 DEF GatewayDeviceStep, RegisterNow, DeviceCmdRespCallback, CmdRespOK, CmdRespError,
                CmdRespTimeout, approveVars, tables
  <2>5. CASE PushAlarm \/ AckAlarm \/ RegisterAlarm \/ SyncAlarm \/ Claim
    BY <2>2, <2>5 DEF PushAlarm, AlarmCallback, AckAlarm, StatusACKCallback, RegisterAlarm, KeepaliveAlarm,
                      SyncAlarm, SyncAlarmCallback, Claim, ClaimGateway, approveVars, tables
  <2>6. CASE LinkStep
    BY <2>2, <2>6 DEF LinkStep, Connect, OnConnect, OnDisconnect, gatewayVars, approveVars, tables
  <2>7. CASE Fault
    BY <2>1, <2>2, <2>7 DEF Fault, Disconnect, LoseToCloud, GatewayRestart, Restart, GetMaxSequenceNumber,
                      CloudInitGateway, DeviceExpired, KeepAliveExpired, gatewayVars, approveVars, tables
  <2>8. CASE CloudReceive \/ AdministratorStep \/ OwnerStep \/ ClientReceive
             \/ (\E d \in Devices : ClientStep(d))
    BY <2>2, <2>8 DEF CloudReceive, AdministratorStep, OwnerStep, ClientReceive, ClientStep,
                      gatewayVars, approveVars, tables
  <2>9. CASE UNCHANGED vars
    BY <2>2, <2>9 DEF vars, gatewayVars, approveVars, tables
  <2> QED
    BY <2>2, <2>3, <2>4, <2>5, <2>6, <2>7, <2>8, <2>9 DEF Next
<1> SUFFICES ASSUME TypeOK, InfoInv, WayInv, [Next]_vars
             PROVE  WayInv' /\ maxSequenceNumber' >= maxSequenceNumber
  OBVIOUS
<1> DEFINE n == maxSequenceNumber'
           list == ownerCommands'
           last == Len(transmitted')
<1>1. OrderKept
  BY OrderStep DEF WayInv
<1>2. /\ maxSequenceNumber \in Nat /\ n \in Nat
      /\ toGateway \in Seq(GatewayBound)
  BY TypeStep DEF TypeOK, gatewayTypeOK, channelTypeOK
<1>3. \A i \in DOMAIN toGateway : toGateway[i].type = "CLIENT" => toGateway[i].seq \in Nat
  <2>1. \A m \in GatewayBound : m.type = "CLIENT" => m.seq \in Nat
    BY SMT DEF GatewayBound, RegisterRequestMsg, ClientMsgs, DoneAckMsgs, SeqNo
  <2>2. \A i \in DOMAIN toGateway : toGateway[i] \in GatewayBound
    BY <1>2, SMT
  <2> QED
    BY <2>1, <2>2
<1>4. /\ QueueOrder(pending', list, last)
      /\ Ahead(maxSequenceNumber, pending', list, last)
      /\ AllAhead(toGateway, pending', list, last)
  <2> HIDE DEF list, last
  <2>1. \A k \in Nat : Ahead(k, pending, ownerCommands, Len(transmitted)) => Ahead(k, pending', list, last)
    BY <1>1 DEF OrderKept, list, last
  <2> QED
    BY <1>1, <1>2, <1>3, <2>1 DEF OrderKept, WayInv, AllAhead, list, last
<1> HIDE DEF n, list, last
<1>5. ChannelOrder(n, toGateway) /\ Ahead(n, pending', list, last) /\ n >= maxSequenceNumber
  <2>1. CASE n = maxSequenceNumber
    BY <1>2, <1>4, <2>1, SMT DEF WayInv
  <2>2. CASE GatewayReceive /\ Head(toGateway).type = "CLIENT" /\ n = Head(toGateway).seq
    <3>1. 1 \in DOMAIN toGateway /\ Head(toGateway) = toGateway[1]
      BY <1>2, <2>2, FirstType, SMT DEF GatewayReceive
    <3>2. maxSequenceNumber <= n /\ Ahead(n, pending', list, last)
      BY <1>4, <2>2, <3>1 DEF WayInv, ChannelOrder, AllAhead
    <3>3. \A i \in DOMAIN toGateway : i = 1 \/ 1 < i
      BY <1>2, SMT
    <3>4. \A i \in DOMAIN toGateway : toGateway[i].type = "CLIENT" => n <= toGateway[i].seq
      BY <1>2, <2>2, <3>1, <3>3, SMT DEF WayInv, ChannelOrder
    <3>5. ChannelOrder(n, toGateway)
      BY <3>4 DEF WayInv, ChannelOrder
    <3> QED
      BY <1>2, <3>2, <3>5
  <2> QED
    BY <2>1, <2>2, <1>NumberStep DEF n
<1>6. ChannelOrder(n, toGateway') /\ AllAhead(toGateway', pending', list, last)
  BY <1>2, <1>4, <1>5, <1>ChannelOrderStep
<1> QED
  BY <1>4, <1>5, <1>6, <1>NumberStep DEF WayInv, n, list, last

\* The numbers on the way of the commands never decrease, from the gateway to
\* the last command issued, whatever is lost, repeated or rejected.
THEOREM WayInvHolds ==
  Spec => [](InfoInv /\ WayInv)
<1>1. Init => InfoInv /\ WayInv
  BY SMT DEF Init, ChannelInit, GatewayInit, ClientInit, CloudInit, InfoInv, ClaimTold, WayInv,
         ChannelOrder, Ahead, AllAhead, QueueOrder
<1>2. TypeOK /\ (InfoInv /\ WayInv) /\ [Next]_vars => (InfoInv /\ WayInv)'
  BY InfoStep, WayStep
<1> QED
  BY <1>1, <1>2, TypeCorrect, PTL DEF Spec

\* Neither handleOldCommand nor a restart lowers the gateway's number.
THEOREM SequenceNumberHolds ==
  Spec => SequenceNumberNeverDecreases
<1>1. TypeOK /\ (InfoInv /\ WayInv) /\ (InfoInv /\ WayInv)' /\ [Next]_vars
        => [sequenceNumber' >= sequenceNumber]_vars
  BY WayStep DEF WayInv
<1> QED
  BY <1>1, TypeCorrect, WayInvHolds, PTL DEF Spec, SequenceNumberNeverDecreases

-----------------------------------------------------------------------------
(* The table, when SQLite writes succeed.                                  *)

\* Every command of the gateway and the clients has at most the number of the
\* last one stored, and every row an id that was given.
StoredInv ==
  /\ HeldIn(1 .. maxSequenceNumber, rows, recvCmds, reqs, accepted)
  /\ \A r \in rows : r.id <= lastId

NewRow(m) == [id |-> lastId + 1, seq |-> m.seq, dev |-> m.dev, exec |-> FALSE]

\* A row was there before, executed now or not, or it is the stored command's.
LEMMA RowStep ==
  ASSUME TypeOK, ~SqlWritesFail, [Next]_vars
  PROVE  /\ lastId' >= lastId
         /\ \A r \in rows' :
              \/ \E o \in rows : o.id = r.id /\ o.seq = r.seq
              \/ /\ GatewayReceive /\ Stores(Head(toGateway))
                 /\ r = NewRow(Head(toGateway)) /\ lastId' = lastId + 1
<1>1. rows \subseteq Row /\ lastId \in Nat
  BY DEF TypeOK, gatewayTypeOK
<1>2. ASSUME lastId' = lastId, \A r \in rows' : \E o \in rows : o.id = r.id /\ o.seq = r.seq
      PROVE  /\ lastId' >= lastId
             /\ \A r \in rows' : \E o \in rows : o.id = r.id /\ o.seq = r.seq
  BY <1>1, <1>2, SMT
<1>3. CASE Kept \/ Restart
  BY <1>2, <1>3 DEF Kept, Restart, tables
<1>4. CASE GatewayReceive /\ (Stores(Head(toGateway)) \/ Refuses(Head(toGateway)))
  <2>1. Stores(Head(toGateway)) /\ InsertRow(Head(toGateway))
    BY <1>4 DEF Stores, Refuses
  <2>2. lastId' = lastId + 1 /\ rows' = rows \cup {NewRow(Head(toGateway))}
    BY <2>1 DEF InsertRow, NewRow
  <2> QED
    BY <1>1, <1>4, <2>1, <2>2, SMT
<1>5. ASSUME NEW d \in Devices, Executes(d)
      PROVE  lastId' = lastId /\ \A r \in rows' : \E o \in rows : o.id = r.id /\ o.seq = r.seq
  BY <1>1, <1>5 DEF Executes, MarkExecutedDeviceCommand, Row
<1>6. ASSUME NEW d \in Devices, Retires(d)
      PROVE  lastId' = lastId /\ \A r \in rows' : \E o \in rows : o.id = r.id /\ o.seq = r.seq
  BY <1>6 DEF Retires, DeleteDeviceCommand
<1> QED
  BY <1>2, <1>3, <1>4, <1>5, <1>6, ListStep

\* Every step keeps the numbers at most the last stored.
LEMMA StoredStep ==
  ASSUME TypeOK, ~SqlWritesFail, OutstandingIsFront, InfoInv, WayInv, StoredInv, [Next]_vars
  PROVE  StoredInv'
<1> DEFINE S == 1 .. maxSequenceNumber'
<1>1. /\ maxSequenceNumber \in Nat /\ maxSequenceNumber' \in Nat /\ lastId \in Nat
      /\ rows \subseteq Row /\ lastId' \in Nat
  BY TypeStep DEF TypeOK, gatewayTypeOK
<1>2. maxSequenceNumber' >= maxSequenceNumber
  BY WayStep
<1>3. HeldIn(S, rows, recvCmds, reqs, accepted)
  <2>1. 1 .. maxSequenceNumber \subseteq S
    BY <1>1, <1>2, SMT
  <2> HIDE DEF S
  <2> QED
    BY <2>1 DEF StoredInv, HeldIn
<1>4. ASSUME GatewayReceive, Stores(Head(toGateway)) \/ Refuses(Head(toGateway))
      PROVE  Head(toGateway).seq \in S
  <2>1. maxSequenceNumber' = Head(toGateway).seq /\ Head(toGateway) \in ClientMsgs
    BY <1>4 DEF Stores, Refuses
  <2> QED
    BY <1>1, <2>1, SMT DEF ClientMsgs, SeqNo
<1> HIDE DEF S
<1>5. HeldIn(S, rows', recvCmds', reqs', accepted')
  BY <1>3, <1>4, HeldStep
<1>6. ASSUME NEW r \in rows'
      PROVE  r.id <= lastId'
  <2>1. CASE \E o \in rows : o.id = r.id
    <3>1. r.id \in Nat /\ r.id <= lastId
      BY <1>1, <2>1 DEF StoredInv, Row, SeqNo
    <3> QED
      BY <1>1, <3>1, RowStep, SMT
  <2>2. CASE r = NewRow(Head(toGateway)) /\ lastId' = lastId + 1
    <3>1. r.id = lastId'
      BY <2>2 DEF NewRow
    <3> QED
      BY <1>1, <3>1, SMT
  <2> QED
    BY <1>6, <2>1, <2>2, RowStep
<1> QED
  BY <1>5, <1>6 DEF StoredInv, S

\* When SQLite writes succeed, the invariant of the table holds.
LEMMA StoredInvHolds ==
  ASSUME ~SqlWritesFail
  PROVE  Spec => []StoredInv
<1>1. Init => StoredInv
  BY SMT DEF Init, ChannelInit, GatewayInit, ClientInit, StoredInv, HeldIn
<1>2. TypeOK /\ OutstandingIsFront /\ (InfoInv /\ WayInv) /\ StoredInv /\ [Next]_vars => StoredInv'
  BY StoredStep
<1> QED
  BY <1>1, <1>2, TypeCorrect, OutstandingIsFrontHolds, WayInvHolds, PTL DEF Spec

\* insertDeviceCommand stores a command at most once: a new row is for a
\* number above all stored before, one no client has accepted.
THEOREM StoredOnceHolds ==
  ASSUME ~SqlWritesFail
  PROVE  Spec => StoredOnce
<1>1. ASSUME TypeOK, InfoInv /\ WayInv, StoredInv, [Next]_vars, NEW r \in rows', r.id > lastId
      PROVE  r.seq > maxSequenceNumber /\ r.seq \notin accepted
  <2>1. maxSequenceNumber \in Nat /\ lastId \in Nat /\ rows \subseteq Row
    BY <1>1 DEF TypeOK, gatewayTypeOK
  <2>2. \A o \in rows : o.id # r.id
    BY <1>1, <2>1, SMT DEF StoredInv, Row, SeqNo
  <2>3. Stores(Head(toGateway)) /\ r.seq = Head(toGateway).seq
    BY <1>1, <2>2, RowStep, SMT DEF NewRow
  <2>4. r.seq > maxSequenceNumber
    BY <1>1, <2>3 DEF Stores, WayInv
  <2>5. \A n \in accepted : ~(n > maxSequenceNumber)
    <3>1. accepted \subseteq 1 .. maxSequenceNumber
      BY <1>1 DEF StoredInv, HeldIn
    <3> QED
      BY <2>1, <3>1, SMT
  <2> QED
    BY <2>4, <2>5
<1>2. TypeOK /\ (InfoInv /\ WayInv) /\ StoredInv /\ [Next]_vars
        => [\A r \in rows' : r.id > lastId => r.seq > maxSequenceNumber /\ r.seq \notin accepted]_vars
  BY <1>1
<1> QED
  BY <1>2, TypeCorrect, WayInvHolds, StoredInvHolds, PTL DEF Spec, StoredOnce

-----------------------------------------------------------------------------
(* The lists in memory and the rows of the table, in order.                *)

Numbers(cmds) == [i \in DOMAIN cmds |-> cmds[i].seq]

Rising(s) == \A i, j \in DOMAIN s : i < j => s[i] < s[j]

\* The numbers of the rows of a device that wait, and that were executed.
Waiting(table, d) == {r.seq : r \in {x \in table : x.dev = d /\ ~x.exec}}
Executed(table, d) == {r.seq : r \in {x \in table : x.dev = d /\ x.exec}}

\* The numbers of a list without its first, and with one more.
LEMMA NumbersOf ==
  ASSUME NEW cmds \in Seq(RecvCmd)
  PROVE  /\ Numbers(cmds) \in Seq(SeqNo)
         /\ cmds # <<>> => Numbers(cmds) # <<>> /\ Numbers(cmds)[1] = cmds[1].seq
                           /\ Numbers(Tail(cmds)) = Tail(Numbers(cmds))
         /\ \A c \in RecvCmd : Numbers(Append(cmds, c)) = Append(Numbers(cmds), c.seq)
<1>1. Len(cmds) \in Nat /\ DOMAIN cmds = 1 .. Len(cmds) /\ \A i \in DOMAIN cmds : cmds[i].seq \in SeqNo
  <2>1. \A i \in DOMAIN cmds : cmds[i] \in RecvCmd
    BY SMT
  <2>2. \A i \in DOMAIN cmds : cmds[i].seq \in SeqNo
    BY <2>1 DEF RecvCmd
  <2> QED
    BY <2>2, SMT
<1>2. Numbers(cmds) \in Seq(SeqNo) /\ Len(Numbers(cmds)) = Len(cmds)
  BY <1>1, SMT DEF Numbers
<1>3. ASSUME cmds # <<>>
      PROVE  Numbers(cmds) # <<>> /\ Numbers(cmds)[1] = cmds[1].seq
             /\ Numbers(Tail(cmds)) = Tail(Numbers(cmds))
  <2>1. Len(cmds) > 0 /\ 1 \in DOMAIN cmds
    BY <1>3, SMT
  <2>2. Numbers(cmds) # <<>> /\ Numbers(cmds)[1] = cmds[1].seq
    BY <2>1, SMT DEF Numbers
  <2>3. \A i \in 1 .. (Len(cmds) - 1) : Tail(Numbers(cmds))[i] = cmds[i + 1].seq
    BY <1>1, <1>2, <2>1, SMT DEF Numbers
  <2>4. /\ Tail(Numbers(cmds)) \in Seq(SeqNo)
        /\ DOMAIN Tail(Numbers(cmds)) = 1 .. (Len(cmds) - 1)
    BY <1>2, <2>1, <2>2, SMT
  <2>5. /\ DOMAIN Tail(cmds) = 1 .. (Len(cmds) - 1)
        /\ \A i \in 1 .. (Len(cmds) - 1) : Tail(cmds)[i] = cmds[i + 1]
    BY <2>1, SMT
  <2>6. Numbers(Tail(cmds)) = [i \in 1 .. (Len(cmds) - 1) |-> cmds[i + 1].seq]
    BY <2>5 DEF Numbers
  <2> QED
    BY <2>2, <2>3, <2>4, <2>6, SMT
<1>4. ASSUME NEW c \in RecvCmd
      PROVE  Numbers(Append(cmds, c)) = Append(Numbers(cmds), c.seq)
  <2> DEFINE a == Append(Numbers(cmds), c.seq)
  <2>1. /\ DOMAIN Append(cmds, c) = 1 .. (Len(cmds) + 1)
        /\ \A i \in 1 .. (Len(cmds) + 1) : Append(cmds, c)[i] = IF i = Len(cmds) + 1 THEN c ELSE cmds[i]
    BY SMT
  <2>2. Numbers(Append(cmds, c)) = [i \in 1 .. (Len(cmds) + 1) |-> IF i = Len(cmds) + 1 THEN c.seq ELSE cmds[i].seq]
    BY <2>1 DEF Numbers
  <2>3. /\ a \in Seq(SeqNo) /\ DOMAIN a = 1 .. (Len(cmds) + 1)
        /\ \A i \in 1 .. (Len(cmds) + 1) : a[i] = IF i = Len(cmds) + 1 THEN c.seq ELSE Numbers(cmds)[i]
    BY <1>1, <1>2, SMT DEF RecvCmd
  <2>4. \A i \in 1 .. (Len(cmds) + 1) : i # Len(cmds) + 1 => Numbers(cmds)[i] = cmds[i].seq
    BY <1>1, SMT DEF Numbers
  <2> HIDE DEF a
  <2>5. a = [i \in 1 .. (Len(cmds) + 1) |-> a[i]]
    BY <2>3, SMT
  <2> QED
    BY <2>2, <2>3, <2>4, <2>5 DEF a
<1> QED
  BY <1>2, <1>3, <1>4

\* The rows are stored in the order of their numbers, those of a device are
\* executed in that order, and its two lists hold them in that order.
TableOrder(table) ==
  /\ \A r, s \in table : r = s \/ (r.id < s.id /\ r.seq < s.seq) \/ (s.id < r.id /\ s.seq < r.seq)
  /\ \A r, s \in table : r.dev = s.dev /\ r.exec /\ ~s.exec => r.seq < s.seq

ListsOf(d, table, cmds, exec) ==
  /\ Range(Numbers(cmds)) = Waiting(table, d)
  /\ Range(exec) = Executed(table, d)
  /\ Rising(Numbers(cmds))
  /\ Rising(exec)

ListsInv ==
  /\ TableOrder(rows)
  /\ \A d \in Devices : ListsOf(d, rows, recvCmds[d], execCmds[d])

\* Every step keeps the lists and the table in step.
LEMMA ListsStep ==
  TypeOK /\ ~SqlWritesFail /\ InfoInv /\ WayInv /\ StoredInv /\ ListsInv /\ [Next]_vars =>
    ListsInv'
\* A rising list without its first number.
<1>RisingTail.
  ASSUME NEW s \in Seq(SeqNo), s # <<>>, Rising(s)
  PROVE  /\ Rising(Tail(s))
         /\ Range(Tail(s)) = Range(s) \ {s[1]}
         /\ \A n \in Range(Tail(s)) : s[1] < n
         /\ s[1] \in Range(s)
  <2> USE <1>RisingTail
  <2> DEFINE t == Tail(s)
  <2>1. /\ \A i \in DOMAIN t : i \in Nat /\ i + 1 \in DOMAIN s /\ i + 1 > 1 /\ t[i] = s[i + 1]
        /\ 1 \in DOMAIN s
    BY TailIndex, SMT
  <2>2. \A i \in DOMAIN s : i # 1 => i - 1 \in DOMAIN t /\ t[i - 1] = s[i]
    BY SMT
  <2>3. \A i \in DOMAIN s : s[i] \in Nat
    BY SMT DEF SeqNo
  <2> HIDE DEF t
  <2>4. Rising(t)
    <3>1. ASSUME NEW i \in DOMAIN t, NEW j \in DOMAIN t, i < j
          PROVE  i + 1 < j + 1
      BY <2>1, <3>1, SMT
    <3> QED
      BY <2>1, <3>1 DEF Rising
  <2>5. \A n \in Range(t) : s[1] < n
    BY <2>1 DEF Rising, Range
  <2>6. \A n \in Range(t) : n \in Range(s) /\ n # s[1]
    <3>1. \A n \in Range(t) : n \in Range(s)
      BY <2>1 DEF Range
    <3>2. ~(s[1] < s[1])
      BY <2>1, <2>3, SMT
    <3> QED
      BY <2>5, <3>1, <3>2
  <2>7. ASSUME NEW n \in Range(s), n # s[1]
        PROVE  n \in Range(t)
    <3>1. PICK i \in DOMAIN s : n = s[i]
      BY DEF Range
    <3>2. i - 1 \in DOMAIN t /\ t[i - 1] = n
      BY <2>2, <2>7, <3>1
    <3> QED
      BY <3>2 DEF Range
  <2>8. s[1] \in Range(s)
    BY <2>1 DEF Range
  <2> QED
    BY <2>4, <2>5, <2>6, <2>7, <2>8 DEF t
\* A rising list with a higher number behind it.
<1>RisingAppend.
  ASSUME NEW s \in Seq(SeqNo), Rising(s), NEW n, \A k \in Range(s) : k < n
  PROVE  Rising(Append(s, n)) /\ Range(Append(s, n)) = Range(s) \cup {n}
  <2> USE <1>RisingAppend
  <2> DEFINE t == Append(s, n)
  <2>1. /\ \A i \in DOMAIN t : (i \in DOMAIN s /\ t[i] = s[i]) \/ (i = Len(s) + 1 /\ t[i] = n)
        /\ \A i \in DOMAIN s : i \in DOMAIN t /\ t[i] = s[i] /\ i \in Nat /\ i < Len(s) + 1
        /\ Len(s) + 1 \in DOMAIN t /\ t[Len(s) + 1] = n /\ Len(s) \in Nat
    BY AppendIndex, SMT
  <2> HIDE DEF t
  <2>2. Rising(t)
    <3> SUFFICES ASSUME NEW i \in DOMAIN t, NEW j \in DOMAIN t, i < j
                 PROVE  t[i] < t[j]
      BY DEF Rising
    <3>1. i \in DOMAIN s /\ t[i] = s[i]
      BY <2>1, SMT
    <3> QED
      BY <2>1, <3>1 DEF Rising, Range
  <2>3. Range(t) = Range(s) \cup {n}
    <3>1. \A k \in Range(t) : k \in Range(s) \cup {n}
      BY <2>1 DEF Range
    <3>2. \A k \in Range(s) \cup {n} : k \in Range(t)
      BY <2>1 DEF Range
    <3> QED
      BY <3>1, <3>2
  <2> QED
    BY <2>2, <2>3 DEF t
\* Only the numbers of the received commands matter.
<1>SameNumbers.
  ASSUME NEW s \in Seq(RecvCmd), NEW t \in Seq(RecvCmd), SameSeqs(s, t)
  PROVE  Numbers(s) = Numbers(t)
  BY <1>SameNumbers DEF SameSeqs, Numbers
\* handleNewCommand: the stored command is the last in every order.
<1>ListsStore.
  ASSUME TypeOK, TypeOK', InfoInv /\ WayInv, StoredInv, ListsInv, NEW m, Stores(m)
  PROVE  ListsInv'
  <2> USE <1>ListsStore
  <2> DEFINE new == NewRow(m)
  <2>1. /\ rows' = rows \cup {new} /\ execCmds' = execCmds
        /\ m \in ClientMsgs /\ m.dev \in Devices /\ m.seq \in SeqNo
        /\ new.id = lastId + 1 /\ new.seq = m.seq /\ new.dev = m.dev /\ new.exec = FALSE
    BY DEF Stores, InsertRow, NewRow, ClientMsgs
  <2>2. /\ rows \subseteq Row /\ lastId \in Nat /\ maxSequenceNumber \in Nat
        /\ recvCmds \in [Devices -> Seq(RecvCmd)] /\ recvCmds' \in [Devices -> Seq(RecvCmd)]
    BY DEF TypeOK, gatewayTypeOK
  <2> HIDE DEF new
  <2>3. \A r \in rows : r.id < new.id /\ r.seq < new.seq
    <3>1. m.seq > maxSequenceNumber
      BY DEF Stores, WayInv
    <3>2. \A r \in rows : r.id \in Nat /\ r.seq \in Nat /\ r.id <= lastId /\ r.seq <= maxSequenceNumber
      BY <2>2, SMT DEF StoredInv, HeldIn, Row, SeqNo
    <3> QED
      BY <2>1, <2>2, <3>1, <3>2, SMT DEF SeqNo
  <2>4. TableOrder(rows')
    BY <2>1, <2>3 DEF ListsInv, TableOrder
  <2>5. ASSUME NEW d \in Devices
        PROVE  /\ Waiting(rows', d) = IF d = m.dev THEN Waiting(rows, d) \cup {m.seq} ELSE Waiting(rows, d)
               /\ Executed(rows', d) = Executed(rows, d)
    BY <2>1 DEF Waiting, Executed
  <2>6. \A d \in Devices : d # m.dev => Numbers(recvCmds'[d]) = Numbers(recvCmds[d])
    BY <2>2, <1>SameNumbers DEF Stores, OthersKept
  <2>7. Numbers(recvCmds'[m.dev]) = Append(Numbers(recvCmds[m.dev]), m.seq)
    <3> DEFINE c == NewRecvCmd(m)
    <3>1. c \in RecvCmd /\ c.seq = m.seq
      BY <2>1 DEF NewRecvCmd, RecvCmd
    <3>2. SameSeqs(recvCmds'[m.dev], Append(recvCmds[m.dev], c))
      BY DEF Stores
    <3> HIDE DEF c
    <3>3. Append(recvCmds[m.dev], c) \in Seq(RecvCmd)
      BY <2>1, <2>2, <3>1, AppendType
    <3>4. Numbers(recvCmds'[m.dev]) = Numbers(Append(recvCmds[m.dev], c))
      BY <2>1, <2>2, <3>2, <3>3, <1>SameNumbers
    <3> QED
      BY <2>1, <2>2, <3>1, <3>4, NumbersOf
  <2>8. ASSUME NEW d \in Devices
        PROVE  ListsOf(d, rows', recvCmds'[d], execCmds'[d])
    <3>1. ListsOf(d, rows, recvCmds[d], execCmds[d])
      BY DEF ListsInv
    <3>2. CASE d # m.dev
      BY <2>1, <2>5, <2>6, <3>1, <3>2 DEF ListsOf
    <3>3. CASE d = m.dev
      <4>1. \A k \in Range(Numbers(recvCmds[d])) : k < m.seq
        BY <2>1, <2>3, <3>1 DEF ListsOf, Waiting
      <4>2. Numbers(recvCmds[d]) \in Seq(SeqNo)
        BY <2>2, NumbersOf
      <4>3. /\ Rising(Numbers(recvCmds'[d]))
            /\ Range(Numbers(recvCmds'[d])) = Range(Numbers(recvCmds[d])) \cup {m.seq}
        BY <2>7, <3>1, <3>3, <4>1, <4>2, <1>RisingAppend DEF ListsOf
      <4> QED
        BY <2>1, <2>5, <3>1, <3>3, <4>3 DEF ListsOf
    <3> QED
      BY <3>2, <3>3
  <2> QED
    BY <2>4, <2>8 DEF ListsInv
\* The rows of a number: at most one.
<1>OneRow.
  ASSUME rows \subseteq Row, TableOrder(rows), NEW r \in rows, NEW s \in rows, r.seq = s.seq
  PROVE  r = s
  BY <1>OneRow, SMT DEF TableOrder, Row, SeqNo
\* The answer to the front of a list: its row is executed, after the others
\* executed and before those that wait.
<1>ListsExecute.
  ASSUME TypeOK, TypeOK', ListsInv, NEW d \in Devices, Executes(d)
  PROVE  ListsInv'
  <2> USE <1>ListsExecute
  <2> DEFINE n == recvCmds[d][1].seq
  <2>1. /\ rows \subseteq Row /\ execCmds \in [Devices -> Seq(SeqNo)]
        /\ recvCmds \in [Devices -> Seq(RecvCmd)] /\ recvCmds' \in [Devices -> Seq(RecvCmd)]
    BY DEF TypeOK, gatewayTypeOK
  <2>2. recvCmds[d] # <<>> /\ recvCmds[d] \in Seq(RecvCmd) /\ Numbers(recvCmds[d]) \in Seq(SeqNo)
    BY <2>1, NumbersOf DEF Executes
  <2>3. ListsOf(d, rows, recvCmds[d], execCmds[d]) /\ TableOrder(rows)
    BY DEF ListsInv
  <2>4. /\ Numbers(recvCmds[d]) # <<>> /\ Numbers(recvCmds[d])[1] = n
        /\ Numbers(Tail(recvCmds[d])) = Tail(Numbers(recvCmds[d]))
    BY <2>2, NumbersOf
  <2>5. /\ execCmds' = [execCmds EXCEPT ![d] = Append(execCmds[d], n)]
        /\ rows' = {IF r.seq = n THEN [r EXCEPT !.exec = TRUE] ELSE r : r \in rows}
    BY DEF Executes, MarkExecutedDeviceCommand
  <2> HIDE DEF n
  <2>6. /\ Rising(Tail(Numbers(recvCmds[d])))
        /\ Range(Tail(Numbers(recvCmds[d]))) = Waiting(rows, d) \ {n}
        /\ \A k \in Waiting(rows, d) \ {n} : n < k
        /\ n \in Waiting(rows, d)
    BY <2>2, <2>3, <2>4, <1>RisingTail, SMT DEF ListsOf
  <2>7. PICK o \in rows : o.dev = d /\ ~o.exec /\ o.seq = n
    BY <2>6 DEF Waiting
  <2>8. \A r \in rows : r.seq = n => r = o
    BY <2>1, <2>3, <2>7, <1>OneRow
  <2> DEFINE done == [o EXCEPT !.exec = TRUE]
  <2>9. rows' = (rows \ {o}) \cup {done}
    BY <2>5, <2>7, <2>8
  <2>10. done.id = o.id /\ done.seq = n /\ done.dev = d /\ done.exec
    BY <2>1, <2>7 DEF Row
  <2> HIDE DEF done
  <2>11. ASSUME NEW e \in Devices
         PROVE  /\ Waiting(rows', e) = IF e = d THEN Waiting(rows, e) \ {n} ELSE Waiting(rows, e)
                /\ Executed(rows', e) = IF e = d THEN Executed(rows, e) \cup {n} ELSE Executed(rows, e)
    <3>1. Executed(rows', e) = IF e = d THEN Executed(rows, e) \cup {n} ELSE Executed(rows, e)
      BY <2>7, <2>9, <2>10 DEF Executed
    <3>2. Waiting(rows', e) = {r.seq : r \in {x \in rows \ {o} : x.dev = e /\ ~x.exec}}
      BY <2>9, <2>10 DEF Waiting
    <3>3. Waiting(rows', e) = IF e = d THEN Waiting(rows, e) \ {n} ELSE Waiting(rows, e)
      BY <2>7, <2>8, <3>2 DEF Waiting
    <3> QED
      BY <3>1, <3>3
  <2>12. \A r \in rows : r.dev = d /\ ~r.exec /\ r # o => n < r.seq
    BY <2>6, <2>8 DEF Waiting
  <2>13. TableOrder(rows')
    BY <2>3, <2>7, <2>9, <2>10, <2>12, SMT DEF TableOrder
  <2>14. \A e \in Devices : e # d => Numbers(recvCmds'[e]) = Numbers(recvCmds[e])
    BY <2>1, <1>SameNumbers DEF Executes, OthersKept
  <2>15. Numbers(recvCmds'[d]) = Tail(Numbers(recvCmds[d]))
    <3>1. SameSeqs(recvCmds'[d], Tail(recvCmds[d])) /\ Tail(recvCmds[d]) \in Seq(RecvCmd)
      BY <2>2, TailType DEF Executes
    <3> QED
      BY <2>1, <2>4, <3>1, <1>SameNumbers
  <2>16. /\ Rising(execCmds'[d]) /\ Range(execCmds'[d]) = Executed(rows, d) \cup {n}
         /\ \A e \in Devices : e # d => execCmds'[e] = execCmds[e]
    <3>1. execCmds'[d] = Append(execCmds[d], n) /\ \A e \in Devices : e # d => execCmds'[e] = execCmds[e]
      BY <2>1, <2>5
    <3>2. \A k \in Range(execCmds[d]) : k < n
      BY <2>3, <2>7 DEF ListsOf, Executed, TableOrder
    <3>3. execCmds[d] \in Seq(SeqNo) /\ Rising(execCmds[d]) /\ Range(execCmds[d]) = Executed(rows, d)
      BY <2>1, <2>3 DEF ListsOf
    <3> QED
      BY <3>1, <3>2, <3>3, <1>RisingAppend
  <2>17. ASSUME NEW e \in Devices
         PROVE  ListsOf(e, rows', recvCmds'[e], execCmds'[e])
    <3>1. CASE e = d
      BY <2>6, <2>11, <2>15, <2>16, <3>1 DEF ListsOf
    <3>2. CASE e # d
      <4>1. ListsOf(e, rows, recvCmds[e], execCmds[e])
        BY DEF ListsInv
      <4> QED
        BY <2>11, <2>14, <2>16, <3>2, <4>1 DEF ListsOf
    <3> QED
      BY <3>1, <3>2
  <2> QED
    BY <2>13, <2>17 DEF ListsInv
\* The cloud's DONE_ACK: the first executed command leaves the list and the
\* table.
<1>ListsRetire.
  ASSUME TypeOK, ListsInv, NEW d \in Devices, Retires(d)
  PROVE  ListsInv'
  <2> USE <1>ListsRetire
  <2> DEFINE n == execCmds[d][1]
  <2>1. rows \subseteq Row /\ execCmds \in [Devices -> Seq(SeqNo)]
    BY DEF TypeOK, gatewayTypeOK
  <2>2. /\ execCmds[d] # <<>> /\ recvCmds' = recvCmds
        /\ execCmds' = [execCmds EXCEPT ![d] = Tail(execCmds[d])]
        /\ rows' = {r \in rows : r.seq # n}
    BY DEF Retires, DeleteDeviceCommand
  <2>3. ListsOf(d, rows, recvCmds[d], execCmds[d]) /\ TableOrder(rows)
    BY DEF ListsInv
  <2>4. /\ Rising(Tail(execCmds[d]))
        /\ Range(Tail(execCmds[d])) = Executed(rows, d) \ {n}
        /\ n \in Executed(rows, d)
    BY <2>1, <2>2, <2>3, <1>RisingTail, SMT DEF ListsOf
  <2> HIDE DEF n
  <2>5. PICK o \in rows : o.dev = d /\ o.exec /\ o.seq = n
    BY <2>4 DEF Executed
  <2>6. \A r \in rows : r.seq = n => r = o
    BY <2>1, <2>3, <2>5, <1>OneRow
  <2>7. TableOrder(rows')
    BY <2>2, <2>3 DEF TableOrder
  <2>8. ASSUME NEW e \in Devices
        PROVE  /\ Waiting(rows', e) = Waiting(rows, e)
               /\ Executed(rows', e) = IF e = d THEN Executed(rows, e) \ {n} ELSE Executed(rows, e)
    <3>1. Waiting(rows', e) = Waiting(rows, e)
      BY <2>2, <2>5, <2>6 DEF Waiting
    <3>2. Executed(rows', e) = IF e = d THEN Executed(rows, e) \ {n} ELSE Executed(rows, e)
      BY <2>2, <2>5, <2>6 DEF Executed
    <3> QED
      BY <3>1, <3>2
  <2>9. execCmds'[d] = Tail(execCmds[d]) /\ \A e \in Devices : e # d => execCmds'[e] = execCmds[e]
    BY <2>1, <2>2
  <2>10. ASSUME NEW e \in Devices
         PROVE  ListsOf(e, rows', recvCmds'[e], execCmds'[e])
    <3>1. ListsOf(e, rows, recvCmds[e], execCmds[e])
      BY DEF ListsInv
    <3> QED
      BY <2>2, <2>4, <2>8, <2>9, <3>1 DEF ListsOf
  <2> QED
    BY <2>7, <2>10 DEF ListsInv
\* Rows read in the order of their ids: all of them, with rising numbers.
<1>LoadedInOrder.
  ASSUME TypeOK, TableOrder(rows), NEW S \in SUBSET rows, NEW l \in InIdOrder(S)
  PROVE  /\ Range([i \in DOMAIN l |-> l[i].seq]) = {r.seq : r \in S}
         /\ Rising([i \in DOMAIN l |-> l[i].seq])
  <2> USE <1>LoadedInOrder
  <2>1. lastId \in Nat /\ rows \subseteq Row
    BY DEF TypeOK, gatewayTypeOK
  <2>2. /\ l \in Listings(S, lastId)
        /\ \A i, j \in DOMAIN l : i < j => l[i].id < l[j].id
    BY DEF InIdOrder
  <2>3. l \in Seq(S) /\ \A r \in S : \E i \in DOMAIN l : l[i] = r
    BY <2>1, <2>2, ListingType
  <2>4. \A i \in DOMAIN l : l[i] \in S
    BY <2>3, SMT
  <2>5. Range([i \in DOMAIN l |-> l[i].seq]) = {r.seq : r \in S}
    BY <2>3, <2>4 DEF Range
  <2>6. ASSUME NEW i \in DOMAIN l, NEW j \in DOMAIN l, i < j
        PROVE  l[i].seq < l[j].seq
    <3>1. l[i].id < l[j].id /\ l[i] \in rows /\ l[j] \in rows
      BY <2>2, <2>4, <2>6
    <3>2. l[i].id \in Nat /\ l[j].id \in Nat
      BY <2>1, <3>1 DEF Row, SeqNo
    <3>3. l[i] # l[j] /\ ~(l[j].id < l[i].id)
      BY <3>1, <3>2, SMT
    <3> QED
      BY <3>1, <3>3 DEF TableOrder
  <2>7. Rising([i \in DOMAIN l |-> l[i].seq])
    BY <2>6 DEF Rising
  <2> QED
    BY <2>5, <2>7
\* selectDeviceCommand gives a restarted gateway the lists it had.
<1>ListsRestart.
  ASSUME TypeOK, ListsInv, Restart
  PROVE  ListsInv'
  <2> USE <1>ListsRestart
  <2>1. rows' = rows /\ TableOrder(rows)
    BY DEF Restart, tables, ListsInv
  <2>2. ASSUME NEW d \in Devices
        PROVE  ListsOf(d, rows, recvCmds'[d], execCmds'[d])
    <3> DEFINE W == {r \in rows : r.dev = d /\ ~r.exec}
               X == {r \in rows : r.dev = d /\ r.exec}
    <3>1. recvCmds'[d] \in LoadRecvCmds(d) /\ execCmds'[d] \in LoadExecCmds(d)
      BY DEF Restart, PerDevice
    <3>2. PICK l \in InIdOrder(W) :
            recvCmds'[d] = [i \in DOMAIN l |-> [seq |-> l[i].seq, inProgress |-> FALSE]]
      BY <3>1 DEF LoadRecvCmds
    <3>3. PICK x \in InIdOrder(X) : execCmds'[d] = [i \in DOMAIN x |-> x[i].seq]
      BY <3>1 DEF LoadExecCmds
    <3>4. Numbers(recvCmds'[d]) = [i \in DOMAIN l |-> l[i].seq]
      BY <3>2, SMT DEF Numbers
    <3>5. W \in SUBSET rows /\ X \in SUBSET rows
      OBVIOUS
    <3>6. {r.seq : r \in W} = Waiting(rows, d) /\ {r.seq : r \in X} = Executed(rows, d)
      BY DEF Waiting, Executed
    <3> HIDE DEF W, X
    <3>7. Range(Numbers(recvCmds'[d])) = Waiting(rows, d) /\ Rising(Numbers(recvCmds'[d]))
      BY <2>1, <3>4, <3>5, <3>6, <1>LoadedInOrder
    <3>8. Range(execCmds'[d]) = Executed(rows, d) /\ Rising(execCmds'[d])
      BY <2>1, <3>3, <3>5, <3>6, <1>LoadedInOrder
    <3> QED
      BY <3>7, <3>8 DEF ListsOf
  <2> QED
    BY <2>1, <2>2 DEF ListsInv
<1> SUFFICES ASSUME TypeOK, ~SqlWritesFail, InfoInv /\ WayInv, StoredInv, ListsInv, [Next]_vars
             PROVE  ListsInv'
  OBVIOUS
<1>1. TypeOK'
  BY TypeStep
<1>2. CASE Kept
  <2>1. rows' = rows /\ execCmds' = execCmds
    BY <1>2 DEF Kept
  <2>2. \A d \in Devices : Numbers(recvCmds'[d]) = Numbers(recvCmds[d])
    BY <1>1, <1>2, <1>SameNumbers DEF Kept, TypeOK, gatewayTypeOK
  <2> QED
    BY <2>1, <2>2 DEF ListsInv, ListsOf
<1>3. ~Refuses(Head(toGateway))
  BY DEF Refuses
<1> QED
  BY <1>1, <1>2, <1>3, ListStep, <1>ListsStore, <1>ListsExecute, <1>ListsRetire, <1>ListsRestart

\* When SQLite writes succeed, the table and the lists agree and are in order.
LEMMA ListsInvHolds ==
  ASSUME ~SqlWritesFail
  PROVE  Spec => []ListsInv
<1>1. Init => ListsInv
  BY SMT DEF Init, GatewayInit, ListsInv, TableOrder, ListsOf, Numbers, Range, Rising, Waiting, Executed
<1>2. TypeOK /\ (InfoInv /\ WayInv) /\ StoredInv /\ ListsInv /\ [Next]_vars => ListsInv'
  BY ListsStep
<1> QED
  BY <1>1, <1>2, TypeCorrect, WayInvHolds, StoredInvHolds, PTL DEF Spec

\* What a restart reads from the table is what the gateway was working on.
THEOREM ListsMatchTableHolds ==
  ASSUME ~SqlWritesFail
  PROVE  Spec => []ListsMatchTable
<1>1. ListsInv => ListsMatchTable
  <2>1. \A d \in Devices : {recvCmds[d][i].seq : i \in DOMAIN recvCmds[d]} = Range(Numbers(recvCmds[d]))
    BY DEF Range, Numbers
  <2> QED
    BY <2>1 DEF ListsInv, ListsOf, ListsMatchTable, Waiting, Executed
<1> QED
  BY <1>1, ListsInvHolds, PTL

\* A device executes and reports its commands in the order they were issued,
\* across restarts, lost messages and commands sent again.
THEOREM OrderPreservedHolds ==
  ASSUME ~SqlWritesFail
  PROVE  Spec => []OrderPreserved
<1>1. ASSUME TypeOK, ListsInv, NEW d \in Devices
      PROVE  \A i, j \in DOMAIN (execCmds[d] \o Numbers(recvCmds[d])) :
               i < j => (execCmds[d] \o Numbers(recvCmds[d]))[i] < (execCmds[d] \o Numbers(recvCmds[d]))[j]
  <2> DEFINE x == execCmds[d]
             w == Numbers(recvCmds[d])
  <2>1. x \in Seq(SeqNo) /\ w \in Seq(SeqNo)
    BY <1>1, NumbersOf DEF TypeOK, gatewayTypeOK
  <2>2. Rising(x) /\ Rising(w) /\ Range(x) = Executed(rows, d) /\ Range(w) = Waiting(rows, d)
    BY <1>1 DEF ListsInv, ListsOf
  <2>3. \A a \in Executed(rows, d), b \in Waiting(rows, d) : a < b
    BY <1>1 DEF ListsInv, TableOrder, Executed, Waiting
  <2> HIDE DEF x, w
  <2>4. \A i \in DOMAIN x, k \in DOMAIN w : x[i] < w[k]
    BY <2>2, <2>3 DEF Range
  <2>5. \A i \in DOMAIN (x \o w) :
          \/ i \in DOMAIN x /\ (x \o w)[i] = x[i]
          \/ \E k \in DOMAIN w : i = Len(x) + k /\ (x \o w)[i] = w[k] /\ \A j \in DOMAIN x : j < i
    BY <2>1, ConcatIndex
  <2>6. Len(x) \in Nat /\ DOMAIN x \subseteq Nat /\ DOMAIN w \subseteq Nat
    BY <2>1, SMT
  <2> SUFFICES ASSUME NEW i \in DOMAIN (x \o w), NEW j \in DOMAIN (x \o w), i < j
               PROVE  (x \o w)[i] < (x \o w)[j]
    BY DEF x, w
  <2>7. CASE i \in DOMAIN x /\ (x \o w)[i] = x[i]
    BY <2>2, <2>4, <2>5, <2>7 DEF Rising
  <2>8. ASSUME NEW k \in DOMAIN w, i = Len(x) + k, (x \o w)[i] = w[k], \A a \in DOMAIN x : a < i
        PROVE  (x \o w)[i] < (x \o w)[j]
    <3>1. j \notin DOMAIN x
      BY <2>6, <2>8, SMT
    <3>2. PICK l \in DOMAIN w : j = Len(x) + l /\ (x \o w)[j] = w[l]
      BY <2>5, <3>1
    <3>3. k < l
      BY <2>6, <2>8, <3>2, SMT
    <3> QED
      BY <2>2, <2>8, <3>2, <3>3 DEF Rising
  <2> QED
    BY <2>5, <2>7, <2>8
<1>2. TypeOK /\ ListsInv => OrderPreserved
  BY <1>1 DEF OrderPreserved, Numbers
<1> QED
  BY <1>2, TypeCorrect, ListsInvHolds, PTL
=============================================================================
