---------------------- MODULE CommandPathSafetyProofs ----------------------
(***************************************************************************)
(* Safety of the command path for every set of devices and every bound:    *)
(* its types, which are inductive as they stand, what is outstanding at a  *)
(* client, the cases that a step of any of the three parties falls into,   *)
(* as the proofs about reports and order need them, and that the gateway   *)
(* takes no command for executed that a client did not accept.             *)
(***************************************************************************)
EXTENDS CommandPath, TLAPS

\* Zenon proves what no pragma is cited for; arithmetic and sequences are for SMT.
USE Zenon

\* Publishing on a channel keeps what it carries.
LEMMA EnqueueType ==
  ASSUME NEW S, NEW ch \in Seq(S), NEW msgs \in Seq(S)
  PROVE  Enqueue(ch, msgs) \in Seq(S)
BY SMT DEF Enqueue

\* Taking the first element leaves a sequence over the same set.
LEMMA TailType ==
  ASSUME NEW S, NEW s \in Seq(S), s # <<>>
  PROVE  Tail(s) \in Seq(S)
BY SMT

\* So does adding one at the end.
LEMMA AppendType ==
  ASSUME NEW S, NEW s \in Seq(S), NEW e \in S
  PROVE  Append(s, e) \in Seq(S)
BY SMT

\* So does replacing one.
LEMMA ExceptType ==
  ASSUME NEW S, NEW s \in Seq(S), NEW i \in 1 .. Len(s), NEW e \in S
  PROVE  [s EXCEPT ![i] = e] \in Seq(S)
BY SMT

\* The first element, which front() reads, is one of the set.
LEMMA FirstType ==
  ASSUME NEW S, NEW s \in Seq(S), s # <<>>
  PROVE  s[1] \in S /\ Head(s) \in S /\ Head(s) = s[1] /\ 1 \in 1 .. Len(s)
BY SMT

\* What a broken connection leaves of a channel is of the same type.
LEMMA PrefixType ==
  ASSUME NEW S, NEW s \in Seq(S), NEW n \in 0 .. Len(s)
  PROVE  SubSeq(s, 1, n) \in Seq(S)
BY SMT

\* A list of the members of a set, in the order a loop meets them: it has them
\* all, and each once.
LEMMA ListingType ==
  ASSUME NEW S, NEW n \in Nat, NEW l \in Listings(S, n)
  PROVE  /\ l \in Seq(S)
         /\ \A x \in S : \E i \in DOMAIN l : l[i] = x
         /\ \A i, j \in DOMAIN l : l[i] = l[j] => i = j
<1>1. PICK k \in 0 .. n : l \in Bijection(1 .. k, S)
  BY DEF Listings
<1>2. l \in [1 .. k -> S] /\ k \in Nat
  BY <1>1, SMT DEF Bijection, Injection
<1>3. \A x \in S : \E i \in DOMAIN l : l[i] = x
  BY <1>1, <1>2 DEF Bijection, Surjection
<1>4. \A i, j \in DOMAIN l : l[i] = l[j] => i = j
  BY <1>1 DEF Bijection, Injection, IsInjective
<1> QED
  BY <1>2, <1>3, <1>4, SMT

-----------------------------------------------------------------------------
(* Type correctness of what the handlers are built from.                   *)

\* Each message constructor builds a message of its direction.
LEMMA MsgTypes ==
  /\ RegisterMsg \in CloudBound
  /\ \A b \in BOOLEAN : InfoMsg(b) \in CloudBound
  /\ \A seq \in Nat : AckMsg(seq) \in CloudBound
  /\ \A seq \in Nat, d \in Devices : DoneMsg(seq, d) \in CloudBound
  /\ RegisterRequestMsg \in GatewayBound
  /\ \A cmd \in PendingCmd : ClientMsg(cmd) \in GatewayBound
  /\ \A seq \in SeqNo, d \in Devices : DoneAckMsg(seq, d) \in GatewayBound
BY DEF CloudBound, GatewayBound, RegisterMsg, InfoMsg, AckMsg, DoneMsg, RegisterRequestMsg,
       ClientMsg, DoneAckMsg, InfoMsgs, AckMsgs, DoneMsgs, ClientMsgs, DoneAckMsgs, PendingCmd

\* Setting inProgress changes the front of the list and nothing else of it.
LEMMA SetInProgressType ==
  ASSUME NEW cmds \in Seq(RecvCmd), NEW b \in BOOLEAN
  PROVE  /\ SetInProgress(cmds, b) \in Seq(RecvCmd)
         /\ cmds # <<>> => /\ SetInProgress(cmds, b) # <<>>
                           /\ SetInProgress(cmds, b)[1] = [seq |-> cmds[1].seq, inProgress |-> b]
<1>1. CASE cmds = <<>>
  <2>1. SetInProgress(cmds, b) = cmds
    BY <1>1, SMT DEF SetInProgress
  <2> QED BY <1>1, <2>1
<1>2. CASE cmds # <<>>
  <2>1. cmds[1] \in RecvCmd /\ 1 \in 1 .. Len(cmds)
    BY <1>2, FirstType
  <2>2. SetInProgress(cmds, b) = [cmds EXCEPT ![1] = [seq |-> cmds[1].seq, inProgress |-> b]]
    <3>1. [cmds[1] EXCEPT !.inProgress = b] = [seq |-> cmds[1].seq, inProgress |-> b]
      BY <2>1, SMT DEF RecvCmd
    <3> QED BY <3>1 DEF SetInProgress
  <2>3. [seq |-> cmds[1].seq, inProgress |-> b] \in RecvCmd
    BY <2>1 DEF RecvCmd
  <2> HIDE DEF RecvCmd
  <2> QED BY <2>1, <2>2, <2>3, ExceptType, SMT
<1> QED BY <1>1, <1>2

-----------------------------------------------------------------------------
(* What a gateway handler reads and writes has its type.                   *)

\* What the gateway's handlers write.
gatewaySide ==
  /\ gatewayTypeOK
  /\ toCloud \in Seq(CloudBound)
  /\ reqs \subseteq Request
  /\ resps \subseteq Response

\* selectDeviceCommand returns a finite list of rows.
LEMMA InIdOrderType ==
  ASSUME lastId \in Nat, NEW S, NEW l \in InIdOrder(S)
  PROVE  l \in Seq(S)
BY ListingType DEF InIdOrder

-----------------------------------------------------------------------------
(* The cloud's handlers.                                                   *)

\* What the cloud's handlers write.
cloudSide ==
  /\ cloudTypeOK
  /\ toGateway \in Seq(GatewayBound)

\* Setting a command's state changes that command only.
LEMMA SetStateType ==
  ASSUME cloudTypeOK, NEW seq, NEW state \in CommandStates, SetState(seq, state)
  PROVE  /\ transmitted' \in Seq(Transmitted)
         /\ DOMAIN transmitted' = DOMAIN transmitted
         /\ \A i \in DOMAIN transmitted :
              /\ transmitted'[i].dev = transmitted[i].dev
              /\ transmitted'[i].state = IF i = seq THEN state ELSE transmitted[i].state
<1>1. transmitted \in Seq(Transmitted)
  BY DEF cloudTypeOK
<1>2. CASE seq \notin DOMAIN transmitted
  <2>1. transmitted' = transmitted
    BY <1>1, <1>2, SMT DEF SetState
  <2> QED
    BY <1>1, <1>2, <2>1
<1>3. CASE seq \in DOMAIN transmitted
  <2>1. seq \in 1 .. Len(transmitted) /\ transmitted[seq] \in Transmitted
    BY <1>1, <1>3, SMT
  <2> DEFINE e == [dev |-> transmitted[seq].dev, state |-> state]
  <2>2. e \in Transmitted /\ e.dev = transmitted[seq].dev /\ e.state = state
    BY <2>1 DEF Transmitted
  <2>3. transmitted' = [transmitted EXCEPT ![seq] = e]
    <3>1. [transmitted[seq] EXCEPT !.state = state] = e
      BY <2>1, SMT DEF Transmitted
    <3> QED
      BY <3>1 DEF SetState
  <2> HIDE DEF e
  <2>4. transmitted' \in Seq(Transmitted)
    BY <1>1, <2>1, <2>2, <2>3, ExceptType
  <2> QED
    BY <1>1, <2>1, <2>2, <2>3, <2>4
<1> QED
  BY <1>2, <1>3

-----------------------------------------------------------------------------
(* The clients.                                                            *)

-----------------------------------------------------------------------------
(* Every step keeps every variable in its type.                            *)

\* The initial states are well typed.
LEMMA InitType ==
  Init => TypeOK
<1> SUFFICES ASSUME Init PROVE TypeOK
  OBVIOUS
<1> USE DEF Init
<1>1. channelTypeOK
  BY SMT DEF ChannelInit, channelTypeOK, LinkStates
<1>2. gatewayTypeOK
  <2>1. recvCmds \in [Devices -> Seq(RecvCmd)] /\ execCmds \in [Devices -> Seq(SeqNo)]
    <3>1. <<>> \in Seq(RecvCmd) /\ <<>> \in Seq(SeqNo)
      BY SMT
    <3> QED
      BY <3>1 DEF GatewayInit
  <2>2. timeouts \in [Devices -> 0 .. PushRetryNo] /\ counterACK \in 0 .. AckRetryNo
    BY GatewayAssumption, SMT DEF GatewayInit
  <2> QED
    BY <2>1, <2>2 DEF GatewayInit, gatewayTypeOK
<1>3. clientTypeOK
  BY DEF ClientInit, clientTypeOK
<1>4. cloudTypeOK
  <2>1. <<>> \in Seq(Transmitted) /\ <<>> \in Seq(PendingCmd) /\ <<>> \in Seq(OwnerCmd)
    BY SMT
  <2> QED
    BY <2>1 DEF CloudInit, cloudTypeOK
<1>5. faults \in 0 .. MaxFaults
  BY MaxFaultsAssumption, SMT
<1> QED
  BY <1>1, <1>2, <1>3, <1>4, <1>5 DEF TypeOK

\* Every step keeps every variable in its type.
LEMMA TypeStep ==
  TypeOK /\ [Next]_vars => TypeOK'
\* tryPublishMessage: the channel to the cloud carries cloud-bound messages.
<1>PublishType.
  ASSUME channelTypeOK, NEW msgs \in Seq(CloudBound), Publish(msgs)
  PROVE  toCloud' \in Seq(CloudBound)
  BY <1>PublishType, EnqueueType DEF Publish, channelTypeOK
\* The cloud's publish: the channel to the gateway carries gateway-bound
\* messages.
<1>PublishToGatewayType.
  ASSUME channelTypeOK, NEW msgs \in Seq(GatewayBound), PublishToGateway(msgs)
  PROVE  toGateway' \in Seq(GatewayBound)
  BY <1>PublishToGatewayType, EnqueueType DEF PublishToGateway, channelTypeOK
\* responseCommandACK: counterACK_ stays between 0 and the retry limit.
<1>ResponseACKType.
  ASSUME channelTypeOK, gatewayTypeOK, NEW seq \in Nat, ResponseCommandACK(seq)
  PROVE  /\ toCloud' \in Seq(CloudBound)
         /\ msgACKScheduled' \in BOOLEAN
         /\ counterACK' \in 0 .. AckRetryNo
  <2> USE <1>ResponseACKType
  <2>1. toCloud' \in Seq(CloudBound)
    <3>1. AckMsg(seq) \in CloudBound
      BY MsgTypes
    <3>2. <<AckMsg(seq)>> \in Seq(CloudBound)
      BY <3>1, SMT
    <3> QED
      BY <3>2, <1>PublishType DEF ResponseCommandACK
  <2>2. counterACK' \in 0 .. AckRetryNo
    BY GatewayAssumption, SMT DEF ResponseCommandACK, AckAttempts, gatewayTypeOK
  <2>3. msgACKScheduled' \in BOOLEAN
    BY DEF ResponseCommandACK, gatewayTypeOK
  <2> QED
    BY <2>1, <2>2, <2>3
\* responseCommandDONE reports a natural number, even from an empty list.
<1>ResponseDONEType.
  ASSUME channelTypeOK, NEW d \in Devices, NEW exec \in Seq(SeqNo), ResponseCommandDONE(d, exec)
  PROVE  toCloud' \in Seq(CloudBound)
  <2> USE <1>ResponseDONEType
  <2>1. ExecutedCommand(exec) \subseteq Nat
    <3>1. exec # <<>> => exec[1] \in SeqNo
      BY FirstType
    <3> QED
      BY <3>1, GatewayAssumption DEF ExecutedCommand, SeqNo
  <2>2. PICK seq \in Nat : Publish(<<DoneMsg(seq, d)>>)
    BY <2>1 DEF ResponseCommandDONE
  <2>3. DoneMsg(seq, d) \in CloudBound
    BY MsgTypes
  <2>4. <<DoneMsg(seq, d)>> \in Seq(CloudBound)
    BY <2>3, SMT
  <2> QED
    BY <2>2, <2>4, <1>PublishType
\* sendRegisterCmd publishes well-formed messages.
<1>RegisterCmdType.
  ASSUME channelTypeOK, gatewayTypeOK, SendRegisterCmd
  PROVE  toCloud' \in Seq(CloudBound) /\ cloudRegistered' \in BOOLEAN
  <2> USE <1>RegisterCmdType
  <2>1. <<RegisterMsg, InfoMsg(claimed)>> \in Seq(CloudBound)
    BY MsgTypes, SMT DEF gatewayTypeOK
  <2> QED
    BY <2>1, <1>PublishType DEF SendRegisterCmd, gatewayTypeOK
\* AtlasDeviceCloud's updates publish well-formed messages.
<1>UpdateType.
  ASSUME channelTypeOK, gatewayTypeOK, NEW msgs \in Seq(CloudBound), Update(msgs)
  PROVE  toCloud' \in Seq(CloudBound) /\ syncAlarm' \in BOOLEAN
  BY <1>UpdateType, <1>PublishType DEF Update, channelTypeOK, gatewayTypeOK
\* pushCommand leaves a list of commands, and a request for one of them.
<1>PushType.
  ASSUME NEW d \in Devices, NEW cmds \in Seq(RecvCmd)
  PROVE  Pushed(d, cmds) \in Seq(RecvCmd) /\ PushedReqs(d, cmds) \subseteq Request
  <2> USE <1>PushType
  <2>1. Pushed(d, cmds) \in Seq(RecvCmd)
    BY SetInProgressType DEF Pushed
  <2>2. ASSUME cmds # <<>>
        PROVE  [dev |-> d, seq |-> cmds[1].seq, live |-> TRUE] \in Request
    <3>1. cmds[1] \in RecvCmd
      BY <2>2, FirstType
    <3> QED BY <3>1 DEF RecvCmd, Request
  <2> QED
    BY <2>1, <2>2 DEF PushedReqs, CanPush
\* Requests and answers stay well formed when a request is over.
<1>ForgetType.
  ASSUME channelTypeOK, NEW d \in Devices
  PROVE  Forget(d) \subseteq Request /\ ForgetResps(d) \subseteq Response
  BY <1>ForgetType DEF Forget, ForgetResps, channelTypeOK, Request
\* handleOldCommand keeps the gateway's types.
<1>OldCommandType.
  ASSUME channelTypeOK, gatewayTypeOK, NEW m \in ClientMsgs, HandleOldCommand(m)
  PROVE  gatewaySide'
  <2> USE <1>OldCommandType
  <2>1. m.seq \in Nat /\ m.seq \in SeqNo /\ m.dev \in Devices /\ execCmds[m.dev] \in Seq(SeqNo)
    BY DEF ClientMsgs, SeqNo, gatewayTypeOK
  <2>2. CASE ~CheckDeviceCommandBySeqNo(m.seq)
    BY <2>2 DEF HandleOldCommand, gatewaySide, gatewayTypeOK, channelTypeOK, tables, approveVars, cloudVars
  <2>3. CASE CheckDeviceCommandBySeqNo(m.seq) /\ CheckDeviceCommandForExecution(m.seq)
    <3>1. ResponseCommandDONE(m.dev, execCmds[m.dev])
      BY <2>3 DEF HandleOldCommand
    <3>2. toCloud' \in Seq(CloudBound)
      BY <2>1, <3>1, <1>ResponseDONEType
    <3> QED
      BY <2>1, <2>3, <3>2 DEF HandleOldCommand, gatewaySide, gatewayTypeOK, channelTypeOK, tables, cloudVars
  <2>4. CASE CheckDeviceCommandBySeqNo(m.seq) /\ ~CheckDeviceCommandForExecution(m.seq)
    <3>1. ResponseCommandACK(m.seq)
      BY <2>4 DEF HandleOldCommand
    <3>2. /\ toCloud' \in Seq(CloudBound)
          /\ msgACKScheduled' \in BOOLEAN
          /\ counterACK' \in 0 .. AckRetryNo
      BY <2>1, <3>1, <1>ResponseACKType
    <3> QED
      BY <2>1, <2>4, <3>2 DEF HandleOldCommand, gatewaySide, gatewayTypeOK, channelTypeOK, tables, cloudVars
  <2> QED
    BY <2>2, <2>3, <2>4
\* insertDeviceCommand adds a well-formed row.
<1>InsertRowType.
  ASSUME gatewayTypeOK, NEW m \in ClientMsgs, InsertRow(m)
  PROVE  rows' \subseteq Row /\ lastId' \in Nat
  <2> USE <1>InsertRowType
  <2>1. lastId + 1 \in SeqNo /\ m.seq \in SeqNo /\ m.dev \in Devices
    BY SMT DEF gatewayTypeOK, ClientMsgs, SeqNo
  <2> DEFINE row == [id |-> lastId + 1, seq |-> m.seq, dev |-> m.dev, exec |-> FALSE]
  <2>2. row \in Row
    BY <2>1 DEF Row
  <2>3. lastId' = lastId + 1 /\ rows' = rows \cup {row}
    BY DEF InsertRow
  <2> HIDE DEF row
  <2> QED
    BY <2>2, <2>3, SMT DEF gatewayTypeOK
\* handleClientCommand, when a write fails, keeps the gateway's types.
<1>RefuseCommandType.
  ASSUME channelTypeOK, gatewayTypeOK, NEW m \in ClientMsgs, RefuseNewCommand(m)
  PROVE  gatewaySide'
  <2> USE <1>RefuseCommandType
  <2>1. rows' \subseteq Row /\ lastId' \in Nat
    BY <1>InsertRowType DEF RefuseNewCommand, gatewayTypeOK
  <2> QED
    BY <2>1 DEF RefuseNewCommand, gatewaySide, gatewayTypeOK, channelTypeOK, ClientMsgs, approveVars, cloudVars
\* handleClientCommand, storing a new command, keeps the gateway's types.
<1>NewCommandType.
  ASSUME channelTypeOK, gatewayTypeOK, NEW m \in ClientMsgs, StoreNewCommand(m)
  PROVE  gatewaySide'
  <2> USE <1>NewCommandType
  <2> DEFINE cmds == Append(recvCmds[m.dev], NewRecvCmd(m))
  <2>1. m.seq \in Nat /\ m.seq \in SeqNo /\ m.dev \in Devices /\ recvCmds[m.dev] \in Seq(RecvCmd)
    BY DEF ClientMsgs, SeqNo, gatewayTypeOK
  <2>2. cmds \in Seq(RecvCmd)
    <3>1. NewRecvCmd(m) \in RecvCmd
      BY <2>1 DEF NewRecvCmd, RecvCmd
    <3> QED
      BY <2>1, <3>1, AppendType
  <2>3. rows' \subseteq Row /\ lastId' \in Nat
    BY <1>InsertRowType DEF StoreNewCommand
  <2>4. /\ toCloud' \in Seq(CloudBound)
        /\ msgACKScheduled' \in BOOLEAN
        /\ counterACK' \in 0 .. AckRetryNo
    BY <2>1, <1>ResponseACKType DEF StoreNewCommand
  <2>5. recvCmds' \in [Devices -> Seq(RecvCmd)] /\ reqs' \subseteq Request
    <3>1. Pushed(m.dev, cmds) \in Seq(RecvCmd) /\ PushedReqs(m.dev, cmds) \subseteq Request
      BY <2>1, <2>2, <1>PushType
    <3>2. \/ PushCommand(m.dev, cmds)
          \/ recvCmds' = [recvCmds EXCEPT ![m.dev] = cmds] /\ UNCHANGED reqs
      BY DEF StoreNewCommand
    <3> HIDE DEF cmds
    <3> QED
      BY <2>1, <2>2, <3>1, <3>2 DEF PushCommand, gatewayTypeOK, channelTypeOK
  <2> QED
    BY <2>1, <2>3, <2>4, <2>5 DEF StoreNewCommand, gatewaySide, gatewayTypeOK, channelTypeOK, cloudVars
\* handleCommandDoneAck keeps the gateway's types.
<1>DoneAckType.
  ASSUME channelTypeOK, gatewayTypeOK, NEW m \in DoneAckMsgs, HandleCommandDoneAck(m)
  PROVE  gatewaySide'
  <2> USE <1>DoneAckType
  <2>1. m.dev \in Devices /\ execCmds[m.dev] \in Seq(SeqNo)
    BY DEF DoneAckMsgs, gatewayTypeOK
  <2>2. CASE UNCHANGED <<rows, execCmds, toCloud>>
    BY <2>1, <2>2 DEF HandleCommandDoneAck, gatewaySide, gatewayTypeOK, channelTypeOK, approveVars, cloudVars
  <2>3. CASE /\ DoneAckMatches(m)
             /\ DeleteDeviceCommand(m.seq)
             /\ execCmds' = [execCmds EXCEPT ![m.dev] = Tail(@)]
             /\ ResponseCommandDONE(m.dev, Tail(execCmds[m.dev]))
    <3>1. Tail(execCmds[m.dev]) \in Seq(SeqNo)
      BY <2>1, <2>3, TailType DEF DoneAckMatches
    <3>2. toCloud' \in Seq(CloudBound)
      BY <2>1, <2>3, <3>1, <1>ResponseDONEType
    <3>3. execCmds' \in [Devices -> Seq(SeqNo)]
      BY <2>1, <2>3, <3>1 DEF gatewayTypeOK
    <3>4. rows' \subseteq Row
      BY <2>3 DEF DeleteDeviceCommand, gatewayTypeOK
    <3> QED
      BY <2>1, <3>2, <3>3, <3>4 DEF HandleCommandDoneAck, gatewaySide, gatewayTypeOK, channelTypeOK,
         approveVars, cloudVars
  <2> QED
    BY <2>2, <2>3 DEF HandleCommandDoneAck
\* markExecutedDeviceCommand changes rows in place.
<1>MarkExecutedType.
  ASSUME gatewayTypeOK, NEW seq, MarkExecutedDeviceCommand(seq)
  PROVE  rows' \subseteq Row
  <2> USE <1>MarkExecutedType
  <2> DEFINE f == [r \in rows |-> IF r.seq = seq THEN [r EXCEPT !.exec = TRUE] ELSE r]
  <2>1. ASSUME NEW r \in rows
        PROVE  f[r] \in Row
    <3>1. r \in Row
      BY DEF gatewayTypeOK
    <3>2. [r EXCEPT !.exec = TRUE] \in Row
      BY <3>1 DEF Row
    <3> QED
      BY <3>1, <3>2
  <2>2. rows' = {f[r] : r \in rows}
    BY DEF MarkExecutedDeviceCommand
  <2> QED
    BY <2>1, <2>2
\* Ending a request keeps the lists, the requests and the answers typed.
<1>CompleteType.
  ASSUME channelTypeOK, gatewayTypeOK, NEW d \in Devices, NEW cmds \in Seq(RecvCmd),
         Complete(d, cmds) \/ CompleteAndPush(d, cmds)
  PROVE  /\ recvCmds' \in [Devices -> Seq(RecvCmd)]
         /\ reqs' \subseteq Request
         /\ resps' \subseteq Response
  <2> USE <1>CompleteType
  <2>1. Pushed(d, cmds) \in Seq(RecvCmd) /\ PushedReqs(d, cmds) \subseteq Request
    BY <1>PushType
  <2>2. Forget(d) \subseteq Request /\ ForgetResps(d) \subseteq Response
    BY <1>ForgetType
  <2> QED
    BY <2>1, <2>2 DEF Complete, CompleteAndPush, gatewayTypeOK
\* deviceCmdRespCallback on a 2.xx answer keeps the gateway's types.
<1>RespOKType.
  ASSUME channelTypeOK, gatewayTypeOK, NEW d \in Devices, recvCmds[d] # <<>>, CmdRespOK(d)
  PROVE  gatewaySide'
  <2> USE <1>RespOKType
  <2> DEFINE exec == Append(execCmds[d], recvCmds[d][1].seq)
  <2>1. recvCmds[d] \in Seq(RecvCmd) /\ execCmds[d] \in Seq(SeqNo)
    BY DEF gatewayTypeOK
  <2>2. recvCmds[d][1].seq \in SeqNo /\ Tail(recvCmds[d]) \in Seq(RecvCmd)
    <3>1. recvCmds[d][1] \in RecvCmd
      BY <2>1, FirstType
    <3> QED
      BY <2>1, <3>1, TailType DEF RecvCmd
  <2>3. exec \in Seq(SeqNo)
    BY <2>1, <2>2, AppendType
  <2>4. timeouts' \in [Devices -> 0 .. PushRetryNo]
    BY GatewayAssumption, SMT DEF CmdRespOK, gatewayTypeOK
  <2>5. CASE /\ MarkExecutedDeviceCommand(recvCmds[d][1].seq)
             /\ execCmds' = [execCmds EXCEPT ![d] = exec]
             /\ ResponseCommandDONE(d, exec)
             /\ CompleteAndPush(d, Tail(recvCmds[d]))
    <3>1. rows' \subseteq Row
      BY <2>5, <1>MarkExecutedType
    <3>2. /\ recvCmds' \in [Devices -> Seq(RecvCmd)]
          /\ reqs' \subseteq Request
          /\ resps' \subseteq Response
      BY <2>2, <2>5, <1>CompleteType
    <3>3. toCloud' \in Seq(CloudBound)
      BY <2>3, <2>5, <1>ResponseDONEType
    <3>4. execCmds' \in [Devices -> Seq(SeqNo)]
      BY <2>3, <2>5 DEF gatewayTypeOK
    <3> QED
      BY <2>4, <3>1, <3>2, <3>3, <3>4
         DEF CmdRespOK, gatewaySide, gatewayTypeOK, approveVars, cloudVars
  <2>6. CASE CompleteAndPush(d, recvCmds[d]) /\ UNCHANGED <<rows, execCmds, toCloud>>
    <3>1. /\ recvCmds' \in [Devices -> Seq(RecvCmd)]
          /\ reqs' \subseteq Request
          /\ resps' \subseteq Response
      BY <2>1, <2>6, <1>CompleteType
    <3> QED
      BY <2>4, <2>6, <3>1
         DEF CmdRespOK, gatewaySide, gatewayTypeOK, channelTypeOK, approveVars, cloudVars
  <2> QED
    BY <2>5, <2>6 DEF CmdRespOK
\* deviceCmdRespCallback on an error or a timeout keeps the gateway's types;
\* the timeout counter does not pass the retry limit.
<1>RespErrorType.
  ASSUME channelTypeOK, gatewayTypeOK, NEW d \in Devices, CmdRespError(d) \/ CmdRespTimeout(d)
  PROVE  gatewaySide'
  <2> USE <1>RespErrorType
  <2> DEFINE cmds == SetInProgress(recvCmds[d], FALSE)
  <2>1. cmds \in Seq(RecvCmd)
    BY SetInProgressType DEF gatewayTypeOK
  <2>2. /\ Complete(d, cmds) \/ CompleteAndPush(d, cmds)
        /\ UNCHANGED <<tables, approveVars, devices, execCmds, devRegistered, cloudVars, toCloud>>
    BY DEF CmdRespError, CmdRespTimeout
  <2>3. timeouts' \in [Devices -> 0 .. PushRetryNo]
    <3>1. /\ timeouts \in [Devices -> 0 .. PushRetryNo]
          /\ \/ timeouts' = [timeouts EXCEPT ![d] = 0]
             \/ timeouts[d] # PushRetryNo /\ timeouts' = [timeouts EXCEPT ![d] = timeouts[d] + 1]
      BY DEF CmdRespError, CmdRespTimeout, gatewayTypeOK
    <3>2. 0 \in 0 .. PushRetryNo /\ (timeouts[d] # PushRetryNo => timeouts[d] + 1 \in 0 .. PushRetryNo)
      BY <3>1, GatewayAssumption, SMT
    <3> QED
      BY <3>1, <3>2
  <2>4. /\ recvCmds' \in [Devices -> Seq(RecvCmd)]
        /\ reqs' \subseteq Request
        /\ resps' \subseteq Response
    BY <2>1, <2>2, <1>CompleteType
  <2> QED
    BY <2>2, <2>3, <2>4
       DEF gatewaySide, gatewayTypeOK, channelTypeOK, tables, approveVars, cloudVars
\* deviceCmdRespCallback keeps the gateway's types.
<1>RespCallbackType.
  ASSUME channelTypeOK, gatewayTypeOK, NEW d \in Devices, DeviceCmdRespCallback(d)
  PROVE  gatewaySide'
  <2> USE <1>RespCallbackType
  <2>1. CASE recvCmds[d] = <<>>
    <3>1. <<>> \in Seq(RecvCmd)
      BY SMT
    <3>2. /\ Complete(d, <<>>)
          /\ UNCHANGED <<tables, approveVars, devices, execCmds, timeouts, devRegistered,
                         cloudVars, toCloud>>
      BY <2>1 DEF DeviceCmdRespCallback
    <3>3. /\ recvCmds' \in [Devices -> Seq(RecvCmd)]
          /\ reqs' \subseteq Request
          /\ resps' \subseteq Response
      BY <3>1, <3>2, <1>CompleteType
    <3> QED
      BY <3>2, <3>3 DEF gatewaySide, gatewayTypeOK, channelTypeOK, tables, approveVars, cloudVars
  <2>2. CASE recvCmds[d] # <<>>
    BY <2>2, <1>RespOKType, <1>RespErrorType DEF DeviceCmdRespCallback
  <2> QED
    BY <2>1, <2>2
\* AtlasApprove::alarmCallback keeps the gateway's types.
<1>AlarmType.
  ASSUME channelTypeOK, gatewayTypeOK, AlarmCallback
  PROVE  gatewaySide'
  <2> USE <1>AlarmType
  <2>1. recvCmds' \in [Devices -> Seq(RecvCmd)]
    <3>1. \A d \in Devices : recvCmds[d] \in Seq(RecvCmd)
      BY DEF gatewayTypeOK
    <3>2. \A d \in Devices : Pushed(d, recvCmds[d]) \in Seq(RecvCmd)
      BY <3>1, <1>PushType
    <3> QED
      BY <3>1, <3>2 DEF AlarmCallback
  <2>2. reqs' \subseteq Request
    <3>1. \A d \in devices : PushedReqs(d, recvCmds[d]) \subseteq Request
      BY <1>PushType DEF gatewayTypeOK
    <3> QED
      BY <3>1 DEF AlarmCallback, channelTypeOK
  <2>3. toCloud' \in Seq(CloudBound)
    <3>1. PICK order \in Listings(DoneDevices, Cardinality(Devices)) :
            Publish([i \in DOMAIN order |-> DoneMsg(execCmds[order[i]][1], order[i])])
      BY DEF AlarmCallback
    <3>2. order \in Seq(DoneDevices)
      BY ListingType, ChannelAssumption
    <3>3. Len(order) \in Nat /\ order \in [1 .. Len(order) -> DoneDevices]
      BY <3>2, SMT
    <3>4. \A d \in DoneDevices : DoneMsg(execCmds[d][1], d) \in CloudBound
      <4>1. \A d \in DoneDevices : d \in Devices /\ execCmds[d] \in Seq(SeqNo) /\ execCmds[d] # <<>>
        BY DEF DoneDevices, gatewayTypeOK
      <4>2. \A d \in DoneDevices : execCmds[d][1] \in SeqNo
        BY <4>1, FirstType
      <4>3. \A d \in DoneDevices : execCmds[d][1] \in Nat
        BY <4>2 DEF SeqNo
      <4> QED
        BY <4>1, <4>3, MsgTypes
    <3> DEFINE msgs == [i \in DOMAIN order |-> DoneMsg(execCmds[order[i]][1], order[i])]
    <3>5. msgs \in [1 .. Len(order) -> CloudBound]
      BY <3>3, <3>4
    <3> HIDE DEF msgs
    <3>6. msgs \in Seq(CloudBound)
      BY <3>2, <3>5, SMT
    <3> QED
      BY <3>1, <3>6, <1>PublishType DEF msgs
  <2> QED
    BY <2>1, <2>2, <2>3
       DEF AlarmCallback, gatewaySide, gatewayTypeOK, channelTypeOK, tables, approveVars, cloudVars
\* statusACKCallback keeps the gateway's types.
<1>StatusACKType.
  ASSUME channelTypeOK, gatewayTypeOK, StatusACKCallback
  PROVE  gatewaySide'
  <2> USE <1>StatusACKType
  <2>1. sequenceNumber \in Nat
    BY DEF gatewayTypeOK
  <2>2. <<AckMsg(sequenceNumber)>> \in Seq(CloudBound)
    BY <2>1, MsgTypes, SMT
  <2>3. CASE ResponseCommandACK(sequenceNumber)
    <3>1. /\ toCloud' \in Seq(CloudBound)
          /\ msgACKScheduled' \in BOOLEAN
          /\ counterACK' \in 0 .. AckRetryNo
      BY <2>1, <2>3, <1>ResponseACKType
    <3> QED
      BY <3>1 DEF StatusACKCallback, gatewaySide, gatewayTypeOK, channelTypeOK, tables, deviceVars, cloudVars
  <2>4. CASE Publish(<<AckMsg(sequenceNumber)>>) /\ msgACKScheduled' = FALSE /\ counterACK' = 0
    <3>1. toCloud' \in Seq(CloudBound)
      BY <2>2, <2>4, <1>PublishType
    <3>2. counterACK' \in 0 .. AckRetryNo
      BY <2>4, GatewayAssumption, SMT
    <3> QED
      BY <2>4, <3>1, <3>2
         DEF StatusACKCallback, gatewaySide, gatewayTypeOK, channelTypeOK, tables, deviceVars, cloudVars
  <2> QED
    BY <2>3, <2>4 DEF StatusACKCallback
\* The connection listeners, the alarms of the cloud modules and the claim
\* keep the gateway's types.
<1>CloudLinkType.
  ASSUME channelTypeOK, gatewayTypeOK,
         ReqRegisterCmd \/ KeepaliveAlarm \/ SyncAlarmCallback \/ ClaimGateway
         \/ Connect \/ OnConnect \/ OnDisconnect
  PROVE  gatewaySide'
  <2> USE <1>CloudLinkType
  <2> USE DEF gatewaySide, gatewayTypeOK, channelTypeOK, tables, approveVars, deviceVars, cloudVars
  <2>1. CASE ReqRegisterCmd \/ KeepaliveAlarm
    BY <2>1, <1>RegisterCmdType DEF ReqRegisterCmd, KeepaliveAlarm, SendRegisterCmd
  <2>2. CASE SyncAlarmCallback
    <3>1. <<InfoMsg(claimed)>> \in Seq(CloudBound)
      BY MsgTypes, SMT
    <3> QED
      BY <2>2, <3>1, <1>UpdateType DEF SyncAlarmCallback
  <2>3. CASE ClaimGateway
    <3>1. \A b \in BOOLEAN : <<InfoMsg(b)>> \in Seq(CloudBound)
      BY MsgTypes, SMT
    <3>2. <<InfoMsg(TRUE)>> \in Seq(CloudBound)
      BY <3>1
    <3> QED
      BY <2>3, <3>2, <1>UpdateType DEF ClaimGateway
  <2>4. CASE Connect
    BY <2>4 DEF Connect, gatewayVars
  <2>5. CASE OnConnect
    BY <2>5, <1>RegisterCmdType DEF OnConnect, SendRegisterCmd
  <2>6. CASE OnDisconnect
    BY <2>6 DEF OnDisconnect
  <2> QED
    BY <2>1, <2>2, <2>3, <2>4, <2>5, <2>6
\* registerNow and keepAliveExpired keep the gateway's types.
<1>DeviceRegistrationType.
  ASSUME channelTypeOK, gatewayTypeOK, NEW d \in Devices, RegisterNow(d) \/ KeepAliveExpired(d)
  PROVE  gatewaySide'
  <2> USE <1>DeviceRegistrationType
  <2>1. <<>> \in Seq(CloudBound)
    BY SMT
  <2>2. toCloud' \in Seq(CloudBound) /\ syncAlarm' \in BOOLEAN
    BY <2>1, <1>UpdateType DEF RegisterNow, KeepAliveExpired
  <2> QED
    BY <2>2 DEF RegisterNow, KeepAliveExpired, gatewaySide, gatewayTypeOK, channelTypeOK, tables,
                approveVars
\* initDeviceCommands fills the two lists of a device with commands.
<1>LoadType.
  ASSUME gatewayTypeOK, NEW d \in Devices
  PROVE  LoadRecvCmds(d) \subseteq Seq(RecvCmd) /\ LoadExecCmds(d) \subseteq Seq(SeqNo)
  <2> USE <1>LoadType
  <2>1. ASSUME NEW S \in SUBSET rows, NEW l \in InIdOrder(S)
        PROVE  l \in Seq(Row)
    <3>1. lastId \in Nat /\ S \subseteq Row
      BY DEF gatewayTypeOK
    <3>2. l \in Seq(S)
      BY <3>1, InIdOrderType
    <3> QED
      BY <3>1, <3>2, SMT
  <2>2. ASSUME NEW l \in Seq(Row)
        PROVE  /\ [i \in DOMAIN l |-> [seq |-> l[i].seq, inProgress |-> FALSE]] \in Seq(RecvCmd)
               /\ [i \in DOMAIN l |-> l[i].seq] \in Seq(SeqNo)
    <3>1. Len(l) \in Nat /\ DOMAIN l = 1 .. Len(l)
      BY SMT
    <3>2. \A i \in DOMAIN l : l[i] \in Row
      BY SMT
    <3>3. \A i \in DOMAIN l : l[i].seq \in SeqNo
      BY <3>2 DEF Row
    <3>4. \A i \in DOMAIN l : [seq |-> l[i].seq, inProgress |-> FALSE] \in RecvCmd
      BY <3>3 DEF RecvCmd
    <3>5. [i \in DOMAIN l |-> l[i].seq] \in [1 .. Len(l) -> SeqNo]
      BY <3>1, <3>3
    <3>6. [i \in DOMAIN l |-> [seq |-> l[i].seq, inProgress |-> FALSE]] \in [1 .. Len(l) -> RecvCmd]
      BY <3>1, <3>4
    <3> QED
      BY <3>1, <3>5, <3>6, SMT
  <2>3. {r \in rows : r.dev = d /\ ~r.exec} \in SUBSET rows
    OBVIOUS
  <2>4. {r \in rows : r.dev = d /\ r.exec} \in SUBSET rows
    OBVIOUS
  <2>5. LoadRecvCmds(d) \subseteq Seq(RecvCmd)
    BY <2>1, <2>2, <2>3 DEF LoadRecvCmds
  <2>6. LoadExecCmds(d) \subseteq Seq(SeqNo)
    BY <2>1, <2>2, <2>4 DEF LoadExecCmds
  <2> QED
    BY <2>5, <2>6
\* A restarted gateway is well typed.
<1>RestartType.
  ASSUME channelTypeOK, gatewayTypeOK, Restart
  PROVE  gatewaySide'
  <2> USE <1>RestartType
  <2>1. recvCmds' \in [Devices -> Seq(RecvCmd)]
    BY <1>LoadType DEF Restart, PerDevice
  <2>2. execCmds' \in [Devices -> Seq(SeqNo)]
    BY <1>LoadType DEF Restart, PerDevice
  <2>3. timeouts' \in [Devices -> 0 .. PushRetryNo] /\ counterACK' \in 0 .. AckRetryNo
    BY GatewayAssumption, SMT DEF Restart
  <2>4. reqs' \subseteq Request
    BY DEF Restart, channelTypeOK, Request
  <2> QED
    BY <2>1, <2>2, <2>3, <2>4
       DEF Restart, GetMaxSequenceNumber, gatewaySide, gatewayTypeOK, channelTypeOK, tables
\* sendGatewayCommand publishes a well-formed command.
<1>SendGatewayType.
  ASSUME channelTypeOK, NEW registered, NEW cmds \in Seq(PendingCmd),
         SendGatewayCommand(registered, cmds)
  PROVE  toGateway' \in Seq(GatewayBound)
  <2> USE <1>SendGatewayType
  <2>1. CASE registered /\ cmds # <<>>
    <3>1. cmds[1] \in PendingCmd
      BY <2>1, FirstType
    <3>2. ClientMsg(cmds[1]) \in GatewayBound
      BY <3>1, MsgTypes
    <3>3. <<ClientMsg(cmds[1])>> \in Seq(GatewayBound)
      BY <3>2, SMT
    <3> QED
      BY <2>1, <3>3, <1>PublishToGatewayType DEF SendGatewayCommand
  <2>2. CASE ~(registered /\ cmds # <<>>)
    BY <2>2 DEF SendGatewayCommand, channelTypeOK
  <2> QED
    BY <2>1, <2>2
\* A command added to gatewayPendingCmds keeps the queue typed.
<1>AddPendingType.
  ASSUME channelTypeOK, cloudTypeOK, NEW cmd \in PendingCmd, AddPending(cmd)
  PROVE  pending' \in Seq(PendingCmd) /\ toGateway' \in Seq(GatewayBound)
  <2> USE <1>AddPendingType
  <2>1. pending' \in Seq(PendingCmd)
    BY AppendType DEF AddPending, cloudTypeOK
  <2>2. toGateway' \in Seq(GatewayBound)
    <3>1. <<cmd>> \in Seq(PendingCmd)
      BY SMT
    <3> QED
      BY <3>1, <1>SendGatewayType DEF AddPending, channelTypeOK
  <2> QED
    BY <2>1, <2>2
\* sendCommandToClient keeps the cloud's types.
<1>SendCommandType.
  ASSUME channelTypeOK, cloudTypeOK, NEW d \in Devices, SendCommandToClient(d)
  PROVE  cloudSide'
  <2> USE <1>SendCommandType
  <2> DEFINE seq == GlobalCommandSeqNo
  <2>1. seq \in SeqNo
    BY SMT DEF GlobalCommandSeqNo, SeqNo, cloudTypeOK
  <2>2. \A state \in CommandStates : Append(transmitted, [dev |-> d, state |-> state]) \in Seq(Transmitted)
    <3>1. \A state \in CommandStates : [dev |-> d, state |-> state] \in Transmitted
      BY DEF Transmitted
    <3> QED
      BY <3>1, AppendType DEF cloudTypeOK
  <2>3. transmitted' \in Seq(Transmitted)
    BY <2>2 DEF SendCommandToClient, CommandStates
  <2>4. CASE owner
    <3>1. [seq |-> seq, dev |-> d] \in OwnerCmd
      BY <2>1 DEF OwnerCmd
    <3>2. ownerCommands' \in Seq(OwnerCmd)
      BY <2>4, <3>1, AppendType DEF SendCommandToClient, cloudTypeOK
    <3> QED
      BY <2>3, <2>4, <3>2 DEF SendCommandToClient, cloudSide, cloudTypeOK, channelTypeOK
  <2>5. CASE ~owner
    <3>1. [seq |-> seq, dev |-> d, signed |-> FALSE] \in PendingCmd
      BY <2>1 DEF PendingCmd
    <3>2. pending' \in Seq(PendingCmd) /\ toGateway' \in Seq(GatewayBound)
      BY <2>5, <3>1, <1>AddPendingType DEF SendCommandToClient
    <3> QED
      BY <2>3, <2>5, <3>2 DEF SendCommandToClient, cloudSide, cloudTypeOK
  <2> QED
    BY <2>4, <2>5
\* setOwnerCommandStatus keeps the cloud's types.
<1>OwnerStatusType.
  ASSUME channelTypeOK, cloudTypeOK, NEW approved \in BOOLEAN, SetOwnerCommandStatus(approved)
  PROVE  cloudSide'
  <2> USE <1>OwnerStatusType
  <2> DEFINE cmd == ownerCommands[1]
  <2>1. ownerCommands' \in Seq(OwnerCmd) /\ cmd \in OwnerCmd
    BY TailType, FirstType DEF SetOwnerCommandStatus, cloudTypeOK
  <2>2. CASE SendApprovedCommandToClient(cmd)
    <3>1. [seq |-> cmd.seq, dev |-> cmd.dev, signed |-> TRUE] \in PendingCmd
      BY <2>1 DEF OwnerCmd, PendingCmd
    <3>2. pending' \in Seq(PendingCmd) /\ toGateway' \in Seq(GatewayBound)
      BY <2>2, <3>1, <1>AddPendingType DEF SendApprovedCommandToClient
    <3>3. "DELIVERING_TO_GATEWAY" \in CommandStates
      BY DEF CommandStates
    <3>4. transmitted' \in Seq(Transmitted)
      BY <2>2, <3>3, SetStateType DEF SendApprovedCommandToClient
    <3> QED
      BY <2>1, <3>2, <3>4 DEF SetOwnerCommandStatus, cloudSide, cloudTypeOK
  <2>3. CASE MarkCommandAsRejected(cmd)
    <3>1. "REJECTED" \in CommandStates
      BY DEF CommandStates
    <3>2. transmitted' \in Seq(Transmitted)
      BY <2>3, <3>1, SetStateType DEF MarkCommandAsRejected
    <3> QED
      BY <2>1, <2>3, <3>2
         DEF MarkCommandAsRejected, SetOwnerCommandStatus, cloudSide, cloudTypeOK, channelTypeOK
  <2> QED
    BY <2>2, <2>3 DEF SetOwnerCommandStatus
\* handleClientCommandAck keeps the cloud's types.
<1>CloudAckType.
  ASSUME channelTypeOK, cloudTypeOK, NEW m, HandleClientCommandAck(m)
  PROVE  cloudSide'
  <2> USE <1>CloudAckType
  <2>1. CASE AckMatches(m)
    <3>1. Tail(pending) \in Seq(PendingCmd)
      BY <2>1, TailType DEF AckMatches, cloudTypeOK
    <3>2. toGateway' \in Seq(GatewayBound)
      BY <2>1, <3>1, <1>SendGatewayType DEF HandleClientCommandAck
    <3>3. "DELIVERING_TO_CLIENT" \in CommandStates
      BY DEF CommandStates
    <3>4. transmitted' \in Seq(Transmitted)
      BY <2>1, <3>3, SetStateType DEF HandleClientCommandAck
    <3> QED
      BY <2>1, <3>1, <3>2, <3>4 DEF HandleClientCommandAck, cloudSide, cloudTypeOK
  <2>2. CASE ~AckMatches(m)
    BY <2>2 DEF HandleClientCommandAck, cloudSide, cloudTypeOK, channelTypeOK
  <2> QED
    BY <2>1, <2>2
\* handleClientCommandDone keeps the cloud's types.
<1>CloudDoneType.
  ASSUME channelTypeOK, cloudTypeOK, NEW m, HandleClientCommandDone(m)
  PROVE  cloudSide'
  <2> USE <1>CloudDoneType
  <2>1. CASE DoneMatches(m)
    <3>1. m.seq \in SeqNo /\ m.dev \in Devices
      <4>1. transmitted \in Seq(Transmitted) /\ m.seq \in DOMAIN transmitted
        BY <2>1 DEF DoneMatches, cloudTypeOK
      <4>2. m.seq \in 1 .. Len(transmitted) /\ Len(transmitted) \in Nat /\ transmitted[m.seq] \in Transmitted
        BY <4>1, SMT
      <4> QED
        BY <2>1, <4>2, SMT DEF DoneMatches, Transmitted, SeqNo
    <3>2. DoneAckMsg(m.seq, m.dev) \in GatewayBound
      BY <3>1, MsgTypes
    <3>3. <<DoneAckMsg(m.seq, m.dev)>> \in Seq(GatewayBound)
      BY <3>2, SMT
    <3>4. toGateway' \in Seq(GatewayBound)
      BY <2>1, <3>3, <1>PublishToGatewayType
         DEF HandleClientCommandDone, SendGatewayCommandDONEAck, channelTypeOK
    <3>5. "EXECUTED" \in CommandStates
      BY DEF CommandStates
    <3>6. transmitted' \in Seq(Transmitted)
      BY <2>1, <3>5, SetStateType DEF HandleClientCommandDone
    <3> QED
      BY <3>4, <3>6 DEF HandleClientCommandDone, cloudSide, cloudTypeOK
  <2>2. CASE ~DoneMatches(m)
    BY <2>2 DEF HandleClientCommandDone, cloudSide, cloudTypeOK, channelTypeOK
  <2> QED
    BY <2>1, <2>2
\* messageReceived keeps the cloud's types.
<1>CloudReceiveType.
  ASSUME channelTypeOK, cloudTypeOK, NEW m \in CloudBound, MessageReceived(m)
  PROVE  cloudSide'
  <2> USE <1>CloudReceiveType
  <2>1. CASE RegisterGatewayNow
    <3>1. toGateway' \in Seq(GatewayBound)
      BY <2>1, <1>SendGatewayType DEF RegisterGatewayNow, cloudTypeOK
    <3> QED
      BY <2>1, <3>1 DEF RegisterGatewayNow, cloudSide, cloudTypeOK
  <2>2. CASE m.type = "INFO" /\ UpdateGatewayCommand(m)
    <3>1. m.owner \in BOOLEAN
      BY <2>2, SMT DEF CloudBound, RegisterMsg, InfoMsgs, AckMsgs, DoneMsgs
    <3> QED
      BY <2>2, <3>1 DEF UpdateGatewayCommand, cloudSide, cloudTypeOK, channelTypeOK
  <2> QED
    BY <2>1, <2>2, <1>CloudAckType, <1>CloudDoneType DEF MessageReceived
\* initGateway keeps the cloud's types.
<1>InitGatewayType.
  ASSUME channelTypeOK, cloudTypeOK, InitGateway
  PROVE  cloudSide'
  <2> USE <1>InitGatewayType
  <2>1. <<RegisterRequestMsg>> \in Seq(GatewayBound)
    BY MsgTypes, SMT
  <2> QED
    BY <2>1, <1>PublishToGatewayType DEF InitGateway, cloudSide, cloudTypeOK
\* The client's CoAP handler keeps its types and those of the answers.
<1>ClientReceiveType.
  ASSUME channelTypeOK, clientTypeOK, NEW q \in reqs, ExecuteCommandCb(q)
  PROVE  clientTypeOK' /\ resps' \subseteq Response
  <2> USE <1>ClientReceiveType
  <2>1. q \in Request /\ q.dev \in Devices /\ q.seq \in SeqNo
    BY DEF channelTypeOK, Request
  <2>2. \A ok \in BOOLEAN : Answer(q, ok) => resps' \subseteq Response
    <3>1. \A ok \in BOOLEAN : [dev |-> q.dev, ok |-> ok] \in Response
      BY <2>1 DEF Response
    <3> QED
      BY <3>1 DEF Answer, channelTypeOK
  <2>3. \E ok \in BOOLEAN : Answer(q, ok)
    <3>1. TRUE \in BOOLEAN /\ FALSE \in BOOLEAN
      OBVIOUS
    <3>2. Answer(q, TRUE) \/ Answer(q, FALSE)
      BY DEF ExecuteCommandCb, AcceptCommand, DeferCommand
    <3> QED
      BY <3>1, <3>2
  <2> QED
    BY <2>1, <2>2, <2>3 DEF ExecuteCommandCb, AcceptCommand, DeferCommand, clientTypeOK, clientVars
\* Reboot and start keep the client's types.
<1>ClientStepType.
  ASSUME clientTypeOK, NEW d \in Devices, CommandExecutionAlarm(d) \/ Boot(d)
  PROVE  clientTypeOK'
  BY <1>ClientStepType DEF CommandExecutionAlarm, Boot, clientTypeOK
\* A gateway handler that leaves the rest alone keeps all types.
<1>GatewayHandlerType.
  ASSUME TypeOK, gatewaySide', UNCHANGED <<link, toGateway, clientVars, cloudCmdVars, faults>>
  PROVE  TypeOK'
  BY <1>GatewayHandlerType DEF TypeOK, gatewaySide, channelTypeOK, clientTypeOK, cloudTypeOK, clientVars, cloudCmdVars
\* So does a cloud handler.
<1>CloudHandlerType.
  ASSUME TypeOK, cloudSide', toCloud' \in Seq(CloudBound),
         UNCHANGED <<link, reqs, resps, gatewayVars, clientVars>>
  PROVE  faults' \in 0 .. MaxFaults => TypeOK'
  <2> USE <1>CloudHandlerType
  <2>1. gatewayTypeOK'
    BY DEF TypeOK, gatewayTypeOK, gatewayVars, tables, approveVars, deviceVars, cloudVars
  <2> QED
    BY <2>1 DEF TypeOK, cloudSide, channelTypeOK, clientTypeOK, clientVars
\* So does parseCmd on any message from the cloud.
<1>GatewayReceiveType.
  ASSUME TypeOK, GatewayReceive
  PROVE  TypeOK'
  <2> USE <1>GatewayReceiveType
  <2> DEFINE m == Head(toGateway)
  <2>1. m \in GatewayBound /\ toGateway' \in Seq(GatewayBound)
    BY TailType, FirstType DEF GatewayReceive, TypeOK, channelTypeOK
  <2>2. /\ m.type = "CLIENT" => m \in ClientMsgs
        /\ m.type = "DONE_ACK" => m \in DoneAckMsgs
    <3>1. m = RegisterRequestMsg \/ m \in ClientMsgs \/ m \in DoneAckMsgs
      BY <2>1 DEF GatewayBound
    <3> HIDE DEF m
    <3> QED
      BY <3>1, SMT DEF RegisterRequestMsg, ClientMsgs, DoneAckMsgs
  <2>3. channelTypeOK /\ gatewayTypeOK /\ ParseCmd(m)
    BY DEF GatewayReceive, TypeOK
  <2> HIDE DEF m
  <2>4. gatewaySide'
    <3>1. CASE UNCHANGED <<gatewayVars, toCloud, reqs, resps>>
      BY <2>3, <3>1 DEF gatewaySide, gatewayTypeOK, channelTypeOK, gatewayVars, tables, approveVars,
                        deviceVars, cloudVars
    <3> QED
      BY <2>2, <2>3, <3>1, <1>OldCommandType, <1>RefuseCommandType, <1>NewCommandType, <1>DoneAckType,
         <1>CloudLinkType DEF ParseCmd, HandleClientCommand
  <2> QED
    BY <2>1, <2>4 DEF GatewayReceive, TypeOK, gatewaySide, channelTypeOK, clientTypeOK, cloudTypeOK,
                      clientVars, cloudCmdVars
\* So does every fault.
<1>FaultType.
  ASSUME TypeOK, Fault
  PROVE  TypeOK'
  <2> USE <1>FaultType
  <2>1. faults' \in 0 .. MaxFaults
    BY MaxFaultsAssumption, SMT DEF Fault, TypeOK
  <2>2. channelTypeOK /\ gatewayTypeOK /\ clientTypeOK /\ cloudTypeOK
    BY DEF TypeOK
  <2>3. UNCHANGED gatewayVars => gatewayTypeOK'
    BY <2>2 DEF gatewayTypeOK, gatewayVars, tables, approveVars, deviceVars, cloudVars
  <2>4. UNCHANGED <<clientVars, cloudCmdVars>> => clientTypeOK' /\ cloudTypeOK'
    BY <2>2 DEF clientTypeOK, cloudTypeOK, clientVars, cloudCmdVars
  <2>5. CASE Disconnect
    <3>1. toCloud' \in Seq(CloudBound) /\ toGateway' \in Seq(GatewayBound)
      BY <2>2, <2>5, PrefixType DEF Disconnect, channelTypeOK
    <3>2. channelTypeOK'
      BY <2>2, <2>5, <3>1 DEF Disconnect, channelTypeOK, LinkStates
    <3> QED
      BY <2>1, <2>3, <2>4, <2>5, <3>2 DEF Disconnect, TypeOK
  <2>6. CASE LoseToCloud
    <3>1. channelTypeOK'
      BY <2>2, <2>6, TailType DEF LoseToCloud, channelTypeOK
    <3> QED
      BY <2>1, <2>3, <2>4, <2>6, <3>1 DEF LoseToCloud, TypeOK
  <2>7. CASE GatewayRestart
    <3>1. gatewaySide'
      BY <2>2, <2>7, <1>RestartType DEF GatewayRestart
    <3>2. link' \in LinkStates /\ toGateway' \in Seq(GatewayBound)
      BY <2>7, SMT DEF GatewayRestart, Restart, LinkStates
    <3> QED
      BY <2>1, <2>4, <2>7, <3>1, <3>2 DEF GatewayRestart, gatewaySide, channelTypeOK, TypeOK
  <2>8. CASE CloudInitGateway
    <3>1. cloudSide'
      BY <2>2, <2>8, <1>InitGatewayType DEF CloudInitGateway
    <3> QED
      BY <2>1, <2>2, <2>8, <3>1, <1>CloudHandlerType DEF CloudInitGateway, channelTypeOK
  <2>9. CASE DeviceExpired
    <3>1. gatewaySide'
      BY <2>2, <2>9, <1>DeviceRegistrationType DEF DeviceExpired
    <3> QED
      BY <2>1, <2>2, <2>4, <2>9, <3>1 DEF DeviceExpired, gatewaySide, channelTypeOK, TypeOK
  <2> QED
    BY <2>5, <2>6, <2>7, <2>8, <2>9 DEF Fault
<1> SUFFICES ASSUME TypeOK, [Next]_vars
             PROVE  TypeOK'
  OBVIOUS
<1>1. channelTypeOK /\ gatewayTypeOK /\ clientTypeOK /\ cloudTypeOK
  BY DEF TypeOK
<1>2. CASE GatewayReceive
  BY <1>2, <1>GatewayReceiveType
<1>3. CASE CloudReceive
  <2>1. Head(toCloud) \in CloudBound /\ toCloud' \in Seq(CloudBound)
    BY <1>1, <1>3, TailType, FirstType DEF CloudReceive, channelTypeOK
  <2>2. cloudSide'
    BY <1>1, <1>3, <2>1, <1>CloudReceiveType DEF CloudReceive
  <2> QED
    BY <1>3, <2>1, <2>2, <1>CloudHandlerType DEF CloudReceive, TypeOK
<1>4. ASSUME NEW d \in Devices, GatewayDeviceStep(d)
      PROVE  TypeOK'
  <2>1. gatewaySide'
    BY <1>1, <1>4, <1>RespCallbackType, <1>DeviceRegistrationType DEF GatewayDeviceStep
  <2> QED
    BY <1>4, <2>1, <1>GatewayHandlerType DEF GatewayDeviceStep
<1>5. ASSUME NEW d \in Devices, ClientStep(d)
      PROVE  TypeOK'
  <2>1. clientTypeOK'
    BY <1>1, <1>5, <1>ClientStepType DEF ClientStep
  <2> QED
    BY <1>1, <1>5, <2>1
       DEF ClientStep, TypeOK, channelTypeOK, gatewayTypeOK, cloudTypeOK, gatewayVars, tables,
           approveVars, deviceVars, cloudVars, cloudCmdVars
<1>6. CASE PushAlarm
  BY <1>1, <1>6, <1>AlarmType, <1>GatewayHandlerType DEF PushAlarm
<1>7. CASE AckAlarm
  BY <1>1, <1>7, <1>StatusACKType, <1>GatewayHandlerType DEF AckAlarm
<1>8. CASE RegisterAlarm \/ SyncAlarm \/ Claim
  <2>1. gatewaySide'
    BY <1>1, <1>8, <1>CloudLinkType DEF RegisterAlarm, SyncAlarm, Claim
  <2> QED
    BY <1>8, <2>1, <1>GatewayHandlerType DEF RegisterAlarm, SyncAlarm, Claim
<1>9. CASE LinkStep
  <2>1. gatewaySide'
    BY <1>1, <1>9, <1>CloudLinkType DEF LinkStep
  <2>2. link' \in LinkStates /\ toGateway' = toGateway
    BY <1>9 DEF LinkStep, Connect, OnConnect, OnDisconnect, LinkStates
  <2> QED
    BY <1>1, <1>9, <2>1, <2>2
       DEF LinkStep, TypeOK, gatewaySide, channelTypeOK, clientTypeOK, cloudTypeOK, clientVars,
           cloudCmdVars
<1>10. CASE ClientReceive
  <2>1. clientTypeOK' /\ resps' \subseteq Response
    BY <1>1, <1>10, <1>ClientReceiveType DEF ClientReceive
  <2> QED
    BY <1>1, <1>10, <2>1
       DEF ClientReceive, TypeOK, channelTypeOK, gatewayTypeOK, cloudTypeOK, gatewayVars, tables,
           approveVars, deviceVars, cloudVars, cloudCmdVars
<1>11. CASE AdministratorStep
  <2>1. cloudSide'
    BY <1>1, <1>11, <1>SendCommandType DEF AdministratorStep
  <2> QED
    BY <1>1, <1>11, <2>1, <1>CloudHandlerType DEF AdministratorStep, TypeOK, channelTypeOK
<1>12. CASE OwnerStep
  <2>1. cloudSide'
    BY <1>1, <1>12, <1>OwnerStatusType DEF OwnerStep
  <2> QED
    BY <1>1, <1>12, <2>1, <1>CloudHandlerType DEF OwnerStep, TypeOK, channelTypeOK
<1>13. CASE Fault
  BY <1>13, <1>FaultType
<1>14. CASE UNCHANGED vars
  BY <1>14 DEF vars, TypeOK, channelTypeOK, gatewayTypeOK, clientTypeOK, cloudTypeOK, gatewayVars,
               tables, approveVars, deviceVars, cloudVars, clientVars, cloudCmdVars
<1> QED
  BY <1>2, <1>3, <1>4, <1>5, <1>6, <1>7, <1>8, <1>9, <1>10, <1>11, <1>12, <1>13, <1>14 DEF Next

\* In every reachable state of cloud, gateway and clients every variable has
\* its type: the ACK and timeout counters stay within their retry limits, and
\* the channels carry only well-formed messages.
THEOREM TypeCorrect ==
  Spec => []TypeOK
<1>1. Init => TypeOK
  BY InitType
<1>2. TypeOK /\ [Next]_vars => TypeOK'
  BY TypeStep
<1> QED
  BY <1>1, <1>2, PTL DEF Spec

-----------------------------------------------------------------------------
(* OutstandingIsFront is inductive with TypeOK.                            *)

\* Every step keeps the outstanding request of a device at the front.
LEMMA OutstandingStep ==
  TypeOK /\ OutstandingIsFront /\ [Next]_vars => OutstandingIsFront'
\* pushCommand creates a request for the front of the list it leaves behind,
\* which it has just marked in progress.
<1>PushedFront.
  ASSUME NEW d \in Devices, NEW cmds \in Seq(RecvCmd)
  PROVE  \A q \in PushedReqs(d, cmds) :
           /\ q.dev = d /\ q.live
           /\ Pushed(d, cmds) # <<>>
           /\ Pushed(d, cmds)[1] = [seq |-> q.seq, inProgress |-> TRUE]
  <2> USE <1>PushedFront
  <2>1. CASE CanPush(d, cmds)
    <3>1. cmds # <<>>
      BY <2>1 DEF CanPush
    <3>2. TRUE \in BOOLEAN
      OBVIOUS
    <3>3. /\ SetInProgress(cmds, TRUE) # <<>>
          /\ SetInProgress(cmds, TRUE)[1] = [seq |-> cmds[1].seq, inProgress |-> TRUE]
      BY <3>1, <3>2, SetInProgressType
    <3>4. Pushed(d, cmds) = SetInProgress(cmds, TRUE)
      BY <2>1 DEF Pushed
    <3> DEFINE new == [dev |-> d, seq |-> cmds[1].seq, live |-> TRUE]
    <3>5. PushedReqs(d, cmds) = {new}
      BY <2>1 DEF PushedReqs
    <3>6. new.dev = d /\ new.live /\ new.seq = cmds[1].seq
      OBVIOUS
    <3> HIDE DEF new
    <3>7. Pushed(d, cmds) # <<>> /\ Pushed(d, cmds)[1] = [seq |-> new.seq, inProgress |-> TRUE]
      BY <3>3, <3>4, <3>6
    <3> QED
      BY <3>5, <3>6, <3>7
  <2>2. CASE ~CanPush(d, cmds)
    BY <2>2 DEF PushedReqs
  <2> QED
    BY <2>1, <2>2
\* A command in progress is not pushed again.
<1>PushedKeepsFront.
  ASSUME NEW d, NEW cmds, cmds[1].inProgress
  PROVE  Pushed(d, cmds) = cmds
  BY <1>PushedKeepsFront DEF Pushed, CanPush
\* A command added behind the others leaves the front as it is.
<1>AppendKeepsFront.
  ASSUME NEW S, NEW s \in Seq(S), NEW e \in S, s # <<>>
  PROVE  Append(s, e) # <<>> /\ Append(s, e)[1] = s[1]
  BY <1>AppendKeepsFront, SMT
\* Storing a new command keeps the outstanding request at the front.
<1>NewCommandFront.
  ASSUME TypeOK, OutstandingIsFront, NEW m \in ClientMsgs, StoreNewCommand(m)
  PROVE  OutstandingIsFront'
  <2> USE <1>NewCommandFront
  <2> DEFINE d == m.dev
             cmds == Append(recvCmds[d], NewRecvCmd(m))
  <2>1. d \in Devices /\ recvCmds[d] \in Seq(RecvCmd) /\ NewRecvCmd(m) \in RecvCmd
        /\ recvCmds \in [Devices -> Seq(RecvCmd)] /\ reqs \subseteq Request
    BY DEF ClientMsgs, TypeOK, gatewayTypeOK, channelTypeOK, NewRecvCmd, RecvCmd
  <2>2. cmds \in Seq(RecvCmd)
    BY <2>1, AppendType
  <2>3. recvCmds[d] # <<>> => cmds # <<>> /\ cmds[1] = recvCmds[d][1]
    BY <2>1, <1>AppendKeepsFront
  <2>4. /\ \/ /\ recvCmds' = [recvCmds EXCEPT ![d] = Pushed(d, cmds)]
              /\ reqs' = reqs \cup PushedReqs(d, cmds)
           \/ recvCmds' = [recvCmds EXCEPT ![d] = cmds] /\ reqs' = reqs
        /\ resps' = resps
    BY DEF StoreNewCommand, PushCommand
  <2> HIDE DEF cmds, d
  <2>5. ASSUME NEW q \in reqs', q.live
        PROVE  recvCmds'[q.dev] # <<>> /\ recvCmds'[q.dev][1] = [seq |-> q.seq, inProgress |-> TRUE]
    <3>1. CASE q \in reqs
      <4>1. /\ q.dev \in Devices
            /\ recvCmds[q.dev] # <<>>
            /\ recvCmds[q.dev][1] = [seq |-> q.seq, inProgress |-> TRUE]
        BY <2>1, <2>5, <3>1 DEF OutstandingIsFront, Request
      <4>2. CASE q.dev = d
        <5>1. cmds # <<>> /\ cmds[1] = [seq |-> q.seq, inProgress |-> TRUE]
          BY <2>3, <4>1, <4>2
        <5>2. Pushed(d, cmds) = cmds
          BY <5>1, <1>PushedKeepsFront, SMT
        <5>3. recvCmds'[d] = cmds
          BY <2>1, <2>4, <5>2
        <5> QED
          BY <4>2, <5>1, <5>3
      <4>3. CASE q.dev # d
        <5>1. recvCmds'[q.dev] = recvCmds[q.dev]
          BY <2>1, <2>4, <4>1, <4>3
        <5> QED
          BY <4>1, <5>1
      <4> QED
        BY <4>2, <4>3
    <3>2. CASE q \notin reqs
      <4>1. q \in PushedReqs(d, cmds) /\ recvCmds'[d] = Pushed(d, cmds)
        BY <2>1, <2>4, <2>5, <3>2
      <4> QED
        BY <2>1, <2>2, <4>1, <1>PushedFront, SMT
    <3> QED
      BY <3>1, <3>2
  <2>6. \A r \in resps' : Outstanding(r.dev)'
    BY <2>4 DEF OutstandingIsFront, Outstanding
  <2> QED
    BY <2>5, <2>6 DEF OutstandingIsFront
\* The callback applies an answer, then the request is forgotten: whatever
\* list it leaves, and whether or not it pushes again, no request is left
\* that is not at the front.
<1>CompleteFront.
  ASSUME TypeOK, OutstandingIsFront, NEW d \in Devices, NEW cmds \in Seq(RecvCmd),
         Complete(d, cmds) \/ CompleteAndPush(d, cmds)
  PROVE  OutstandingIsFront'
  <2> USE <1>CompleteFront
  <2>1. recvCmds \in [Devices -> Seq(RecvCmd)] /\ reqs \subseteq Request
    BY DEF TypeOK, gatewayTypeOK, channelTypeOK
  <2>2. /\ \/ recvCmds' = [recvCmds EXCEPT ![d] = Pushed(d, cmds)]
              /\ reqs' = Forget(d) \cup PushedReqs(d, cmds)
           \/ recvCmds' = [recvCmds EXCEPT ![d] = cmds] /\ reqs' = Forget(d)
        /\ resps' = {r \in resps : r.dev # d}
    BY DEF Complete, CompleteAndPush, ForgetResps
  <2>3. ASSUME NEW q \in Forget(d), q.live
        PROVE  q \in reqs /\ q.dev # d
    BY <2>1, <2>3 DEF Forget, Request
  <2>4. ASSUME NEW q \in reqs', q.live
        PROVE  recvCmds'[q.dev] # <<>> /\ recvCmds'[q.dev][1] = [seq |-> q.seq, inProgress |-> TRUE]
    <3>1. CASE q \in Forget(d)
      <4>1. q \in reqs /\ q.dev # d /\ q.dev \in Devices
        BY <2>1, <2>3, <2>4, <3>1 DEF Request
      <4>2. recvCmds'[q.dev] = recvCmds[q.dev]
        BY <2>1, <2>2, <4>1
      <4> QED
        BY <2>4, <4>1, <4>2 DEF OutstandingIsFront
    <3>2. CASE q \notin Forget(d)
      <4>1. q \in PushedReqs(d, cmds) /\ recvCmds'[d] = Pushed(d, cmds)
        BY <2>1, <2>2, <2>4, <3>2
      <4> QED
        BY <4>1, <1>PushedFront, SMT
    <3> QED
      BY <3>1, <3>2
  <2>5. ASSUME NEW r \in resps'
        PROVE  Outstanding(r.dev)'
    <3>1. r \in resps /\ r.dev # d
      BY <2>2
    <3>2. PICK q \in reqs : q.dev = r.dev /\ q.live
      BY <3>1 DEF OutstandingIsFront, Outstanding
    <3>3. q \in Forget(d)
      BY <3>1, <3>2 DEF Forget
    <3> QED
      BY <2>2, <3>2, <3>3 DEF Outstanding
  <2> QED
    BY <2>4, <2>5 DEF OutstandingIsFront
\* The push alarm runs pushCommand for every device in memory.
<1>AlarmFront.
  ASSUME TypeOK, OutstandingIsFront, AlarmCallback
  PROVE  OutstandingIsFront'
  <2> USE <1>AlarmFront
  <2>1. recvCmds \in [Devices -> Seq(RecvCmd)] /\ reqs \subseteq Request /\ devices \subseteq Devices
    BY DEF TypeOK, gatewayTypeOK, channelTypeOK
  <2>2. /\ reqs' = reqs \cup UNION {PushedReqs(d, recvCmds[d]) : d \in devices}
        /\ resps' = resps
        /\ \A d \in Devices : recvCmds'[d] = IF d \in devices THEN Pushed(d, recvCmds[d]) ELSE recvCmds[d]
    BY DEF AlarmCallback
  <2>3. ASSUME NEW q \in reqs', q.live
        PROVE  recvCmds'[q.dev] # <<>> /\ recvCmds'[q.dev][1] = [seq |-> q.seq, inProgress |-> TRUE]
    <3>1. CASE q \in reqs
      <4>1. /\ q.dev \in Devices
            /\ recvCmds[q.dev] # <<>>
            /\ recvCmds[q.dev][1] = [seq |-> q.seq, inProgress |-> TRUE]
        BY <2>1, <2>3, <3>1 DEF OutstandingIsFront, Request
      <4>2. Pushed(q.dev, recvCmds[q.dev]) = recvCmds[q.dev]
        BY <4>1, <1>PushedKeepsFront, SMT
      <4>3. recvCmds'[q.dev] = recvCmds[q.dev]
        BY <2>2, <4>1, <4>2
      <4> QED
        BY <4>1, <4>3
    <3>2. CASE q \notin reqs
      <4>1. PICK d \in devices : q \in PushedReqs(d, recvCmds[d])
        BY <2>2, <3>2
      <4>2. d \in Devices /\ recvCmds[d] \in Seq(RecvCmd) /\ recvCmds'[d] = Pushed(d, recvCmds[d])
        BY <2>1, <2>2
      <4> QED
        BY <4>1, <4>2, <1>PushedFront, SMT
    <3> QED
      BY <3>1, <3>2
  <2>4. \A r \in resps' : Outstanding(r.dev)'
    BY <2>2 DEF OutstandingIsFront, Outstanding
  <2> QED
    BY <2>3, <2>4 DEF OutstandingIsFront
\* A client answers the request that is outstanding, or one nobody waits for.
<1>ClientFront.
  ASSUME TypeOK, OutstandingIsFront, ClientReceive
  PROVE  OutstandingIsFront'
  <2> USE <1>ClientFront
  <2>1. PICK q \in reqs : \E ok \in BOOLEAN : Answer(q, ok)
    <3>1. PICK q \in reqs : ExecuteCommandCb(q)
      BY DEF ClientReceive
    <3>2. TRUE \in BOOLEAN /\ FALSE \in BOOLEAN
      OBVIOUS
    <3>3. Answer(q, TRUE) \/ Answer(q, FALSE)
      BY <3>1 DEF ExecuteCommandCb, AcceptCommand, DeferCommand
    <3>4. \E ok \in BOOLEAN : Answer(q, ok)
      BY <3>2, <3>3
    <3> QED
      BY <3>4
  <2>2. reqs' = reqs /\ recvCmds' = recvCmds
    BY DEF ClientReceive, gatewayVars, deviceVars
  <2>3. ASSUME NEW r \in resps'
        PROVE  Outstanding(r.dev)
    <3>1. r \in resps \/ (q.live /\ r.dev = q.dev)
      BY <2>1, SMT DEF Answer
    <3> QED
      BY <3>1 DEF OutstandingIsFront, Outstanding
  <2> QED
    BY <2>2, <2>3 DEF OutstandingIsFront, Outstanding
\* No answer is expected by a gateway that has just started.
<1>RestartFront.
  ASSUME TypeOK, Restart
  PROVE  OutstandingIsFront'
  <2> USE <1>RestartFront
  <2>1. resps' = {} /\ \A q \in reqs' : ~q.live
    BY DEF Restart, TypeOK, channelTypeOK, Request
  <2> QED
    BY <2>1 DEF OutstandingIsFront
\* The answer to a request is applied to the front of the list, and a
\* timeout or an error to the command that was sent.
<1>CallbackFront.
  ASSUME TypeOK, OutstandingIsFront, NEW d \in Devices, DeviceCmdRespCallback(d)
  PROVE  OutstandingIsFront'
  <2> USE <1>CallbackFront
  <2>1. recvCmds[d] \in Seq(RecvCmd) /\ <<>> \in Seq(RecvCmd)
    BY SMT DEF TypeOK, gatewayTypeOK
  <2>2. recvCmds[d] # <<>> => Tail(recvCmds[d]) \in Seq(RecvCmd)
    BY <2>1, TailType
  <2>3. SetInProgress(recvCmds[d], FALSE) \in Seq(RecvCmd)
    BY <2>1, SetInProgressType
  <2>4. \E cmds \in Seq(RecvCmd) : Complete(d, cmds) \/ CompleteAndPush(d, cmds)
    <3>1. CASE recvCmds[d] = <<>>
      BY <2>1, <3>1 DEF DeviceCmdRespCallback
    <3>2. CASE recvCmds[d] # <<>> /\ CmdRespOK(d)
      BY <2>1, <2>2, <3>2 DEF CmdRespOK
    <3>3. CASE recvCmds[d] # <<>> /\ (CmdRespError(d) \/ CmdRespTimeout(d))
      BY <2>3, <3>3 DEF CmdRespError, CmdRespTimeout
    <3> QED
      BY <3>1, <3>2, <3>3 DEF DeviceCmdRespCallback
  <2> QED
    BY <2>4, <1>CompleteFront
<1> SUFFICES ASSUME TypeOK, OutstandingIsFront, [Next]_vars
             PROVE  OutstandingIsFront'
  OBVIOUS
<1>1. CASE UNCHANGED <<recvCmds, reqs, resps>>
  BY <1>1 DEF OutstandingIsFront, Outstanding
<1>2. CASE GatewayReceive
  <2>1. Head(toGateway) \in GatewayBound /\ ParseCmd(Head(toGateway))
    BY <1>2, FirstType DEF GatewayReceive, TypeOK, channelTypeOK
  <2> DEFINE m == Head(toGateway)
  <2>2. CASE m.type = "CLIENT" /\ StoreNewCommand(m)
    <3>1. m = RegisterRequestMsg \/ m \in ClientMsgs \/ m \in DoneAckMsgs
      BY <2>1 DEF GatewayBound
    <3> HIDE DEF m
    <3>2. m \in ClientMsgs
      BY <2>2, <3>1, SMT DEF RegisterRequestMsg, ClientMsgs, DoneAckMsgs
    <3> QED
      BY <2>2, <3>2, <1>NewCommandFront
  <2>3. CASE ~(m.type = "CLIENT" /\ StoreNewCommand(m))
    <3> HIDE DEF m
    <3>1. UNCHANGED <<recvCmds, reqs, resps>>
      BY <2>1, <2>3 DEF m, ParseCmd, HandleClientCommand, HandleOldCommand, RefuseNewCommand,
         HandleCommandDoneAck, ReqRegisterCmd, gatewayVars, deviceVars
    <3> QED
      BY <1>1, <3>1
  <2> QED
    BY <2>2, <2>3
<1>3. ASSUME NEW d \in Devices, GatewayDeviceStep(d)
      PROVE  OutstandingIsFront'
  BY <1>1, <1>3, <1>CallbackFront DEF GatewayDeviceStep, RegisterNow
<1>4. CASE PushAlarm
  BY <1>4, <1>AlarmFront DEF PushAlarm
<1>5. CASE ClientReceive
  BY <1>5, <1>ClientFront
<1>6. CASE Fault
  BY <1>1, <1>6, <1>RestartFront
     DEF Fault, Disconnect, LoseToCloud, GatewayRestart, CloudInitGateway, DeviceExpired,
         KeepAliveExpired, gatewayVars, deviceVars
<1>7. CASE CloudReceive \/ AdministratorStep \/ OwnerStep \/ (\E d \in Devices : ClientStep(d))
  BY <1>1, <1>7 DEF CloudReceive, AdministratorStep, OwnerStep, ClientStep, gatewayVars, deviceVars
<1>8. CASE AckAlarm \/ RegisterAlarm \/ SyncAlarm \/ Claim
  BY <1>1, <1>8 DEF AckAlarm, RegisterAlarm, SyncAlarm, Claim, StatusACKCallback, KeepaliveAlarm,
                    SyncAlarmCallback, ClaimGateway, deviceVars
<1>9. CASE LinkStep
  BY <1>1, <1>9 DEF LinkStep, Connect, OnConnect, OnDisconnect, gatewayVars, deviceVars
<1>10. CASE UNCHANGED vars
  BY <1>1, <1>10 DEF vars, gatewayVars, deviceVars
<1> QED
  BY <1>2, <1>3, <1>4, <1>5, <1>6, <1>7, <1>8, <1>9, <1>10 DEF Next

\* While the gateway waits for a CoAP answer from a device, the command it
\* sent is the first of the device's received list and marked in progress,
\* whatever the bounds, the retries and the failing SQLite writes.
THEOREM OutstandingIsFrontHolds ==
  Spec => []OutstandingIsFront
<1>1. Init => OutstandingIsFront
  BY DEF Init, ChannelInit, OutstandingIsFront
<1>2. TypeOK /\ OutstandingIsFront /\ [Next]_vars => OutstandingIsFront'
  BY OutstandingStep
<1> QED
  BY <1>1, <1>2, TypeCorrect, PTL DEF Spec

-----------------------------------------------------------------------------
(* InProgressIsOutstanding is inductive with TypeOK and OutstandingIsFront *)
(* when SQLite writes succeed.                                             *)

\* Setting inProgress touches the flag of the front: no number changes, no
\* command joins or leaves the list.
LEMMA SetInProgressEffect ==
  ASSUME NEW cmds \in Seq(RecvCmd), NEW b \in BOOLEAN
  PROVE  /\ DOMAIN SetInProgress(cmds, b) = DOMAIN cmds
         /\ \A i \in DOMAIN cmds :
              /\ SetInProgress(cmds, b)[i].seq = cmds[i].seq
              /\ i # 1 => SetInProgress(cmds, b)[i] = cmds[i]
<1>1. DOMAIN SetInProgress(cmds, b) = DOMAIN cmds
  BY DEF SetInProgress
<1>2. \A i \in DOMAIN cmds : i # 1 => SetInProgress(cmds, b)[i] = cmds[i]
  BY DEF SetInProgress
<1>3. CASE 1 \in DOMAIN cmds
  <2>1. cmds # <<>>
    BY <1>3, SMT
  <2>2. SetInProgress(cmds, b)[1] = [seq |-> cmds[1].seq, inProgress |-> b]
    BY <2>1, SetInProgressType
  <2>3. SetInProgress(cmds, b)[1].seq = cmds[1].seq
    BY <2>2, SMT
  <2> QED
    BY <1>1, <1>2, <2>3
<1> QED
  BY <1>1, <1>2, <1>3

\* pushCommand changes at most the flag of the front.
LEMMA PushedEffect ==
  ASSUME NEW d, NEW cmds \in Seq(RecvCmd)
  PROVE  /\ DOMAIN Pushed(d, cmds) = DOMAIN cmds
         /\ \A i \in DOMAIN cmds :
              /\ Pushed(d, cmds)[i].seq = cmds[i].seq
              /\ i # 1 => Pushed(d, cmds)[i] = cmds[i]
<1>1. TRUE \in BOOLEAN
  OBVIOUS
<1>2. CASE CanPush(d, cmds)
  <2>1. Pushed(d, cmds) = SetInProgress(cmds, TRUE)
    BY <1>2 DEF Pushed
  <2> QED
    BY <1>1, <2>1, SetInProgressEffect
<1>3. CASE ~CanPush(d, cmds)
  BY <1>3 DEF Pushed
<1> QED
  BY <1>2, <1>3

\* Every step keeps it that a command in progress is one the gateway waits
\* for an answer to.
LEMMA InProgressStep ==
  TypeOK /\ InProgressIsOutstanding /\ ~SqlWritesFail /\ [Next]_vars => InProgressIsOutstanding'
\* A flag that is set after pushCommand is that of the front; it was set
\* before, or a request goes out.
<1>PushedFlag.
  ASSUME NEW d, NEW cmds \in Seq(RecvCmd),
         \A i \in DOMAIN cmds : cmds[i].inProgress => i = 1,
         NEW i \in DOMAIN Pushed(d, cmds), Pushed(d, cmds)[i].inProgress
  PROVE  /\ i = 1
         /\ \/ 1 \in DOMAIN cmds /\ cmds[1].inProgress
            \/ \E q \in PushedReqs(d, cmds) : q.dev = d /\ q.live
  <2> USE <1>PushedFlag
  <2>1. i \in DOMAIN cmds /\ (i # 1 => Pushed(d, cmds)[i] = cmds[i])
    BY PushedEffect, SMT
  <2>2. i = 1
    BY <2>1
  <2>3. CASE CanPush(d, cmds)
    <3> DEFINE new == [dev |-> d, seq |-> cmds[1].seq, live |-> TRUE]
    <3>1. new \in PushedReqs(d, cmds) /\ new.dev = d /\ new.live
      BY <2>3 DEF PushedReqs
    <3> HIDE DEF new
    <3> QED
      BY <2>2, <3>1
  <2>4. CASE ~CanPush(d, cmds)
    <3>1. Pushed(d, cmds) = cmds
      BY <2>4 DEF Pushed
    <3> QED
      BY <2>1, <2>2, <3>1
  <2> QED
    BY <2>3, <2>4
\* A stored command joins the end of its list with the flag cleared.
<1>NewCommandFlag.
  ASSUME TypeOK, InProgressIsOutstanding, NEW m \in ClientMsgs, StoreNewCommand(m)
  PROVE  InProgressIsOutstanding'
  <2> USE <1>NewCommandFlag
  <2> DEFINE d == m.dev
             cmds == Append(recvCmds[d], NewRecvCmd(m))
  <2>1. d \in Devices /\ recvCmds[d] \in Seq(RecvCmd) /\ NewRecvCmd(m) \in RecvCmd
        /\ recvCmds \in [Devices -> Seq(RecvCmd)] /\ ~NewRecvCmd(m).inProgress
    BY DEF ClientMsgs, TypeOK, gatewayTypeOK, NewRecvCmd, RecvCmd
  <2>2. cmds \in Seq(RecvCmd)
    BY <2>1, AppendType
  <2>3. \A i \in DOMAIN cmds : cmds[i].inProgress => i \in DOMAIN recvCmds[d] /\ recvCmds[d][i].inProgress
    BY <2>1, SMT
  <2>4. \A i \in DOMAIN cmds : cmds[i].inProgress => i = 1 /\ Outstanding(d)
    BY <2>1, <2>3 DEF InProgressIsOutstanding
  <2>5. \/ /\ recvCmds' = [recvCmds EXCEPT ![d] = Pushed(d, cmds)]
           /\ reqs' = reqs \cup PushedReqs(d, cmds)
        \/ recvCmds' = [recvCmds EXCEPT ![d] = cmds] /\ reqs' = reqs
    BY DEF StoreNewCommand, PushCommand
  <2> HIDE DEF cmds, d
  <2>6. \A e \in Devices : Outstanding(e) => Outstanding(e)'
    BY <2>5 DEF Outstanding
  <2> SUFFICES ASSUME NEW e \in Devices, NEW i \in DOMAIN recvCmds'[e], recvCmds'[e][i].inProgress
               PROVE  i = 1 /\ Outstanding(e)'
    BY DEF InProgressIsOutstanding
  <2>7. CASE e # d
    <3>1. recvCmds'[e] = recvCmds[e]
      BY <2>1, <2>5, <2>7
    <3> QED
      BY <2>6, <3>1 DEF InProgressIsOutstanding
  <2>8. CASE e = d /\ recvCmds'[d] = cmds
    BY <2>1, <2>4, <2>6, <2>8
  <2>9. CASE e = d /\ recvCmds'[d] = Pushed(d, cmds) /\ reqs' = reqs \cup PushedReqs(d, cmds)
    <3>1. /\ i = 1
          /\ \/ 1 \in DOMAIN cmds /\ cmds[1].inProgress
             \/ \E q \in PushedReqs(d, cmds) : q.dev = d /\ q.live
      BY <2>2, <2>4, <2>9, <1>PushedFlag, SMT
    <3> QED
      BY <2>1, <2>4, <2>6, <2>9, <3>1 DEF Outstanding
  <2> QED
    BY <2>1, <2>5, <2>7, <2>8, <2>9
\* When a request is over no flag is left set, unless pushCommand sets it
\* again for the request it sends.
<1>CompleteFlag.
  ASSUME TypeOK, InProgressIsOutstanding, NEW d \in Devices, NEW cmds \in Seq(RecvCmd),
         \A i \in DOMAIN cmds : ~cmds[i].inProgress,
         Complete(d, cmds) \/ CompleteAndPush(d, cmds)
  PROVE  InProgressIsOutstanding'
  <2> USE <1>CompleteFlag
  <2>1. recvCmds \in [Devices -> Seq(RecvCmd)] /\ reqs \subseteq Request
    BY DEF TypeOK, gatewayTypeOK, channelTypeOK
  <2>2. \/ recvCmds' = [recvCmds EXCEPT ![d] = Pushed(d, cmds)]
           /\ reqs' = Forget(d) \cup PushedReqs(d, cmds)
        \/ recvCmds' = [recvCmds EXCEPT ![d] = cmds] /\ reqs' = Forget(d)
    BY DEF Complete, CompleteAndPush
  <2> SUFFICES ASSUME NEW e \in Devices, NEW i \in DOMAIN recvCmds'[e], recvCmds'[e][i].inProgress
               PROVE  i = 1 /\ Outstanding(e)'
    BY DEF InProgressIsOutstanding
  <2>3. CASE e # d
    <3>1. recvCmds'[e] = recvCmds[e]
      BY <2>1, <2>2, <2>3
    <3>2. i = 1 /\ Outstanding(e)
      BY <3>1 DEF InProgressIsOutstanding
    <3>3. PICK q \in reqs : q.dev = e /\ q.live
      BY <3>2 DEF Outstanding
    <3>4. q \in Forget(d)
      BY <2>3, <3>3 DEF Forget
    <3> QED
      BY <2>2, <3>2, <3>3, <3>4 DEF Outstanding
  <2>4. CASE e = d /\ recvCmds'[d] = cmds
    BY <2>4
  <2>5. CASE e = d /\ recvCmds'[d] = Pushed(d, cmds) /\ reqs' = Forget(d) \cup PushedReqs(d, cmds)
    <3>1. i \in DOMAIN Pushed(d, cmds) /\ Pushed(d, cmds)[i].inProgress
      BY <2>5
    <3>2. \A k \in DOMAIN cmds : cmds[k].inProgress => k = 1
      OBVIOUS
    <3>3. /\ i = 1
          /\ \/ 1 \in DOMAIN cmds /\ cmds[1].inProgress
             \/ \E q \in PushedReqs(d, cmds) : q.dev = d /\ q.live
      BY <3>1, <3>2, <1>PushedFlag
    <3>4. i = 1 /\ \E q \in PushedReqs(d, cmds) : q.dev = d /\ q.live
      BY <3>3
    <3> QED
      BY <2>5, <3>4 DEF Outstanding
  <2> QED
    BY <2>1, <2>2, <2>3, <2>4, <2>5
\* An answer, an error and a timeout each leave a list without a flag: OK
\* takes the front away, the others clear its flag.
<1>CallbackFlag.
  ASSUME TypeOK, InProgressIsOutstanding, ~SqlWritesFail,
         NEW d \in Devices, DeviceCmdRespCallback(d)
  PROVE  InProgressIsOutstanding'
  <2> USE <1>CallbackFlag
  <2>1. recvCmds[d] \in Seq(RecvCmd) /\ <<>> \in Seq(RecvCmd)
    BY SMT DEF TypeOK, gatewayTypeOK
  <2>2. \A i \in DOMAIN recvCmds[d] : recvCmds[d][i].inProgress => i = 1
    BY DEF InProgressIsOutstanding
  <2>3. CASE recvCmds[d] = <<>>
    <3>1. Complete(d, <<>>)
      BY <2>3 DEF DeviceCmdRespCallback
    <3>2. \A i \in DOMAIN <<>> : ~<<>>[i].inProgress
      BY SMT
    <3> QED
      BY <2>1, <3>1, <3>2, <1>CompleteFlag
  <2>4. CASE recvCmds[d] # <<>> /\ CmdRespOK(d)
    <3> DEFINE rest == Tail(recvCmds[d])
    <3>1. CompleteAndPush(d, rest)
      BY <2>4 DEF CmdRespOK
    <3>2. rest \in Seq(RecvCmd)
      BY <2>1, <2>4, TailType
    <3>3. \A i \in DOMAIN rest : i + 1 \in DOMAIN recvCmds[d] /\ i + 1 # 1 /\ rest[i] = recvCmds[d][i + 1]
      BY <2>1, <2>4, SMT
    <3>4. \A i \in DOMAIN rest : ~rest[i].inProgress
      BY <2>2, <3>3
    <3> HIDE DEF rest
    <3> QED
      BY <3>1, <3>2, <3>4, <1>CompleteFlag
  <2>5. CASE recvCmds[d] # <<>> /\ (CmdRespError(d) \/ CmdRespTimeout(d))
    <3> DEFINE cmds == SetInProgress(recvCmds[d], FALSE)
    <3>1. Complete(d, cmds) \/ CompleteAndPush(d, cmds)
      BY <2>5 DEF CmdRespError, CmdRespTimeout
    <3>2. FALSE \in BOOLEAN
      OBVIOUS
    <3>3. cmds \in Seq(RecvCmd) /\ cmds[1] = [seq |-> recvCmds[d][1].seq, inProgress |-> FALSE]
      BY <2>1, <2>5, <3>2, SetInProgressType
    <3>4. \A i \in DOMAIN cmds : i # 1 => i \in DOMAIN recvCmds[d] /\ cmds[i] = recvCmds[d][i]
      BY <2>1, <3>2, SetInProgressEffect
    <3> HIDE DEF cmds
    <3>5. ~cmds[1].inProgress
      BY <3>3, SMT
    <3>6. \A i \in DOMAIN cmds : ~cmds[i].inProgress
      BY <2>2, <3>4, <3>5
    <3> QED
      BY <3>1, <3>3, <3>6, <1>CompleteFlag
  <2> QED
    BY <2>3, <2>4, <2>5 DEF DeviceCmdRespCallback
\* The push alarm sets the flags of the commands it sends.
<1>AlarmFlag.
  ASSUME TypeOK, InProgressIsOutstanding, AlarmCallback
  PROVE  InProgressIsOutstanding'
  <2> USE <1>AlarmFlag
  <2>1. recvCmds \in [Devices -> Seq(RecvCmd)] /\ devices \subseteq Devices
    BY DEF TypeOK, gatewayTypeOK
  <2>2. /\ reqs' = reqs \cup UNION {PushedReqs(d, recvCmds[d]) : d \in devices}
        /\ \A d \in Devices : recvCmds'[d] = IF d \in devices THEN Pushed(d, recvCmds[d]) ELSE recvCmds[d]
    BY DEF AlarmCallback
  <2> SUFFICES ASSUME NEW e \in Devices, NEW i \in DOMAIN recvCmds'[e], recvCmds'[e][i].inProgress
               PROVE  i = 1 /\ Outstanding(e)'
    BY DEF InProgressIsOutstanding
  <2>3. Outstanding(e) => Outstanding(e)'
    BY <2>2 DEF Outstanding
  <2>4. CASE e \notin devices
    <3>1. recvCmds'[e] = recvCmds[e]
      BY <2>2, <2>4
    <3> QED
      BY <2>3, <3>1 DEF InProgressIsOutstanding
  <2>5. CASE e \in devices
    <3>1. recvCmds'[e] = Pushed(e, recvCmds[e]) /\ PushedReqs(e, recvCmds[e]) \subseteq reqs'
      BY <2>2, <2>5
    <3>2. \A j \in DOMAIN recvCmds[e] : recvCmds[e][j].inProgress => j = 1
      BY DEF InProgressIsOutstanding
    <3>3. /\ i = 1
          /\ \/ 1 \in DOMAIN recvCmds[e] /\ recvCmds[e][1].inProgress
             \/ \E q \in PushedReqs(e, recvCmds[e]) : q.dev = e /\ q.live
      BY <2>1, <3>1, <3>2, <1>PushedFlag
    <3>4. CASE 1 \in DOMAIN recvCmds[e] /\ recvCmds[e][1].inProgress
      BY <2>3, <3>3, <3>4 DEF InProgressIsOutstanding
    <3> QED
      BY <3>1, <3>3, <3>4 DEF Outstanding
  <2> QED
    BY <2>4, <2>5
\* Commands read from the table are not in progress.
<1>RestartFlag.
  ASSUME TypeOK, Restart
  PROVE  InProgressIsOutstanding'
  <2> USE <1>RestartFlag
  <2> SUFFICES ASSUME NEW d \in Devices, NEW i \in DOMAIN recvCmds'[d]
               PROVE  ~recvCmds'[d][i].inProgress
    BY DEF InProgressIsOutstanding
  <2>1. recvCmds'[d] \in LoadRecvCmds(d)
    BY DEF Restart, PerDevice
  <2>2. PICK l : recvCmds'[d] = [j \in DOMAIN l |-> [seq |-> l[j].seq, inProgress |-> FALSE]]
    BY <2>1 DEF LoadRecvCmds
  <2> QED
    BY <2>2, SMT
<1> SUFFICES ASSUME TypeOK, InProgressIsOutstanding, ~SqlWritesFail, [Next]_vars
             PROVE  InProgressIsOutstanding'
  OBVIOUS
<1>1. CASE UNCHANGED <<recvCmds, reqs>>
  BY <1>1 DEF InProgressIsOutstanding, Outstanding
<1>2. CASE GatewayReceive
  <2>1. Head(toGateway) \in GatewayBound /\ ParseCmd(Head(toGateway))
    BY <1>2, FirstType DEF GatewayReceive, TypeOK, channelTypeOK
  <2> DEFINE m == Head(toGateway)
  <2>2. CASE m.type = "CLIENT" /\ StoreNewCommand(m)
    <3>1. m = RegisterRequestMsg \/ m \in ClientMsgs \/ m \in DoneAckMsgs
      BY <2>1 DEF GatewayBound
    <3> HIDE DEF m
    <3>2. m \in ClientMsgs
      BY <2>2, <3>1, SMT DEF RegisterRequestMsg, ClientMsgs, DoneAckMsgs
    <3> QED
      BY <2>2, <3>2, <1>NewCommandFlag
  <2>3. CASE ~(m.type = "CLIENT" /\ StoreNewCommand(m))
    <3> HIDE DEF m
    <3>1. UNCHANGED <<recvCmds, reqs>>
      BY <2>1, <2>3 DEF m, ParseCmd, HandleClientCommand, HandleOldCommand, RefuseNewCommand,
         HandleCommandDoneAck, ReqRegisterCmd, gatewayVars, deviceVars
    <3> QED
      BY <1>1, <3>1
  <2> QED
    BY <2>2, <2>3
<1>3. ASSUME NEW d \in Devices, GatewayDeviceStep(d)
      PROVE  InProgressIsOutstanding'
  BY <1>1, <1>3, <1>CallbackFlag DEF GatewayDeviceStep, RegisterNow
<1>4. CASE PushAlarm
  BY <1>4, <1>AlarmFlag DEF PushAlarm
<1>5. CASE ClientReceive
  BY <1>1, <1>5 DEF ClientReceive, gatewayVars, deviceVars
<1>6. CASE Fault
  BY <1>1, <1>6, <1>RestartFlag
     DEF Fault, Disconnect, LoseToCloud, GatewayRestart, CloudInitGateway, DeviceExpired,
         KeepAliveExpired, gatewayVars, deviceVars
<1>7. CASE CloudReceive \/ AdministratorStep \/ OwnerStep \/ (\E d \in Devices : ClientStep(d))
  BY <1>1, <1>7 DEF CloudReceive, AdministratorStep, OwnerStep, ClientStep, gatewayVars, deviceVars
<1>8. CASE AckAlarm \/ RegisterAlarm \/ SyncAlarm \/ Claim
  BY <1>1, <1>8 DEF AckAlarm, RegisterAlarm, SyncAlarm, Claim, StatusACKCallback, KeepaliveAlarm,
                    SyncAlarmCallback, ClaimGateway, deviceVars
<1>9. CASE LinkStep
  BY <1>1, <1>9 DEF LinkStep, Connect, OnConnect, OnDisconnect, gatewayVars, deviceVars
<1>10. CASE UNCHANGED vars
  BY <1>1, <1>10 DEF vars, gatewayVars, deviceVars
<1> QED
  BY <1>2, <1>3, <1>4, <1>5, <1>6, <1>7, <1>8, <1>9, <1>10 DEF Next

\* As long as no SQLite write fails, a command marked in progress is the
\* first of its list and the gateway waits for the answer to it: pushCommand,
\* which skips a command in progress, never skips one for ever.
THEOREM InProgressIsOutstandingHolds ==
  ASSUME ~SqlWritesFail
  PROVE  Spec => []InProgressIsOutstanding
<1>1. Init => InProgressIsOutstanding
  BY SMT DEF Init, GatewayInit, InProgressIsOutstanding
<1>2. TypeOK /\ InProgressIsOutstanding /\ [Next]_vars => InProgressIsOutstanding'
  BY InProgressStep
<1> QED
  BY <1>1, <1>2, TypeCorrect, PTL DEF Spec

-----------------------------------------------------------------------------
(* How a step changes the table and the lists.  Every theorem below looks  *)
(* at a step as one of the cases of ListStep.                              *)

\* Two lists of received commands with the same numbers.
SameSeqs(s, t) == DOMAIN s = DOMAIN t /\ \A i \in DOMAIN s : s[i].seq = t[i].seq

OthersKept(d) == \A e \in Devices : e # d => SameSeqs(recvCmds'[e], recvCmds[e])

Kept ==
  /\ UNCHANGED <<rows, lastId, maxSequenceNumber, execCmds>>
  /\ \A d \in Devices : SameSeqs(recvCmds'[d], recvCmds[d])

Stores(m) ==
  /\ m \in ClientMsgs
  /\ m.seq > sequenceNumber
  /\ InsertRow(m)
  /\ maxSequenceNumber' = m.seq
  /\ execCmds' = execCmds
  /\ SameSeqs(recvCmds'[m.dev], Append(recvCmds[m.dev], NewRecvCmd(m)))
  /\ OthersKept(m.dev)

Refuses(m) ==
  /\ SqlWritesFail
  /\ m \in ClientMsgs
  /\ InsertRow(m)
  /\ UNCHANGED <<maxSequenceNumber, execCmds, recvCmds>>

Executes(d) ==
  /\ recvCmds[d] # <<>>
  /\ MarkExecutedDeviceCommand(recvCmds[d][1].seq)
  /\ execCmds' = [execCmds EXCEPT ![d] = Append(execCmds[d], recvCmds[d][1].seq)]
  /\ SameSeqs(recvCmds'[d], Tail(recvCmds[d]))
  /\ OthersKept(d)
  /\ UNCHANGED <<lastId, maxSequenceNumber>>

Retires(d) ==
  /\ execCmds[d] # <<>>
  /\ DeleteDeviceCommand(execCmds[d][1])
  /\ execCmds' = [execCmds EXCEPT ![d] = Tail(execCmds[d])]
  /\ UNCHANGED <<recvCmds, lastId, maxSequenceNumber>>

\* The message at the head of the channel to the gateway.
LEMMA GatewayMessage ==
  ASSUME TypeOK, GatewayReceive
  PROVE  /\ ParseCmd(Head(toGateway))
         /\ Head(toGateway).type = "CLIENT" => Head(toGateway) \in ClientMsgs
         /\ Head(toGateway).type = "DONE_ACK" => Head(toGateway) \in DoneAckMsgs
<1> DEFINE m == Head(toGateway)
<1>1. m \in GatewayBound /\ ParseCmd(m)
  BY FirstType DEF GatewayReceive, TypeOK, channelTypeOK
<1>2. m = RegisterRequestMsg \/ m \in ClientMsgs \/ m \in DoneAckMsgs
  BY <1>1 DEF GatewayBound
<1> HIDE DEF m
<1>3. /\ m.type = "CLIENT" => m \in ClientMsgs
      /\ m.type = "DONE_ACK" => m \in DoneAckMsgs
  BY <1>2, SMT DEF RegisterRequestMsg, ClientMsgs, DoneAckMsgs
<1> QED
  BY <1>1, <1>3 DEF m

\* What a step does to the table and the lists: nothing, a command is
\* stored, refused after its row was written, executed, or retired, or the
\* gateway restarts.
LEMMA ListStep ==
  TypeOK /\ [Next]_vars =>
    \/ Kept
    \/ GatewayReceive /\ (Stores(Head(toGateway)) \/ Refuses(Head(toGateway)))
    \/ \E d \in Devices : Executes(d) \/ Retires(d)
    \/ Restart
\* pushCommand leaves the numbers of the list it is given.
<1>PushedSame.
  ASSUME NEW d, NEW cmds \in Seq(RecvCmd)
  PROVE  SameSeqs(Pushed(d, cmds), cmds)
  BY <1>PushedSame, PushedEffect, SMT DEF SameSeqs
\* A request that is over leaves the list of its device with the numbers it
\* is given, and those of the other devices alone.
<1>CompleteSame.
  ASSUME TypeOK, NEW d \in Devices, NEW cmds \in Seq(RecvCmd),
         Complete(d, cmds) \/ CompleteAndPush(d, cmds)
  PROVE  SameSeqs(recvCmds'[d], cmds) /\ OthersKept(d)
  <2> USE <1>CompleteSame
  <2>1. recvCmds \in [Devices -> Seq(RecvCmd)]
    BY DEF TypeOK, gatewayTypeOK
  <2>2. recvCmds' = [recvCmds EXCEPT ![d] = Pushed(d, cmds)] \/ recvCmds' = [recvCmds EXCEPT ![d] = cmds]
    BY DEF Complete, CompleteAndPush
  <2>3. recvCmds'[d] = Pushed(d, cmds) \/ recvCmds'[d] = cmds
    BY <2>1, <2>2
  <2>4. SameSeqs(recvCmds'[d], cmds)
    BY <2>3, <1>PushedSame, SMT DEF SameSeqs
  <2>5. \A e \in Devices : e # d => recvCmds'[e] = recvCmds[e]
    BY <2>1, <2>2
  <2> QED
    BY <2>4, <2>5 DEF OthersKept, SameSeqs
\* A command from the cloud is stored behind the others, refused, or leaves
\* the table and the lists as they are.
<1>ReceiveLists.
  ASSUME TypeOK, GatewayReceive
  PROVE  \/ Kept
         \/ Stores(Head(toGateway))
         \/ Refuses(Head(toGateway))
         \/ \E d \in Devices : Retires(d)
  <2> USE <1>ReceiveLists
  <2> DEFINE m == Head(toGateway)
  <2>1. /\ ParseCmd(m)
        /\ m.type = "CLIENT" => m \in ClientMsgs
        /\ m.type = "DONE_ACK" => m \in DoneAckMsgs
    BY GatewayMessage
  <2> HIDE DEF m
  <2>2. recvCmds \in [Devices -> Seq(RecvCmd)] /\ sequenceNumber \in Nat
    BY DEF TypeOK, gatewayTypeOK
  <2>3. CASE UNCHANGED <<rows, lastId, maxSequenceNumber, execCmds, recvCmds>>
    BY <2>3 DEF Kept, SameSeqs
  <2>4. CASE m.type = "CLIENT" /\ HandleClientCommand(m)
    <3>1. m \in ClientMsgs /\ m.dev \in Devices /\ m.seq \in Nat
      BY <2>1, <2>4 DEF ClientMsgs, SeqNo
    <3>2. CASE RefuseNewCommand(m)
      BY <2>3, <3>1, <3>2 DEF RefuseNewCommand, Refuses, m
    <3>3. CASE ~IsOldCommand(m) /\ StoreNewCommand(m)
      <4> DEFINE cmds == Append(recvCmds[m.dev], NewRecvCmd(m))
      <4>1. cmds \in Seq(RecvCmd)
        BY <2>2, <3>1, AppendType DEF NewRecvCmd, RecvCmd, ClientMsgs
      <4>2. \/ recvCmds' = [recvCmds EXCEPT ![m.dev] = Pushed(m.dev, cmds)]
            \/ recvCmds' = [recvCmds EXCEPT ![m.dev] = cmds]
        BY <3>3 DEF StoreNewCommand, PushCommand
      <4> HIDE DEF cmds
      <4>3. recvCmds'[m.dev] = Pushed(m.dev, cmds) \/ recvCmds'[m.dev] = cmds
        BY <2>2, <3>1, <4>2
      <4>4. SameSeqs(recvCmds'[m.dev], cmds)
        BY <4>1, <4>3, <1>PushedSame, SMT DEF SameSeqs
      <4>5. \A e \in Devices : e # m.dev => recvCmds'[e] = recvCmds[e]
        BY <2>2, <4>2
      <4>6. OthersKept(m.dev)
        BY <4>5 DEF OthersKept, SameSeqs
      <4>7. m.seq > sequenceNumber
        BY <2>2, <3>1, <3>3, SMT DEF IsOldCommand
      <4>8. InsertRow(m) /\ maxSequenceNumber' = m.seq /\ execCmds' = execCmds
        BY <3>3 DEF StoreNewCommand
      <4>9. Stores(m)
        BY <3>1, <4>4, <4>6, <4>7, <4>8 DEF Stores, cmds
      <4> QED
        BY <4>9 DEF m
    <3> QED
      BY <2>3, <2>4, <3>2, <3>3 DEF HandleClientCommand, HandleOldCommand, gatewayVars, tables, deviceVars
  <2>5. CASE m.type = "DONE_ACK" /\ HandleCommandDoneAck(m)
    <3>1. m.dev \in Devices
      BY <2>1, <2>5 DEF DoneAckMsgs
    <3>2. CASE DoneAckMatches(m) /\ DeleteDeviceCommand(m.seq) /\ execCmds' = [execCmds EXCEPT ![m.dev] = Tail(@)]
      <4>1. Retires(m.dev)
        BY <2>5, <3>2 DEF Retires, DoneAckMatches, HandleCommandDoneAck
      <4> QED
        BY <3>1, <4>1
    <3> QED
      BY <2>3, <2>5, <3>2 DEF HandleCommandDoneAck
  <2>6. CASE ReqRegisterCmd
    BY <2>3, <2>6 DEF ReqRegisterCmd, tables, deviceVars
  <2> QED
    BY <2>1, <2>4, <2>5, <2>6 DEF ParseCmd
\* An answer moves the front to the executed list, or leaves the numbers of
\* the list.
<1>CallbackLists.
  ASSUME TypeOK, NEW d \in Devices, DeviceCmdRespCallback(d)
  PROVE  Kept \/ Executes(d)
  <2> USE <1>CallbackLists
  <2>1. recvCmds[d] \in Seq(RecvCmd) /\ <<>> \in Seq(RecvCmd)
    BY SMT DEF TypeOK, gatewayTypeOK
  <2>2. ASSUME UNCHANGED <<rows, lastId, maxSequenceNumber, execCmds>>,
               SameSeqs(recvCmds'[d], recvCmds[d]), OthersKept(d)
        PROVE  Kept
    BY <2>2 DEF Kept, OthersKept
  <2>3. CASE recvCmds[d] = <<>>
    <3>1. Complete(d, <<>>) /\ UNCHANGED <<rows, lastId, maxSequenceNumber, execCmds>>
      BY <2>3 DEF DeviceCmdRespCallback, tables
    <3>2. SameSeqs(recvCmds'[d], <<>>) /\ OthersKept(d)
      BY <2>1, <3>1, <1>CompleteSame
    <3> QED
      BY <2>2, <2>3, <3>1, <3>2
  <2>4. CASE recvCmds[d] # <<>> /\ CmdRespOK(d)
    <3>1. CASE CompleteAndPush(d, recvCmds[d]) /\ UNCHANGED <<rows, execCmds, toCloud>>
      <4>1. SameSeqs(recvCmds'[d], recvCmds[d]) /\ OthersKept(d)
        BY <2>1, <3>1, <1>CompleteSame
      <4> QED
        BY <2>2, <2>4, <3>1, <4>1 DEF CmdRespOK
    <3>2. CASE /\ MarkExecutedDeviceCommand(recvCmds[d][1].seq)
               /\ execCmds' = [execCmds EXCEPT ![d] = Append(execCmds[d], recvCmds[d][1].seq)]
               /\ CompleteAndPush(d, Tail(recvCmds[d]))
      <4>1. Tail(recvCmds[d]) \in Seq(RecvCmd)
        BY <2>1, <2>4, TailType
      <4>2. SameSeqs(recvCmds'[d], Tail(recvCmds[d])) /\ OthersKept(d)
        BY <3>2, <4>1, <1>CompleteSame
      <4> QED
        BY <2>4, <3>2, <4>2 DEF Executes, CmdRespOK
    <3> QED
      BY <2>4, <3>1, <3>2 DEF CmdRespOK
  <2>5. CASE recvCmds[d] # <<>> /\ (CmdRespError(d) \/ CmdRespTimeout(d))
    <3> DEFINE cmds == SetInProgress(recvCmds[d], FALSE)
    <3>1. /\ Complete(d, cmds) \/ CompleteAndPush(d, cmds)
          /\ UNCHANGED <<rows, lastId, maxSequenceNumber, execCmds>>
      BY <2>5 DEF CmdRespError, CmdRespTimeout, tables
    <3>2. FALSE \in BOOLEAN
      OBVIOUS
    <3>3. cmds \in Seq(RecvCmd) /\ SameSeqs(cmds, recvCmds[d])
      <4>1. cmds \in Seq(RecvCmd)
        BY <2>1, <3>2, SetInProgressType
      <4>2. /\ DOMAIN cmds = DOMAIN recvCmds[d]
            /\ \A i \in DOMAIN recvCmds[d] : cmds[i].seq = recvCmds[d][i].seq
        BY <2>1, <3>2, SetInProgressEffect
      <4> HIDE DEF cmds
      <4> QED
        BY <4>1, <4>2 DEF SameSeqs
    <3> HIDE DEF cmds
    <3>4. SameSeqs(recvCmds'[d], cmds) /\ OthersKept(d)
      BY <3>1, <3>3, <1>CompleteSame
    <3>5. SameSeqs(recvCmds'[d], recvCmds[d])
      BY <3>3, <3>4 DEF SameSeqs
    <3> QED
      BY <2>2, <3>1, <3>4, <3>5
  <2> QED
    BY <2>3, <2>4, <2>5 DEF DeviceCmdRespCallback
<1> SUFFICES ASSUME TypeOK, [Next]_vars
             PROVE  \/ Kept
                    \/ GatewayReceive /\ (Stores(Head(toGateway)) \/ Refuses(Head(toGateway)))
                    \/ \E d \in Devices : Executes(d) \/ Retires(d)
                    \/ Restart
  OBVIOUS
<1>1. ASSUME UNCHANGED <<rows, lastId, maxSequenceNumber, execCmds, recvCmds>>
      PROVE  Kept
  BY <1>1 DEF Kept, SameSeqs
<1>2. CASE GatewayReceive
  BY <1>2, <1>ReceiveLists
<1>3. ASSUME NEW d \in Devices, GatewayDeviceStep(d)
      PROVE  Kept \/ Executes(d)
  BY <1>1, <1>3, <1>CallbackLists DEF GatewayDeviceStep, RegisterNow, tables
<1>4. CASE PushAlarm
  <2>1. \A d \in Devices : recvCmds[d] \in Seq(RecvCmd)
    BY DEF TypeOK, gatewayTypeOK
  <2>2. /\ \A d \in Devices : recvCmds'[d] = Pushed(d, recvCmds[d]) \/ recvCmds'[d] = recvCmds[d]
        /\ UNCHANGED <<rows, lastId, maxSequenceNumber, execCmds>>
    BY <1>4 DEF PushAlarm, AlarmCallback, tables
  <2>3. \A d \in Devices : SameSeqs(Pushed(d, recvCmds[d]), recvCmds[d])
    BY <2>1, <1>PushedSame
  <2> QED
    BY <2>2, <2>3 DEF Kept, SameSeqs
<1>5. CASE Fault
  BY <1>1, <1>5
     DEF Fault, Disconnect, LoseToCloud, GatewayRestart, CloudInitGateway, DeviceExpired,
         KeepAliveExpired, gatewayVars, deviceVars, tables
<1>6. CASE CloudReceive \/ AdministratorStep \/ OwnerStep \/ ClientReceive
           \/ (\E d \in Devices : ClientStep(d))
  BY <1>1, <1>6 DEF CloudReceive, AdministratorStep, OwnerStep, ClientReceive, ClientStep,
                    gatewayVars, deviceVars, tables
<1>7. CASE AckAlarm \/ RegisterAlarm \/ SyncAlarm \/ Claim
  BY <1>1, <1>7 DEF AckAlarm, RegisterAlarm, SyncAlarm, Claim, StatusACKCallback, KeepaliveAlarm,
                    SyncAlarmCallback, ClaimGateway, deviceVars, tables
<1>8. CASE LinkStep
  BY <1>1, <1>8 DEF LinkStep, Connect, OnConnect, OnDisconnect, gatewayVars, deviceVars, tables
<1>9. CASE UNCHANGED vars
  BY <1>1, <1>9 DEF vars, gatewayVars, deviceVars, tables
<1> QED
  BY <1>2, <1>3, <1>4, <1>5, <1>6, <1>7, <1>8, <1>9 DEF Next

-----------------------------------------------------------------------------
(* How a step changes the cloud's queue and the channel to the gateway.    *)

\* t is s, or s without its first element, cut at some point.
PartOf(t, s) ==
  \E k \in {0, 1} : \A i \in DOMAIN t : i \in Nat /\ i + k \in DOMAIN s /\ t[i] = s[i + k]

Undecided == {"DELIVERING_TO_OWNER", "REJECTED"}

QueueKept ==
  /\ PartOf(pending', pending)
  /\ ownerCommands' = ownerCommands
  /\ DOMAIN transmitted' = DOMAIN transmitted
  /\ \A seq \in DOMAIN transmitted :
       transmitted'[seq].state \in Undecided => transmitted[seq].state \in Undecided

IssuedToOwner(d) ==
  /\ owner
  /\ transmitted' = Append(transmitted, [dev |-> d, state |-> "DELIVERING_TO_OWNER"])
  /\ ownerCommands' = Append(ownerCommands, [seq |-> GlobalCommandSeqNo, dev |-> d])
  /\ pending' = pending

IssuedToGateway(d, cmd) ==
  /\ ~owner
  /\ cmd.seq = GlobalCommandSeqNo
  /\ transmitted' = Append(transmitted, [dev |-> d, state |-> "DELIVERING_TO_GATEWAY"])
  /\ ownerCommands' = ownerCommands
  /\ pending' = Append(pending, cmd)

Approved(cmd) ==
  /\ ownerCommands # <<>>
  /\ cmd.seq = ownerCommands[1].seq
  /\ SetState(cmd.seq, "DELIVERING_TO_GATEWAY")
  /\ ownerCommands' = Tail(ownerCommands)
  /\ pending' = Append(pending, cmd)

Rejected ==
  /\ ownerCommands # <<>>
  /\ SetState(ownerCommands[1].seq, "REJECTED")
  /\ ownerCommands' = Tail(ownerCommands)
  /\ pending' = pending

\* What a delivery, a broken connection or a restart leaves of a channel.
LEMMA Parts ==
  ASSUME NEW S, NEW s \in Seq(S)
  PROVE  /\ PartOf(s, s)
         /\ s # <<>> => PartOf(Tail(s), s)
         /\ \A n \in 0 .. Len(s) : PartOf(SubSeq(s, 1, n), s)
         /\ PartOf(<<>>, s)
<1>1. PartOf(s, s)
  <2>1. \A i \in DOMAIN s : i \in Nat /\ i + 0 \in DOMAIN s /\ s[i] = s[i + 0]
    BY SMT
  <2> QED
    BY <2>1 DEF PartOf
<1>2. ASSUME s # <<>> PROVE PartOf(Tail(s), s)
  <2>1. \A i \in DOMAIN Tail(s) : i \in Nat /\ i + 1 \in DOMAIN s /\ Tail(s)[i] = s[i + 1]
    BY <1>2, SMT
  <2> QED
    BY <2>1 DEF PartOf
<1>3. ASSUME NEW n \in 0 .. Len(s) PROVE PartOf(SubSeq(s, 1, n), s)
  <2>1. \A i \in DOMAIN SubSeq(s, 1, n) :
          i \in Nat /\ i + 0 \in DOMAIN s /\ SubSeq(s, 1, n)[i] = s[i + 0]
    BY SMT
  <2> QED
    BY <2>1 DEF PartOf
<1>4. PartOf(<<>>, s)
  <2>1. \A i \in DOMAIN <<>> : i \in Nat /\ i + 0 \in DOMAIN s /\ <<>>[i] = s[i + 0]
    BY SMT
  <2> QED
    BY <2>1 DEF PartOf
<1> QED
  BY <1>1, <1>2, <1>3, <1>4

\* The channel holds what is left of it, or one message more.
ChannelGets(x) == x \in GatewayBound /\ toGateway' = Append(toGateway, x)

\* What the step does to the channel to the gateway: a client command it
\* sends is the first of the queue it leaves.
ChannelStep ==
  \/ PartOf(toGateway', toGateway)
  \/ \E x : ChannelGets(x) /\ (x.type = "CLIENT" => pending' # <<>> /\ x.seq = pending'[1].seq)

\* What a step does to the cloud's queue, the owner's list and the channel.
LEMMA QueueStep ==
  TypeOK /\ [Next]_vars =>
    /\ ChannelStep
    /\ \/ QueueKept
       \/ \E d \in Devices : IssuedToOwner(d) \/ \E cmd \in PendingCmd : IssuedToGateway(d, cmd)
       \/ Rejected
       \/ \E cmd \in PendingCmd : Approved(cmd)
\* The broker takes one message, if the gateway is subscribed.
<1>PublishedOne.
  ASSUME TypeOK, NEW x \in GatewayBound, PublishToGateway(<<x>>)
  PROVE  PartOf(toGateway', toGateway) \/ ChannelGets(x)
  <2> USE <1>PublishedOne
  <2>1. toGateway \in Seq(GatewayBound)
    BY DEF TypeOK, channelTypeOK
  <2>2. toGateway' = toGateway \/ toGateway' = toGateway \o <<x>>
    BY DEF PublishToGateway, Enqueue
  <2>3. toGateway \o <<x>> = Append(toGateway, x)
    BY <2>1, SMT
  <2> QED
    BY <2>1, <2>2, <2>3, Parts DEF ChannelGets
\* sendGatewayCommand sends the first of the commands it is given.
<1>SentFirst.
  ASSUME TypeOK, NEW registered, NEW cmds \in Seq(PendingCmd), SendGatewayCommand(registered, cmds)
  PROVE  \/ PartOf(toGateway', toGateway)
         \/ \E x : ChannelGets(x) /\ cmds # <<>> /\ x.seq = cmds[1].seq
  <2> USE <1>SentFirst
  <2>1. CASE registered /\ cmds # <<>>
    <3> DEFINE x == ClientMsg(cmds[1])
    <3>1. cmds[1] \in PendingCmd
      BY <2>1, FirstType
    <3>2. x \in GatewayBound
      BY <3>1, MsgTypes
    <3>3. x.seq = cmds[1].seq
      BY DEF ClientMsg
    <3>4. PublishToGateway(<<x>>)
      BY <2>1 DEF SendGatewayCommand
    <3> HIDE DEF x
    <3> QED
      BY <2>1, <3>2, <3>3, <3>4, <1>PublishedOne
  <2>2. CASE ~(registered /\ cmds # <<>>)
    BY <2>2, Parts DEF SendGatewayCommand, TypeOK, channelTypeOK
  <2> QED
    BY <2>1, <2>2
\* A command that joins the queue is sent if it is the only one.
<1>AddedToQueue.
  ASSUME TypeOK, NEW cmd \in PendingCmd, AddPending(cmd)
  PROVE  ChannelStep /\ pending' = Append(pending, cmd)
  <2> USE <1>AddedToQueue
  <2>1. pending' = Append(pending, cmd) /\ pending \in Seq(PendingCmd)
    BY DEF AddPending, TypeOK, cloudTypeOK
  <2>2. CASE pending = <<>>
    <3>1. SendGatewayCommand(gatewayRegistered, <<cmd>>)
      BY <2>2 DEF AddPending
    <3>2. <<cmd>> \in Seq(PendingCmd)
      BY SMT
    <3>3. pending' = <<cmd>>
      BY <2>1, <2>2, SMT
    <3>4. \/ PartOf(toGateway', toGateway)
          \/ \E x : ChannelGets(x) /\ <<cmd>> # <<>> /\ x.seq = <<cmd>>[1].seq
      BY <3>1, <3>2, <1>SentFirst
    <3> QED
      BY <2>1, <3>3, <3>4 DEF ChannelStep
  <2>3. CASE pending # <<>>
    BY <2>1, <2>3, Parts DEF AddPending, ChannelStep, TypeOK, channelTypeOK
  <2> QED
    BY <2>2, <2>3
\* The administrator's command goes to the owner or joins the queue.
<1>AdministratorQueue.
  ASSUME TypeOK, AdministratorStep
  PROVE  /\ ChannelStep
         /\ \E d \in Devices : IssuedToOwner(d) \/ \E cmd \in PendingCmd : IssuedToGateway(d, cmd)
  <2> USE <1>AdministratorQueue
  <2>1. PICK d \in Devices : SendCommandToClient(d)
    BY DEF AdministratorStep
  <2>2. CASE owner
    <3>1. toGateway' = toGateway /\ IssuedToOwner(d)
      BY <2>1, <2>2 DEF SendCommandToClient, IssuedToOwner
    <3>2. ChannelStep
      BY <3>1, Parts DEF ChannelStep, TypeOK, channelTypeOK
    <3> QED
      BY <3>1, <3>2
  <2>3. CASE ~owner
    <3> DEFINE cmd == [seq |-> GlobalCommandSeqNo, dev |-> d, signed |-> FALSE]
    <3>1. cmd \in PendingCmd /\ cmd.seq = GlobalCommandSeqNo
      BY SMT DEF PendingCmd, GlobalCommandSeqNo, SeqNo, TypeOK, cloudTypeOK
    <3>2. /\ AddPending(cmd)
          /\ ownerCommands' = ownerCommands
          /\ transmitted' = Append(transmitted, [dev |-> d, state |-> "DELIVERING_TO_GATEWAY"])
      BY <2>1, <2>3 DEF SendCommandToClient
    <3> HIDE DEF cmd
    <3>3. ChannelStep /\ pending' = Append(pending, cmd)
      BY <3>1, <3>2, <1>AddedToQueue
    <3>4. IssuedToGateway(d, cmd)
      BY <2>3, <3>1, <3>2, <3>3 DEF IssuedToGateway
    <3> QED
      BY <3>1, <3>3, <3>4
  <2> QED
    BY <2>2, <2>3
\* An approved command joins the queue, a rejected one does not.
<1>OwnerQueue.
  ASSUME TypeOK, OwnerStep
  PROVE  ChannelStep /\ (Rejected \/ \E cmd \in PendingCmd : Approved(cmd))
  <2> USE <1>OwnerQueue
  <2>1. PICK approved \in BOOLEAN : SetOwnerCommandStatus(approved)
    BY DEF OwnerStep
  <2>2. ownerCommands # <<>> /\ ownerCommands' = Tail(ownerCommands)
    BY <2>1 DEF SetOwnerCommandStatus
  <2>3. CASE MarkCommandAsRejected(ownerCommands[1])
    <3>1. Rejected /\ toGateway' = toGateway
      BY <2>2, <2>3 DEF MarkCommandAsRejected, Rejected
    <3> QED
      BY <3>1, Parts DEF ChannelStep, TypeOK, channelTypeOK
  <2>4. CASE SendApprovedCommandToClient(ownerCommands[1])
    <3> DEFINE cmd == [seq |-> ownerCommands[1].seq, dev |-> ownerCommands[1].dev, signed |-> TRUE]
    <3>1. cmd \in PendingCmd /\ cmd.seq = ownerCommands[1].seq
      <4>1. ownerCommands[1] \in OwnerCmd
        BY <2>2, FirstType DEF TypeOK, cloudTypeOK
      <4> QED
        BY <4>1 DEF OwnerCmd, PendingCmd
    <3>2. AddPending(cmd) /\ SetState(cmd.seq, "DELIVERING_TO_GATEWAY")
      BY <2>4, <3>1 DEF SendApprovedCommandToClient
    <3> HIDE DEF cmd
    <3>3. ChannelStep /\ pending' = Append(pending, cmd)
      BY <3>1, <3>2, <1>AddedToQueue
    <3>4. Approved(cmd)
      BY <2>2, <3>1, <3>2, <3>3 DEF Approved
    <3> QED
      BY <3>1, <3>3, <3>4
  <2> QED
    BY <2>1, <2>3, <2>4 DEF SetOwnerCommandStatus
\* A message from the gateway takes at most the first command off the queue.
<1>CloudReceiveQueue.
  ASSUME TypeOK, CloudReceive
  PROVE  ChannelStep /\ QueueKept
  <2> USE <1>CloudReceiveQueue
  <2>1. MessageReceived(Head(toCloud))
    BY DEF CloudReceive
  <2>2. pending \in Seq(PendingCmd) /\ toGateway \in Seq(GatewayBound) /\ cloudTypeOK
    BY DEF TypeOK, cloudTypeOK, channelTypeOK
  <2> DEFINE m == Head(toCloud)
  <2> HIDE DEF m
  <2>3. ASSUME pending' = pending, ownerCommands' = ownerCommands, transmitted' = transmitted
        PROVE  QueueKept
    BY <2>2, <2>3, Parts DEF QueueKept
  <2>4. ASSUME NEW n, NEW state \in CommandStates, state \notin Undecided, SetState(n, state),
               PartOf(pending', pending), ownerCommands' = ownerCommands
        PROVE  QueueKept
    <3>1. /\ DOMAIN transmitted' = DOMAIN transmitted
          /\ \A i \in DOMAIN transmitted :
               transmitted'[i].state = IF i = n THEN state ELSE transmitted[i].state
      BY <2>2, <2>4, SetStateType
    <3> QED
      BY <2>4, <3>1 DEF QueueKept
  <2>5. CASE RegisterGatewayNow
    <3>1. SendGatewayCommand(TRUE, pending) /\ pending' = pending
      BY <2>5 DEF RegisterGatewayNow
    <3>2. \/ PartOf(toGateway', toGateway)
          \/ \E x : ChannelGets(x) /\ pending # <<>> /\ x.seq = pending[1].seq
      BY <2>2, <3>1, <1>SentFirst
    <3>3. ChannelStep
      BY <3>1, <3>2 DEF ChannelStep
    <3> QED
      BY <2>3, <2>5, <3>3 DEF RegisterGatewayNow
  <2>6. CASE UpdateGatewayCommand(m)
    BY <2>2, <2>3, <2>6, Parts DEF UpdateGatewayCommand, ChannelStep
  <2>7. CASE HandleClientCommandAck(m)
    <3>1. CASE AckMatches(m)
      <4>1. /\ pending # <<>>
            /\ SetState(m.seq, "DELIVERING_TO_CLIENT")
            /\ pending' = Tail(pending)
            /\ SendGatewayCommand(gatewayRegistered, Tail(pending))
            /\ ownerCommands' = ownerCommands
        BY <2>7, <3>1 DEF HandleClientCommandAck, AckMatches
      <4>2. Tail(pending) \in Seq(PendingCmd) /\ PartOf(pending', pending)
        BY <2>2, <4>1, TailType, Parts
      <4>3. \/ PartOf(toGateway', toGateway)
            \/ \E x : ChannelGets(x) /\ Tail(pending) # <<>> /\ x.seq = Tail(pending)[1].seq
        BY <4>1, <4>2, <1>SentFirst
      <4>4. ChannelStep
        BY <4>1, <4>3 DEF ChannelStep
      <4>5. "DELIVERING_TO_CLIENT" \in CommandStates /\ "DELIVERING_TO_CLIENT" \notin Undecided
        BY DEF CommandStates, Undecided
      <4>6. QueueKept
        BY <2>4, <4>1, <4>2, <4>5
      <4> QED
        BY <4>4, <4>6
    <3>2. CASE ~AckMatches(m)
      BY <2>2, <2>3, <2>7, <3>2, Parts DEF HandleClientCommandAck, ChannelStep
    <3> QED
      BY <3>1, <3>2
  <2>8. CASE HandleClientCommandDone(m)
    <3>1. CASE DoneMatches(m)
      <4>1. /\ SetState(m.seq, "EXECUTED")
            /\ SendGatewayCommandDONEAck(m.seq, m.dev)
            /\ ownerCommands' = ownerCommands /\ pending' = pending
        BY <2>8, <3>1 DEF HandleClientCommandDone
      <4>2. m.seq \in SeqNo /\ m.dev \in Devices
        <5>1. transmitted \in Seq(Transmitted) /\ m.seq \in DOMAIN transmitted
          BY <2>2, <3>1 DEF DoneMatches, cloudTypeOK
        <5>2. m.seq \in 1 .. Len(transmitted) /\ transmitted[m.seq] \in Transmitted
          BY <5>1, SMT
        <5> QED
          BY <3>1, <5>1, <5>2, SMT DEF DoneMatches, Transmitted, SeqNo
      <4> DEFINE x == DoneAckMsg(m.seq, m.dev)
      <4>3. x \in GatewayBound /\ x.type # "CLIENT"
        BY <4>2, MsgTypes DEF DoneAckMsg
      <4>4. PublishToGateway(<<x>>) \/ toGateway' = toGateway
        BY <4>1 DEF SendGatewayCommandDONEAck
      <4> HIDE DEF x
      <4>5. ChannelStep
        BY <2>2, <4>3, <4>4, <1>PublishedOne, Parts DEF ChannelStep
      <4>6. "EXECUTED" \in CommandStates /\ "EXECUTED" \notin Undecided
        BY DEF CommandStates, Undecided
      <4>7. PartOf(pending', pending)
        BY <2>2, <4>1, Parts
      <4>8. QueueKept
        BY <2>4, <4>1, <4>6, <4>7
      <4> QED
        BY <4>5, <4>8
    <3>2. CASE ~DoneMatches(m)
      BY <2>2, <2>3, <2>8, <3>2, Parts DEF HandleClientCommandDone, ChannelStep
    <3> QED
      BY <3>1, <3>2
  <2> QED
    BY <2>1, <2>5, <2>6, <2>7, <2>8 DEF MessageReceived, m
<1> SUFFICES ASSUME TypeOK, [Next]_vars
             PROVE  /\ ChannelStep
                    /\ \/ QueueKept
                       \/ \E d \in Devices : IssuedToOwner(d) \/ \E cmd \in PendingCmd : IssuedToGateway(d, cmd)
                       \/ Rejected
                       \/ \E cmd \in PendingCmd : Approved(cmd)
  OBVIOUS
<1>1. pending \in Seq(PendingCmd) /\ toGateway \in Seq(GatewayBound)
  BY DEF TypeOK, cloudTypeOK, channelTypeOK
<1>2. ASSUME UNCHANGED <<transmitted, pending, ownerCommands>>
      PROVE  QueueKept
  BY <1>1, <1>2, Parts DEF QueueKept
<1>3. ASSUME toGateway' = toGateway
      PROVE  ChannelStep
  BY <1>1, <1>3, Parts DEF ChannelStep
<1>4. CASE CloudReceive
  BY <1>4, <1>CloudReceiveQueue
<1>5. CASE AdministratorStep
  BY <1>5, <1>AdministratorQueue
<1>6. CASE OwnerStep
  BY <1>6, <1>OwnerQueue
<1>7. CASE GatewayReceive
  <2>1. toGateway # <<>> /\ toGateway' = Tail(toGateway) /\ UNCHANGED <<transmitted, pending, ownerCommands>>
    BY <1>7 DEF GatewayReceive, cloudCmdVars
  <2> QED
    BY <1>1, <1>2, <2>1, Parts DEF ChannelStep
<1>8. CASE Fault
  <2>1. CASE CloudInitGateway
    <3>1. PublishToGateway(<<RegisterRequestMsg>>) /\ UNCHANGED <<transmitted, pending, ownerCommands>>
      BY <2>1 DEF CloudInitGateway, InitGateway
    <3>2. RegisterRequestMsg \in GatewayBound /\ RegisterRequestMsg.type # "CLIENT"
      BY DEF GatewayBound, RegisterRequestMsg
    <3>3. ChannelStep
      BY <3>1, <3>2, <1>PublishedOne DEF ChannelStep
    <3> QED
      BY <1>2, <3>1, <3>3
  <2>2. CASE Disconnect
    BY <1>1, <1>2, <2>2, Parts DEF Disconnect, ChannelStep, cloudCmdVars
  <2>3. CASE GatewayRestart
    BY <1>1, <1>2, <2>3, Parts DEF GatewayRestart, Restart, ChannelStep, cloudCmdVars
  <2>4. CASE LoseToCloud \/ DeviceExpired
    BY <1>2, <1>3, <2>4 DEF LoseToCloud, DeviceExpired, cloudCmdVars
  <2> QED
    BY <1>8, <2>1, <2>2, <2>3, <2>4 DEF Fault
<1>9. CASE PushAlarm \/ AckAlarm \/ RegisterAlarm \/ SyncAlarm \/ Claim \/ LinkStep \/ ClientReceive
  BY <1>2, <1>3, <1>9 DEF PushAlarm, AckAlarm, RegisterAlarm, SyncAlarm, Claim, LinkStep, Connect,
     OnConnect, OnDisconnect, ClientReceive, cloudCmdVars
<1>10. ASSUME NEW d \in Devices, GatewayDeviceStep(d) \/ ClientStep(d)
       PROVE  UNCHANGED <<transmitted, pending, ownerCommands, toGateway>>
  BY <1>10 DEF GatewayDeviceStep, ClientStep, cloudCmdVars
<1>11. CASE UNCHANGED vars
  BY <1>2, <1>3, <1>11 DEF vars, cloudCmdVars
<1> QED
  BY <1>2, <1>3, <1>4, <1>5, <1>6, <1>7, <1>8, <1>9, <1>10, <1>11 DEF Next

-----------------------------------------------------------------------------
(* The messages a step adds.                                               *)

\* A sequence over a set is one over a larger set.
LEMMA SeqMono ==
  ASSUME NEW S, NEW T, S \subseteq T, NEW s \in Seq(S)
  PROVE  s \in Seq(T)
BY SMT

\* Publishing messages of M on a channel of M leaves a channel of M.
LEMMA PublishIn ==
  ASSUME NEW M, toCloud \in Seq(M), NEW msgs \in Seq(M), Publish(msgs)
  PROVE  toCloud' \in Seq(M)
BY EnqueueType DEF Publish

\* responseCommandDONE reports the front of the executed list.
LEMMA ResponseDONEIn ==
  ASSUME NEW M, toCloud \in Seq(M), NEW d, NEW exec,
         \A seq \in ExecutedCommand(exec) : DoneMsg(seq, d) \in M,
         ResponseCommandDONE(d, exec)
  PROVE  toCloud' \in Seq(M)
<1>1. PICK seq \in ExecutedCommand(exec) : Publish(<<DoneMsg(seq, d)>>)
  BY DEF ResponseCommandDONE
<1>2. <<DoneMsg(seq, d)>> \in Seq(M)
  BY SMT
<1> QED
  BY <1>1, <1>2, PublishIn

\* responseCommandACK acknowledges one command.
LEMMA ResponseACKIn ==
  ASSUME NEW M, toCloud \in Seq(M), NEW seq, AckMsg(seq) \in M,
         ResponseCommandACK(seq) \/ Publish(<<AckMsg(seq)>>)
  PROVE  toCloud' \in Seq(M)
<1>1. <<AckMsg(seq)>> \in Seq(M)
  BY SMT
<1> QED
  BY <1>1, PublishIn DEF ResponseCommandACK

\* REGISTER and the updates of the gateway's information.
LEMMA RegistrationIn ==
  ASSUME NEW M, toCloud \in Seq(M), RegisterMsg \in M, \A b \in BOOLEAN : InfoMsg(b) \in M,
         gatewayTypeOK,
         \/ SendRegisterCmd
         \/ Update(<<InfoMsg(claimed)>>)
         \/ Update(<<InfoMsg(TRUE)>>)
         \/ Update(<<>>)
  PROVE  toCloud' \in Seq(M)
<1>1. <<RegisterMsg, InfoMsg(claimed)>> \in Seq(M) /\ <<InfoMsg(claimed)>> \in Seq(M)
  BY SMT DEF gatewayTypeOK
<1>2. <<InfoMsg(TRUE)>> \in Seq(M)
  <2>1. \A b \in BOOLEAN : <<InfoMsg(b)>> \in Seq(M)
    BY SMT
  <2> QED
    BY <2>1
<1>3. <<>> \in Seq(M)
  BY SMT
<1>4. CASE SendRegisterCmd
  BY <1>1, <1>4, PublishIn DEF SendRegisterCmd
<1>5. CASE Update(<<InfoMsg(claimed)>>)
  BY <1>1, <1>5, PublishIn DEF Update
<1>6. CASE Update(<<InfoMsg(TRUE)>>)
  BY <1>2, <1>6, PublishIn DEF Update
<1>7. CASE Update(<<>>)
  BY <1>3, <1>7, PublishIn DEF Update
<1> QED
  BY <1>4, <1>5, <1>6, <1>7

\* The push alarm repeats the DONE of the front of every executed list.
LEMMA AlarmIn ==
  ASSUME NEW M, toCloud \in Seq(M), gatewayTypeOK, AlarmCallback,
         \A d \in Devices : \A seq \in ExecutedCommand(execCmds[d]) : DoneMsg(seq, d) \in M
  PROVE  toCloud' \in Seq(M)
<1>1. PICK order \in Listings(DoneDevices, Cardinality(Devices)) :
        Publish([i \in DOMAIN order |-> DoneMsg(execCmds[order[i]][1], order[i])])
  BY DEF AlarmCallback
<1>2. order \in Seq(DoneDevices)
  BY ListingType, ChannelAssumption
<1>3. Len(order) \in Nat /\ order \in [1 .. Len(order) -> DoneDevices]
  BY <1>2, SMT
<1>4. \A d \in DoneDevices : DoneMsg(execCmds[d][1], d) \in M
  BY DEF DoneDevices, gatewayTypeOK, ExecutedCommand
<1> DEFINE msgs == [i \in DOMAIN order |-> DoneMsg(execCmds[order[i]][1], order[i])]
<1>5. msgs \in [1 .. Len(order) -> M]
  BY <1>3, <1>4
<1> HIDE DEF msgs
<1>6. msgs \in Seq(M)
  BY <1>2, <1>5, SMT
<1> QED
  BY <1>1, <1>6, PublishIn DEF msgs

\* An ACK is for the gateway's current sequence number, a DONE for the front
\* of a device's executed list, both as the step leaves them.
LEMMA MessagesIn ==
  ASSUME TypeOK, [Next]_vars, NEW M, toCloud \in Seq(M),
         RegisterMsg \in M, \A b \in BOOLEAN : InfoMsg(b) \in M,
         AckMsg(sequenceNumber') \in M,
         \A d \in Devices : \A seq \in ExecutedCommand(execCmds'[d]) : DoneMsg(seq, d) \in M
  PROVE  toCloud' \in Seq(M)
<1>1. gatewayTypeOK /\ execCmds \in [Devices -> Seq(SeqNo)]
  BY DEF TypeOK, gatewayTypeOK
<1>2. CASE toCloud' = toCloud
  BY <1>2
<1>3. CASE GatewayReceive
  <2> DEFINE m == Head(toGateway)
  <2>1. /\ ParseCmd(m)
        /\ m.type = "CLIENT" => m \in ClientMsgs
        /\ m.type = "DONE_ACK" => m \in DoneAckMsgs
    BY <1>3, GatewayMessage
  <2> HIDE DEF m
  <2>2. CASE m.type = "CLIENT" /\ HandleClientCommand(m)
    <3>1. m.dev \in Devices
      BY <2>1, <2>2 DEF ClientMsgs
    <3>2. CASE HandleOldCommand(m)
      <4>1. CASE ResponseCommandDONE(m.dev, execCmds[m.dev])
        <5>1. execCmds'[m.dev] = execCmds[m.dev]
          BY <3>2 DEF HandleOldCommand
        <5> QED
          BY <3>1, <4>1, <5>1, ResponseDONEIn
      <4>2. CASE ResponseCommandACK(m.seq) /\ sequenceNumber' = m.seq
        BY <4>2, ResponseACKIn
      <4> QED
        BY <1>2, <3>2, <4>1, <4>2 DEF HandleOldCommand
    <3>3. CASE StoreNewCommand(m)
      BY <3>3, ResponseACKIn DEF StoreNewCommand
    <3> QED
      BY <1>2, <2>2, <3>2, <3>3 DEF HandleClientCommand, RefuseNewCommand
  <2>3. CASE m.type = "DONE_ACK" /\ HandleCommandDoneAck(m)
    <3>1. m.dev \in Devices
      BY <2>1, <2>3 DEF DoneAckMsgs
    <3>2. CASE execCmds' = [execCmds EXCEPT ![m.dev] = Tail(@)]
               /\ ResponseCommandDONE(m.dev, Tail(execCmds[m.dev]))
      <4>1. execCmds'[m.dev] = Tail(execCmds[m.dev])
        BY <1>1, <3>1, <3>2
      <4> QED
        BY <3>1, <3>2, <4>1, ResponseDONEIn
    <3> QED
      BY <1>2, <2>3, <3>2 DEF HandleCommandDoneAck
  <2>4. CASE ReqRegisterCmd
    BY <1>1, <2>4, RegistrationIn DEF ReqRegisterCmd
  <2> QED
    BY <2>1, <2>2, <2>3, <2>4 DEF ParseCmd
<1>4. CASE CloudReceive
  BY <1>4, TailType DEF CloudReceive
<1>5. ASSUME NEW d \in Devices, GatewayDeviceStep(d)
      PROVE  toCloud' \in Seq(M)
  <2>1. CASE RegisterNow(d)
    BY <1>1, <2>1, RegistrationIn DEF RegisterNow
  <2>2. CASE CmdRespOK(d)
    <3> DEFINE exec == Append(execCmds[d], recvCmds[d][1].seq)
    <3>1. CASE execCmds' = [execCmds EXCEPT ![d] = exec] /\ ResponseCommandDONE(d, exec)
      <4>1. execCmds'[d] = exec
        BY <1>1, <3>1
      <4> HIDE DEF exec
      <4> QED
        BY <3>1, <4>1, ResponseDONEIn
    <3> QED
      BY <1>2, <2>2, <3>1 DEF CmdRespOK
  <2> QED
    BY <1>2, <1>5, <2>1, <2>2
       DEF GatewayDeviceStep, DeviceCmdRespCallback, CmdRespError, CmdRespTimeout
<1>6. CASE PushAlarm
  <2>1. AlarmCallback /\ execCmds' = execCmds
    BY <1>6 DEF PushAlarm, AlarmCallback
  <2> QED
    BY <1>1, <2>1, AlarmIn
<1>7. CASE AckAlarm
  <2>1. /\ ResponseCommandACK(sequenceNumber) \/ Publish(<<AckMsg(sequenceNumber)>>)
        /\ sequenceNumber' = sequenceNumber
    BY <1>7 DEF AckAlarm, StatusACKCallback
  <2> QED
    BY <2>1, ResponseACKIn
<1>8. CASE RegisterAlarm \/ SyncAlarm \/ Claim
  BY <1>1, <1>8, RegistrationIn
     DEF RegisterAlarm, SyncAlarm, Claim, KeepaliveAlarm, SyncAlarmCallback, ClaimGateway
<1>9. CASE LinkStep
  BY <1>1, <1>2, <1>9, RegistrationIn DEF LinkStep, Connect, OnConnect, OnDisconnect
<1>10. CASE Fault
  <2>1. CASE Disconnect
    BY <2>1, PrefixType DEF Disconnect
  <2>2. CASE LoseToCloud
    BY <2>2, TailType DEF LoseToCloud
  <2>3. CASE DeviceExpired
    BY <1>1, <2>3, RegistrationIn DEF DeviceExpired, KeepAliveExpired
  <2> QED
    BY <1>2, <1>10, <2>1, <2>2, <2>3 DEF Fault, GatewayRestart, Restart, CloudInitGateway
<1> QED
  BY <1>2, <1>3, <1>4, <1>5, <1>6, <1>7, <1>8, <1>9, <1>10
     DEF Next, vars, ClientStep, ClientReceive, AdministratorStep, OwnerStep

-----------------------------------------------------------------------------
(* AcceptedInv is inductive with TypeOK and OutstandingIsFront.            *)

\* What the gateway takes for executed was accepted by a client.
AcceptedInv ==
  /\ \A r \in rows : r.exec => r.seq \in accepted
  /\ execCmds \in [Devices -> Seq(accepted)]
  /\ \A r \in resps : r.ok => recvCmds[r.dev][1].seq \in accepted

\* Every step keeps it that what the gateway takes for executed was accepted.
LEMMA AcceptedStep ==
  TypeOK /\ OutstandingIsFront /\ OutstandingIsFront' /\ AcceptedInv /\ [Next]_vars =>
    AcceptedInv'
\* While an answer is on its way the front of the device's list stays, so
\* the answer is still about the same command.
<1>AnswerKept.
  ASSUME OutstandingIsFront, OutstandingIsFront', reqs \subseteq reqs', NEW r \in resps
  PROVE  recvCmds'[r.dev][1].seq = recvCmds[r.dev][1].seq
  <2> USE <1>AnswerKept
  <2>1. PICK q \in reqs : q.dev = r.dev /\ q.live
    BY DEF OutstandingIsFront, Outstanding
  <2>2. recvCmds[r.dev][1] = [seq |-> q.seq, inProgress |-> TRUE]
    BY <2>1 DEF OutstandingIsFront
  <2>3. recvCmds'[r.dev][1] = [seq |-> q.seq, inProgress |-> TRUE]
    BY <2>1 DEF OutstandingIsFront
  <2> QED
    BY <2>2, <2>3
\* Only rows of accepted commands are marked executed.
<1>AcceptedRespOK.
  ASSUME TypeOK, AcceptedInv, NEW d \in Devices, recvCmds[d] # <<>>, CmdRespOK(d),
         accepted' = accepted
  PROVE  AcceptedInv'
  <2> USE <1>AcceptedRespOK
  <2> DEFINE seq == recvCmds[d][1].seq
  <2>1. recvCmds \in [Devices -> Seq(RecvCmd)] /\ execCmds \in [Devices -> Seq(accepted)]
        /\ rows \subseteq Row /\ execCmds[d] \in Seq(accepted)
    BY DEF TypeOK, gatewayTypeOK, AcceptedInv
  <2>2. seq \in accepted
    <3>1. [dev |-> d, ok |-> TRUE] \in resps
      BY DEF CmdRespOK
    <3> QED
      BY <3>1 DEF AcceptedInv
  <2>3. Append(execCmds[d], seq) \in Seq(accepted)
    BY <2>1, <2>2, AppendType
  <2>4. execCmds' \in [Devices -> Seq(accepted')]
    <3>1. execCmds' = [execCmds EXCEPT ![d] = Append(execCmds[d], seq)] \/ execCmds' = execCmds
      BY DEF CmdRespOK
    <3> HIDE DEF seq
    <3> QED
      BY <2>1, <2>3, <3>1
  <2>5. \A r \in rows' : r.exec => r.seq \in accepted'
    <3>1. MarkExecutedDeviceCommand(seq) \/ rows' = rows
      BY DEF CmdRespOK
    <3>2. CASE rows' = rows
      BY <3>2 DEF AcceptedInv
    <3>3. CASE MarkExecutedDeviceCommand(seq)
      <4> HIDE DEF seq
      <4> SUFFICES ASSUME NEW r \in rows', r.exec PROVE r.seq \in accepted
        OBVIOUS
      <4>1. PICK x \in rows : r = IF x.seq = seq THEN [x EXCEPT !.exec = TRUE] ELSE x
        BY <3>3 DEF MarkExecutedDeviceCommand
      <4>2. CASE x.seq = seq
        BY <2>1, <2>2, <4>1, <4>2 DEF Row
      <4>3. CASE x.seq # seq
        BY <4>1, <4>3 DEF AcceptedInv
      <4> QED
        BY <4>2, <4>3
    <3> QED
      BY <3>1, <3>2, <3>3
  <2>6. \A r \in resps' : r \in resps /\ recvCmds'[r.dev] = recvCmds[r.dev]
    <3>1. /\ resps' = {r \in resps : r.dev # d}
          /\ \E l : recvCmds' = [recvCmds EXCEPT ![d] = l]
      BY DEF CmdRespOK, CompleteAndPush, ForgetResps
    <3>2. \A r \in resps : r.dev \in Devices
      BY DEF TypeOK, channelTypeOK, Response
    <3> QED
      BY <2>1, <3>1, <3>2
  <2>7. \A r \in resps' : r.ok => recvCmds'[r.dev][1].seq \in accepted'
    BY <2>6 DEF AcceptedInv
  <2> QED
    BY <2>4, <2>5, <2>7 DEF AcceptedInv
\* A client that answers OK has accepted the command the answer is about.
<1>AcceptedClient.
  ASSUME TypeOK, OutstandingIsFront, AcceptedInv, ClientReceive
  PROVE  AcceptedInv'
  <2> USE <1>AcceptedClient
  <2>1. PICK q \in reqs : ExecuteCommandCb(q)
    BY DEF ClientReceive
  <2>2. reqs' = reqs /\ recvCmds' = recvCmds /\ rows' = rows /\ execCmds' = execCmds
    BY DEF ClientReceive, gatewayVars, deviceVars, tables
  <2>3. accepted \subseteq accepted'
    BY <2>1 DEF ExecuteCommandCb, AcceptCommand, DeferCommand, clientVars
  <2>4. execCmds' \in [Devices -> Seq(accepted')]
    <3>1. \A s \in Seq(accepted) : s \in Seq(accepted')
      BY <2>3, SeqMono
    <3> QED
      BY <2>2, <3>1 DEF AcceptedInv
  <2>5. ASSUME NEW r \in resps', r.ok
        PROVE  recvCmds[r.dev][1].seq \in accepted'
    <3>1. CASE r \in resps
      BY <2>3, <2>5, <3>1 DEF AcceptedInv
    <3>2. CASE r \notin resps
      <4>1. q.live /\ r.dev = q.dev /\ q.seq \in accepted'
        <5>1. CASE AcceptCommand(q)
          BY <3>2, <5>1, SMT DEF AcceptCommand, Answer
        <5>2. CASE DeferCommand(q)
          <6>1. resps' = resps \/ resps' = resps \cup {[dev |-> q.dev, ok |-> FALSE]}
            BY <5>2 DEF DeferCommand, Answer
          <6>2. r = [dev |-> q.dev, ok |-> FALSE]
            BY <3>2, <6>1
          <6> QED
            BY <2>5, <6>2
        <5> QED
          BY <2>1, <5>1, <5>2 DEF ExecuteCommandCb
      <4>2. recvCmds[q.dev][1] = [seq |-> q.seq, inProgress |-> TRUE]
        BY <4>1 DEF OutstandingIsFront
      <4> QED
        BY <4>1, <4>2, SMT
    <3> QED
      BY <3>1, <3>2
  <2> QED
    BY <2>2, <2>3, <2>4, <2>5 DEF AcceptedInv
\* What a restart reads back as executed was accepted.
<1>AcceptedRestart.
  ASSUME TypeOK, AcceptedInv, Restart, accepted' = accepted
  PROVE  AcceptedInv'
  <2> USE <1>AcceptedRestart
  <2>1. ASSUME NEW d \in Devices
        PROVE  LoadExecCmds(d) \subseteq Seq(accepted)
    <3> DEFINE S == {r \in rows : r.dev = d /\ r.exec}
    <3>1. lastId \in Nat /\ \A r \in S : r.seq \in accepted
      BY DEF TypeOK, gatewayTypeOK, AcceptedInv
    <3>2. LoadExecCmds(d) = {[i \in DOMAIN l |-> l[i].seq] : l \in InIdOrder(S)}
      BY DEF LoadExecCmds
    <3> HIDE DEF S
    <3>3. ASSUME NEW l \in InIdOrder(S)
          PROVE  [i \in DOMAIN l |-> l[i].seq] \in Seq(accepted)
      <4>1. l \in Seq(S)
        BY <3>1, InIdOrderType
      <4>2. Len(l) \in Nat /\ DOMAIN l = 1 .. Len(l) /\ \A i \in DOMAIN l : l[i] \in S
        BY <4>1, SMT
      <4>3. [i \in DOMAIN l |-> l[i].seq] \in [1 .. Len(l) -> accepted]
        BY <3>1, <4>2
      <4> QED
        BY <4>2, <4>3, SMT
    <3> QED
      BY <3>2, <3>3
  <2>2. execCmds' \in [Devices -> Seq(accepted')]
    BY <2>1 DEF Restart, PerDevice
  <2>3. resps' = {} /\ rows' = rows
    BY DEF Restart, tables
  <2> QED
    BY <2>2, <2>3 DEF AcceptedInv
\* A message to the gateway marks nothing executed: a new row is not, and a
\* DONE_ACK only removes.
<1>AcceptedReceive.
  ASSUME TypeOK, OutstandingIsFront, OutstandingIsFront', AcceptedInv, GatewayReceive
  PROVE  AcceptedInv'
  <2> USE <1>AcceptedReceive
  <2> DEFINE m == Head(toGateway)
  <2>1. /\ ParseCmd(m)
        /\ m.type = "CLIENT" => m \in ClientMsgs
        /\ m.type = "DONE_ACK" => m \in DoneAckMsgs
    BY GatewayMessage
  <2> HIDE DEF m
  <2>2. accepted' = accepted
    BY DEF GatewayReceive, clientVars
  <2>3. InsertRow(m) => \A r \in rows' : r.exec => r.seq \in accepted
    <3> SUFFICES ASSUME InsertRow(m), NEW r \in rows', r.exec PROVE r.seq \in accepted
      OBVIOUS
    <3> DEFINE new == [id |-> lastId + 1, seq |-> m.seq, dev |-> m.dev, exec |-> FALSE]
    <3>1. r \in rows \/ r = new
      BY DEF InsertRow
    <3>2. ~new.exec
      OBVIOUS
    <3> HIDE DEF new
    <3> QED
      BY <3>1, <3>2 DEF AcceptedInv
  <2>4. CASE UNCHANGED <<rows, execCmds, recvCmds, resps>>
    BY <2>2, <2>4 DEF AcceptedInv
  <2>5. CASE RefuseNewCommand(m)
    <3>1. rows' = rows \/ InsertRow(m)
      BY <2>5 DEF RefuseNewCommand
    <3>2. \A r \in rows' : r.exec => r.seq \in accepted
      BY <2>3, <3>1 DEF AcceptedInv
    <3> QED
      BY <2>2, <2>5, <3>2 DEF RefuseNewCommand, AcceptedInv
  <2>6. CASE StoreNewCommand(m)
    <3>1. InsertRow(m) /\ execCmds' = execCmds /\ resps' = resps /\ reqs \subseteq reqs'
      BY <2>6 DEF StoreNewCommand, PushCommand
    <3>2. \A r \in resps : recvCmds'[r.dev][1].seq = recvCmds[r.dev][1].seq
      BY <3>1, <1>AnswerKept
    <3> QED
      BY <2>2, <2>3, <3>1, <3>2 DEF AcceptedInv
  <2>7. CASE m.type = "DONE_ACK" /\ HandleCommandDoneAck(m)
    <3>1. m.dev \in Devices /\ execCmds[m.dev] \in Seq(accepted)
      BY <2>1, <2>7 DEF DoneAckMsgs, AcceptedInv
    <3>2. rows' \subseteq rows /\ recvCmds' = recvCmds /\ resps' = resps
      BY <2>7 DEF HandleCommandDoneAck, DeleteDeviceCommand
    <3>3. execCmds' \in [Devices -> Seq(accepted)]
      <4>1. CASE DoneAckMatches(m) /\ execCmds' = [execCmds EXCEPT ![m.dev] = Tail(execCmds[m.dev])]
        <5>1. Tail(execCmds[m.dev]) \in Seq(accepted)
          BY <3>1, <4>1, TailType DEF DoneAckMatches
        <5> QED
          BY <3>1, <4>1, <5>1 DEF AcceptedInv
      <4> QED
        BY <2>7, <4>1 DEF HandleCommandDoneAck, AcceptedInv
    <3> QED
      BY <2>2, <3>2, <3>3 DEF AcceptedInv
  <2> QED
    BY <2>1, <2>4, <2>5, <2>6, <2>7
       DEF ParseCmd, HandleClientCommand, HandleOldCommand, ReqRegisterCmd, gatewayVars, tables,
           deviceVars
\* An error or a timeout ends the request, and with it any answer to it.
<1>AcceptedRespError.
  ASSUME TypeOK, AcceptedInv, NEW d \in Devices, NEW cmds, Complete(d, cmds) \/ CompleteAndPush(d, cmds),
         UNCHANGED <<rows, execCmds, accepted>>
  PROVE  AcceptedInv'
  <2> USE <1>AcceptedRespError
  <2>1. /\ resps' = {r \in resps : r.dev # d}
        /\ \E l : recvCmds' = [recvCmds EXCEPT ![d] = l]
    BY DEF Complete, CompleteAndPush, ForgetResps
  <2>2. recvCmds \in [Devices -> Seq(RecvCmd)] /\ \A r \in resps : r.dev \in Devices
    BY DEF TypeOK, gatewayTypeOK, channelTypeOK, Response
  <2>3. \A r \in resps' : r \in resps /\ recvCmds'[r.dev] = recvCmds[r.dev]
    BY <2>1, <2>2
  <2>4. \A r \in resps' : r.ok => recvCmds'[r.dev][1].seq \in accepted'
    BY <2>3 DEF AcceptedInv
  <2> QED
    BY <2>4 DEF AcceptedInv
<1> SUFFICES ASSUME TypeOK, OutstandingIsFront, OutstandingIsFront', AcceptedInv, [Next]_vars
             PROVE  AcceptedInv'
  OBVIOUS
<1>1. CASE UNCHANGED <<rows, execCmds, recvCmds, resps, accepted>>
  BY <1>1 DEF AcceptedInv
<1>2. CASE GatewayReceive
  BY <1>2, <1>AcceptedReceive
<1>3. ASSUME NEW d \in Devices, GatewayDeviceStep(d)
      PROVE  AcceptedInv'
  <2>1. accepted' = accepted
    BY <1>3 DEF GatewayDeviceStep, clientVars
  <2>2. CASE RegisterNow(d)
    BY <1>1, <2>1, <2>2 DEF RegisterNow, tables
  <2>3. CASE recvCmds[d] # <<>> /\ CmdRespOK(d)
    BY <2>1, <2>3, <1>AcceptedRespOK
  <2>4. CASE recvCmds[d] = <<>> /\ DeviceCmdRespCallback(d)
    BY <2>1, <2>4, <1>AcceptedRespError DEF DeviceCmdRespCallback, tables
  <2>5. CASE CmdRespError(d) \/ CmdRespTimeout(d)
    <3>1. /\ \E cmds : Complete(d, cmds) \/ CompleteAndPush(d, cmds)
          /\ UNCHANGED <<rows, execCmds>>
      BY <2>5 DEF CmdRespError, CmdRespTimeout, tables
    <3> QED
      BY <2>1, <3>1, <1>AcceptedRespError
  <2> QED
    BY <1>3, <2>2, <2>3, <2>4, <2>5 DEF GatewayDeviceStep, DeviceCmdRespCallback
<1>4. CASE PushAlarm
  <2>1. rows' = rows /\ execCmds' = execCmds /\ resps' = resps /\ reqs \subseteq reqs'
        /\ accepted' = accepted
    BY <1>4 DEF PushAlarm, AlarmCallback, tables, clientVars
  <2>2. \A r \in resps : recvCmds'[r.dev][1].seq = recvCmds[r.dev][1].seq
    BY <2>1, <1>AnswerKept
  <2> QED
    BY <2>1, <2>2 DEF AcceptedInv
<1>5. CASE ClientReceive
  BY <1>5, <1>AcceptedClient
<1>6. CASE Fault
  BY <1>1, <1>6, <1>AcceptedRestart
     DEF Fault, Disconnect, LoseToCloud, GatewayRestart, CloudInitGateway, DeviceExpired,
         KeepAliveExpired, gatewayVars, deviceVars, tables, clientVars
<1>7. CASE CloudReceive \/ AdministratorStep \/ OwnerStep
  BY <1>1, <1>7 DEF CloudReceive, AdministratorStep, OwnerStep, gatewayVars, deviceVars, tables,
                    clientVars
<1>8. ASSUME NEW d \in Devices, ClientStep(d)
      PROVE  AcceptedInv'
  BY <1>1, <1>8 DEF ClientStep, CommandExecutionAlarm, Boot, gatewayVars, deviceVars, tables
<1>9. CASE AckAlarm \/ RegisterAlarm \/ SyncAlarm \/ Claim
  BY <1>1, <1>9 DEF AckAlarm, RegisterAlarm, SyncAlarm, Claim, StatusACKCallback, KeepaliveAlarm,
                    SyncAlarmCallback, ClaimGateway, deviceVars, tables, clientVars
<1>10. CASE LinkStep
  BY <1>1, <1>10 DEF LinkStep, Connect, OnConnect, OnDisconnect, gatewayVars, deviceVars, tables,
                     clientVars
<1>11. CASE UNCHANGED vars
  BY <1>1, <1>11 DEF vars, gatewayVars, deviceVars, tables, clientVars
<1> QED
  BY <1>2, <1>3, <1>4, <1>5, <1>6, <1>7, <1>8, <1>9, <1>10, <1>11 DEF Next

\* What the gateway takes for executed was accepted by a client.
THEOREM AcceptedInvHolds ==
  Spec => []AcceptedInv
<1>1. Init => AcceptedInv
  <2>1. <<>> \in Seq({})
    BY SMT
  <2> QED
    BY <2>1 DEF Init, ChannelInit, GatewayInit, ClientInit, AcceptedInv
<1>2. TypeOK /\ OutstandingIsFront /\ OutstandingIsFront' /\ AcceptedInv /\ [Next]_vars => AcceptedInv'
  BY AcceptedStep
<1> QED
  BY <1>1, <1>2, TypeCorrect, OutstandingIsFrontHolds, PTL DEF Spec
=============================================================================
