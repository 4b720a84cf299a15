--------------------------- MODULE CloudCommands ---------------------------
(***************************************************************************)
(* The cloud back-end's handling of client commands for one gateway        *)
(* (AtlasGatewayServiceImpl, AtlasOwnerServiceImpl): issuing a command,    *)
(* the owner's decision on it, the queue of commands to the gateway and    *)
(* the gateway's answers.  Every handler is a synchronized method that     *)
(* reads the gateway document, changes it and saves it: one action.        *)
(***************************************************************************)
EXTENDS AtlasChannels

CONSTANT MaxCommands     \* bound: commands the administrator issues

ASSUME MaxCommandsAssumption == MaxCommands \in Nat

VARIABLES
  transmitted,        \* AtlasClient.transmittedCommands of all clients, by seqNo
  pending,            \* AtlasGateway.gatewayPendingCmds
  ownerCommands,      \* AtlasOwner.ownerCommands for this gateway
  owner,              \* does gatewayInfo name an owner?
  gatewayRegistered   \* AtlasGateway.registered

cloudCmdVars == <<transmitted, pending, ownerCommands, owner, gatewayRegistered>>

CommandStates == {"DELIVERING_TO_OWNER", "DELIVERING_TO_GATEWAY", "DELIVERING_TO_CLIENT",
                  "EXECUTED", "REJECTED"}

Transmitted == [dev : Devices, state : CommandStates]
PendingCmd == [seq : SeqNo, dev : Devices, signed : BOOLEAN]
OwnerCmd == [seq : SeqNo, dev : Devices]

cloudTypeOK ==
  /\ transmitted \in Seq(Transmitted)
  /\ pending \in Seq(PendingCmd)
  /\ ownerCommands \in Seq(OwnerCmd)
  /\ owner \in BOOLEAN
  /\ gatewayRegistered \in BOOLEAN

\* addGateway: the first command gets sequence number 1.
CloudInit ==
  /\ transmitted = <<>>
  /\ pending = <<>>
  /\ ownerCommands = <<>>
  /\ owner = FALSE
  /\ gatewayRegistered = FALSE

GlobalCommandSeqNo == Len(transmitted) + 1

-----------------------------------------------------------------------------
\* The broker drops what nobody is subscribed to.
PublishToGateway(msgs) ==
  toGateway' = IF link = "ready" THEN Enqueue(toGateway, msgs) ELSE toGateway

\* The first command of cmds, if the gateway is known to be online.
SendGatewayCommand(registered, cmds) ==
  IF registered /\ cmds # <<>>
  THEN PublishToGateway(<<ClientMsg(cmds[1])>>)
  ELSE UNCHANGED toGateway

SendGatewayCommandDONEAck(seq, d) ==
  IF gatewayRegistered
  THEN PublishToGateway(<<DoneAckMsg(seq, d)>>)
  ELSE UNCHANGED toGateway

\* A command joins the queue; it is sent now if it is the only one.
AddPending(cmd) ==
  /\ pending' = Append(pending, cmd)
  /\ IF pending = <<>>
     THEN SendGatewayCommand(gatewayRegistered, <<cmd>>)
     ELSE UNCHANGED toGateway

SetState(seq, state) == transmitted' = [transmitted EXCEPT ![seq].state = state]

-----------------------------------------------------------------------------
\* The administrator issues a command.  With an owner it waits for approval.
SendCommandToClient(d) ==
  LET seq == GlobalCommandSeqNo
  IN  /\ seq <= MaxCommands
      /\ IF owner
         THEN /\ transmitted' = Append(transmitted, [dev |-> d, state |-> "DELIVERING_TO_OWNER"])
              /\ ownerCommands' = Append(ownerCommands, [seq |-> seq, dev |-> d])
              /\ UNCHANGED <<pending, toGateway>>
         ELSE /\ transmitted' = Append(transmitted, [dev |-> d, state |-> "DELIVERING_TO_GATEWAY"])
              /\ AddPending([seq |-> seq, dev |-> d, signed |-> FALSE])
              /\ UNCHANGED ownerCommands
      /\ UNCHANGED <<owner, gatewayRegistered>>

(***************************************************************************)
(* The owner's decision on the first command of the list; a decision on    *)
(* any other sequence number changes nothing.                              *)
(***************************************************************************)
SendApprovedCommandToClient(cmd) ==
  /\ SetState(cmd.seq, "DELIVERING_TO_GATEWAY")
  /\ AddPending([seq |-> cmd.seq, dev |-> cmd.dev, signed |-> TRUE])

\* Seeded fault: a rejected command is queued all the same.
MarkCommandAsRejectedQueued(cmd) ==
  /\ SetState(cmd.seq, "REJECTED")
  /\ AddPending([seq |-> cmd.seq, dev |-> cmd.dev, signed |-> TRUE])

MarkCommandAsRejected(cmd) ==
  /\ SetState(cmd.seq, "REJECTED")
  /\ UNCHANGED <<pending, toGateway>>

SetOwnerCommandStatus(approved) ==
  /\ ownerCommands # <<>>
  /\ ownerCommands' = Tail(ownerCommands)
  /\ \/ approved /\ SendApprovedCommandToClient(ownerCommands[1])
     \/ ~approved /\ MarkCommandAsRejected(ownerCommands[1])
  /\ UNCHANGED <<owner, gatewayRegistered>>

-----------------------------------------------------------------------------
\* Only the ACK of the first pending command counts.
AckMatches(m) == pending # <<>> /\ pending[1].seq = m.seq

HandleClientCommandAck(m) ==
  /\ IF AckMatches(m)
     THEN /\ SetState(m.seq, "DELIVERING_TO_CLIENT")
          /\ pending' = Tail(pending)
          /\ SendGatewayCommand(gatewayRegistered, Tail(pending))
     ELSE UNCHANGED <<transmitted, pending, toGateway>>
  /\ UNCHANGED <<ownerCommands, owner, gatewayRegistered>>

\* Is m.seq a command transmitted to client m.dev?
DoneMatches(m) == m.seq \in DOMAIN transmitted /\ transmitted[m.seq].dev = m.dev

HandleClientCommandDone(m) ==
  /\ IF DoneMatches(m)
     THEN SetState(m.seq, "EXECUTED") /\ SendGatewayCommandDONEAck(m.seq, m.dev)
     ELSE UNCHANGED <<transmitted, toGateway>>
  /\ UNCHANGED <<pending, ownerCommands, owner, gatewayRegistered>>

\* REGISTER: the gateway is online, send it the first pending command.
RegisterGatewayNow ==
  /\ gatewayRegistered' = TRUE
  /\ SendGatewayCommand(TRUE, pending)
  /\ UNCHANGED <<transmitted, pending, ownerCommands, owner>>

UpdateGatewayCommand(m) ==
  /\ owner' = m.owner
  /\ UNCHANGED <<transmitted, pending, ownerCommands, gatewayRegistered, toGateway>>

\* The cloud starts, its broker connection is back, or the gateway's
\* keep-alive counter is 0: the gateway is offline until it registers.
InitGateway ==
  /\ gatewayRegistered' = FALSE
  /\ PublishToGateway(<<RegisterRequestMsg>>)
  /\ UNCHANGED <<transmitted, pending, ownerCommands, owner>>
=============================================================================
