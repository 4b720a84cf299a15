-------------------------- MODULE ClientExecution --------------------------
(***************************************************************************)
(* The IoT clients' side of a pushed command (commands_execute/*.c): the   *)
(* handler of the CoAP resource client/approved/command/push, the alarm it *)
(* sets, and the reboot or shutdown the alarm runs.                        *)
(***************************************************************************)
EXTENDS AtlasChannels

VARIABLES clientState,   \* per device: idle, busy (cmdInProgress), down
          accepted       \* history: commands a client has answered with OK

clientVars == <<clientState, accepted>>

clientTypeOK ==
  /\ clientState \in [Devices -> {"idle", "busy", "down"}]
  /\ accepted \subseteq SeqNo

ClientInit ==
  /\ clientState = [d \in Devices |-> "idle"]
  /\ accepted = {}

\* Only the answer to the outstanding request finds its token at the gateway.
Answer(q, ok) == resps' = resps \cup (IF q.live THEN {[dev |-> q.dev, ok |-> ok]} ELSE {})

\* atlas_alert_command_execution_parse: the alarm is set and the command in
\* progress; or the alarm cannot be set, or the command is of unknown type,
\* and the answer is OK all the same.
AcceptCommand(q) ==
  /\ clientState[q.dev] = "idle"
  /\ \/ clientState' = [clientState EXCEPT ![q.dev] = "busy"]
     \/ UNCHANGED clientState
  /\ accepted' = accepted \cup {q.seq}
  /\ Answer(q, TRUE)

\* Seeded fault: a deferred command is answered with OK.
DeferCommandOK(q) ==
  /\ clientState[q.dev] = "busy"
  /\ Answer(q, TRUE)
  /\ UNCHANGED clientVars

\* A command is in progress: the new one is deferred.
DeferCommand(q) ==
  /\ clientState[q.dev] = "busy"
  /\ Answer(q, FALSE)
  /\ UNCHANGED clientVars

\* A copy of the request arrives.  It stays in reqs: it may be retransmitted.
ExecuteCommandCb(q) == AcceptCommand(q) \/ DeferCommand(q)

\* The alarm fires: reboot or poweroff.
CommandExecutionAlarm(d) ==
  /\ clientState[d] = "busy"
  /\ clientState' = [clientState EXCEPT ![d] = "down"]
  /\ UNCHANGED accepted

\* The device starts again, with cmdInProgress false.
Boot(d) ==
  /\ clientState[d] = "down"
  /\ clientState' = [clientState EXCEPT ![d] = "idle"]
  /\ UNCHANGED accepted
=============================================================================
