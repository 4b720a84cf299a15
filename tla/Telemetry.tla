------------------------------- MODULE Telemetry -------------------------------
(***************************************************************************)
(* Telemetry from one client over its gateway to the cloud.  Registration  *)
(* has the exchange of registrations and keep-alives in detail; here a     *)
(* client that is not registered keeps asking, and what the exchange does  *)
(* to the telemetry of both sides is part of its steps.                    *)
(***************************************************************************)
EXTENDS ClientTelemetry, GatewayTelemetry

CONSTANTS
  MaxFaults,  \* bound on lost datagrams, copies, restarts and broken links
  MaxChanges  \* bound on the times a feature changes its value

ASSUME TelemetryAssumption == Known = Features /\ Readings = Values

VARIABLES
  regAnswer,  \* a registration was accepted and the client will hear of it
  faults, changes

vars == <<telemetryVars, deviceVars, linkVars, cloudVars, regAnswer, faults, changes>>
gatewayVars == <<deviceVars, linkVars, cloudVars>>

TypeOK ==
  /\ TelemetryTypeOK
  /\ GatewayTelemetryTypeOK
  /\ regAnswer \in BOOLEAN
  /\ faults \in 0 .. MaxFaults /\ changes \in 0 .. MaxChanges

Init ==
  /\ TelemetryInit
  /\ GatewayTelemetryInit
  /\ regAnswer = FALSE /\ faults = 0 /\ changes = 0

Fault == faults < MaxFaults /\ faults' = faults + 1
NoFault == UNCHANGED faults

-----------------------------------------------------------------------------
(* The gateway takes a registration; its answer reaches the client, or is  *)
(* lost, or a copy of the request follows.                                 *)
GatewayRegisters ==
  /\ ~registered /\ ~regAnswer
  /\ registerNow
  /\ \/ regAnswer' = TRUE /\ NoFault
     \/ UNCHANGED regAnswer /\ Fault
  /\ UNCHANGED <<telemetryVars, changes>>

ClientRegistered ==
  /\ regAnswer /\ regAnswer' = FALSE
  /\ Registered
  /\ UNCHANGED <<gatewayVars, faults, changes>>

(* The client gives its registration up: the gateway refused a keep-alive, *)
(* or several were lost.                                                   *)
ClientGivesUp ==
  /\ Deregistered
  /\ IF registered_ THEN Fault ELSE NoFault
  /\ UNCHANGED <<gatewayVars, regAnswer, changes>>

GatewayGivesUp ==
  /\ keepAliveExpired
  /\ Fault
  /\ UNCHANGED <<telemetryVars, regAnswer, changes>>

-----------------------------------------------------------------------------
(* A request at the gateway: answered, or, with a fault, handled while its *)
(* answer is lost or a copy of it follows.                                 *)
GatewayFeature(f, p) ==
  /\ p.at = "sent"
  /\ \E status \in {"OK", "NOT_FOUND"} :
       /\ featureCallback(f, p.val, status)
       /\ \/ pushes' = MovedPush(f, p, status) /\ NoFault
          \/ UNCHANGED pushes /\ Fault
  /\ UNCHANGED <<registered, value, push_id, threshold_id, regAnswer, changes>>

LoseFeature(f, p) ==
  /\ p.at = "sent"
  /\ pushes' = MovedPush(f, p, "lost")
  /\ Fault
  /\ UNCHANGED <<registered, value, push_id, threshold_id, gatewayVars, regAnswer, changes>>

ClientCallback(f, p) ==
  telemetry_callback(f, p) /\ UNCHANGED <<gatewayVars, regAnswer, faults, changes>>

PushAlarm(f) == push_alert_alarm_cb(f) /\ UNCHANGED <<gatewayVars, regAnswer, faults, changes>>
ThresholdAlarm(f) ==
  threshold_alert_alarm_cb(f) /\ UNCHANGED <<gatewayVars, regAnswer, faults, changes>>

(* The alerts on their way to the client.                                  *)
ClientAlert(a) ==
  /\ "sent" \in DOMAIN alertRequests[a]
  /\ \/ a[1] = "push" /\ atlas_push_alert_cb(a[2])
     \/ a[1] = "threshold" /\ atlas_threshold_alert_cb(a[2])
  /\ \/ alertRequests' = MovedAlert(a, "sent", "OK") /\ NoFault
     \/ UNCHANGED alertRequests /\ Fault
  /\ UNCHANGED <<registered_, telemetryInfo_, linkVars, cloudVars, regAnswer, changes>>

LoseAlert(a) ==
  /\ "sent" \in DOMAIN alertRequests[a]
  /\ alertRequests' = MovedAlert(a, "sent", "lost")
  /\ Fault
  /\ UNCHANGED <<telemetryVars, registered_, telemetryInfo_, linkVars, cloudVars,
                 regAnswer, changes>>

AlertCallback(a) ==
  /\ \E at \in DOMAIN alertRequests[a] : respCallback(a, at)
  /\ UNCHANGED <<telemetryVars, regAnswer, faults, changes>>

-----------------------------------------------------------------------------
Measure(f) ==
  /\ Kind[f] \notin {"hostname", "kern_info"}
  /\ changes < MaxChanges /\ changes' = changes + 1
  /\ \E v \in Values \ {value[f]} : value' = [value EXCEPT ![f] = v]
  /\ UNCHANGED <<registered, push_id, threshold_id, pushes, gatewayVars, regAnswer, faults>>

Dies ==
  ConnectionDies /\ Fault /\ UNCHANGED <<telemetryVars, regAnswer, changes>>
LinkStep ==
  /\ connection_lost \/ alarmCallback \/ onConnect \/ onDisconnect
       \/ keepaliveAlarmCb \/ syncAlarmCallback
  /\ UNCHANGED <<telemetryVars, regAnswer, faults, changes>>

(* All requests of a bag that are under way are lost.                      *)
LostPushes(b) ==
  LET lost(p) == IF p.at = "sent" THEN [p EXCEPT !.at = "lost"] ELSE p
  IN  BagOfAll(lost, b)
LostAlerts(b) ==
  LET lost(at) == IF at = "sent" THEN "lost" ELSE at
  IN  BagOfAll(lost, b)

(* With the client the answers and alerts on their way to it are lost.     *)
ClientRestarts ==
  /\ RestartTelemetry
  /\ regAnswer' = FALSE
  /\ alertRequests' = [a \in Alerts |-> LostAlerts(alertRequests[a])]
  /\ Fault
  /\ UNCHANGED <<registered_, telemetryInfo_, linkVars, cloudVars, changes>>

GatewayRestarts ==
  /\ RestartGateway
  /\ regAnswer' = FALSE
  /\ pushes' = [f \in Features |-> LostPushes(pushes[f])]
  /\ Fault
  /\ UNCHANGED <<registered, value, push_id, threshold_id, changes>>

Next ==
  \/ GatewayRegisters \/ ClientRegistered \/ ClientGivesUp \/ GatewayGivesUp
  \/ \E f \in Features : \E p \in DOMAIN pushes[f] :
       GatewayFeature(f, p) \/ LoseFeature(f, p) \/ ClientCallback(f, p)
  \/ \E f \in Features : PushAlarm(f) \/ ThresholdAlarm(f) \/ Measure(f)
  \/ \E a \in Alerts : ClientAlert(a) \/ LoseAlert(a) \/ AlertCallback(a)
  \/ Dies \/ LinkStep
  \/ ClientRestarts \/ GatewayRestarts

Spec == Init /\ [][Next]_vars

-----------------------------------------------------------------------------
(* While gateway and client both hold the client registered, an alert that *)
(* the gateway does not wait for any more is installed on the client,      *)
(* whatever was lost, answered twice or restarted before.  (Each           *)
(* registration installs all alerts again: registerCallback, pushAlerts.)  *)
AlertsInstalled ==
  (registered /\ registered_) =>
    \A a \in Alerts :
      \/ alertRequests[a] # EmptyBag
      \/ a[1] = "push" /\ a[2] \in push_id
      \/ a[1] = "threshold" /\ a[2] \in threshold_id

(* "Reset all telemetry features to default, the client should provide an  *)
(* update": a feature is not available at the gateway while both hold the  *)
(* client registered only as long as the client has still to send it, in a *)
(* request that is under way or will be repeated, or at the alarm of its   *)
(* alert.  (AtlasDevice::registerNow, atlas_telemetry_push_all and the     *)
(* retries of telemetry_callback.)                                         *)
UpdateOwed ==
  (registered /\ registered_) =>
    \A f \in Features : ~telemetryInfo_[f].set =>
      \/ \E p \in DOMAIN pushes[f] : p.at \in {"sent", "lost"}
      \/ f \in push_id
      \/ <<"push", f>> \in Alerts /\ alertRequests[<<"push", f>>] # EmptyBag

(* While the connection to the cloud holds, the gateway is registered      *)
(* there and has no synchronisation scheduled, the cloud has the features  *)
(* the gateway has: setFeature and registerNow tell it of every change,    *)
(* what could not be published is made up for by the synchronisation, and  *)
(* what was lost with the connection by the registration that follows.     *)
CloudInStep ==
  (connected = "up" /\ cloudRegistered /\ ~syncScheduled_) => cloudInfo = telemetryInfo_

(* A registered client waits for fewer requests of a feature only after    *)
(* one of them was answered: one that timed out is sent again, for the     *)
(* same feature.  "Try to send the request again" (telemetry_callback).    *)
SentAgain ==
  [][\A f \in Features :
       (registered /\ registered' /\ BagCardinality(pushes'[f]) < BagCardinality(pushes[f]))
       => \E p \in DOMAIN pushes[f] : p.at \in {"OK", "NOT_FOUND"} /\ p \notin DOMAIN pushes'[f]]_vars

(* Once faults and measurements are over, the cloud shows what every       *)
(* feature of the client measures, for good.                               *)
ReachesCloud ==
  <>[](registered /\ registered_ /\ \A f \in Features : cloudInfo[f] = Reading(value[f]))

(* Both loops run what is ready, alarms come round, and what is not lost   *)
(* arrives.  Strong where the bounds on requests hold a step up.           *)
Fairness ==
  /\ SF_vars(GatewayRegisters /\ NoFault) /\ SF_vars(ClientRegistered)
  /\ WF_vars(ClientGivesUp /\ NoFault)
  /\ \A f \in Features :
       /\ WF_vars((\E p \in DOMAIN pushes[f] : GatewayFeature(f, p)) /\ NoFault)
       /\ WF_vars(\E p \in DOMAIN pushes[f] : ClientCallback(f, p))
       /\ SF_vars(PushAlarm(f))
  /\ \A a \in Alerts :
       /\ WF_vars(ClientAlert(a) /\ NoFault)
       /\ WF_vars(AlertCallback(a))
  /\ WF_vars(connection_lost /\ LinkStep) /\ WF_vars(alarmCallback /\ LinkStep)
  /\ WF_vars(onConnect /\ LinkStep) /\ WF_vars(onDisconnect /\ LinkStep)
  /\ WF_vars(syncAlarmCallback /\ LinkStep)

FairSpec == Spec /\ Fairness
=============================================================================
