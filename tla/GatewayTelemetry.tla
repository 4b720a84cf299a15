--------------------------- MODULE GatewayTelemetry ---------------------------
(***************************************************************************)
(* The gateway's side of one device's telemetry: the last value of each    *)
(* feature, the alerts it installs on the device, and the copy of the      *)
(* features it keeps up to date in the cloud over MQTT.                    *)
(*                                                                         *)
(* MQTT delivers in order, so an update published on a connection that     *)
(* holds is the cloud's at once, and one published on a connection that is *)
(* dead but not yet found so is lost.                                      *)
(***************************************************************************)
EXTENDS Naturals, Sequences, FiniteSets, Bags, BagsExt

CONSTANTS
  Known,           \* the features of AtlasTelemetryInfo
  Readings,        \* the values they may have
  PushFeatures,    \* those installDefaultAlerts installs a push alert for
  ThresholdFeatures,
  MaxAlerts,       \* bound on the requests of one alert at a time
  MaxPosted        \* bound on the callbacks posted by the MQTT client

(* "N/A" is no number.                                                     *)
NA == [set |-> FALSE, val |-> 0]
Reading(v) == [set |-> TRUE, val |-> v]

ASSUME GatewayTelemetryAssumption ==
  PushFeatures \subseteq Known /\ ThresholdFeatures \subseteq Known

VARIABLES
  registered_,     \* AtlasDevice::registered_
  telemetryInfo_,
  alertRequests,   \* alertRequests[a]: the requests of alert a it waits for
  connected,       \* "up", "dead" (and not yet found so) or "down"
  posted,          \* connection callbacks posted and not yet run
  reconnect,       \* the reconnect alarm is set
  cloudRegistered, \* AtlasRegisterCloud::registered_
  syncScheduled_,
  syncAlarm_,      \* it was started: it comes round for good
  cloudInfo        \* the cloud's copy of the features

deviceVars == <<registered_, telemetryInfo_, alertRequests>>
linkVars == <<connected, posted, reconnect>>
cloudVars == <<cloudRegistered, syncScheduled_, syncAlarm_, cloudInfo>>

Info == [Known -> {NA} \cup {Reading(v) : v \in Readings}]
Cleared == [f \in Known |-> NA]

(* installDefaultAlerts: the alerts of a device.                           *)
PushAlerts == {<<"push", f>> : f \in PushFeatures}
ThresholdAlerts == {<<"threshold", f>> : f \in ThresholdFeatures}
Alerts == PushAlerts \cup ThresholdAlerts

GatewayTelemetryTypeOK ==
  /\ registered_ \in BOOLEAN
  /\ telemetryInfo_ \in Info
  /\ \A a \in Alerts : IsABag(alertRequests[a])
                      /\ DOMAIN alertRequests[a] \subseteq {"sent", "lost", "OK"}
  /\ connected \in {"up", "dead", "down"}
  /\ posted \in UNION {[1 .. n -> {"connect", "disconnect"}] : n \in 0 .. MaxPosted}
  /\ reconnect \in BOOLEAN /\ cloudRegistered \in BOOLEAN
  /\ syncScheduled_ \in BOOLEAN /\ syncAlarm_ \in BOOLEAN
  /\ cloudInfo \in Info

GatewayTelemetryInit ==
  /\ registered_ = FALSE /\ telemetryInfo_ = Cleared
  /\ alertRequests = [a \in Alerts |-> EmptyBag]
  /\ connected = "up" /\ posted = <<"connect">> /\ reconnect = FALSE
  /\ cloudRegistered = FALSE /\ syncScheduled_ = FALSE /\ syncAlarm_ = FALSE
  /\ cloudInfo = Cleared

-----------------------------------------------------------------------------
(* The cloud's copy after it is told of the features fs of info.           *)
Told(fs, info) == [f \in Known |-> IF f \in fs THEN info[f] ELSE cloudInfo[f]]

(* AtlasDeviceCloud::updateDevice with the features fs of the device.      *)
updateDevice(fs, info) ==
  /\ cloudInfo' = IF cloudRegistered /\ connected = "up" THEN Told(fs, info) ELSE cloudInfo
  /\ IF cloudRegistered /\ connected = "down"
     THEN syncScheduled_' = TRUE /\ syncAlarm_' = TRUE
     ELSE UNCHANGED <<syncScheduled_, syncAlarm_>>

-----------------------------------------------------------------------------
(* AtlasAlert::push for the alerts in as, beside the requests of kept.     *)
push(kept, as) ==
  /\ \A a \in as : BagCardinality(kept[a]) < MaxAlerts
  /\ alertRequests' = [a \in Alerts |-> IF a \in as THEN BagAdd(kept[a], "sent") ELSE kept[a]]

pushAlerts == push(alertRequests, Alerts)

(* registerCallback: AtlasDevice::registerNow, then pushAlerts.            *)
registerNow ==
  /\ registered_' = TRUE
  /\ telemetryInfo_' = Cleared
  /\ updateDevice(Known, Cleared)
  /\ pushAlerts
  /\ UNCHANGED <<cloudRegistered, linkVars>>

(* AtlasDevice::keepAliveExpired, when it gives the device up.             *)
keepAliveExpired ==
  /\ registered_ /\ registered_' = FALSE
  /\ updateDevice({}, telemetryInfo_)
  /\ UNCHANGED <<telemetryInfo_, alertRequests, cloudRegistered, linkVars>>

(* AtlasDevice::setFeature.                                                *)
setFeature(f, v) ==
  /\ telemetryInfo_' = [telemetryInfo_ EXCEPT ![f] = Reading(v)]
  /\ IF telemetryInfo_[f] # Reading(v)
     THEN updateDevice({f}, telemetryInfo_') /\ UNCHANGED cloudRegistered
     ELSE UNCHANGED cloudVars
  /\ UNCHANGED <<registered_, alertRequests, linkVars>>

(* AtlasTelemetry::featureCallback, for a well-formed request; status is   *)
(* the answer.                                                             *)
featureCallback(f, v, status) ==
  IF registered_ THEN setFeature(f, v) /\ status = "OK"
                 ELSE status = "NOT_FOUND" /\ UNCHANGED <<deviceVars, cloudVars, linkVars>>

(* A request of alert a is answered, or takes another state on its way.    *)
WithoutAlert(a, at) == [alertRequests EXCEPT ![a] = BagRemove(@, at)]
MovedAlert(a, at, new) == [alertRequests EXCEPT ![a] = BagAdd(BagRemove(@, at), new)]

(* Seeded fault: an alert is not sent again.                               *)
respCallbackOnce(a, at) ==
  /\ at # "sent"
  /\ alertRequests' = WithoutAlert(a, at)
  /\ UNCHANGED <<registered_, telemetryInfo_, cloudVars, linkVars>>

(* AtlasAlert::respCallback, with the answer to a request of a or its      *)
(* timeout.                                                                *)
respCallback(a, at) ==
  /\ at # "sent"
  /\ IF at = "lost" /\ registered_
     THEN push(WithoutAlert(a, at), {a})
     ELSE alertRequests' = WithoutAlert(a, at)
  /\ UNCHANGED <<registered_, telemetryInfo_, cloudVars, linkVars>>

-----------------------------------------------------------------------------
(* The connection to the cloud.  It dies, the MQTT client finds out, and   *)
(* each time posts a callback to the gateway's loop.                       *)
ConnectionDies == connected = "up" /\ connected' = "dead"
                  /\ UNCHANGED <<posted, reconnect, deviceVars, cloudVars>>

connection_lost ==
  /\ connected = "dead" /\ connected' = "down"
  /\ Len(posted) < MaxPosted /\ posted' = Append(posted, "disconnect")
  /\ UNCHANGED <<reconnect, deviceVars, cloudVars>>

alarmCallback ==
  /\ reconnect /\ reconnect' = FALSE
  /\ Len(posted) < MaxPosted
  /\ connected' = "up" /\ posted' = Append(posted, "connect")
  /\ UNCHANGED <<deviceVars, cloudVars>>

(* onConnect: the gateway registers and tells the cloud everything.        *)
onConnect ==
  /\ posted # <<>> /\ Head(posted) = "connect"
  /\ posted' = Tail(posted)
  /\ IF ~cloudRegistered /\ connected # "down"
     THEN /\ cloudRegistered' = TRUE
          /\ cloudInfo' = IF connected = "up" THEN telemetryInfo_ ELSE cloudInfo
     ELSE UNCHANGED <<cloudRegistered, cloudInfo>>
  /\ UNCHANGED <<connected, reconnect, deviceVars, syncScheduled_, syncAlarm_>>

(* Seeded fault: the registration is kept.                                 *)
onDisconnectKeep ==
  /\ posted # <<>> /\ Head(posted) = "disconnect"
  /\ posted' = Tail(posted) /\ reconnect' = TRUE
  /\ UNCHANGED <<connected, deviceVars, cloudVars>>

onDisconnect ==
  /\ posted # <<>> /\ Head(posted) = "disconnect"
  /\ posted' = Tail(posted) /\ reconnect' = TRUE
  /\ cloudRegistered' = FALSE
  /\ UNCHANGED <<connected, deviceVars, syncScheduled_, syncAlarm_, cloudInfo>>

(* The cloud keep-alive's alarm registers a gateway that is not.           *)
keepaliveAlarmCb ==
  /\ ~cloudRegistered /\ connected # "down"
  /\ cloudRegistered' = TRUE
  /\ cloudInfo' = IF connected = "up" THEN telemetryInfo_ ELSE cloudInfo
  /\ UNCHANGED <<linkVars, deviceVars, syncScheduled_, syncAlarm_>>

syncAlarmCallback ==
  /\ syncAlarm_
  /\ syncScheduled_' = (cloudRegistered /\ connected = "down")
  /\ cloudInfo' = IF cloudRegistered /\ connected = "up" THEN telemetryInfo_ ELSE cloudInfo
  /\ UNCHANGED <<linkVars, deviceVars, cloudRegistered, syncAlarm_>>

(* The gateway starts again; the connection with it.                       *)
RestartGateway ==
  /\ registered_' = FALSE /\ telemetryInfo_' = Cleared
  /\ alertRequests' = [a \in Alerts |-> EmptyBag]
  /\ connected' = "up" /\ posted' = <<"connect">> /\ reconnect' = FALSE
  /\ cloudRegistered' = FALSE /\ syncScheduled_' = FALSE /\ syncAlarm_' = FALSE
  /\ UNCHANGED cloudInfo
=============================================================================
