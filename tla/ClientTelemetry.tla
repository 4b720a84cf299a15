--------------------------- MODULE ClientTelemetry ---------------------------
(***************************************************************************)
(* The client's telemetry: the list of features, the alarms that push them *)
(* and the requests that carry their values to the gateway.  The client is *)
(* one thread in a select loop, so a callback with all it calls is one     *)
(* step.                                                                   *)
(*                                                                         *)
(* A request stays in the bag pushes[f] while the client waits for it.     *)
(* Its "at" says how far it is: sent, lost, or answered OK or NOT_FOUND.   *)
(***************************************************************************)
EXTENDS Naturals, Sequences, FiniteSets, SequencesExt, Bags, BagsExt

CONSTANTS
  FeatureList,  \* features_, in the order of atlas_telemetry_features_init
  Kind,         \* Kind[f]: which payload callback f has
  Occurs,       \* pairs <<f, g>>: the path of g occurs in the path of f
  Values,       \* what a feature may measure, a set of numbers
  Threshold,    \* procs_threshold, as the gateway sets it
  MaxPushes     \* MaxPushes[f]: bound on the requests of f at a time

Features == Range(FeatureList)
Kinds == {"hostname", "kern_info", "uptime", "ram", "swap", "procs", "load", "packets"}
Absent == [val |-> 0, empty |-> TRUE]
Carries(v) == [val |-> v, empty |-> FALSE]

ASSUME ClientTelemetryAssumption ==
  /\ Kind \in [Features -> Kinds]
  /\ Occurs \subseteq Features \X Features
  /\ \A f \in Features : <<f, f>> \in Occurs
  /\ Values \subseteq Nat /\ Threshold \in Nat
  /\ MaxPushes \in [Features -> Nat]

VARIABLES
  registered,   \* atlas_is_registered()
  value,        \* value[f]: what f measures now
  push_id,      \* the features with a push alarm
  threshold_id, \* the features with a threshold alarm
  pushes        \* pushes[f]: the requests for f the client waits for

telemetryVars == <<registered, value, push_id, threshold_id, pushes>>

Pushes == [val : Values, at : {"sent", "lost", "OK", "NOT_FOUND"}]

TelemetryTypeOK ==
  /\ registered \in BOOLEAN
  /\ value \in [Features -> Values]
  /\ push_id \subseteq Features /\ threshold_id \subseteq Features
  /\ \A f \in Features : IsABag(pushes[f]) /\ DOMAIN pushes[f] \subseteq Pushes

TelemetryInit ==
  /\ registered = FALSE
  /\ value = [f \in Features |-> CHOOSE v \in Values : \A w \in Values : v <= w]
  /\ push_id = {} /\ threshold_id = {} /\ pushes = [f \in Features |-> EmptyBag]

-----------------------------------------------------------------------------
(* The payload callbacks.  A feature without thresholds has no payload for *)
(* a threshold scan; the packet features do not look.                      *)
NotScanned(v, use_threshold) == IF use_threshold THEN Absent ELSE Carries(v)

payload_hostname(v, use_threshold) == NotScanned(v, use_threshold)
payload_kern_info(v, use_threshold) == NotScanned(v, use_threshold)
payload_uptime(v, use_threshold) == NotScanned(v, use_threshold)
payload_ram(v, use_threshold) == NotScanned(v, use_threshold)
payload_swap(v, use_threshold) == NotScanned(v, use_threshold)
payload_load(v, use_threshold) == NotScanned(v, use_threshold)
payload_packets(v, use_threshold) == Carries(v)
payload_procs(v, use_threshold) ==
  IF use_threshold /\ v < Threshold THEN Absent ELSE Carries(v)

payload_cb(f, use_threshold) ==
  CASE Kind[f] = "hostname"  -> payload_hostname(value[f], use_threshold)
    [] Kind[f] = "kern_info" -> payload_kern_info(value[f], use_threshold)
    [] Kind[f] = "uptime"    -> payload_uptime(value[f], use_threshold)
    [] Kind[f] = "ram"       -> payload_ram(value[f], use_threshold)
    [] Kind[f] = "swap"      -> payload_swap(value[f], use_threshold)
    [] Kind[f] = "load"      -> payload_load(value[f], use_threshold)
    [] Kind[f] = "packets"   -> payload_packets(value[f], use_threshold)
    [] Kind[f] = "procs"     -> payload_procs(value[f], use_threshold)

(* atlas_telemetry_push, beside the requests of kept.                      *)
atlas_telemetry_push(kept, f, use_threshold) ==
  LET payload == payload_cb(f, use_threshold)
  IN  IF ~registered \/ payload.empty
      THEN pushes' = kept
      ELSE /\ BagCardinality(kept[f]) < MaxPushes[f]
           /\ pushes' = [kept EXCEPT ![f] = BagAdd(@, [val |-> payload.val, at |-> "sent"])]

(* atlas_telemetry_push_all, once reg_callback has set registered.         *)
atlas_telemetry_push_all ==
  /\ \A f \in Features : BagCardinality(pushes[f]) < MaxPushes[f]
  /\ pushes' = [f \in Features |-> BagAdd(pushes[f], [val |-> value[f], at |-> "sent"])]

-----------------------------------------------------------------------------
(* Seeded fault: the alarm is not found among those of the features.       *)
push_alert_alarm_cbNone(f) ==
  f \in push_id /\ UNCHANGED telemetryVars

(* The two alarms.                                                         *)
push_alert_alarm_cb(f) ==
  /\ f \in push_id
  /\ atlas_telemetry_push(pushes, f, FALSE)
  /\ UNCHANGED <<registered, value, push_id, threshold_id>>

threshold_alert_alarm_cb(f) ==
  /\ f \in threshold_id
  /\ atlas_telemetry_push(pushes, f, TRUE)
  /\ UNCHANGED <<registered, value, push_id, threshold_id>>

(* The feature a request that timed out is sent again for: the first of    *)
(* the list whose path occurs in the URI.                                  *)
Retried(f) ==
  FeatureList[CHOOSE i \in DOMAIN FeatureList :
                /\ <<f, FeatureList[i]>> \in Occurs
                /\ \A j \in 1 .. i - 1 : <<f, FeatureList[j]>> \notin Occurs]

(* Request p of f is answered, or takes another state on its way.          *)
WithoutPush(f, p) == [pushes EXCEPT ![f] = BagRemove(@, p)]
MovedPush(f, p, at) == [pushes EXCEPT ![f] = BagAdd(BagRemove(@, p), [p EXCEPT !.at = at])]

(* Seeded fault: a request is not repeated.                                *)
telemetry_callbackOnce(f, p) ==
  /\ p.at # "sent"
  /\ pushes' = WithoutPush(f, p)
  /\ UNCHANGED <<registered, value, push_id, threshold_id>>

(* telemetry_callback, with the answer to p or its timeout.                *)
telemetry_callback(f, p) ==
  /\ p.at # "sent"
  /\ IF p.at = "lost"
     THEN atlas_telemetry_push(WithoutPush(f, p), Retried(f), FALSE)
     ELSE pushes' = WithoutPush(f, p)
  /\ UNCHANGED <<registered, value, push_id, threshold_id>>

-----------------------------------------------------------------------------
(* The end-points of the alerts.  The gateway asks for rates above zero    *)
(* and for a threshold that is a number, so nothing is refused.            *)
atlas_telemetry_push_set(f) == push_id' = push_id \cup {f}
atlas_telemetry_threshold_set(f) == threshold_id' = threshold_id \cup {f}

atlas_push_alert_cb(f) ==
  /\ atlas_telemetry_push_set(f)
  /\ UNCHANGED <<registered, value, threshold_id, pushes>>

atlas_threshold_alert_cb(f) ==
  /\ atlas_telemetry_threshold_set(f)
  /\ UNCHANGED <<registered, value, push_id, pushes>>

(* reg_callback's part: it reports all features.                           *)
Registered ==
  /\ registered' = TRUE
  /\ atlas_telemetry_push_all
  /\ UNCHANGED <<value, push_id, threshold_id>>

(* keepalive_callback's part when it gives the registration up.            *)
Deregistered ==
  /\ registered /\ registered' = FALSE
  /\ UNCHANGED <<value, push_id, threshold_id, pushes>>

(* The client starts again.                                                *)
RestartTelemetry ==
  /\ registered' = FALSE
  /\ push_id' = {} /\ threshold_id' = {}
  /\ pushes' = [f \in Features |-> EmptyBag]
  /\ UNCHANGED value
=============================================================================
