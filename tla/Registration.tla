----------------------------- MODULE Registration -----------------------------
(***************************************************************************)
(* One client and its gateway: registration, keep-alives on both sides and *)
(* the way of a firewall policy to the gateway.  Devices do not influence  *)
(* each other here, so one client stands for each of them.  The broker's   *)
(* plug-in is not connected: what is written to it is FirewallRules'.      *)
(***************************************************************************)
EXTENDS GatewayDevices, ClientRegistration

CONSTANTS
  me,         \* the client's identity
  MaxChains,  \* bound on the data plane's part of policy retries at a time
  MaxFaults   \* bound on faults

ASSUME RegistrationAssumption ==
  /\ me \in Devices
  /\ ClientPolicies \subseteq Policies /\ NoClientPolicy = NoPolicy
  /\ MaxFaults \in Nat /\ MaxChains \in Nat

VARIABLES
  lead,    \* alarms of the gateway minus alarms of the client
  faults,  \* faults so far
  silent,  \* history: requests since the gateway last noted one
  stopped  \* history: the client was down since then

envVars == <<lead, faults, silent, stopped>>
vars == <<gatewayVars, clientVars, netVars, envVars>>

(* The two keep-alive alarms have the same period, so over any time their  *)
(* numbers differ by at most one; a registration restarts the client's.    *)
Leads == {-1, 0, 1}

TypeOK ==
  /\ GatewayTypeOK
  /\ ClientTypeOK
  /\ lead \in Leads
  /\ faults \in 0 .. MaxFaults
  /\ silent \in 0 .. ATLAS_KEEP_ALIVE_COUNTER
  /\ stopped \in BOOLEAN

Init ==
  /\ GatewayInit
  /\ ClientInit
  /\ lead = 0 /\ faults = 0 /\ silent = 0 /\ stopped = TRUE

Fault == faults < MaxFaults /\ faults' = faults + 1

-----------------------------------------------------------------------------
(* The gateway answers a request.  A refusal is 4.06.                      *)
Answer(m, status, token) ==
  responses' = responses \cup {[slot |-> m.slot, status |-> status, token |-> token]}

Refuse(m) == Answer(m, "NOT_FOUND", 0) /\ UNCHANGED <<gatewayVars, silent, stopped>>

Noted == silent' = 0 /\ stopped' = FALSE

RegisterCallback(m) ==
  /\ m.kind = "register"
  /\ RegisterNow(me)
  /\ Answer(m, "OK", 0)
  /\ Noted

KeepaliveCallback(m) ==
  /\ m.kind = "keepalive"
  /\ IF me \in registered_
     THEN KeepAliveNow(me) /\ Answer(m, "OK", m.token) /\ Noted
     ELSE Refuse(m)

FirewallPolicyCallback(m) ==
  /\ m.kind = "policy"
  /\ IF me \in registered_
     THEN AcceptPolicy(me, m.policy) /\ Answer(m, "OK", 0) /\ UNCHANGED <<silent, stopped>>
     ELSE Refuse(m)

GatewayCallback(m) ==
  /\ RegisterCallback(m) \/ KeepaliveCallback(m) \/ FirewallPolicyCallback(m)
  /\ UNCHANGED <<clientVars, lead>>

GatewayHandle(m) ==
  GatewayCallback(m) /\ requests' = requests \ {m} /\ UNCHANGED faults

(* The client repeats a datagram whose answer it has not seen; the gateway *)
(* does not recognise the copy.                                            *)
GatewayHandleCopy(m) == GatewayCallback(m) /\ UNCHANGED requests /\ Fault

(* What will make the client send its next registration or keep-alive.     *)
Drivers ==
  Cardinality(Outstanding("register")) + reg_alarms + Cardinality(ka_alarms)

(* While the client's alarm runs the gateway's keeps step with it, and     *)
(* while the client registers it sends a request every 10 s.  The gateway  *)
(* does not wait for a client that is down or has nothing left to do.      *)
GatewayAlarm ==
  /\ KeepaliveAlarmCallback
  /\ IF Drivers > 0 THEN lead + 1 \in Leads /\ lead' = lead + 1 ELSE UNCHANGED lead
  /\ UNCHANGED <<clientVars, netVars, faults, silent, stopped>>

GatewayRestart ==
  /\ RestartDevices
  /\ Fault
  /\ UNCHANGED <<clientVars, netVars, lead, silent, stopped>>

-----------------------------------------------------------------------------
(* silent counts the registrations and keep-alives sent or attempted.      *)
CountSent ==
  /\ silent' = IF \/ /\ \A e \in req_entry' \ req_entry : e.kind = "policy"
                     /\ unsent' \ unsent \subseteq {"policy"}
                  \/ silent = ATLAS_KEEP_ALIVE_COUNTER
               THEN silent ELSE silent + 1
  /\ UNCHANGED <<gatewayVars, stopped>>

(* A new keep-alive alarm starts its period.                               *)
RestartPeriod == lead' = IF ka_alarm_id' = ka_alarm_id THEN lead ELSE 0

ClientResponse(e) ==
  CoapResponse(e) /\ CountSent /\ RestartPeriod /\ UNCHANGED faults

(* A request times out.  With a datagram still under way, this stands for  *)
(* its loss: a fault.                                                      *)
ClientTimeout(e) ==
  /\ RequestTimeout(e)
  /\ CountSent /\ RestartPeriod
  /\ IF \/ e \in requests
        \/ \E r \in responses : r.slot = e.slot
     THEN Fault ELSE UNCHANGED faults

ClientRegAlarm == RegAlarm /\ CountSent /\ lead' = 0 /\ UNCHANGED faults

ClientKeepaliveAlarm ==
  /\ KeepaliveAlarm
  /\ lead - 1 \in Leads /\ lead' = lead - 1
  /\ CountSent
  /\ UNCHANGED faults

ClientPolicyAlarm == PolicyAlarm /\ CountSent /\ UNCHANGED <<lead, faults>>

(* Each call starts a chain of retries of its own.                         *)
DataPlanePolicy(p) ==
  /\ Cardinality(Outstanding("policy")) + policy_alarms < MaxChains
  /\ ParsePolicy(p)
  /\ CountSent
  /\ UNCHANGED <<lead, faults>>

ClientStops ==
  /\ ClientStop
  /\ Fault
  /\ stopped' = TRUE
  /\ UNCHANGED <<gatewayVars, lead, silent>>

ClientStarts == ClientStart /\ CountSent /\ lead' = 0 /\ UNCHANGED faults

Next ==
  \/ \E m \in requests : GatewayHandle(m) \/ GatewayHandleCopy(m)
  \/ GatewayAlarm
  \/ GatewayRestart
  \/ \E e \in req_entry : ClientResponse(e) \/ ClientTimeout(e)
  \/ ClientRegAlarm
  \/ ClientKeepaliveAlarm
  \/ ClientPolicyAlarm
  \/ \E p \in ClientPolicies : DataPlanePolicy(p)
  \/ ClientStops
  \/ ClientStarts

Spec == Init /\ [][Next]_vars

-----------------------------------------------------------------------------
(* A client that runs has exactly one thing that will make it send its     *)
(* next registration or keep-alive: a registration it waits for, the alarm *)
(* after a failed one, or the keep-alive alarm, and it has the alarm       *)
(* exactly while it is registered.  With none it would never be heard of   *)
(* again, with two it would send twice as much.  It is left with none only *)
(* by a registration that could not be sent, which nothing repeats.        *)
(* (atlas_register.c: keepalive_callback and reg_callback hand over from   *)
(* one to the other.)                                                      *)
OneDriver ==
  up => /\ Drivers = IF "register" \in unsent THEN 0 ELSE 1
        /\ registered <=> ka_alarms # {}

(* While both sides hold the client registered and the client has nothing  *)
(* left to send about its policy, the gateway has the policy the data      *)
(* plane asked for.  The gateway forgets the policy when it de-registers   *)
(* the device or restarts; the client sends it again only when reg_callback*)
(* finds that it was not registered.                                       *)
PolicyInForce ==
  (/\ registered /\ me \in registered_
   /\ active_policy # NoPolicy /\ "policy" \notin unsent
   /\ Outstanding("policy") = {} /\ policy_alarms = 0)
  => policy_[me] = active_policy

(* One missing keep-alive is not enough for the gateway to give a device   *)
(* up: when its alarm de-registers one, the client was down, or had fallen *)
(* silent for good with a registration it could not send, or at least two  *)
(* requests in a row had not reached the gateway, each of them not sent,   *)
(* lost or still under way.  (AtlasDevice::keepAliveExpired and the two    *)
(* alarms' periods.)                                                       *)
TwoMissedBeforeExpiry ==
  [][(me \in registered_ \ registered_' /\ faults' = faults)
     => stopped \/ "register" \in unsent \/ silent >= 2]_vars

(* A client that has lost ATLAS_CLIENT_KEEPALIVE_COUNT keep-alives in a    *)
(* row is no longer registered in its own eyes.                            *)
LostIsNoticed == registered => ka_lost < ATLAS_CLIENT_KEEPALIVE_COUNT

(* The cloud was told of the policy the gateway has for a device.          *)
CloudKnowsPolicy ==
  \A d \in Devices : policy_[d] # NoPolicy => cloudPolicy[d] = policy_[d]

(* Once the faults are over, client and gateway both hold the client       *)
(* registered for good, and the gateway has its policy.                    *)
Converges ==
  <>[](/\ registered /\ me \in registered_
       /\ active_policy \in {NoPolicy, policy_[me]})

(* The loops of both sides run what is ready; alarms come round again even *)
(* if the bounds of the model hold them up for a while; a device that is   *)
(* down is started again.  A timeout is fair only when nothing is under    *)
(* way any more: losses are faults.                                        *)
Fairness ==
  /\ \A m \in Requests : WF_vars(m \in requests /\ GatewayHandle(m))
  /\ \A e \in Requests : WF_vars(e \in req_entry /\ ClientResponse(e))
  /\ \A e \in Requests :
       WF_vars(e \in req_entry /\ ClientTimeout(e) /\ UNCHANGED faults)
  /\ SF_vars(ClientRegAlarm)
  /\ SF_vars(ClientKeepaliveAlarm)
  /\ SF_vars(ClientPolicyAlarm)
  /\ WF_vars(GatewayAlarm)
  /\ WF_vars(ClientStarts)

FairSpec == Spec /\ Fairness
=============================================================================
