---------------------------- MODULE GatewayDevices ----------------------------
(***************************************************************************)
(* The gateway's client devices: which are registered, their keep-alive    *)
(* counters, their firewall policies, and the rule commands written to the *)
(* firewall plug-in of the broker.  The gateway runs every handler on one  *)
(* scheduler thread.  An operator below is the part of a handler that      *)
(* works on one device; the module that composes the gateway with the      *)
(* other side turns it into an action.                                     *)
(***************************************************************************)
EXTENDS Naturals, Sequences, FiniteSets, Functions

CONSTANTS
  Devices,                   \* the identities of the client devices
  Policies,                  \* firewall policies: [qos, ppm, maxlen]
  NoPolicy,                  \* policy_ is null
  ATLAS_KEEP_ALIVE_COUNTER,  \* alarms without a keep-alive until a device goes
  MaxQueue                   \* bound on a direction of the plug-in's socket

ASSUME GatewayDevicesAssumption ==
  /\ NoPolicy \notin Policies
  /\ Policies \subseteq [qos : Nat, ppm : Nat, maxlen : Nat]
  /\ ATLAS_KEEP_ALIVE_COUNTER \in Nat \ {0}
  /\ MaxQueue \in Nat

VARIABLES
  registered_,       \* the devices that are registered
  kaCtr_,            \* device -> alarms left before it is de-registered
  policy_,           \* device -> its policy or NoPolicy
  cloudPolicy,       \* device -> the policy in the last update to the cloud
  connectedSocket_,  \* "null", "stale" (the other end is gone) or "open"
  toPlugin           \* rule commands in the socket, first in first out

deviceVars == <<registered_, kaCtr_, policy_, cloudPolicy>>
gatewayVars == <<deviceVars, connectedSocket_, toPlugin>>

Commands ==
       [cmd : {"install"}, id : Devices, policy : Policies]
  \cup [cmd : {"remove", "getstat"}, id : Devices]

GatewayTypeOK ==
  /\ registered_ \subseteq Devices
  /\ kaCtr_ \in [Devices -> 0 .. ATLAS_KEEP_ALIVE_COUNTER]
  /\ policy_ \in [Devices -> Policies \cup {NoPolicy}]
  /\ cloudPolicy \in [Devices -> Policies \cup {NoPolicy}]
  /\ connectedSocket_ \in {"null", "stale", "open"}
  /\ toPlugin \in Seq(Commands)
  /\ Len(toPlugin) <= MaxQueue

GatewayInit ==
  /\ registered_ = {}
  /\ kaCtr_ = [d \in Devices |-> 0]
  /\ policy_ = [d \in Devices |-> NoPolicy]
  /\ cloudPolicy = [d \in Devices |-> NoPolicy]
  /\ connectedSocket_ = "null"
  /\ toPlugin = <<>>

-----------------------------------------------------------------------------
(* AtlasPubSubAgent::write: without a connection the command is dropped,   *)
(* and what is written to a connection the plug-in has left is lost.       *)
Write(cmds) ==
  IF connectedSocket_ = "open"
  THEN /\ Len(toPlugin) + Len(cmds) <= MaxQueue
       /\ toPlugin' = toPlugin \o cmds
  ELSE UNCHANGED toPlugin

InstallRule(d, p) == [cmd |-> "install", id |-> d, policy |-> p]
RemoveRule(d) == [cmd |-> "remove", id |-> d]

(* AtlasDevice::registerNow.  The update to the cloud carries all that is  *)
(* known of the device, the policy only if there is one.                   *)
RegisterNow(d) ==
  /\ registered_' = registered_ \cup {d}
  /\ kaCtr_' = [kaCtr_ EXCEPT ![d] = ATLAS_KEEP_ALIVE_COUNTER]
  /\ cloudPolicy' = IF policy_[d] = NoPolicy
                    THEN cloudPolicy
                    ELSE [cloudPolicy EXCEPT ![d] = policy_[d]]
  /\ UNCHANGED <<policy_, connectedSocket_, toPlugin>>

(* Seeded fault: the keep-alive is recorded but does not refill the counter. *)
KeepAliveNowNoRefill(d) == UNCHANGED gatewayVars

(* AtlasDevice::keepAliveNow                                               *)
KeepAliveNow(d) ==
  /\ kaCtr_' = [kaCtr_ EXCEPT ![d] = ATLAS_KEEP_ALIVE_COUNTER]
  /\ UNCHANGED <<registered_, policy_, cloudPolicy, connectedSocket_, toPlugin>>

(* AtlasRegister::keepaliveAlarmCallback: keepAliveExpired of every        *)
(* registered device.  A device whose counter reaches 0 is de-registered   *)
(* and its policy uninstalled; the map of devices has no fixed order.      *)
KeepaliveAlarmCallback ==
  LET expired == {d \in registered_ : kaCtr_[d] = 1}
      uninstalled == {d \in expired : policy_[d] # NoPolicy}
  IN  /\ kaCtr_' = [d \in Devices |->
                      IF d \in registered_ /\ kaCtr_[d] > 0 THEN kaCtr_[d] - 1
                                                            ELSE kaCtr_[d]]
      /\ registered_' = registered_ \ expired
      /\ policy_' = [d \in Devices |->
                       IF d \in uninstalled THEN NoPolicy ELSE policy_[d]]
      /\ \E order \in Bijection(1 .. Cardinality(uninstalled), uninstalled) :
           Write([i \in DOMAIN order |-> RemoveRule(order[i])])
      /\ UNCHANGED <<cloudPolicy, connectedSocket_>>

(* AtlasFirewallPolicy::operator==: the packet rates are assigned, not     *)
(* compared; the value of the assignment is true unless the new one is 0.  *)
PolicyEquals(old, new) ==
  /\ old.qos = new.qos
  /\ new.ppm # 0
  /\ old.maxlen = new.maxlen

(* AtlasDevice::setPolicyInfo, with what operator== leaves in the policy   *)
(* it is called on: either way the device has the new values.              *)
SetPolicyInfo(d, p) ==
  IF policy_[d] # NoPolicy /\ PolicyEquals(policy_[d], p)
  THEN /\ policy_' = [policy_ EXCEPT ![d].ppm = p.ppm]
       /\ UNCHANGED cloudPolicy
  ELSE /\ policy_' = [policy_ EXCEPT ![d] = p]
       /\ cloudPolicy' = [cloudPolicy EXCEPT ![d] = p]

(* Seeded fault: the rule is written before the new policy is kept.        *)
AcceptPolicyOld(d, p) ==
  /\ d \in registered_
  /\ SetPolicyInfo(d, p)
  /\ Write(IF policy_[d] = NoPolicy THEN <<>> ELSE <<InstallRule(d, policy_[d])>>)
  /\ UNCHANGED <<registered_, kaCtr_, connectedSocket_>>

(* AtlasPolicy::firewallPolicyCallback for a registered device: the policy *)
(* is kept and its rule written to the plug-in, whether it is new or not.  *)
AcceptPolicy(d, p) ==
  /\ d \in registered_
  /\ SetPolicyInfo(d, p)
  /\ Write(<<InstallRule(d, p)>>)
  /\ UNCHANGED <<registered_, kaCtr_, connectedSocket_>>

(* The gateway stops and starts again.  Neither registrations nor policies *)
(* are stored.                                                             *)
RestartDevices ==
  /\ registered_' = {}
  /\ kaCtr_' = [d \in Devices |-> 0]
  /\ policy_' = [d \in Devices |-> NoPolicy]
  /\ connectedSocket_' = "null"
  /\ UNCHANGED <<cloudPolicy, toPlugin>>
=============================================================================
