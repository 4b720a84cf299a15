----------------------------- MODULE BrokerFilter -----------------------------
(***************************************************************************)
(* The firewall plug-in of the MQTT broker (AtlasFilter).  The broker's    *)
(* thread calls filter() for each packet; the plug-in's own thread reads   *)
(* the gateway's commands, starts a rate window every minute, and connects *)
(* again when the gateway goes.  Both hold mutex_ for the whole of a step  *)
(* below.  The commands come from GatewayDevices.                          *)
(***************************************************************************)
EXTENDS GatewayDevices

CONSTANTS
  Packets,        \* packets the broker routes: [src, dst, qos, len]
  NoRule,         \* a client has no entry in rules_
  NoStats,        \* a client has no entry in txPktStats_
  Uninitialised   \* what a default-constructed AtlasPacketPolicer may hold

ASSUME BrokerFilterAssumption ==
  \A p \in Packets : p.dst \in Devices /\ p.qos \in Nat /\ p.len \in Nat

VARIABLES
  rules_,       \* client -> its packet policer, or NoRule
  txPktStats_,  \* client -> what became of the packets it sent, or NoStats
  socket_,      \* the plug-in's end: none, backlog, accepted or closed
  backlog,      \* connections the gateway has not accepted: live or dead
  toGateway     \* what the gateway has not read of the accepted connection

filterVars == <<rules_, txPktStats_>>
linkVars == <<socket_, backlog, toGateway>>

Zero == [drop |-> 0, pass |-> 0]
Rule == [policy : Policies \cup {u.policy : u \in Uninitialised}, window : Nat, drop : Nat, pass : Nat]
Stats == [drop : Nat, pass : Nat]

FilterTypeOK ==
  /\ rules_ \in [Devices -> Rule \cup {NoRule}]
  /\ txPktStats_ \in [Devices -> Stats \cup {NoStats}]
  /\ socket_ \in {"none", "backlog", "accepted", "closed"}
  /\ \A i \in DOMAIN backlog : backlog[i] \in {"live", "dead"}

NoRules == [d \in Devices |-> NoRule]

FilterInit ==
  /\ rules_ = NoRules
  /\ txPktStats_ = [d \in Devices |-> NoStats]
  /\ socket_ = "none"
  /\ backlog = <<>>
  /\ toGateway = <<>>

-----------------------------------------------------------------------------
(* The broker's thread                                                     *)

(* AtlasPacketPolicer::filter: the packet is counted in the window first.  *)
Accepts(rule, pkt) ==
  /\ pkt.qos <= rule.policy.qos
  /\ pkt.len <= rule.policy.maxlen
  /\ rule.window + 1 <= rule.policy.ppm

Policed(rule, pkt) ==
  IF Accepts(rule, pkt)
  THEN [rule EXCEPT !.window = @ + 1, !.pass = @ + 1]
  ELSE [rule EXCEPT !.window = @ + 1, !.drop = @ + 1]

Passes(pkt) == rules_[pkt.dst] = NoRule \/ Accepts(rules_[pkt.dst], pkt)

Count(stats, passed) ==
  IF passed THEN [stats EXCEPT !.pass = @ + 1] ELSE [stats EXCEPT !.drop = @ + 1]

(* AtlasFilter::filter                                                     *)
Filter(pkt) ==
  /\ rules_' = IF rules_[pkt.dst] = NoRule
               THEN rules_
               ELSE [rules_ EXCEPT ![pkt.dst] = Policed(@, pkt)]
  /\ txPktStats_' = [d \in Devices |->
                       IF d = pkt.src /\ txPktStats_[d] # NoStats
                       THEN Count(txPktStats_[d], Passes(pkt))
                       ELSE txPktStats_[d]]

-----------------------------------------------------------------------------
(* The plug-in's thread                                                    *)

(* AtlasFilter::timerHandler: every rule starts a new window.              *)
TimerHandler ==
  /\ rules_' = [d \in Devices |->
                  IF rules_[d] = NoRule THEN NoRule
                                        ELSE [rules_[d] EXCEPT !.window = 0]]
  /\ UNCHANGED txPktStats_

InstallFirewallRule(d, p) ==
  /\ rules_' = [rules_ EXCEPT ![d] = [policy |-> p, window |-> 0, drop |-> 0, pass |-> 0]]
  /\ txPktStats_' = [txPktStats_ EXCEPT ![d] = Zero]
  /\ UNCHANGED toGateway

RemoveFirewallRule(d) ==
  /\ rules_' = [rules_ EXCEPT ![d] = NoRule]
  /\ txPktStats_' = [txPktStats_ EXCEPT ![d] = NoStats]
  /\ UNCHANGED toGateway

PutStat(d, rule, tx) == [cmd |-> "putstat", id |-> d, rule |-> rule, tx |-> tx]

(* AtlasFilter::writeFirewallStats: lost if the gateway's end is closed.   *)
WriteFirewallStats(stat) ==
  IF socket_ = "accepted"
  THEN /\ Len(toGateway) < MaxQueue
       /\ toGateway' = Append(toGateway, stat)
  ELSE UNCHANGED toGateway

(* Seeded fault: the counters are reported but not set to zero.            *)
GetFirewallRuleStatsKept(d) ==
  \E rule \in IF rules_[d] = NoRule THEN Uninitialised ELSE {rules_[d]} :
    LET tx == IF txPktStats_[d] = NoStats THEN Zero ELSE txPktStats_[d]
    IN  /\ rules_' = [rules_ EXCEPT ![d] = rule]
        /\ txPktStats_' = [txPktStats_ EXCEPT ![d] = tx]
        /\ WriteFirewallStats(PutStat(d, [drop |-> rule.drop, pass |-> rule.pass], tx))

(* AtlasFilter::getFirewallRuleStats.  rules_[clientId] creates a policer  *)
(* by its default constructor, which sets no field, if there is none.      *)
GetFirewallRuleStats(d) ==
  \E rule \in IF rules_[d] = NoRule THEN Uninitialised ELSE {rules_[d]} :
    LET tx == IF txPktStats_[d] = NoStats THEN Zero ELSE txPktStats_[d]
    IN  /\ rules_' = [rules_ EXCEPT ![d] = [rule EXCEPT !.drop = 0, !.pass = 0]]
        /\ txPktStats_' = [txPktStats_ EXCEPT ![d] = Zero]
        /\ WriteFirewallStats(PutStat(d, [drop |-> rule.drop, pass |-> rule.pass], tx))

(* AtlasFilter::processCommand for the next command in the socket.  What   *)
(* the gateway wrote before it closed its end can still be read.           *)
ProcessCommand ==
  /\ socket_ \in {"accepted", "closed"}
  /\ toPlugin # <<>>
  /\ LET c == Head(toPlugin)
     IN  \/ c.cmd = "install" /\ InstallFirewallRule(c.id, c.policy)
         \/ c.cmd = "remove" /\ RemoveFirewallRule(c.id)
         \/ c.cmd = "getstat" /\ GetFirewallRuleStats(c.id)
  /\ toPlugin' = Tail(toPlugin)
  /\ UNCHANGED <<socket_, backlog>>

(* Seeded fault: the rules of the connection that broke stay in force.     *)
HandleReadErrorKeepRules ==
  /\ socket_ = "closed"
  /\ toPlugin = <<>>
  /\ socket_' = "none"
  /\ UNCHANGED <<rules_, txPktStats_, backlog, toGateway, toPlugin>>

(* AtlasFilter::handleRead with an error, up to the loop of gatewayConnect *)
(* which holds the thread until a connection is made.                      *)
HandleReadError ==
  /\ socket_ = "closed"
  /\ toPlugin = <<>>
  /\ rules_' = NoRules
  /\ socket_' = "none"
  /\ UNCHANGED <<txPktStats_, backlog, toGateway, toPlugin>>

(* The connect() of gatewayConnect that succeeds.  The request for all     *)
(* rules is written with it; it reaches the gateway when it accepts.       *)
GatewayConnect ==
  /\ socket_ = "none"
  /\ socket_' = "backlog"
  /\ backlog' = Append(backlog, "live")
  /\ UNCHANGED <<rules_, txPktStats_, toGateway, toPlugin>>

(* The broker stops and is started again with the plug-in.                 *)
RestartBroker ==
  /\ rules_' = NoRules
  /\ txPktStats_' = [d \in Devices |-> NoStats]
  /\ socket_' = "none"
  /\ backlog' = [i \in DOMAIN backlog |-> "dead"]
  /\ connectedSocket_' = IF socket_ = "accepted" THEN "stale" ELSE connectedSocket_
  /\ toPlugin' = <<>>
  /\ UNCHANGED toGateway
=============================================================================
