---------------------------- MODULE FirewallRules ----------------------------
(***************************************************************************)
(* The gateway and the broker's firewall plug-in over their local socket:  *)
(* policies become rules, packets are policed, and the counters come back  *)
(* as statistics.  Gateway and broker restart independently.               *)
(***************************************************************************)
EXTENDS BrokerFilter, SequencesExt

CONSTANTS
  SqlWritesFail,  \* whether a statement that stores statistics may fail
  MaxPackets,     \* bound: packets routed
  MaxRestarts     \* bound: restarts of the gateway and of the broker

VARIABLES
  stats_,    \* device -> totals in memory: [rule, tx]
  statRow,   \* device -> its row in FirewallStatistics: [rule, tx] or NoStats
  answered,  \* the gateway has answered the request for all rules
  sent,      \* history: client -> what became of the packets it sent
  received,  \* history: client -> what became of the packets for it
  restarts   \* restarts so far

storeVars == <<stats_, statRow>>
historyVars == <<sent, received>>
vars == <<deviceVars, connectedSocket_, toPlugin, filterVars, linkVars,
          storeVars, answered, historyVars, restarts>>

NoTotals == [rule |-> Zero, tx |-> Zero]
Totals == [rule : Stats, tx : Stats]
GetAll == [cmd |-> "getall"]

(* Packets routed so far, for the bound.                                   *)
Routed == FoldLeft(LAMBDA n, d : n + received[d].pass + received[d].drop,
                   0, SetToSeq(Devices))

TypeOK ==
  /\ GatewayTypeOK
  /\ FilterTypeOK
  /\ stats_ \in [Devices -> Totals]
  /\ statRow \in [Devices -> Totals \cup {NoStats}]
  /\ answered \in BOOLEAN
  /\ sent \in [Devices -> Stats] /\ received \in [Devices -> Stats]
  /\ restarts \in 0 .. MaxRestarts

(* AtlasDeviceManager::initSystemStatistics for every device: its row is   *)
(* loaded, or inserted.  The code does so when a device is first used.     *)
LoadStats(rows) ==
  \E fails \in IF SqlWritesFail THEN SUBSET Devices ELSE {{}} :
    /\ statRow' = [d \in Devices |->
                     IF rows[d] = NoStats /\ d \notin fails THEN NoTotals ELSE rows[d]]
    /\ stats_' = [d \in Devices |-> IF rows[d] = NoStats THEN NoTotals ELSE rows[d]]

Init ==
  /\ GatewayInit
  /\ FilterInit
  /\ stats_ = [d \in Devices |-> NoTotals]
  /\ statRow \in {[d \in Devices |-> IF d \in fails THEN NoStats ELSE NoTotals] :
                    fails \in IF SqlWritesFail THEN SUBSET Devices ELSE {{}}}
  /\ answered = FALSE
  /\ sent = [d \in Devices |-> Zero]
  /\ received = [d \in Devices |-> Zero]
  /\ restarts = 0

-----------------------------------------------------------------------------
(* Gateway                                                                 *)

DeviceAction(A) ==
  /\ A
  /\ UNCHANGED <<filterVars, linkVars, storeVars, answered, historyVars, restarts>>

Register(d) == DeviceAction(RegisterNow(d))
KeepAlive(d) == d \in registered_ /\ DeviceAction(KeepAliveNow(d))
KeepaliveAlarm == DeviceAction(KeepaliveAlarmCallback)
Policy(d, p) == DeviceAction(AcceptPolicy(d, p))

WithPolicy == {d \in Devices : policy_[d] # NoPolicy}

(* AtlasPubSubAgent::handleAccept: the connection replaces the one before, *)
(* and whatever that one still held.                                       *)
HandleAccept ==
  /\ backlog # <<>>
  /\ backlog' = Tail(backlog)
  /\ IF Head(backlog) = "live"
     THEN socket_' = "accepted" /\ connectedSocket_' = "open"
     ELSE connectedSocket_' = "stale" /\ UNCHANGED socket_
  /\ toGateway' = <<GetAll>>
  /\ answered' = FALSE
  /\ UNCHANGED <<deviceVars, toPlugin, filterVars, storeVars, historyVars, restarts>>

(* AtlasDeviceManager::installAllPolicies                                  *)
InstallAllPolicies ==
  \E order \in SetToSeqs(WithPolicy) :
    Write([i \in DOMAIN order |-> InstallRule(order[i], policy_[order[i]])])

GetAllFirewallRules ==
  /\ InstallAllPolicies
  /\ answered' = TRUE
  /\ UNCHANGED storeVars

Plus(a, b) == [drop |-> a.drop + b.drop, pass |-> a.pass + b.pass]

(* AtlasDeviceManager::updateFirewallStats.  The row is given the totals;  *)
(* an UPDATE without a row to update is no error.                          *)
UpdateFirewallStats(d, rule, tx) ==
  LET totals == [rule |-> Plus(stats_[d].rule, rule), tx |-> Plus(stats_[d].tx, tx)]
  IN  /\ stats_' = [stats_ EXCEPT ![d] = totals]
      /\ \/ statRow' = [statRow EXCEPT ![d] = IF @ = NoStats THEN NoStats ELSE totals]
         \/ SqlWritesFail /\ UNCHANGED statRow

(* AtlasPubSubAgent::processFirewallRuleStat: all zero is ignored.         *)
ProcessFirewallRuleStat(c) ==
  /\ IF c.rule = Zero /\ c.tx = Zero
     THEN UNCHANGED storeVars
     ELSE UpdateFirewallStats(c.id, c.rule, c.tx)
  /\ UNCHANGED <<toPlugin, answered>>

(* AtlasPubSubAgent::handleRead.  On an error nothing is done: the socket  *)
(* stays connectedSocket_.                                                 *)
HandleRead ==
  /\ connectedSocket_ # "null"
  /\ toGateway # <<>>
  /\ toGateway' = Tail(toGateway)
  /\ LET c == Head(toGateway)
     IN  \/ c.cmd = "getall" /\ GetAllFirewallRules
         \/ c.cmd = "putstat" /\ ProcessFirewallRuleStat(c)
  /\ UNCHANGED <<deviceVars, connectedSocket_, filterVars, socket_, backlog,
                 historyVars, restarts>>

(* AtlasDeviceManager::firewallStatisticsAlarmCallback.  Requests and      *)
(* reports of the alarm before, a minute ago, have been read.              *)
FirewallStatisticsAlarm ==
  /\ \A i \in DOMAIN toPlugin : toPlugin[i].cmd # "getstat"
  /\ \A i \in DOMAIN toGateway : toGateway[i].cmd # "putstat"
  /\ \E order \in SetToSeqs(WithPolicy) :
       Write([i \in DOMAIN order |-> [cmd |-> "getstat", id |-> order[i]]])
  /\ UNCHANGED <<deviceVars, connectedSocket_, filterVars, linkVars, storeVars,
                 answered, historyVars, restarts>>

(* The gateway stops and is started again.  Its ends of all connections    *)
(* are closed; what it wrote can still be read by the plug-in.             *)
GatewayRestarts ==
  /\ restarts < MaxRestarts
  /\ restarts' = restarts + 1
  /\ RestartDevices
  /\ socket_' = IF socket_ = "none" THEN "none" ELSE "closed"
  /\ backlog' = <<>>
  /\ toGateway' = <<>>
  /\ answered' = FALSE
  /\ LoadStats(statRow)
  /\ UNCHANGED <<filterVars, historyVars>>

-----------------------------------------------------------------------------
(* Broker and plug-in                                                      *)

Route(pkt) ==
  /\ Routed < MaxPackets
  /\ Filter(pkt)
  /\ received' = [received EXCEPT ![pkt.dst] = Count(@, Passes(pkt))]
  /\ sent' = [d \in Devices |->
                IF d = pkt.src THEN Count(sent[d], Passes(pkt)) ELSE sent[d]]
  /\ UNCHANGED <<deviceVars, connectedSocket_, toPlugin, linkVars, storeVars,
                 answered, restarts>>

(* The timer's handler runs on the thread that connects to the gateway.    *)
WindowTimer ==
  /\ socket_ # "none"
  /\ TimerHandler
  /\ UNCHANGED <<deviceVars, connectedSocket_, toPlugin, linkVars, storeVars,
                 answered, historyVars, restarts>>

PluginStep(A) ==
  /\ A
  /\ UNCHANGED <<deviceVars, connectedSocket_, storeVars, answered, historyVars, restarts>>

PluginReads == PluginStep(ProcessCommand)
PluginLosesGateway == PluginStep(HandleReadError)
PluginConnects == PluginStep(GatewayConnect)

BrokerRestarts ==
  /\ restarts < MaxRestarts
  /\ restarts' = restarts + 1
  /\ RestartBroker
  /\ UNCHANGED <<deviceVars, storeVars, answered, historyVars>>

-----------------------------------------------------------------------------
Next ==
  \/ \E d \in Devices : Register(d) \/ KeepAlive(d)
  \/ \E d \in Devices, p \in Policies : Policy(d, p)
  \/ KeepaliveAlarm
  \/ HandleAccept
  \/ HandleRead
  \/ FirewallStatisticsAlarm
  \/ GatewayRestarts
  \/ \E pkt \in Packets : Route(pkt)
  \/ WindowTimer
  \/ PluginReads
  \/ PluginLosesGateway
  \/ PluginConnects
  \/ BrokerRestarts

Spec == Init /\ [][Next]_vars

(* Both io_service loops run whatever is ready.                            *)
FairSpec ==
  /\ Spec
  /\ WF_vars(HandleAccept) /\ WF_vars(HandleRead)
  /\ WF_vars(PluginReads) /\ WF_vars(PluginLosesGateway) /\ WF_vars(PluginConnects)

-----------------------------------------------------------------------------
RuleOf(d) == IF rules_[d] = NoRule THEN NoPolicy ELSE rules_[d].policy

IsUpdate(c) == c.cmd # "getstat"
Update(c) == [id |-> c.id, value |-> IF c.cmd = "install" THEN c.policy ELSE NoPolicy]

Table == INSTANCE RuleTable WITH
  Keys <- Devices,
  Values <- Policies \cup {NoPolicy},
  source <- policy_,
  copy <- [d \in Devices |-> RuleOf(d)],
  pending <- LET us == SelectSeq(toPlugin, IsUpdate)
             IN  [i \in DOMAIN us |-> Update(us[i])],
  insync <- answered /\ connectedSocket_ = "open"

(* The gateway's policies and the plug-in's rules implement the copied     *)
(* table: from the answer to the plug-in's request for all rules until one *)
(* side goes, every change of a policy is on its way to the rules.         *)
ImplementsRuleTable == Table!Spec

(* Once the request for all rules is answered, the rules and the commands  *)
(* on their way make exactly the policies, and a client without a policy   *)
(* has no rule left.                                                       *)
RulesFollowPolicies == Table!Agreement

InFlight(q, d) ==
  LET of == SelectSeq(q, LAMBDA c : c.cmd = "putstat" /\ c.id = d)
  IN  FoldLeft(LAMBDA s, c : Plus(s, c.tx), Zero, of)

TxCounter(d) == IF txPktStats_[d] = NoStats THEN Zero ELSE txPktStats_[d]

(* The statistics of what a client sent never count a packet twice, across *)
(* the plug-in's counters, reports on their way, the totals in memory and  *)
(* the stored ones: counters are handed over, not copied.                  *)
SentNeverOvercounted ==
  \A d \in Devices :
    LET total == Plus(Plus(stats_[d].tx, InFlight(toGateway, d)), TxCounter(d))
    IN  /\ total.pass <= sent[d].pass /\ total.drop <= sent[d].drop
        /\ statRow[d] # NoStats =>
             /\ statRow[d].tx.pass <= stats_[d].tx.pass
             /\ statRow[d].tx.drop <= stats_[d].tx.drop

(* If a client's policy stays as it is, the broker comes to police the     *)
(* client by it, or not at all if there is none, whatever restarted.       *)
RulesConverge ==
  \A d \in Devices : \A p \in Policies \cup {NoPolicy} :
    <>[](policy_[d] = p) => <>[](RuleOf(d) = p)
=============================================================================
