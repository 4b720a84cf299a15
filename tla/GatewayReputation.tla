--------------------------- MODULE GatewayReputation ---------------------------
(***************************************************************************)
(* Reputations at the gateway: the device manager's counters per device    *)
(* and network, the database they are written to statement by statement,   *)
(* and the device it names as the most trusted one.                        *)
(*                                                                         *)
(* The gateway runs its handlers one at a time on one thread and nobody    *)
(* else reads its database, so a handler is one step; a statement of it    *)
(* may fail, and the process may die between two of them.                  *)
(***************************************************************************)
EXTENDS ReputationStore, SystemFeedback, FiniteSets, FiniteSetsExt

CONSTANTS
  Scores,            \* feedback scores a data plane sends, in Scale-ths
  MaxTicks,          \* bound on the keep-alive intervals
  MaxData,           \* bound on the feedback counted
  MaxPackets,        \* bound on the packets counted
  MaxFaults          \* bound on the crashes and the statements that fail

ASSUME GatewayReputationAssumption == Scale = FeedbackScale /\ MaxPackets <= 2

VARIABLES
  device,            \* device[d]: what SystemFeedback keeps; NewDevice when not loaded
  loaded,            \* the devices of AtlasDeviceManager::devices_
  reputation,        \* reputation[d][n]: AtlasDevice::deviceReputation_
  trustedDevice,     \* trustedDevices_[SENSOR_TEMPERATURE], None when it is ""
  since,             \* intervals since the last system reputation alarm
  db,                \* the reputations stored
  packets,           \* packets[d]: the firewall's counters, stored too
  ordered,           \* the devices there were when trustedDevice was chosen
  ticks,             \* intervals so far
  crashes,
  failures,          \* statements that failed
  misread            \* the reputations whose rows a statement failed to read

memoryVars == <<device, loaded, reputation, trustedDevice, since, ordered>>
vars == <<memoryVars, db, packets, ticks, crashes, failures, misread>>

None == "none"

(* The variables range over their types.                                   *)
TypeOK ==
  /\ IsStore(db)
  /\ loaded \subseteq Devices /\ ordered \subseteq loaded
  /\ trustedDevice \in ordered \cup {None}
  /\ since \in 0 .. Sample /\ ticks \in 0 .. MaxTicks
  /\ failures \in Nat /\ crashes \in Nat /\ failures + crashes <= MaxFaults
  /\ misread \subseteq Devices \X Networks
  /\ \A d \in Devices \ loaded : device[d] = NewDevice
  /\ \A d \in Devices, n \in Networks : reputation[d][n].score \in Fraction

NoReputation == [n \in Networks |-> NewManager]

(* A process that has just started.                                        *)
Started ==
  /\ device = [d \in Devices |-> NewDevice] /\ loaded = {}
  /\ reputation = [d \in Devices |-> NoReputation]
  /\ trustedDevice = None /\ since = 0 /\ ordered = {}

Init ==
  /\ Started
  /\ db = EmptyStore /\ packets = [d \in Devices |-> NoPackets]
  /\ ticks = 0 /\ crashes = 0 /\ failures = 0 /\ misread = {}

Dies ==
  /\ device' = [d \in Devices |-> NewDevice] /\ loaded' = {}
  /\ reputation' = [d \in Devices |-> NoReputation]
  /\ trustedDevice' = None /\ since' = 0 /\ ordered' = {}
  /\ crashes' = crashes + 1

(* A handler that executes these statements, after misreads of those that  *)
(* read have failed: it runs to its end, with at most one statement        *)
(* failing, or it dies before one of them.                                 *)
Within(faults) == crashes + failures + faults <= MaxFaults

Completes(statements, misreads) ==
  /\ UNCHANGED crashes
  /\ \/ /\ Within(misreads)
        /\ db' = Execute(db, statements, Fine)
        /\ failures' = failures + misreads
     \/ /\ Within(misreads + 1)
        /\ \E fault \in Failures(statements) : db' = Execute(db, statements, fault)
        /\ failures' = failures + misreads + 1

DiesIn(statements, misreads) ==
  /\ Within(misreads + 1) /\ Dies
  /\ \E fault \in Deaths(statements) : db' = Execute(db, statements, fault)
  /\ failures' = failures + misreads

-----------------------------------------------------------------------------
(* initSystemReputation and initDataReputation: the stored counters, or,   *)
(* where no feature is found, the defaults, which are then inserted.  A    *)
(* check that fails is taken for a device without features.                *)
Defaults(n) == FoldLeft(addFeature, NewManager, DefaultFeatures(n))

Loaded(m, statements, misread_) == [m |-> m, statements |-> statements, misread |-> misread_]

\* Seeded fault: a network already in the table is initialised again.
initReputationReset(d, n) ==
  {Loaded(Defaults(n), IF checkDeviceForFeatures(db[d][n])
                       THEN updateBayesParams(d, n, Defaults(n))
                       ELSE insertBayesParams(d, n, Defaults(n)), FALSE)}

initReputation(d, n) ==
  LET table == db[d][n]
      new(misread_) == Loaded(Defaults(n), insertBayesParams(d, n, Defaults(n)), misread_)
  IN  IF checkDeviceForFeatures(table)
      THEN {Loaded(Recompute(selectBayesParams(table)), <<>>, FALSE), new(TRUE)}
           \cup {Loaded(m, <<>>, TRUE) : m \in PartlyRead(table)}
      ELSE {new(FALSE)}

(* getDevice: a device not held yet is created and loaded first.           *)
getDevice(d) ==
  IF d \in loaded
  THEN {[n \in Networks |-> Loaded(reputation[d][n], <<>>, FALSE)]}
  ELSE {[n \in Networks |-> IF n = "SYSTEM" THEN s ELSE t] :
          s \in initReputation(d, "SYSTEM"), t \in initReputation(d, "SENSOR_TEMPERATURE")}

(* A request of a device: a registration registers it; of a device that is *)
(* not held, any other request is refused once it is loaded.               *)
Arrives(d, object) ==
  \E load \in getDevice(d) :
    LET statements == load["SYSTEM"].statements \o load["SENSOR_TEMPERATURE"].statements
        bad == {n \in Networks : load[n].misread}
    IN  /\ misread' = misread \cup {<<d, n>> : n \in bad}
        /\ \/ /\ Completes(statements, Cardinality(bad))
              /\ loaded' = loaded \cup {d}
              /\ reputation' = [reputation EXCEPT ![d] = [n \in Networks |-> load[n].m]]
              /\ device' = [device EXCEPT ![d] = object]
              /\ UNCHANGED <<trustedDevice, since, ordered>>
           \/ DiesIn(statements, Cardinality(bad))
        /\ UNCHANGED <<packets, ticks>>

registerCallback(d) == Arrives(d, registerNow(device[d]))
Refuse(d) == d \notin loaded /\ Arrives(d, device[d])

keepaliveCallback(d) ==
  /\ device[d].registered /\ device[d].kaPkts <= ticks
  /\ device' = [device EXCEPT ![d] = keepAliveNow(@)]
 
  /\ UNCHANGED <<loaded, reputation, trustedDevice, since, ordered,
                 db, packets, ticks, crashes, failures, misread>>

keepaliveAlarmCallback ==
  /\ ticks < MaxTicks /\ since < Sample
  /\ ticks' = ticks + 1 /\ since' = since + 1
  /\ device' = [d \in Devices |-> keepAliveExpired(Older(device[d]))]
 
  /\ UNCHANGED <<loaded, reputation, trustedDevice, ordered, db, packets, crashes, failures, misread>>

(* Only a sample reads the packet counters: what is counted between two of *)
(* them is counted here when the second one is due.                        *)
updateFirewallStats(d, field) ==
  /\ d \in loaded /\ since = Sample
  /\ MapThenSumSet(LAMBDA e : packets[e].passed + packets[e].dropped, Devices) < MaxPackets
  /\ packets' = [packets EXCEPT ![d][field] = @ + 1]
 
  /\ UNCHANGED <<memoryVars, db, ticks, crashes, failures, misread>>

-----------------------------------------------------------------------------
(* The global score: seven parts system reputation, three parts data.      *)
GlobalScore(r) ==
  LET s == r["SYSTEM"].score
      t == r["SENSOR_TEMPERATURE"].score
  IN  [num |-> 7 * s.num * t.den + 3 * t.num * s.den, den |-> 10 * s.den * t.den]

MostTrusted(r) ==
  {d \in loaded : /\ LessThan(Zero, GlobalScore(r[d]))
                  /\ \A e \in loaded : ~LessThan(GlobalScore(r[d]), GlobalScore(r[e]))}

\* Seeded fault: any device with a reputation comes first.
updateReputationOrderFirst(r) ==
  /\ \/ trustedDevice' \in {d \in loaded : LessThan(Zero, GlobalScore(r[d]))}
     \/ MostTrusted(r) = {} /\ trustedDevice' = None
  /\ ordered' = loaded

(* Of devices with the same score the first one of the hash table wins.    *)
updateReputationOrder(r) ==
  /\ \/ trustedDevice' \in MostTrusted(r)
     \/ MostTrusted(r) = {} /\ trustedDevice' = None
  /\ ordered' = loaded

(* Transactions counted, r the reputations with them: they are stored, and *)
(* at the end the order is set right.                                      *)
Count(r, statements) ==
  /\ \/ /\ Completes(statements, 0)
        /\ reputation' = r
        /\ updateReputationOrder(r)
        /\ UNCHANGED loaded
     \/ DiesIn(statements, 0)
  /\ UNCHANGED <<packets, ticks, misread>>

(* sysRepAlarmCallback: a sample of every device counts as one transaction *)
(* of its system reputation.                                               *)
subAlarmCallback(d, satisfied) ==
  computeReputation(reputation[d]["SYSTEM"], FeedbackMatrix(device[d], packets[d]), satisfied)

sysRepAlarmCallback ==
  /\ since = Sample
  /\ \E satisfied \in [loaded -> BOOLEAN], order \in SetToSeqs(loaded) :
       LET r == [d \in Devices |-> IF d \in loaded
                                  THEN [reputation[d] EXCEPT !["SYSTEM"] = subAlarmCallback(d, satisfied[d])]
                                  ELSE reputation[d]]
           stored == [i \in DOMAIN order |-> updateBayesParams(order[i], "SYSTEM", r[order[i]]["SYSTEM"])]
       IN  /\ \A d \in loaded :
                satisfied[d] \in Satisfactions(reputation[d]["SYSTEM"], FeedbackMatrix(device[d], packets[d]))
           /\ Count(r, FlattenSeq(stored))
           /\ \/ crashes' > crashes
              \/ /\ crashes' = crashes /\ since' = 0
                 /\ device' = [d \in Devices |-> IF d \in loaded THEN Sampled(device[d], packets[d])
                                                                 ELSE device[d]]

(* feedbackReputationCallback: a registered device rates another one; the  *)
(* rating of a device that is not held is dropped.                         *)
updateDataReputation(d, matrix) ==
  LET m == reputation[d]["SENSOR_TEMPERATURE"]
  IN  \E satisfied \in Satisfactions(m, matrix) :
        LET rated == computeReputation(m, matrix, satisfied)
        IN  /\ Count([reputation EXCEPT ![d]["SENSOR_TEMPERATURE"] = rated],
                     updateBayesParams(d, "SENSOR_TEMPERATURE", rated))
            /\ crashes' > crashes \/ (crashes' = crashes /\ UNCHANGED <<device, since>>)

feedbackReputationCallback(from, d, sensor, time) ==
  /\ device[from].registered
  /\ d \in loaded
  /\ MapThenSumSet(LAMBDA e : reputation[e]["SENSOR_TEMPERATURE"].total, Devices) < MaxData
  /\ updateDataReputation(d, <<[type |-> "SENSOR", val |-> sensor],
                               [type |-> "RESP_TIME", val |-> time]>>)

(* What a registered device that asks for the most trusted one is told: it *)
(* is never told its own name.                                             *)
getTrustedDevice == trustedDevice

requestReputationCallback(d) ==
  IF device[d].registered /\ getTrustedDevice # d THEN getTrustedDevice ELSE None

(* The process dies between handlers and is started again.                 *)
Crash ==
  /\ Within(1) /\ Dies
  /\ UNCHANGED <<db, packets, ticks, failures, misread>>

Next ==
  \/ \E d \in Devices :
       \/ registerCallback(d) \/ Refuse(d) \/ keepaliveCallback(d)
       \/ \E field \in {"passed", "dropped"} : updateFirewallStats(d, field)
       \/ \E from \in Devices, sensor \in Scores, time \in Scores :
            feedbackReputationCallback(from, d, sensor, time)
  \/ keepaliveAlarmCallback \/ sysRepAlarmCallback
  \/ Crash

Spec == Init /\ [][Next]_vars

-----------------------------------------------------------------------------
(* In every reputation, in memory and in the database, the successes of a  *)
(* feature never exceed those of its network, nor these the transactions,  *)
(* so no score exceeds 1: a crash between the statements of                *)
(* updateBayesParams, or one of them failing, leaves the database so.      *)
(* (A reputation whose rows could not be read is exempt.)                  *)
CountsBounded ==
  \A d \in Devices, n \in Networks : <<d, n>> \notin misread =>
    LET m == reputation[d][n]
        rows == db[d][n].networks
    IN  /\ m.success <= m.total
        /\ \A i \in DOMAIN m.features : m.features[i].succ <= m.success
        /\ rows # <<>> => rows[1].success <= rows[1].total
        /\ \A i \in DOMAIN db[d][n].features : db[d][n].features[i].succ <= rows[1].success

(* A registered device that asks is told the device with the best global   *)
(* score of all those held when the order was last updated, and is told    *)
(* none only if no other one is better than itself: sysRepAlarmCallback    *)
(* and updateDataReputation leave no score changed and the order stale.    *)
TrustedIsBest ==
  \A asking \in {d \in Devices : device[d].registered}, d \in ordered :
    LET told == requestReputationCallback(asking)
        best == IF told = None THEN asking ELSE told
    IN  ~LessThan(GlobalScore(reputation[best]), GlobalScore(reputation[d]))

(* As long as every statement worked the database holds what memory holds: *)
(* a crash then costs no reputation, whatever crash came before it, one in *)
(* the middle of insertFeatures included.                                  *)
StoreInStep ==
  failures = 0 =>
    \A d \in loaded, n \in Networks :
      LET stored == selectBayesParams(db[d][n])
      IN  /\ stored.total = reputation[d][n].total
          /\ stored.success = reputation[d][n].success
          /\ stored.features = reputation[d][n].features

(* As long as every statement worked, the transactions the database counts *)
(* for a device never become fewer, across crashes, reloads and the second *)
(* network row that a crash in insertBayesParams leads to.                 *)
HistoryKept ==
  [][\A d \in Devices, n \in Networks :
       (failures' = 0 /\ db[d][n].networks # <<>>) =>
         /\ db'[d][n].networks[1].total >= db[d][n].networks[1].total
         /\ db'[d][n].networks[1].success >= db[d][n].networks[1].success]_vars
=============================================================================
