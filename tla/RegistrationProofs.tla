------------------------- MODULE RegistrationProofs -------------------------
(***************************************************************************)
(* Proofs about Registration, for any number of devices, policies, slots   *)
(* and faults: the client has one thing that drives it, the gateway has    *)
(* the policy the client was asked for, and one missing keep-alive never   *)
(* makes the gateway give a device up.                                     *)
(*                                                                         *)
(* All of them rest on the client's request table: TableInv says that an   *)
(* answer can reach only the request that it answers.                      *)
(***************************************************************************)
EXTENDS Registration, FiniteSetTheorems, TLAPS

\* Zenon proves what no pragma is cited for; arithmetic and sequences are for SMT.
USE Zenon

\* The request table: one entry for a slot, and nothing under way that
\* belongs to no entry.
TableInv ==
  /\ req_entry \subseteq Requests /\ IsFiniteSet(req_entry)
  /\ \A e, f \in req_entry : e.slot = f.slot => e = f
  /\ requests \subseteq req_entry
  /\ \A r \in responses : \E e \in req_entry : e.slot = r.slot

\* The three things that can drive the client, and none.
Registering ==
  /\ \E e \in req_entry : Outstanding("register") = {e}
  /\ reg_alarms = 0 /\ ka_alarms = {}

Waiting ==
  Outstanding("register") = {} /\ reg_alarms = 1 /\ ka_alarms = {}

KeepingAlive ==
  Outstanding("register") = {} /\ reg_alarms = 0 /\ ka_alarms = {ka_alarm_id}

Idle ==
  Outstanding("register") = {} /\ reg_alarms = 0 /\ ka_alarms = {}

\* The inductive invariant behind OneDriver.  A keep-alive that is waited for
\* is the only one, and the client is registered: when it fails, it is the
\* alarm that ends.
DriverInv ==
  /\ TableInv
  /\ registered \in BOOLEAN /\ ka_alarms \subseteq AlarmIds
  /\ ~up => "register" \notin unsent
  /\ IF up /\ "register" \notin unsent THEN Registering \/ Waiting \/ KeepingAlive ELSE Idle
  /\ registered <=> ka_alarms # {}
  /\ \A e, f \in Outstanding("keepalive") : e = f
  /\ Outstanding("keepalive") # {} => registered

\* The client's policy and token have their types.
ClientKnown ==
  /\ active_policy \in ClientPolicies \cup {NoClientPolicy}
  /\ ka_token \in 0 .. TokenModulus - 1

\* The gateway said OK to the request e, and the client has not seen it yet.
Accepted(e) == \E r \in responses : r.slot = e.slot /\ r.status = "OK"

\* The data plane has at most one policy on its way to the gateway.
OnePolicyAtATime == MaxChains <= 1 \/ \A p, q \in ClientPolicies : p = q

\* The inductive invariant behind PolicyInForce: a policy that the gateway
\* does not have is on its way to it, in a request not accepted yet or one to
\* come.
PolicyMissing ==
  /\ registered /\ me \in registered_
  /\ active_policy # NoPolicy /\ "policy" \notin unsent
  /\ policy_[me] # active_policy

PolicyInv ==
  /\ policy_ \in [Devices -> Policies \cup {NoPolicy}]
  /\ policy_alarms \in Nat
  /\ \A e \in Outstanding("policy") : e.policy = active_policy
  /\ PolicyMissing => policy_alarms > 0 \/ \E e \in Outstanding("policy") : ~Accepted(e)

\* The alarms of the gateway since it last noted the client.
Alarms == ATLAS_KEEP_ALIVE_COUNTER - kaCtr_[me]

\* The gateway counts for a client that runs and can still send.
Awaited == me \in registered_ /\ ~stopped /\ "register" \notin unsent

\* The inductive invariant behind TwoMissedBeforeExpiry: the gateway's alarms
\* are at most one, and what it leads by, ahead of what the client sent.  A
\* registration that restarts the client's alarm was noted after the client's
\* last one.
AlarmInv ==
  /\ lead \in Leads /\ faults \in Nat
  /\ silent \in 0 .. ATLAS_KEEP_ALIVE_COUNTER
  /\ kaCtr_ \in [Devices -> 0 .. ATLAS_KEEP_ALIVE_COUNTER]
  /\ ~up => stopped
  /\ Outstanding("register") # {} => lead >= 0
  /\ Awaited =>
       /\ Alarms <= lead + 1 + silent
       /\ \A e \in Outstanding("register") : Accepted(e) => Alarms <= lead + silent

-----------------------------------------------------------------------------
(* The request table.                                                      *)

\* What a successful atlas_coap_client_request does to the table ...
Sends(done, kind, policy) ==
  \E new \in Requests :
    /\ new.kind = kind /\ new.policy = policy
    /\ \A e \in Kept(done) : e.slot # new.slot
    /\ req_entry' = Kept(done) \cup {new}
    /\ requests' = UnderWay(done) \cup {new}
    /\ responses' = Answers(done)
    /\ unsent' = unsent

\* ... and one that fails.
Fails(done, kind) ==
  /\ kind \notin unsent
  /\ unsent' = unsent \cup {kind}
  /\ req_entry' = Kept(done) /\ requests' = UnderWay(done) /\ responses' = Answers(done)

\* atlas_coap_client_request puts a request on a free slot, or fails.
LEMMA RequestCases ==
  ASSUME NEW done, NEW kind \in {"register", "keepalive", "policy"},
         NEW token \in 0 .. TokenModulus - 1,
         NEW policy \in ClientPolicies \cup {NoClientPolicy},
         kind # "keepalive" => token = 0, kind = "policy" <=> policy # NoClientPolicy,
         Request(done, kind, token, policy)
  PROVE  Sends(done, kind, policy) \/ Fails(done, kind)
<1> DEFINE used == {e.slot : e \in Kept(done)}
           s == CHOOSE x \in Slots : x \notin used
           new == [slot |-> s, kind |-> kind, token |-> token, policy |-> policy]
<1>1. CASE Fails(done, kind)
  BY <1>1
<1>2. CASE /\ Slots \ used # {}
           /\ req_entry' = Kept(done) \cup {new}
           /\ requests' = UnderWay(done) \cup {new}
           /\ responses' = Answers(done)
           /\ UNCHANGED unsent
  <2>1. s \in Slots /\ s \notin used
    BY <1>2
  <2>2. new \in Requests
    BY <2>1 DEF Requests
  <2>3. \A e \in Kept(done) : e.slot # new.slot
    BY <2>1
  <2>4. new.kind = kind /\ new.policy = policy
    OBVIOUS
  <2> HIDE DEF new
  <2> QED BY <1>2, <2>2, <2>3, <2>4 DEF Sends
<1> QED BY <1>1, <1>2 DEF Request, Fails

\* The registrations of the client: atlas_register_start, reg_alarm_callback
\* and keepalive_callback.
LEMMA RegisterCases ==
  ASSUME NEW done, send_register_command(done)
  PROVE  Sends(done, "register", NoClientPolicy) \/ Fails(done, "register")
<1>1. 0 \in 0 .. TokenModulus - 1
  BY ClientRegistrationAssumption, SMT
<1> QED BY <1>1, RequestCases DEF send_register_command

\* The policy is sent only when there is one.
LEMMA PolicyCases ==
  ASSUME NEW done, NEW policy \in ClientPolicies \cup {NoClientPolicy},
         send_policy_command(done, policy)
  PROVE  \/ policy = NoClientPolicy /\ Release(done)
         \/ policy # NoClientPolicy /\ Sends(done, "policy", policy)
         \/ policy # NoClientPolicy /\ Fails(done, "policy")
<1>1. 0 \in 0 .. TokenModulus - 1
  BY ClientRegistrationAssumption, SMT
<1>2. CASE policy = NoClientPolicy
  BY <1>2 DEF send_policy_command
<1>3. CASE policy # NoClientPolicy
  <2>1. Request(done, "policy", 0, policy)
    BY <1>3 DEF send_policy_command
  <2> QED BY <1>1, <1>3, <2>1, RequestCases
<1> QED BY <1>2, <1>3

\* Releasing entries takes what is under way for them along.
LEMMA TableShrinks ==
  ASSUME TableInv, NEW done \in SUBSET req_entry,
         req_entry' = Kept(done), requests' = UnderWay(done), responses' = Answers(done)
  PROVE  TableInv'
<1>1. \A r \in responses' : \E e \in req_entry' : e.slot = r.slot
  BY DEF TableInv, Kept, Answers
<1>2. IsFiniteSet(req_entry')
  BY FS_Subset DEF TableInv, Kept
<1> QED BY <1>1, <1>2 DEF TableInv, Kept, UnderWay

\* A new request has a slot of its own.
LEMMA TableGrows ==
  ASSUME TableInv, NEW done \in SUBSET req_entry, NEW kind, NEW policy,
         Sends(done, kind, policy)
  PROVE  TableInv'
<1>1. PICK new \in Requests :
        /\ \A e \in Kept(done) : e.slot # new.slot
        /\ req_entry' = Kept(done) \cup {new}
        /\ requests' = UnderWay(done) \cup {new}
        /\ responses' = Answers(done)
  BY DEF Sends
<1>2. \A r \in responses' : \E e \in req_entry' : e.slot = r.slot
  BY <1>1 DEF TableInv, Kept, Answers
<1>3. \A e, f \in req_entry' : e.slot = f.slot => e = f
  BY <1>1 DEF TableInv, Kept
<1>4. IsFiniteSet(req_entry')
  <2>1. IsFiniteSet(Kept(done))
    BY FS_Subset DEF TableInv, Kept
  <2> QED BY <1>1, <2>1, FS_AddElement
<1> QED BY <1>1, <1>2, <1>3, <1>4 DEF TableInv, Kept, UnderWay

\* No answer is under way for a new request.
LEMMA NewUnanswered ==
  ASSUME TableInv, NEW done \in SUBSET req_entry, NEW new,
         \A e \in Kept(done) : e.slot # new.slot, responses' = Answers(done)
  PROVE  \A r \in responses' : r.slot # new.slot
BY DEF TableInv, Kept, Answers

-----------------------------------------------------------------------------
(* One thing drives the client.                                            *)

\* A step that leaves the registration, its alarms and its requests alone
\* leaves the driver alone.
LEMMA DriverKept ==
  ASSUME DriverInv, TableInv',
         UNCHANGED <<up, registered, ka_alarms, ka_alarm_id, reg_alarms>>,
         Outstanding("register")' = Outstanding("register"),
         "register" \in unsent' <=> "register" \in unsent,
         Outstanding("keepalive")' \subseteq Outstanding("keepalive")
  PROVE  DriverInv'
<1>1. Registering => Registering'
  <2> SUFFICES ASSUME NEW e \in req_entry, Outstanding("register") = {e} PROVE e \in req_entry'
    BY DEF Registering
  <2> QED BY DEF Outstanding
<1>2. (Waiting => Waiting') /\ (KeepingAlive => KeepingAlive') /\ (Idle => Idle')
  BY DEF Waiting, KeepingAlive, Idle
<1> QED BY <1>1, <1>2 DEF DriverInv

\* The answer to a registration, or its timeout, hands over to an alarm.
LEMMA DriverRegCallback ==
  ASSUME DriverInv, ClientKnown, NEW e \in req_entry, e.kind = "register", NEW status,
         reg_callback({e}, status)
  PROVE  DriverInv'
<1>1. /\ up /\ "register" \notin unsent /\ Registering
      /\ Outstanding("register") = {e}
      /\ ~registered /\ Outstanding("keepalive") = {}
  <2>1. e \in Outstanding("register")
    BY DEF Outstanding
  <2>2. up /\ "register" \notin unsent /\ Registering
    BY <2>1 DEF DriverInv, Idle, Waiting, KeepingAlive
  <2>3. Outstanding("register") = {e}
    BY <2>1, <2>2 DEF Registering
  <2> QED BY <2>2, <2>3 DEF DriverInv, Registering
<1>2. CASE status # "OK"
  <2>1. TableInv'
    BY <1>2, TableShrinks DEF reg_callback, Release, DriverInv
  <2>2. Outstanding("register")' = {} /\ Outstanding("keepalive")' = {}
    BY <1>1, <1>2 DEF reg_callback, Release, Kept, Outstanding
  <2>3. /\ reg_alarms' = 1 /\ ka_alarms' = {} /\ "register" \notin unsent'
        /\ UNCHANGED <<up, registered>>
    BY <1>1, <1>2, SMT DEF reg_callback, Release, Registering
  <2> QED BY <1>1, <2>1, <2>2, <2>3 DEF DriverInv, Waiting
<1>3. CASE status = "OK"
  <2>1. send_policy_command({e}, active_policy)
    BY <1>1, <1>3 DEF reg_callback
  <2>2. /\ TableInv' /\ "register" \notin unsent'
        /\ Outstanding("register")' = {} /\ Outstanding("keepalive")' = {}
    <3>1. CASE Release({e})
      <4>1. TableInv'
        BY <3>1, TableShrinks DEF Release, DriverInv
      <4> QED BY <1>1, <3>1, <4>1 DEF Release, Kept, Outstanding
    <3>2. CASE Sends({e}, "policy", active_policy)
      <4>1. TableInv'
        BY <3>2, TableGrows DEF DriverInv
      <4> QED BY <1>1, <3>2, <4>1 DEF Sends, Kept, Outstanding
    <3>3. CASE Fails({e}, "policy")
      <4>1. TableInv'
        BY <3>3, TableShrinks DEF Fails, DriverInv
      <4> QED BY <1>1, <3>3, <4>1 DEF Fails, Kept, Outstanding
    <3> QED BY <2>1, <3>1, <3>2, <3>3, PolicyCases DEF ClientKnown
  <2>3. /\ registered' = TRUE /\ reg_alarms' = 0 /\ ka_alarms' = {ka_alarm_id'}
        /\ up' = up
    BY <1>1, <1>3 DEF reg_callback, Registering
  <2>4. ka_alarm_id' \in AlarmIds
    BY <1>3 DEF reg_callback
  <2> QED BY <1>1, <2>2, <2>3, <2>4 DEF DriverInv, KeepingAlive
<1> QED BY <1>2, <1>3

\* A keep-alive that ends the registration ends the alarm, and registers.
LEMMA DriverKeepaliveCallback ==
  ASSUME DriverInv, NEW e \in req_entry, e.kind = "keepalive", NEW status, NEW token,
         keepalive_callback({e}, status, token)
  PROVE  DriverInv'
<1>1. /\ registered /\ Outstanding("keepalive") = {e}
      /\ up /\ "register" \notin unsent /\ KeepingAlive
  <2>1. e \in Outstanding("keepalive")
    BY DEF Outstanding
  <2>2. registered /\ Outstanding("keepalive") = {e}
    BY <2>1 DEF DriverInv
  <2> QED BY <2>2 DEF DriverInv, Idle, Waiting, Registering
<1>2. CASE Release({e}) /\ UNCHANGED <<registered, ka_alarms, ka_alarm_id>>
  <2>1. TableInv'
    BY <1>2, TableShrinks DEF Release, DriverInv
  <2>2. /\ Outstanding("register")' = Outstanding("register")
        /\ Outstanding("keepalive")' \subseteq Outstanding("keepalive")
    BY <1>2 DEF Release, Kept, Outstanding
  <2>3. UNCHANGED <<up, registered, ka_alarms, ka_alarm_id, reg_alarms, unsent>>
    BY <1>2 DEF Release, keepalive_callback
  <2> QED BY <2>1, <2>2, <2>3, DriverKept
<1>3. CASE registered' = FALSE /\ ka_alarms' = WithoutAlarm(ka_alarm_id)
           /\ send_register_command({e})
  <2>1. /\ ka_alarms' = {} /\ reg_alarms' = 0 /\ up' = up
    BY <1>1, <1>3 DEF KeepingAlive, WithoutAlarm, keepalive_callback
  <2>2. CASE Sends({e}, "register", NoClientPolicy)
    <3>1. PICK new \in Requests : /\ new.kind = "register" /\ req_entry' = Kept({e}) \cup {new}
                                  /\ unsent' = unsent
      BY <2>2 DEF Sends
    <3>2. /\ Outstanding("register")' = {new} /\ new \in req_entry'
          /\ Outstanding("keepalive")' = {}
      BY <1>1, <3>1 DEF KeepingAlive, Kept, Outstanding
    <3>3. TableInv'
      BY <2>2, TableGrows DEF DriverInv
    <3> QED BY <1>1, <1>3, <2>1, <3>1, <3>2, <3>3 DEF DriverInv, Registering
  <2>3. CASE Fails({e}, "register")
    <3>1. /\ Outstanding("register")' = {} /\ Outstanding("keepalive")' = {}
          /\ "register" \in unsent'
      BY <1>1, <2>3 DEF KeepingAlive, Fails, Kept, Outstanding
    <3>2. TableInv'
      BY <2>3, TableShrinks DEF Fails, DriverInv
    <3> QED BY <1>1, <1>3, <2>1, <3>1, <3>2 DEF DriverInv, Idle
  <2> QED BY <1>3, <2>2, <2>3, RegisterCases
<1> QED BY <1>2, <1>3 DEF keepalive_callback

\* The client's policy is set by atlas_data_plane_parse_policy only, its token
\* by keepalive_alarm_callback.
LEMMA ClientKnownStep == ClientKnown /\ [Next]_vars => ClientKnown'
<1> SUFFICES ASSUME ClientKnown, [Next]_vars PROVE ClientKnown'
  OBVIOUS
<1> USE DEF ClientKnown
<1>1. ASSUME NEW m \in requests, GatewayHandle(m) \/ GatewayHandleCopy(m) PROVE ClientKnown'
  BY <1>1 DEF GatewayHandle, GatewayHandleCopy, GatewayCallback, clientVars
<1>2. CASE GatewayAlarm \/ GatewayRestart
  BY <1>2 DEF GatewayAlarm, GatewayRestart, clientVars
<1>3. ASSUME NEW e \in req_entry, ClientResponse(e) \/ ClientTimeout(e) PROVE ClientKnown'
  BY <1>3 DEF ClientResponse, ClientTimeout, CoapResponse, RequestTimeout, Callback,
              reg_callback, keepalive_callback, policy_callback
<1>4. CASE ClientRegAlarm \/ ClientKeepaliveAlarm \/ ClientPolicyAlarm
  BY <1>4, ClientRegistrationAssumption, SMT DEF ClientRegAlarm, RegAlarm, ClientKeepaliveAlarm, KeepaliveAlarm,
              ClientPolicyAlarm, PolicyAlarm
<1>5. ASSUME NEW p \in ClientPolicies, DataPlanePolicy(p) PROVE ClientKnown'
  BY <1>5 DEF DataPlanePolicy, ParsePolicy
<1>6. CASE ClientStops \/ ClientStarts
  BY <1>6, ClientRegistrationAssumption, SMT DEF ClientStops, ClientStop, ClientStarts, ClientStart
<1>7. CASE UNCHANGED vars
  BY <1>7 DEF vars, clientVars
<1> QED BY <1>1, <1>2, <1>3, <1>4, <1>5, <1>6, <1>7 DEF Next

\* A policy request, its answer and its alarm do not touch the driver.
LEMMA DriverPolicySent ==
  ASSUME DriverInv, NEW done \in SUBSET Outstanding("policy"),
         NEW policy \in ClientPolicies \cup {NoClientPolicy},
         Release(done) \/ send_policy_command(done, policy),
         UNCHANGED <<up, registered, ka_alarms, ka_alarm_id, reg_alarms>>
  PROVE  DriverInv'
<1>0. done \in SUBSET req_entry /\ \A e \in done : e.kind = "policy"
  BY DEF Outstanding
<1>1. CASE Release(done) \/ Fails(done, "policy")
  <2>1. TableInv'
    BY <1>0, <1>1, TableShrinks DEF Release, Fails, DriverInv
  <2>2. /\ Outstanding("register")' = Outstanding("register")
        /\ Outstanding("keepalive")' \subseteq Outstanding("keepalive")
    BY <1>0, <1>1 DEF Release, Fails, Kept, Outstanding
  <2>3. "register" \in unsent' <=> "register" \in unsent
    BY <1>1 DEF Release, Fails
  <2> QED BY <2>1, <2>2, <2>3, DriverKept
<1>2. CASE Sends(done, "policy", policy)
  <2>1. TableInv'
    BY <1>0, <1>2, TableGrows DEF DriverInv
  <2>2. PICK new \in Requests : /\ new.kind = "policy" /\ req_entry' = Kept(done) \cup {new}
                                /\ unsent' = unsent
    BY <1>2 DEF Sends
  <2>3. /\ Outstanding("register")' = Outstanding("register")
        /\ Outstanding("keepalive")' \subseteq Outstanding("keepalive")
    BY <1>0, <2>2 DEF Kept, Outstanding
  <2> QED BY <2>1, <2>2, <2>3, DriverKept
<1> QED BY <1>1, <1>2, PolicyCases

\* A registration that reg_alarm_callback or atlas_register_start sends.
LEMMA DriverRegister ==
  ASSUME DriverInv, Waiting \/ Idle, "register" \notin unsent,
         send_register_command({}), up', reg_alarms' = 0, UNCHANGED <<registered, ka_alarms>>
  PROVE  DriverInv'
<1>1. ~registered /\ ka_alarms = {} /\ Outstanding("keepalive") = {}
      /\ Outstanding("register") = {}
  BY DEF DriverInv, Waiting, Idle
<1>2. CASE Sends({}, "register", NoClientPolicy)
  <2>1. PICK new \in Requests : /\ new.kind = "register" /\ req_entry' = Kept({}) \cup {new}
                                /\ unsent' = unsent
    BY <1>2 DEF Sends
  <2>2. /\ Outstanding("register")' = {new} /\ new \in req_entry'
        /\ Outstanding("keepalive")' = {}
    BY <1>1, <2>1 DEF Kept, Outstanding
  <2>3. TableInv'
    BY <1>2, TableGrows DEF DriverInv
  <2> QED BY <1>1, <2>1, <2>2, <2>3 DEF DriverInv, Registering
<1>3. CASE Fails({}, "register")
  <2>1. /\ Outstanding("register")' = {} /\ Outstanding("keepalive")' = {}
        /\ "register" \in unsent'
    BY <1>1, <1>3 DEF Fails, Kept, Outstanding
  <2>2. TableInv'
    BY <1>3, TableShrinks DEF Fails, DriverInv
  <2> QED BY <1>1, <2>1, <2>2 DEF DriverInv, Idle
<1> QED BY <1>2, <1>3, RegisterCases

\* A keep-alive is sent when none is waited for.
LEMMA DriverKeepalive ==
  ASSUME DriverInv, ClientKnown, KeepaliveAlarm
  PROVE  DriverInv'
<1>0. ka_token' \in 0 .. TokenModulus - 1
  BY ClientRegistrationAssumption, SMT DEF KeepaliveAlarm, ClientKnown
<1>1. Sends({}, "keepalive", NoClientPolicy) \/ Fails({}, "keepalive")
  BY <1>0, RequestCases DEF KeepaliveAlarm
<1>2. Outstanding("keepalive") = {} /\ registered
  BY DEF KeepaliveAlarm, DriverInv
<1>3. CASE Sends({}, "keepalive", NoClientPolicy)
  <2>1. PICK new \in Requests : /\ new.kind = "keepalive" /\ req_entry' = Kept({}) \cup {new}
                                /\ unsent' = unsent
    BY <1>3 DEF Sends
  <2>2. /\ Outstanding("register")' = Outstanding("register")
        /\ Outstanding("keepalive")' = {new}
    BY <1>2, <2>1 DEF Kept, Outstanding
  <2>3. TableInv'
    BY <1>3, TableGrows DEF DriverInv
  <2>4. KeepingAlive' /\ up /\ "register" \notin unsent
    BY <1>2, <2>2 DEF DriverInv, KeepingAlive, Waiting, Registering, Idle, KeepaliveAlarm
  <2> QED BY <1>2, <2>1, <2>2, <2>3, <2>4 DEF DriverInv, KeepaliveAlarm
<1>4. CASE Fails({}, "keepalive")
  <2>1. TableInv'
    BY <1>4, TableShrinks DEF Fails, DriverInv
  <2>2. /\ Outstanding("register")' = Outstanding("register")
        /\ Outstanding("keepalive")' \subseteq Outstanding("keepalive")
        /\ "register" \in unsent' <=> "register" \in unsent
    BY <1>4 DEF Fails, Kept, Outstanding
  <2> QED BY <2>1, <2>2, DriverKept DEF KeepaliveAlarm
<1> QED BY <1>1, <1>3, <1>4

\* What the gateway does is no business of the client's table: an answer goes
\* to a request that is under way, which the client waits for.
LEMMA DriverGateway ==
  ASSUME DriverInv, NEW m \in requests, UNCHANGED clientVars,
         requests' \subseteq requests,
         \E status, token :
           responses' = responses \cup {[slot |-> m.slot, status |-> status, token |-> token]}
  PROVE  DriverInv'
<1>1. UNCHANGED <<up, registered, ka_alarms, ka_alarm_id, reg_alarms, req_entry, unsent>>
  BY DEF clientVars
<1>2. TableInv'
  BY <1>1, SMT DEF DriverInv, TableInv
<1>3. /\ Outstanding("register")' = Outstanding("register")
      /\ Outstanding("keepalive")' \subseteq Outstanding("keepalive")
  BY <1>1 DEF Outstanding
<1> QED BY <1>1, <1>2, <1>3, DriverKept

\* The gateway's callbacks answer, and leave the client alone.
LEMMA GatewayAnswers ==
  ASSUME NEW m, GatewayCallback(m)
  PROVE  /\ UNCHANGED clientVars
         /\ \E status, token :
              responses' = responses \cup {[slot |-> m.slot, status |-> status, token |-> token]}
<1>1. \/ Answer(m, "OK", 0)
      \/ Answer(m, "OK", m.token)
      \/ Answer(m, "NOT_FOUND", 0)
  BY DEF GatewayCallback, RegisterCallback, KeepaliveCallback, FirewallPolicyCallback, Refuse
<1>2. UNCHANGED clientVars
  BY DEF GatewayCallback
<1> QED BY <1>1, <1>2 DEF Answer

\* The answer to a request, or its timeout.
LEMMA DriverCallback ==
  ASSUME DriverInv, ClientKnown, NEW e \in req_entry, NEW status, NEW token,
         Callback(e, status, token)
  PROVE  DriverInv'
<1>1. CASE e.kind = "policy" /\ policy_callback({e}, status)
  <2>1. {e} \in SUBSET Outstanding("policy")
    BY <1>1 DEF Outstanding
  <2>2. Release({e}) /\ UNCHANGED <<up, registered, ka_alarms, ka_alarm_id, reg_alarms>>
    BY <1>1 DEF policy_callback
  <2> QED BY <2>1, <2>2, DriverPolicySent
<1> QED BY <1>1, DriverRegCallback, DriverKeepaliveCallback DEF Callback

\* Every step keeps one driver.
LEMMA DriverStep == DriverInv /\ ClientKnown /\ [Next]_vars => DriverInv'
<1> SUFFICES ASSUME DriverInv, ClientKnown, [Next]_vars PROVE DriverInv'
  OBVIOUS
<1>0. {} \in SUBSET Outstanding("policy")
  OBVIOUS
<1>1. ASSUME NEW m \in requests, GatewayHandle(m) \/ GatewayHandleCopy(m) PROVE DriverInv'
  <2>1. requests' \subseteq requests /\ GatewayCallback(m)
    BY <1>1 DEF GatewayHandle, GatewayHandleCopy
  <2> QED BY <2>1, GatewayAnswers, DriverGateway
<1>2. CASE UNCHANGED <<clientVars, netVars>>
  <2>1. /\ UNCHANGED <<up, registered, ka_alarms, ka_alarm_id, reg_alarms, req_entry, unsent>>
        /\ UNCHANGED <<requests, responses>>
    BY <1>2 DEF clientVars, netVars
  <2>2. /\ Outstanding("register")' = Outstanding("register")
        /\ Outstanding("keepalive")' \subseteq Outstanding("keepalive")
    BY <2>1 DEF Outstanding
  <2>3. TableInv'
    BY <2>1 DEF DriverInv, TableInv
  <2> QED BY <2>1, <2>2, <2>3, DriverKept
<1>3. ASSUME NEW e \in req_entry, ClientResponse(e) PROVE DriverInv'
  BY <1>3, DriverCallback DEF ClientResponse, CoapResponse
<1>4. ASSUME NEW e \in req_entry, ClientTimeout(e) PROVE DriverInv'
  BY <1>4, DriverCallback DEF ClientTimeout, RequestTimeout
<1>5. CASE ClientRegAlarm
  <2>1. Waiting /\ "register" \notin unsent /\ up
    BY <1>5, SMT DEF ClientRegAlarm, RegAlarm, DriverInv, Registering, KeepingAlive, Idle
  <2> QED BY <1>5, <2>1, DriverRegister, SMT DEF ClientRegAlarm, RegAlarm, Waiting
<1>6. CASE ClientKeepaliveAlarm
  BY <1>6, DriverKeepalive DEF ClientKeepaliveAlarm
<1>7. CASE ClientPolicyAlarm
  BY <1>0, <1>7, DriverPolicySent DEF ClientPolicyAlarm, PolicyAlarm, ClientKnown
<1>8. ASSUME NEW p \in ClientPolicies, DataPlanePolicy(p) PROVE DriverInv'
  BY <1>0, <1>8, DriverPolicySent DEF DataPlanePolicy, ParsePolicy
<1>9. CASE ClientStops
  BY <1>9, FS_EmptySet DEF ClientStops, ClientStop, DriverInv, TableInv, Idle, Outstanding
<1>10. CASE ClientStarts
  <2>1. Idle /\ "register" \notin unsent
    BY <1>10 DEF ClientStarts, ClientStart, DriverInv
  <2> QED BY <1>10, <2>1, DriverRegister DEF ClientStarts, ClientStart, Idle
<1> QED BY <1>1, <1>2, <1>3, <1>4, <1>5, <1>6, <1>7, <1>8, <1>9, <1>10
        DEF Next, GatewayAlarm, GatewayRestart, vars

\* The client is down at first.
LEMMA DriverInit == Init => DriverInv /\ ClientKnown
<1> SUFFICES ASSUME ClientInit PROVE DriverInv /\ ClientKnown
  BY DEF Init
<1> USE DEF ClientInit
<1>1. ClientKnown
  BY ClientRegistrationAssumption, SMT DEF ClientKnown
<1>2. TableInv
  BY FS_EmptySet DEF TableInv
<1>3. Idle /\ Outstanding("keepalive") = {}
  BY DEF Idle, Outstanding
<1> QED BY <1>1, <1>2, <1>3 DEF DriverInv

\* The inductive invariant holds in every reachable state.
THEOREM DriverInvHolds == Spec => [](DriverInv /\ ClientKnown)
BY DriverInit, DriverStep, ClientKnownStep, PTL DEF Spec

\* The one driver, counted.
LEMMA DriverImplies == DriverInv => OneDriver
<1> SUFFICES ASSUME DriverInv, up
             PROVE  /\ Drivers = IF "register" \in unsent THEN 0 ELSE 1
                    /\ registered <=> ka_alarms # {}
  BY DEF OneDriver
<1>1. Cardinality({}) = 0 /\ \A x : Cardinality({x}) = 1
  BY FS_EmptySet, FS_Singleton
<1>2. CASE "register" \in unsent
  BY <1>1, <1>2, SMT DEF DriverInv, Drivers, Idle
<1>3. CASE "register" \notin unsent
  <2>1. Registering \/ Waiting \/ KeepingAlive
    BY <1>3 DEF DriverInv
  <2>2. Drivers = 1
    <3>1. CASE Registering
      <4>1. Cardinality(Outstanding("register")) = 1
        BY <1>1, <3>1 DEF Registering
      <4> QED BY <1>1, <3>1, <4>1, SMT DEF Drivers, Registering
    <3>2. CASE Waiting
      BY <1>1, <3>2, SMT DEF Drivers, Waiting
    <3>3. CASE KeepingAlive
      <4>1. Cardinality(ka_alarms) = 1
        BY <1>1, <3>3 DEF KeepingAlive
      <4> QED BY <1>1, <3>3, <4>1, SMT DEF Drivers, KeepingAlive
    <3> QED BY <2>1, <3>1, <3>2, <3>3
  <2> QED BY <1>3, <2>2 DEF DriverInv
<1> QED BY <1>2, <1>3

\* A client that runs has exactly one thing that will make it send its next
\* registration or keep-alive, for any number of slots, alarms and faults
\* (reg_callback, keepalive_callback and their alarms hand over from one to
\* the other), and none only after a registration that could not be sent.
THEOREM OneDriverHolds == Spec => []OneDriver
BY DriverInvHolds, DriverImplies, PTL

-----------------------------------------------------------------------------
(* The gateway has the policy that the data plane asked for.               *)

\* AtlasDevice::setPolicyInfo leaves the new policy, also when
\* AtlasFirewallPolicy::operator== calls the two equal.
LEMMA SetPolicyIs ==
  ASSUME policy_ \in [Devices -> Policies \cup {NoPolicy}], NEW d \in Devices,
         NEW p \in Policies, SetPolicyInfo(d, p)
  PROVE  policy_' \in [Devices -> Policies \cup {NoPolicy}] /\ policy_'[d] = p
<1>1. CASE policy_[d] # NoPolicy /\ PolicyEquals(policy_[d], p)
  <2>1. policy_[d] \in [qos : Nat, ppm : Nat, maxlen : Nat] /\ p \in [qos : Nat, ppm : Nat, maxlen : Nat]
    BY <1>1, GatewayDevicesAssumption
  <2>2. [policy_[d] EXCEPT !.ppm = p.ppm] = p
    BY <1>1, <2>1 DEF PolicyEquals
  <2>3. policy_' = [policy_ EXCEPT ![d] = [policy_[d] EXCEPT !.ppm = p.ppm]]
    BY <1>1 DEF SetPolicyInfo
  <2> QED BY <2>2, <2>3
<1>2. CASE ~(policy_[d] # NoPolicy /\ PolicyEquals(policy_[d], p))
  BY <1>2 DEF SetPolicyInfo
<1> QED BY <1>1, <1>2

\* A step of the client that leaves its policy and the requests about it
\* alone.
LEMMA PolicyKept ==
  ASSUME PolicyInv, UNCHANGED <<policy_, registered_, active_policy, policy_alarms>>,
         registered' => registered, "policy" \in unsent => "policy" \in unsent',
         Outstanding("policy")' = Outstanding("policy"), responses' \subseteq responses
  PROVE  PolicyInv'
<1>1. PolicyMissing' => PolicyMissing
  BY DEF PolicyMissing
<1>2. \A e \in Outstanding("policy") : ~Accepted(e) => ~Accepted(e)'
  BY DEF Accepted
<1> QED BY <1>1, <1>2 DEF PolicyInv

\* The policy is sent, once more or for the first time, in a request not
\* accepted yet.
LEMMA PolicySent ==
  ASSUME DriverInv, PolicyInv, ClientKnown', NEW done \in SUBSET req_entry,
         send_policy_command(done, active_policy'),
         UNCHANGED <<policy_, registered_>>, policy_alarms' \in Nat,
         \A e \in Outstanding("policy") \ done : e.policy = active_policy'
  PROVE  PolicyInv'
<1>1. CASE Release(done) /\ active_policy' = NoClientPolicy
  <2>1. \A e \in Outstanding("policy")' : e.policy = active_policy'
    BY <1>1 DEF Release, Kept, Outstanding
  <2> QED BY <1>1, <2>1, RegistrationAssumption DEF PolicyInv, PolicyMissing
<1>2. CASE Fails(done, "policy")
  <2>1. \A e \in Outstanding("policy")' : e.policy = active_policy'
    BY <1>2 DEF Fails, Kept, Outstanding
  <2> QED BY <1>2, <2>1 DEF PolicyInv, PolicyMissing, Fails
<1>3. CASE Sends(done, "policy", active_policy')
  <2>1. PICK new \in Requests :
          /\ new.kind = "policy" /\ new.policy = active_policy'
          /\ \A e \in Kept(done) : e.slot # new.slot
          /\ req_entry' = Kept(done) \cup {new} /\ responses' = Answers(done)
    BY <1>3 DEF Sends
  <2>2. \A e \in Outstanding("policy")' : e.policy = active_policy'
    BY <2>1 DEF Kept, Outstanding
  <2>3. new \in Outstanding("policy")'
    BY <2>1 DEF Outstanding
  <2>4. ~Accepted(new)'
    <3>1. \A r \in responses' : r.slot # new.slot
      BY <2>1, NewUnanswered DEF DriverInv
    <3> QED BY <3>1 DEF Accepted
  <2> QED BY <2>2, <2>3, <2>4 DEF PolicyInv
<1> QED BY <1>1, <1>2, <1>3, PolicyCases DEF ClientKnown

\* The answer to a request of the client, or its timeout.
LEMMA PolicyCallback ==
  ASSUME DriverInv, ClientKnown, ClientKnown', PolicyInv, NEW e \in req_entry, NEW status,
         NEW token, status = "OK" => Accepted(e), Callback(e, status, token),
         UNCHANGED <<policy_, registered_>>
  PROVE  PolicyInv'
<1>1. CASE e.kind = "register" /\ reg_callback({e}, status)
  <2>1. ~registered
    <3>1. e \in Outstanding("register")
      BY <1>1 DEF Outstanding
    <3> QED BY <3>1 DEF DriverInv, Idle, Waiting, KeepingAlive, Registering
  <2>2. CASE status # "OK"
    <3>1. /\ Release({e}) /\ UNCHANGED <<registered, active_policy, policy_alarms>>
      BY <1>1, <2>2 DEF reg_callback
    <3>2. /\ Outstanding("policy")' = Outstanding("policy")
          /\ responses' \subseteq responses /\ unsent' = unsent
      BY <1>1, <3>1 DEF Release, Kept, Answers, Outstanding
    <3> QED BY <3>1, <3>2, PolicyKept
  <2>3. CASE status = "OK"
    <3>1. send_policy_command({e}, active_policy) /\ UNCHANGED <<active_policy, policy_alarms>>
      BY <1>1, <2>1, <2>3 DEF reg_callback
    <3>2. \A f \in Outstanding("policy") \ {e} : f.policy = active_policy'
      BY <3>1 DEF PolicyInv
    <3> QED BY <3>1, <3>2, PolicySent DEF PolicyInv
  <2> QED BY <2>2, <2>3
<1>2. CASE e.kind = "keepalive" /\ keepalive_callback({e}, status, token)
  <2>1. UNCHANGED <<active_policy, policy_alarms>>
    BY <1>2 DEF keepalive_callback
  <2>2. CASE Release({e}) /\ UNCHANGED registered
    <3>1. /\ Outstanding("policy")' = Outstanding("policy")
          /\ responses' \subseteq responses /\ unsent' = unsent
      BY <1>2, <2>2 DEF Release, Kept, Answers, Outstanding
    <3> QED BY <2>1, <2>2, <3>1, PolicyKept
  <2>3. CASE registered' = FALSE /\ send_register_command({e})
    <3>1. /\ Outstanding("policy")' = Outstanding("policy")
          /\ responses' \subseteq responses
          /\ "policy" \in unsent => "policy" \in unsent'
      BY <1>2, <2>3, RegisterCases, SMT DEF Sends, Fails, Kept, Answers, Outstanding
    <3> QED BY <2>1, <2>3, <3>1, PolicyKept
  <2> QED BY <1>2, <2>2, <2>3 DEF keepalive_callback
<1>3. CASE e.kind = "policy" /\ policy_callback({e}, status)
  <2>1. /\ Release({e}) /\ UNCHANGED <<registered, active_policy, unsent>>
        /\ policy_alarms' = IF status = "OK" THEN policy_alarms ELSE policy_alarms + 1
    BY <1>3 DEF policy_callback, Release
  <2>2. /\ Outstanding("policy")' = Outstanding("policy") \ {e} /\ responses' \subseteq responses
    BY <2>1 DEF Release, Kept, Answers, Outstanding
  <2>3. \A f \in Outstanding("policy") : ~Accepted(f) => ~Accepted(f)'
    BY <2>2 DEF Accepted
  <2>4. PolicyMissing' => PolicyMissing
    BY <2>1 DEF PolicyMissing
  <2>5. policy_alarms' \in Nat /\ \A f \in Outstanding("policy")' : f.policy = active_policy'
    BY <2>1, <2>2, SMT DEF PolicyInv
  <2> QED BY <2>1, <2>2, <2>3, <2>4, <2>5, SMT DEF PolicyInv
<1> QED BY <1>1, <1>2, <1>3 DEF Callback

\* The gateway's answers.  A registration reaches the gateway only while the
\* client is not registered, so it will send its policy again.
LEMMA PolicyGateway ==
  ASSUME DriverInv, ClientKnown, PolicyInv, NEW m \in requests, GatewayCallback(m)
  PROVE  PolicyInv'
<1>0. m \in req_entry /\ m \in Requests
  BY DEF DriverInv, TableInv
<1>1. UNCHANGED <<registered, active_policy, policy_alarms, req_entry, unsent>>
  BY DEF GatewayCallback, clientVars
<1>2. Outstanding("policy")' = Outstanding("policy")
  BY <1>1 DEF Outstanding
<1>3. CASE RegisterCallback(m)
  <2>1. ~registered
    <3>1. m \in Outstanding("register")
      BY <1>0, <1>3 DEF RegisterCallback, Outstanding
    <3> QED BY <3>1 DEF DriverInv, Idle, Waiting, KeepingAlive, Registering
  <2>2. policy_' = policy_
    BY <1>3 DEF RegisterCallback, RegisterNow
  <2> QED BY <1>1, <1>2, <2>1, <2>2 DEF PolicyInv, PolicyMissing
<1>4. CASE KeepaliveCallback(m)
  <2>1. UNCHANGED <<registered_, policy_>>
    BY <1>4 DEF KeepaliveCallback, KeepAliveNow, Refuse, gatewayVars, deviceVars
  <2>2. m.kind = "keepalive"
    BY <1>4 DEF KeepaliveCallback
  <2>3. \A r \in responses' : r \in responses \/ r.slot = m.slot
    BY <1>4, SMT DEF KeepaliveCallback, Refuse, Answer
  <2>4. \A e \in Outstanding("policy") : ~Accepted(e) => ~Accepted(e)'
    <3>1. \A e \in Outstanding("policy") : e.slot # m.slot
      BY <1>0, <2>2 DEF DriverInv, TableInv, Outstanding
    <3> QED BY <2>3, <3>1 DEF Accepted
  <2>5. PolicyMissing' => PolicyMissing
    BY <1>1, <2>1 DEF PolicyMissing
  <2> QED BY <1>1, <1>2, <2>1, <2>4, <2>5 DEF PolicyInv
<1>5. CASE FirewallPolicyCallback(m)
  <2>1. m.policy = active_policy /\ m.policy \in Policies
    <3>1. m \in Outstanding("policy") /\ m.policy # NoClientPolicy
      BY <1>0, <1>5 DEF FirewallPolicyCallback, Outstanding, Requests
    <3> QED BY <3>1, RegistrationAssumption DEF PolicyInv, ClientKnown
  <2>2. CASE me \in registered_ /\ AcceptPolicy(me, m.policy)
    <3>1. policy_' \in [Devices -> Policies \cup {NoPolicy}] /\ policy_'[me] = m.policy
      BY <2>1, <2>2, SetPolicyIs, RegistrationAssumption DEF AcceptPolicy, PolicyInv
    <3> QED BY <1>1, <1>2, <2>1, <3>1 DEF PolicyInv, PolicyMissing
  <2>3. CASE me \notin registered_ /\ Refuse(m)
    BY <1>1, <1>2, <2>3 DEF Refuse, gatewayVars, deviceVars, PolicyInv, PolicyMissing
  <2> QED BY <1>5, <2>2, <2>3 DEF FirewallPolicyCallback
<1> QED BY <1>3, <1>4, <1>5 DEF GatewayCallback

\* The gateway gives a device up with its policy, and keeps the policy of one
\* that it keeps.
LEMMA PolicyGatewayAlarm ==
  ASSUME PolicyInv, GatewayAlarm \/ GatewayRestart
  PROVE  PolicyInv'
<1>1. UNCHANGED <<registered, active_policy, policy_alarms, req_entry, unsent, responses>>
  BY DEF GatewayAlarm, GatewayRestart, clientVars, netVars
<1>2. /\ Outstanding("policy")' = Outstanding("policy")
      /\ \A e : Accepted(e)' = Accepted(e)
  BY <1>1 DEF Outstanding, Accepted
<1>3. policy_' \in [Devices -> Policies \cup {NoPolicy}]
  BY DEF PolicyInv, GatewayAlarm, KeepaliveAlarmCallback, GatewayRestart, RestartDevices
<1>4. me \in registered_' => me \in registered_ /\ policy_'[me] = policy_[me]
  BY RegistrationAssumption
     DEF PolicyInv, GatewayAlarm, KeepaliveAlarmCallback, GatewayRestart, RestartDevices
<1>5. PolicyMissing' => PolicyMissing
  BY <1>1, <1>4 DEF PolicyMissing
<1> QED BY <1>1, <1>2, <1>3, <1>5 DEF PolicyInv

\* Every step keeps a missing policy on its way.
LEMMA PolicyStep ==
  ASSUME OnePolicyAtATime, DriverInv, ClientKnown, ClientKnown', PolicyInv, [Next]_vars
  PROVE  PolicyInv'
<1>1. ASSUME NEW m \in requests, GatewayHandle(m) \/ GatewayHandleCopy(m) PROVE PolicyInv'
  BY <1>1, PolicyGateway DEF GatewayHandle, GatewayHandleCopy
<1>2. CASE GatewayAlarm \/ GatewayRestart
  BY <1>2, PolicyGatewayAlarm
<1>3. ASSUME NEW e \in req_entry, ClientResponse(e) \/ ClientTimeout(e) PROVE PolicyInv'
  <2>1. UNCHANGED <<policy_, registered_>>
    BY <1>3 DEF ClientResponse, ClientTimeout, CountSent, gatewayVars, deviceVars
  <2>2. CASE ClientResponse(e)
    <3>1. PICK r \in responses : r.slot = e.slot /\ Callback(e, r.status, r.token)
      BY <2>2 DEF ClientResponse, CoapResponse
    <3>2. r.status = "OK" => Accepted(e)
      BY <3>1 DEF Accepted
    <3> QED BY <2>1, <3>1, <3>2, PolicyCallback
  <2>3. CASE ClientTimeout(e)
    BY <2>1, <2>3, PolicyCallback DEF ClientTimeout, RequestTimeout
  <2> QED BY <1>3, <2>2, <2>3
<1>4. ASSUME UNCHANGED <<registered_, policy_, registered, active_policy, policy_alarms>>,
             send_register_command({}) \/ (\E token \in 0 .. TokenModulus - 1 :
                                             Request({}, "keepalive", token, NoClientPolicy))
      PROVE  PolicyInv'
  <2>1. PICK kind \in {"register", "keepalive"} :
          Sends({}, kind, NoClientPolicy) \/ Fails({}, kind)
    BY <1>4, RegisterCases, RequestCases
  <2>2. /\ Outstanding("policy")' = Outstanding("policy") /\ responses' \subseteq responses
    BY <2>1 DEF Sends, Fails, Kept, Answers, Outstanding
  <2>3. "policy" \in unsent => "policy" \in unsent'
    BY <2>1 DEF Sends, Fails
  <2> QED BY <1>4, <2>2, <2>3, PolicyKept
<1>5. CASE ClientRegAlarm \/ ClientStarts
  BY <1>4, <1>5 DEF ClientRegAlarm, RegAlarm, ClientStarts, ClientStart, CountSent,
                    gatewayVars, deviceVars
<1>6. CASE ClientKeepaliveAlarm
  <2>1. ka_token' \in 0 .. TokenModulus - 1
    BY DEF ClientKnown
  <2> QED BY <1>4, <1>6, <2>1 DEF ClientKeepaliveAlarm, KeepaliveAlarm, CountSent,
                                  gatewayVars, deviceVars
<1>7. CASE ClientPolicyAlarm
  <2>1. /\ send_policy_command({}, active_policy') /\ policy_alarms' \in Nat
        /\ UNCHANGED <<active_policy, policy_, registered_>>
    BY <1>7, SMT DEF ClientPolicyAlarm, PolicyAlarm, CountSent, gatewayVars, deviceVars, PolicyInv
  <2>2. \A e \in Outstanding("policy") \ {} : e.policy = active_policy'
    BY <2>1 DEF PolicyInv
  <2> QED BY <2>1, <2>2, PolicySent
<1>8. ASSUME NEW p \in ClientPolicies, DataPlanePolicy(p) PROVE PolicyInv'
  <2>1. /\ send_policy_command({}, active_policy') /\ policy_alarms' = policy_alarms
        /\ active_policy' = p /\ UNCHANGED <<policy_, registered_>>
    BY <1>8 DEF DataPlanePolicy, ParsePolicy, CountSent, gatewayVars, deviceVars
  <2>2. \A e \in Outstanding("policy") \ {} : e.policy = active_policy'
    <3>1. CASE MaxChains <= 1
      <4>1. IsFiniteSet(Outstanding("policy"))
        BY FS_Subset DEF Outstanding, DriverInv, TableInv
      <4>2. Cardinality(Outstanding("policy")) = 0
        BY <1>8, <3>1, <4>1, FS_CardinalityType, RegistrationAssumption, SMT
           DEF DataPlanePolicy, PolicyInv
      <4> QED BY <4>1, <4>2, FS_EmptySet
    <3>2. CASE \A q, r \in ClientPolicies : q = r
      <4>1. \A e \in Outstanding("policy") : e.policy \in ClientPolicies
        BY DEF Outstanding, DriverInv, TableInv, Requests
      <4> QED BY <2>1, <3>2, <4>1
    <3> QED BY <3>1, <3>2 DEF OnePolicyAtATime
  <2> QED BY <2>1, <2>2, PolicySent DEF PolicyInv
<1>9. CASE ClientStops
  BY <1>9 DEF ClientStops, ClientStop, gatewayVars, deviceVars, PolicyInv, PolicyMissing, Outstanding
<1>10. CASE UNCHANGED vars
  <2>1. UNCHANGED <<registered_, policy_, registered, active_policy, policy_alarms, req_entry,
                    unsent, responses>>
    BY <1>10 DEF vars, gatewayVars, deviceVars, clientVars, netVars
  <2>2. Outstanding("policy")' = Outstanding("policy")
    BY <2>1 DEF Outstanding
  <2> QED BY <2>1, <2>2, PolicyKept
<1> QED BY <1>1, <1>2, <1>3, <1>5, <1>6, <1>7, <1>8, <1>9, <1>10 DEF Next

\* There is no policy at first.
LEMMA PolicyInit == Init => PolicyInv
BY SMT DEF Init, GatewayInit, ClientInit, PolicyInv, PolicyMissing, Outstanding

\* While both sides hold the client registered and the client has nothing
\* left to send about its policy, the gateway has the policy that the data
\* plane asked for last: for any number of devices, slots and faults, when
\* the data plane has one policy on its way at a time.  (reg_callback sends
\* the policy again after every loss of the registration.)
THEOREM PolicyInForceHolds ==
  ASSUME OnePolicyAtATime
  PROVE  Spec => []PolicyInForce
<1>1. DriverInv /\ ClientKnown /\ ClientKnown' /\ PolicyInv /\ [Next]_vars => PolicyInv'
  BY PolicyStep
<1>2. PolicyInv => PolicyInForce
  BY SMT DEF PolicyInv, PolicyInForce, PolicyMissing
<1> QED BY <1>1, <1>2, PolicyInit, DriverInvHolds, PTL DEF Spec

-----------------------------------------------------------------------------
(* One missing keep-alive is not enough.                                   *)

\* The counter of the gateway and what is left of it.
LEMMA AlarmsType ==
  ASSUME AlarmInv
  PROVE  /\ ATLAS_KEEP_ALIVE_COUNTER \in Nat /\ Alarms \in 0 .. ATLAS_KEEP_ALIVE_COUNTER
         /\ lead \in -1 .. 1 /\ silent \in Nat
<1>1. ATLAS_KEEP_ALIVE_COUNTER \in Nat /\ kaCtr_[me] \in 0 .. ATLAS_KEEP_ALIVE_COUNTER
  BY GatewayDevicesAssumption, RegistrationAssumption DEF AlarmInv
<1> QED BY <1>1, SMT DEF AlarmInv, Alarms, Leads

\* What the client sends is never counted back.
LEMMA CountSentGrows ==
  ASSUME AlarmInv, CountSent
  PROVE  silent' \in 0 .. ATLAS_KEEP_ALIVE_COUNTER /\ silent' >= silent
BY GatewayDevicesAssumption, SMT DEF AlarmInv, CountSent

\* A registration or keep-alive that is sent, or could not be, counts.
LEMMA CountSentCounts ==
  ASSUME AlarmInv, CountSent, NEW done \in SUBSET req_entry,
         NEW kind \in {"register", "keepalive"}, \A e \in done : e.kind # kind,
         Sends(done, kind, NoClientPolicy) \/ Fails(done, kind)
  PROVE  silent' = IF silent = ATLAS_KEEP_ALIVE_COUNTER THEN silent ELSE silent + 1
<1>1. CASE Sends(done, kind, NoClientPolicy)
  <2>1. PICK new \in Requests :
          /\ new.kind = kind
          /\ \A e \in Kept(done) : e.slot # new.slot
          /\ req_entry' = Kept(done) \cup {new}
    BY <1>1 DEF Sends
  <2>2. new \in req_entry' \ req_entry
    BY <2>1 DEF Kept
  <2> QED BY <2>1, <2>2 DEF CountSent
<1>2. CASE Fails(done, kind)
  <2>1. kind \in unsent' \ unsent
    BY <1>2 DEF Fails
  <2> QED BY <2>1 DEF CountSent
<1> QED BY <1>1, <1>2

\* A step that leaves the gateway alone, takes nothing back and registers
\* nothing.
LEMMA AlarmKept ==
  ASSUME AlarmInv, UNCHANGED <<kaCtr_, registered_, up, stopped>>,
         faults' \in Nat, lead' \in Leads, lead' >= lead,
         silent' \in 0 .. ATLAS_KEEP_ALIVE_COUNTER, silent' >= silent,
         "register" \in unsent => "register" \in unsent',
         Outstanding("register")' \subseteq Outstanding("register"), responses' \subseteq responses
  PROVE  AlarmInv'
<1>1. (Awaited' => Awaited) /\ Alarms' = Alarms
  BY DEF Awaited, Alarms
<1>2. \A e \in Outstanding("register")' : Accepted(e)' => Accepted(e)
  BY DEF Accepted
<1>3. Outstanding("register")' # {} => lead' >= 0
  BY AlarmsType, SMT DEF AlarmInv, Leads
<1>4. ASSUME Awaited'
      PROVE  /\ Alarms' <= lead' + 1 + silent'
             /\ \A e \in Outstanding("register")' : Accepted(e)' => Alarms' <= lead' + silent'
  <2>1. Alarms <= lead + 1 + silent
    BY <1>1, <1>4 DEF AlarmInv
  <2>2. \A e \in Outstanding("register")' : Accepted(e)' => Alarms <= lead + silent
    BY <1>1, <1>2, <1>4 DEF AlarmInv
  <2>3. lead + silent <= lead' + silent' /\ lead' \in Int /\ silent' \in Int
    BY AlarmsType, SMT DEF Leads
  <2> QED BY <1>1, <2>1, <2>2, <2>3, AlarmsType, SMT
<1> QED BY <1>3, <1>4 DEF AlarmInv

\* A registration is sent: the alarms start anew on both sides, and the
\* gateway's lead is paid for by the request.
LEMMA AlarmRegister ==
  ASSUME DriverInv, AlarmInv, CountSent, NEW done \in SUBSET Outstanding("keepalive"),
         Outstanding("register") = {}, send_register_command(done),
         lead' = 0, faults' \in Nat, up', up \/ stopped
  PROVE  AlarmInv'
<1>0. done \in SUBSET req_entry /\ \A e \in done : e.kind = "keepalive"
  BY DEF Outstanding
<1>1. UNCHANGED <<kaCtr_, registered_, stopped>> /\ Alarms' = Alarms
  BY DEF CountSent, gatewayVars, deviceVars, Alarms
<1>2. silent' \in 0 .. ATLAS_KEEP_ALIVE_COUNTER
  BY CountSentGrows
<1>3. CASE Fails(done, "register")
  <2>1. Outstanding("register")' = {} /\ ~Awaited'
    BY <1>3 DEF Fails, Kept, Outstanding, Awaited
  <2> QED BY <1>1, <1>2, <2>1 DEF AlarmInv, Leads
<1>4. CASE Sends(done, "register", NoClientPolicy)
  <2>1. PICK new \in Requests :
          /\ new.kind = "register" /\ \A e \in Kept(done) : e.slot # new.slot
          /\ req_entry' = Kept(done) \cup {new} /\ responses' = Answers(done)
          /\ unsent' = unsent
    BY <1>4 DEF Sends
  <2>2. \A e \in Outstanding("register")' : ~Accepted(e)'
    <3>1. Outstanding("register")' = {new}
      BY <2>1 DEF Kept, Outstanding
    <3>2. \A r \in responses' : r.slot # new.slot
      BY <1>0, <2>1, NewUnanswered DEF DriverInv
    <3> QED BY <3>1, <3>2 DEF Accepted
  <2>3. Awaited' => Alarms' <= lead' + 1 + silent'
    <3>1. silent' = IF silent = ATLAS_KEEP_ALIVE_COUNTER THEN silent ELSE silent + 1
      BY <1>0, <1>4, CountSentCounts
    <3>2. Awaited' => Alarms <= lead + 1 + silent
      BY <1>1, <2>1 DEF AlarmInv, Awaited
    <3> QED BY <1>1, <3>1, <3>2, AlarmsType, SMT
  <2> QED BY <1>1, <1>2, <2>2, <2>3, SMT DEF AlarmInv, Leads
<1> QED BY <1>3, <1>4, RegisterCases

\* The answer to a request of the client, or its timeout.
LEMMA AlarmCallback ==
  ASSUME DriverInv, ClientKnown, AlarmInv, NEW e \in req_entry, NEW status, NEW token,
         status = "OK" => Accepted(e), Callback(e, status, token), CountSent, RestartPeriod,
         faults' \in Nat
  PROVE  AlarmInv'
<1>a. UNCHANGED <<kaCtr_, registered_, stopped>>
  BY DEF CountSent, gatewayVars, deviceVars
<1>b. UNCHANGED up
  BY DEF Callback, reg_callback, keepalive_callback, policy_callback
<1>0. /\ UNCHANGED <<kaCtr_, registered_, stopped, up>>
      /\ silent' \in 0 .. ATLAS_KEEP_ALIVE_COUNTER /\ silent' >= silent
  BY <1>a, <1>b, CountSentGrows
<1>1. ASSUME Release({e}), UNCHANGED ka_alarm_id PROVE AlarmInv'
  <2>1. /\ Outstanding("register")' \subseteq Outstanding("register")
        /\ responses' \subseteq responses /\ unsent' = unsent
    BY <1>1 DEF Release, Kept, Answers, Outstanding
  <2>2. lead' = lead /\ lead \in Leads /\ lead >= lead
    BY <1>1, AlarmsType, SMT DEF RestartPeriod, AlarmInv
  <2> QED BY <1>0, <2>1, <2>2, AlarmKept
<1>2. CASE e.kind = "register" /\ reg_callback({e}, status)
  <2>1. Outstanding("register") = {e} /\ ~registered
    <3>1. e \in Outstanding("register")
      BY <1>2 DEF Outstanding
    <3> QED BY <3>1 DEF DriverInv, Idle, Waiting, KeepingAlive, Registering
  <2>2. CASE status # "OK"
    BY <1>1, <1>2, <2>2 DEF reg_callback
  <2>3. CASE status = "OK"
    <3>1. /\ Outstanding("register")' = {} /\ unsent \subseteq unsent'
      BY <1>2, <2>1, <2>3, PolicyCases
         DEF reg_callback, Release, Sends, Fails, Kept, Outstanding, ClientKnown
    <3>2. Awaited' => Awaited /\ Alarms' = Alarms
      BY <1>0, <3>1 DEF Awaited, Alarms
    <3>3. Awaited => Alarms <= lead + silent /\ Alarms <= lead + 1 + silent
      BY <2>1, <2>3 DEF AlarmInv
    <3>4. lead' = lead \/ lead' = 0
      BY DEF RestartPeriod
    <3>5. Awaited' => Alarms' <= lead' + 1 + silent'
      BY <1>0, <3>2, <3>3, <3>4, AlarmsType, SMT
    <3> QED BY <1>0, <3>1, <3>4, <3>5 DEF AlarmInv, Leads
  <2> QED BY <2>2, <2>3
<1>3. CASE e.kind = "keepalive" /\ keepalive_callback({e}, status, token)
  <2>1. /\ {e} \in SUBSET Outstanding("keepalive") /\ up
        /\ Outstanding("register") = {} /\ ka_alarm_id \in ka_alarms
    <3>1. e \in Outstanding("keepalive")
      BY <1>3 DEF Outstanding
    <3> QED BY <3>1 DEF DriverInv, Idle, Waiting, KeepingAlive, Registering
  <2>2. CASE Release({e}) /\ UNCHANGED ka_alarm_id
    BY <1>1, <2>2
  <2>3. CASE send_register_command({e}) /\ ka_alarm_id' = -1
    <3>1. ka_alarm_id # -1
      BY <2>1, ClientRegistrationAssumption, SMT DEF DriverInv
    <3>2. lead' = 0
      BY <2>3, <3>1 DEF RestartPeriod
    <3> QED BY <1>0, <2>1, <2>3, <3>2, AlarmRegister
  <2> QED BY <1>3, <2>2, <2>3 DEF keepalive_callback
<1>4. CASE e.kind = "policy" /\ policy_callback({e}, status)
  BY <1>1, <1>4 DEF policy_callback
<1> QED BY <1>2, <1>3, <1>4 DEF Callback

\* The gateway notes a registration or a keep-alive, and starts to count anew.
LEMMA AlarmNoted ==
  ASSUME AlarmInv, Noted, up, lead >= 0 \/ Outstanding("register") = {},
         kaCtr_' = [kaCtr_ EXCEPT ![me] = ATLAS_KEEP_ALIVE_COUNTER], faults' \in Nat,
         UNCHANGED <<up, lead>>, Outstanding("register")' = Outstanding("register")
  PROVE  AlarmInv'
<1>1. ATLAS_KEEP_ALIVE_COUNTER \in Nat
  BY GatewayDevicesAssumption
<1>2. kaCtr_' \in [Devices -> 0 .. ATLAS_KEEP_ALIVE_COUNTER]
  <2>1. ATLAS_KEEP_ALIVE_COUNTER \in 0 .. ATLAS_KEEP_ALIVE_COUNTER
    BY <1>1, SMT
  <2> QED BY <2>1 DEF AlarmInv
<1>3. Alarms' = 0 /\ silent' = 0
  BY <1>1, RegistrationAssumption, SMT DEF Alarms, Noted, AlarmInv
<1>4. Alarms' <= lead' + 1 + silent'
  BY <1>3, SMT DEF AlarmInv, Leads
<1>5. \A e \in Outstanding("register")' : Alarms' <= lead' + silent'
  BY <1>3, SMT DEF AlarmInv, Leads
<1> QED BY <1>1, <1>2, <1>3, <1>4, <1>5, SMT DEF AlarmInv

\* The gateway's callbacks.
LEMMA AlarmGateway ==
  ASSUME DriverInv, AlarmInv, NEW m \in requests, GatewayCallback(m), faults' \in Nat
  PROVE  AlarmInv'
<1>0. m \in req_entry
  BY DEF DriverInv, TableInv
<1>1. UNCHANGED <<up, req_entry, unsent, lead>>
  BY DEF GatewayCallback, clientVars
<1>2. Outstanding("register")' = Outstanding("register")
  BY <1>1 DEF Outstanding
<1>3. CASE RegisterCallback(m)
  <2>1. m \in Outstanding("register")
    BY <1>0, <1>3 DEF RegisterCallback, Outstanding
  <2>2. up /\ lead >= 0
    BY <2>1 DEF DriverInv, Idle, AlarmInv
  <2> QED BY <1>1, <1>2, <1>3, <2>2, AlarmNoted DEF RegisterCallback, RegisterNow
<1>4. CASE m.kind = "keepalive" /\ KeepAliveNow(me) /\ Noted
  <2>1. m \in Outstanding("keepalive")
    BY <1>0, <1>4 DEF Outstanding
  <2>2. up /\ Outstanding("register") = {}
    BY <2>1 DEF DriverInv, Idle, Waiting, Registering, KeepingAlive
  <2> QED BY <1>1, <1>2, <1>4, <2>2, AlarmNoted DEF KeepAliveNow
<1>5. ASSUME m.kind # "register", UNCHANGED <<kaCtr_, registered_, silent, stopped>>,
             \E status, token : Answer(m, status, token)
      PROVE  AlarmInv'
  <2>1. \A e \in Outstanding("register") : Accepted(e)' => Accepted(e)
    <3>1. \A e \in Outstanding("register") : e.slot # m.slot
      BY <1>0, <1>5 DEF DriverInv, TableInv, Outstanding
    <3>2. \A r \in responses' : r \in responses \/ r.slot = m.slot
      BY <1>5, SMT DEF Answer
    <3> QED BY <3>1, <3>2 DEF Accepted
  <2>2. Awaited' = Awaited /\ Alarms' = Alarms
    BY <1>1, <1>5 DEF Awaited, Alarms
  <2> QED BY <1>1, <1>2, <1>5, <2>1, <2>2 DEF AlarmInv
<1>6. CASE m.kind # "register" /\ Refuse(m)
  BY <1>5, <1>6 DEF Refuse, gatewayVars, deviceVars
<1>7. CASE m.kind = "policy" /\ AcceptPolicy(me, m.policy) /\ Answer(m, "OK", 0)
           /\ UNCHANGED <<silent, stopped>>
  BY <1>5, <1>7 DEF AcceptPolicy
<1> QED BY <1>3, <1>4, <1>6, <1>7 DEF GatewayCallback, KeepaliveCallback, FirewallPolicyCallback

\* A driver keeps the two alarms in step.
LEMMA AlarmDriven ==
  ASSUME DriverInv, AlarmInv, Awaited, GatewayAlarm
  PROVE  lead + 1 \in Leads /\ lead' = lead + 1
<1>1. up /\ "register" \notin unsent
  BY DEF Awaited, AlarmInv
<1>2. Drivers = 1
  BY <1>1, DriverImplies DEF OneDriver
<1> QED BY <1>2, SMT DEF GatewayAlarm

\* The gateway's alarm.
LEMMA AlarmGatewayAlarm ==
  ASSUME DriverInv, AlarmInv, GatewayAlarm
  PROVE  AlarmInv'
<1>1. /\ UNCHANGED <<up, req_entry, unsent, responses, faults, silent, stopped>>
      /\ registered_' \subseteq registered_
      /\ kaCtr_' = [d \in Devices |->
                      IF d \in registered_ /\ kaCtr_[d] > 0 THEN kaCtr_[d] - 1 ELSE kaCtr_[d]]
      /\ lead' = lead \/ (lead' = lead + 1 /\ lead' \in Leads)
  <2>1. KeepaliveAlarmCallback
    BY DEF GatewayAlarm
  <2>2. /\ registered_' \subseteq registered_
        /\ kaCtr_' = [d \in Devices |->
                        IF d \in registered_ /\ kaCtr_[d] > 0 THEN kaCtr_[d] - 1 ELSE kaCtr_[d]]
    BY <2>1 DEF KeepaliveAlarmCallback
  <2>3. lead' = lead \/ (lead' = lead + 1 /\ lead' \in Leads)
    BY DEF GatewayAlarm
  <2>4. UNCHANGED <<up, req_entry, unsent, responses, faults, silent, stopped>>
    BY DEF GatewayAlarm, clientVars, netVars
  <2> QED BY <2>2, <2>3, <2>4
<1>2. /\ Outstanding("register")' = Outstanding("register")
      /\ \A e : Accepted(e)' = Accepted(e)
  BY <1>1 DEF Outstanding, Accepted
<1>3. kaCtr_' \in [Devices -> 0 .. ATLAS_KEEP_ALIVE_COUNTER]
  BY <1>1, GatewayDevicesAssumption, SMT DEF AlarmInv
<1>4. Alarms' \in Int /\ Alarms' <= Alarms + 1
  BY <1>1, <1>3, AlarmsType, GatewayDevicesAssumption, RegistrationAssumption, SMT DEF AlarmInv, Alarms
<1>5. lead' \in Leads /\ lead' >= lead
  BY <1>1, AlarmsType, SMT DEF AlarmInv
<1>6. ASSUME Awaited'
      PROVE  /\ Alarms' <= lead' + 1 + silent'
             /\ \A e \in Outstanding("register")' : Accepted(e)' => Alarms' <= lead' + silent'
  <2>1. Awaited
    BY <1>1, <1>6 DEF Awaited
  <2>2. lead' = lead + 1
    BY <2>1, AlarmDriven
  <2>3. /\ Alarms <= lead + 1 + silent
        /\ \A e \in Outstanding("register")' : Accepted(e)' => Alarms <= lead + silent
    BY <1>2, <2>1 DEF AlarmInv
  <2> QED BY <1>1, <1>4, <2>2, <2>3, AlarmsType, SMT
<1>7. Outstanding("register")' # {} => lead' >= 0
  BY <1>2, <1>5, AlarmsType, SMT DEF AlarmInv, Leads
<1> QED BY <1>1, <1>3, <1>5, <1>6, <1>7 DEF AlarmInv

\* Every step keeps the gateway's alarms behind what the client sends.
LEMMA AlarmStep ==
  ASSUME DriverInv, ClientKnown, ClientKnown', AlarmInv, [Next]_vars
  PROVE  AlarmInv'
<1>0. Fault \/ UNCHANGED faults => faults' \in Nat
  BY SMT DEF Fault, AlarmInv
<1>1. ASSUME NEW m \in requests, GatewayHandle(m) \/ GatewayHandleCopy(m) PROVE AlarmInv'
  BY <1>0, <1>1, AlarmGateway DEF GatewayHandle, GatewayHandleCopy
<1>2. CASE GatewayAlarm
  BY <1>2, AlarmGatewayAlarm
<1>3. CASE GatewayRestart
  <2>1. UNCHANGED <<up, req_entry, lead, silent, stopped>> /\ ~Awaited'
    BY <1>3 DEF GatewayRestart, RestartDevices, clientVars, Awaited
  <2>2. Outstanding("register")' = Outstanding("register")
    BY <2>1 DEF Outstanding
  <2>3. kaCtr_' \in [Devices -> 0 .. ATLAS_KEEP_ALIVE_COUNTER]
    BY <1>3, GatewayDevicesAssumption, SMT DEF GatewayRestart, RestartDevices
  <2>4. faults' \in Nat
    BY <1>0, <1>3 DEF GatewayRestart
  <2> QED BY <2>1, <2>2, <2>3, <2>4 DEF AlarmInv
<1>4. ASSUME NEW e \in req_entry, ClientResponse(e) PROVE AlarmInv'
  <2>1. PICK r \in responses : r.slot = e.slot /\ Callback(e, r.status, r.token)
    BY <1>4 DEF ClientResponse, CoapResponse
  <2>2. r.status = "OK" => Accepted(e)
    BY <2>1 DEF Accepted
  <2> QED BY <1>0, <1>4, <2>1, <2>2, AlarmCallback DEF ClientResponse
<1>5. ASSUME NEW e \in req_entry, ClientTimeout(e) PROVE AlarmInv'
  BY <1>0, <1>5, AlarmCallback DEF ClientTimeout, RequestTimeout
<1>6. CASE ClientRegAlarm
  <2>1. Outstanding("register") = {} /\ up
    BY <1>6, SMT DEF ClientRegAlarm, RegAlarm, DriverInv, Idle, Waiting, KeepingAlive, Registering
  <2> QED BY <1>0, <1>6, <2>1, AlarmRegister DEF ClientRegAlarm, RegAlarm
<1>7. CASE ClientKeepaliveAlarm
  <2>1. Outstanding("register") = {} /\ Outstanding("keepalive") = {} /\ up' = up
    BY <1>7 DEF ClientKeepaliveAlarm, KeepaliveAlarm, DriverInv, Idle, Waiting, KeepingAlive,
                Registering
  <2>2. Sends({}, "keepalive", NoClientPolicy) \/ Fails({}, "keepalive")
    BY <1>7, RequestCases DEF ClientKeepaliveAlarm, KeepaliveAlarm, ClientKnown
  <2>3. /\ silent' = IF silent = ATLAS_KEEP_ALIVE_COUNTER THEN silent ELSE silent + 1
        /\ silent' \in 0 .. ATLAS_KEEP_ALIVE_COUNTER
    BY <1>7, <2>2, CountSentCounts, CountSentGrows, SMT DEF ClientKeepaliveAlarm
  <2>4. Outstanding("register")' = {} /\ unsent \subseteq unsent'
    BY <2>1, <2>2 DEF Sends, Fails, Kept, Outstanding
  <2>5. UNCHANGED <<kaCtr_, registered_, stopped, faults>> /\ lead' = lead - 1 /\ lead' \in Leads
    BY <1>7 DEF ClientKeepaliveAlarm, CountSent, gatewayVars, deviceVars
  <2>6. (Awaited' => Awaited) /\ Alarms' = Alarms
    BY <2>4, <2>5 DEF Awaited, Alarms
  <2>7. Awaited' => Alarms' <= lead' + 1 + silent'
    <3>1. Awaited => Alarms <= lead + 1 + silent
      BY DEF AlarmInv
    <3> QED BY <2>3, <2>5, <2>6, <3>1, AlarmsType, SMT DEF Leads
  <2> QED BY <2>1, <2>3, <2>4, <2>5, <2>7 DEF AlarmInv
<1>8. ASSUME NEW policy \in ClientPolicies \cup {NoClientPolicy},
             send_policy_command({}, policy), CountSent, UNCHANGED <<up, lead, faults>>
      PROVE  AlarmInv'
  <2>1. /\ Outstanding("register")' = Outstanding("register")
        /\ responses' \subseteq responses /\ unsent \subseteq unsent'
    <3>1. \/ Release({})
          \/ Sends({}, "policy", policy)
          \/ Fails({}, "policy")
      BY <1>8, PolicyCases
    <3>2. /\ \/ req_entry' = req_entry
             \/ \E new \in Requests : new.kind = "policy" /\ req_entry' = req_entry \cup {new}
          /\ responses' = responses /\ unsent \subseteq unsent'
      BY <3>1 DEF Release, Sends, Fails, Kept, Answers
    <3> QED BY <3>2 DEF Outstanding
  <2>2. UNCHANGED <<kaCtr_, registered_, stopped>>
    BY <1>8 DEF CountSent, gatewayVars, deviceVars
  <2>3. faults' \in Nat /\ lead' \in Leads /\ lead' >= lead
    BY <1>8, AlarmsType, SMT DEF AlarmInv
  <2> QED BY <1>8, <2>1, <2>2, <2>3, CountSentGrows, AlarmKept
<1>9. CASE ClientPolicyAlarm
  BY <1>8, <1>9 DEF ClientPolicyAlarm, PolicyAlarm, ClientKnown
<1>10. ASSUME NEW p \in ClientPolicies, DataPlanePolicy(p) PROVE AlarmInv'
  BY <1>8, <1>10 DEF DataPlanePolicy, ParsePolicy
<1>11. CASE ClientStops
  <2>1. Outstanding("register")' = {} /\ ~Awaited'
    BY <1>11 DEF ClientStops, ClientStop, Outstanding, Awaited
  <2> QED BY <1>0, <1>11, <2>1 DEF ClientStops, gatewayVars, deviceVars, AlarmInv
<1>12. CASE ClientStarts
  <2>1. Outstanding("register") = {} /\ stopped
    BY <1>12 DEF ClientStarts, ClientStart, DriverInv, Idle, AlarmInv
  <2> QED BY <1>0, <1>12, <2>1, AlarmRegister DEF ClientStarts, ClientStart
<1>13. CASE UNCHANGED vars
  <2>1. UNCHANGED <<kaCtr_, registered_, up, stopped, faults, lead, silent, unsent, req_entry,
                    responses>>
    BY <1>13 DEF vars, gatewayVars, deviceVars, clientVars, netVars, envVars
  <2>2. Outstanding("register")' \subseteq Outstanding("register")
    BY <2>1 DEF Outstanding
  <2>3. /\ faults' \in Nat /\ lead' \in Leads /\ silent' \in 0 .. ATLAS_KEEP_ALIVE_COUNTER
        /\ lead' >= lead /\ silent' >= silent
    BY <2>1, AlarmsType, SMT DEF AlarmInv
  <2> QED BY <2>1, <2>2, <2>3, AlarmKept
<1> QED BY <1>1, <1>2, <1>3, <1>4, <1>5, <1>6, <1>7, <1>9, <1>10, <1>11, <1>12, <1>13 DEF Next

\* Neither side has started to count.
LEMMA AlarmInit == Init => AlarmInv
<1> SUFFICES ASSUME Init PROVE AlarmInv
  OBVIOUS
<1>1. kaCtr_ \in [Devices -> 0 .. ATLAS_KEEP_ALIVE_COUNTER] /\ registered_ = {}
  BY GatewayDevicesAssumption, SMT DEF Init, GatewayInit
<1>2. Outstanding("register") = {} /\ ~Awaited
  BY <1>1 DEF Init, ClientInit, Outstanding, Awaited
<1> QED BY <1>1, <1>2, GatewayDevicesAssumption, SMT DEF Init, AlarmInv, Leads

\* A device is given up by the gateway's alarm alone, and then late.
LEMMA ExpiryIsLate ==
  ASSUME ATLAS_KEEP_ALIVE_COUNTER >= 4, DriverInv, AlarmInv, [Next]_vars,
         me \in registered_ \ registered_', faults' = faults
  PROVE  stopped \/ "register" \in unsent \/ silent >= 2
<1>1. GatewayAlarm
  <2>1. ASSUME NEW m \in requests, GatewayHandle(m) \/ GatewayHandleCopy(m) PROVE FALSE
    BY <2>1 DEF GatewayHandle, GatewayHandleCopy, GatewayCallback, RegisterCallback, RegisterNow,
                KeepaliveCallback, KeepAliveNow, FirewallPolicyCallback, AcceptPolicy, Refuse,
                gatewayVars, deviceVars
  <2>2. CASE GatewayRestart
    BY <2>2, SMT DEF GatewayRestart, Fault, AlarmInv
  <2>3. CASE UNCHANGED gatewayVars
    BY <2>3 DEF gatewayVars, deviceVars
  <2> QED BY <2>1, <2>2, <2>3
          DEF Next, vars, ClientResponse, ClientTimeout, ClientRegAlarm, ClientKeepaliveAlarm,
              ClientPolicyAlarm, DataPlanePolicy, ClientStops, ClientStarts, CountSent
<1>2. kaCtr_[me] = 1
  BY <1>1 DEF GatewayAlarm, KeepaliveAlarmCallback
<1>3. SUFFICES ASSUME Awaited PROVE silent >= 2
  BY DEF Awaited
<1>4. lead <= 0
  BY <1>1, <1>3, AlarmDriven, AlarmsType, SMT DEF Leads
<1>5. Alarms <= lead + 1 + silent /\ Alarms = ATLAS_KEEP_ALIVE_COUNTER - 1
  BY <1>2, <1>3 DEF AlarmInv, Alarms
<1> QED BY <1>4, <1>5, AlarmsType, SMT

\* AtlasDevice's counter of 4 (ATLAS_KEEP_ALIVE_COUNTER), or a higher one, is
\* enough: the gateway never gives a running client up that missed one
\* request only, whatever is lost, repeated or restarted, as long as the two
\* alarms have the same period.
THEOREM TwoMissedHolds ==
  ASSUME ATLAS_KEEP_ALIVE_COUNTER >= 4
  PROVE  Spec => TwoMissedBeforeExpiry
<1>1. DriverInv /\ ClientKnown /\ ClientKnown' /\ AlarmInv /\ [Next]_vars => AlarmInv'
  BY AlarmStep
<1>2. DriverInv /\ AlarmInv /\ [Next]_vars =>
        [(me \in registered_ \ registered_' /\ faults' = faults)
           => stopped \/ "register" \in unsent \/ silent >= 2]_vars
  BY ExpiryIsLate
<1> QED BY <1>1, <1>2, AlarmInit, DriverInvHolds, PTL DEF Spec, TwoMissedBeforeExpiry
=============================================================================
