-------------------------- MODULE ClientRegistration --------------------------
(***************************************************************************)
(* One client: registration with the gateway, keep-alives, and the         *)
(* firewall policy of the data plane, on top of the client's CoAP request  *)
(* table.  The client is one thread in a select loop, so a callback with   *)
(* all it calls is one step.                                               *)
(*                                                                         *)
(* A request is a record of req_entry while the client waits for it, and   *)
(* of requests while its datagram is under way.  Every request has a       *)
(* socket and a session of its own, the slot, so requests are not ordered  *)
(* and an answer can reach only the request it answers.                    *)
(***************************************************************************)
EXTENDS Integers, FiniteSets

CONSTANTS
  ClientPolicies,                \* the policies the data plane may ask for
  NoClientPolicy,                \* active_policy is not set
  ATLAS_CLIENT_KEEPALIVE_COUNT,
  TokenModulus,                  \* 2^16 in the code
  Slots,                         \* bound on the requests at a time
  AlarmIds,                      \* bound on the keep-alive alarms at a time
  RequestsFail                   \* atlas_coap_client_request may fail, for each
                                 \* kind of request once while the client runs

ASSUME ClientRegistrationAssumption ==
  /\ ATLAS_CLIENT_KEEPALIVE_COUNT \in 1 .. 255
  /\ TokenModulus \in Nat \ {0}
  /\ AlarmIds \subseteq Nat
  /\ RequestsFail \in BOOLEAN

VARIABLES
  up,             \* the client runs
  registered,
  ka_token,
  ka_count,       \* a uint8_t
  ka_alarms,      \* the keep-alive alarms that run
  ka_alarm_id,    \* the one the client knows, or -1
  reg_alarms,     \* number of pending one-shot alarms of reg_callback
  policy_alarms,  \* the same of policy_callback
  active_policy,
  req_entry,
  requests,
  responses,      \* answers under way: [slot, status, token]
  ka_lost,        \* history: keep-alives that failed in a row
  unsent          \* history: kinds of requests that could not be sent

clientVars == <<up, registered, ka_token, ka_count, ka_alarms, ka_alarm_id,
                reg_alarms, policy_alarms, active_policy, req_entry, ka_lost,
                unsent>>
netVars == <<requests, responses>>

(* A keep-alive carries ka_token, a policy request the policy.             *)
Requests ==
  {r \in [slot : Slots, kind : {"register", "keepalive", "policy"},
          token : 0 .. TokenModulus - 1, policy : ClientPolicies \cup {NoClientPolicy}] :
     /\ r.kind # "keepalive" => r.token = 0
     /\ r.kind = "policy" <=> r.policy # NoClientPolicy}

(* NOT_FOUND stands for every 4.xx code: message_handler reports them all  *)
(* as ATLAS_COAP_RESP_NOT_FOUND.  The callbacks treat a timeout, a reset   *)
(* and an unknown code alike.                                              *)
Status == {"OK", "NOT_FOUND", "TIMEOUT"}

ClientTypeOK ==
  /\ up \in BOOLEAN /\ registered \in BOOLEAN
  /\ ka_token \in 0 .. TokenModulus - 1
  /\ ka_count \in 0 .. 255
  /\ ka_alarms \subseteq AlarmIds
  /\ ka_alarm_id \in AlarmIds \cup {-1}
  /\ reg_alarms \in Nat /\ policy_alarms \in Nat
  /\ active_policy \in ClientPolicies \cup {NoClientPolicy}
  /\ req_entry \subseteq Requests /\ requests \subseteq Requests
  /\ \A r \in responses : r.slot \in Slots /\ r.status \in {"OK", "NOT_FOUND"}
  /\ ka_lost \in 0 .. ATLAS_CLIENT_KEEPALIVE_COUNT
  /\ unsent \subseteq {"register", "keepalive", "policy"}

Outstanding(kind) == {e \in req_entry : e.kind = kind}

-----------------------------------------------------------------------------
(* The request table after the entries of done are released.  Their DTLS   *)
(* sessions are closed, and what is still under way for them is lost: a    *)
(* datagram is taken to arrive within the 5 s its request waits.           *)
Kept(done) == req_entry \ done
UnderWay(done) == requests \ done
Answers(done) == {r \in responses : \A e \in done : e.slot # r.slot}

Release(done) ==
  /\ req_entry' = Kept(done)
  /\ requests' = UnderWay(done)
  /\ responses' = Answers(done)
  /\ UNCHANGED unsent

(* atlas_coap_client_request, at the end of a handler that releases done.  *)
(* When it fails the callers log an error and go on.                       *)
Request(done, kind, token, policy) ==
  \/ /\ RequestsFail /\ kind \notin unsent
     /\ unsent' = unsent \cup {kind}
     /\ req_entry' = Kept(done)
     /\ requests' = UnderWay(done)
     /\ responses' = Answers(done)
  \/ LET used == {e.slot : e \in Kept(done)}
         new == [slot |-> CHOOSE s \in Slots : s \notin used,
                 kind |-> kind, token |-> token, policy |-> policy]
     IN  /\ Slots \ used # {}
         /\ req_entry' = Kept(done) \cup {new}
         /\ requests' = UnderWay(done) \cup {new}
         /\ responses' = Answers(done)
         /\ UNCHANGED unsent

send_register_command(done) == Request(done, "register", 0, NoClientPolicy)

(* Seeded fault: the policy is never sent.                                 *)
send_policy_commandNothing(done, policy) == Release(done)

send_policy_command(done, policy) ==
  IF policy = NoClientPolicy THEN Release(done)
                             ELSE Request(done, "policy", 0, policy)

(* reg_callback.  ka_count is left as it is.                               *)
reg_callback(done, status) ==
  /\ IF status # "OK"
     THEN /\ reg_alarms' = reg_alarms + 1
          /\ Release(done)
          /\ UNCHANGED <<registered, ka_alarms, ka_alarm_id, ka_lost>>
     ELSE /\ IF registered THEN Release(done)
                           ELSE send_policy_command(done, active_policy)
          /\ registered' = TRUE
          /\ AlarmIds \ ka_alarms # {}
          /\ ka_alarm_id' = CHOOSE a \in AlarmIds : a \notin ka_alarms
          /\ ka_alarms' = ka_alarms \cup {ka_alarm_id'}
          /\ ka_lost' = 0
          /\ UNCHANGED reg_alarms
  /\ UNCHANGED <<up, ka_token, ka_count, policy_alarms, active_policy>>

(* The decrement of a uint8_t.                                             *)
Decremented(count) == (count + 255) % 256

(* Seeded fault: the alarm is not found.                                   *)
WithoutAlarmNone(id) == ka_alarms

(* atlas_alarm_cancel of a keep-alive alarm.                               *)
WithoutAlarm(id) == ka_alarms \ {id}

(* keepalive_callback: after enough failures, or at once when the gateway  *)
(* does not know the device, the client registers again.                   *)
keepalive_callback(done, status, token) ==
  LET failed == Decremented(IF status = "NOT_FOUND" THEN 1 ELSE ka_count)
  IN  /\ IF status = "OK" /\ token = ka_token
         THEN /\ ka_count' = ATLAS_CLIENT_KEEPALIVE_COUNT
              /\ ka_lost' = 0
              /\ Release(done)
              /\ UNCHANGED <<registered, ka_alarms, ka_alarm_id>>
         ELSE /\ ka_count' = failed
              /\ ka_lost' = IF ka_lost = ATLAS_CLIENT_KEEPALIVE_COUNT
                            THEN ka_lost ELSE ka_lost + 1
              /\ IF failed = 0
                 THEN /\ registered' = FALSE
                      /\ ka_alarms' = WithoutAlarm(ka_alarm_id)
                      /\ ka_alarm_id' = -1
                      /\ send_register_command(done)
                 ELSE /\ Release(done)
                      /\ UNCHANGED <<registered, ka_alarms, ka_alarm_id>>
      /\ UNCHANGED <<up, ka_token, reg_alarms, policy_alarms, active_policy>>

(* policy_callback                                                         *)
policy_callback(done, status) ==
  /\ IF status = "OK"
     THEN UNCHANGED policy_alarms
     ELSE policy_alarms' = policy_alarms + 1
  /\ Release(done)
  /\ UNCHANGED <<up, registered, ka_token, ka_count, ka_alarms, ka_alarm_id,
                 reg_alarms, active_policy, ka_lost>>

Callback(e, status, token) ==
  \/ e.kind = "register" /\ reg_callback({e}, status)
  \/ e.kind = "keepalive" /\ keepalive_callback({e}, status, token)
  \/ e.kind = "policy" /\ policy_callback({e}, status)

-----------------------------------------------------------------------------
(* message_handler and coap_client_sched_callback: the answer to e.        *)
CoapResponse(e) ==
  \E r \in responses : r.slot = e.slot /\ Callback(e, r.status, r.token)

(* request_alarm_cb                                                        *)
RequestTimeout(e) == Callback(e, "TIMEOUT", 0)

(* Seeded fault: the alarm ends without a new registration.                *)
RegAlarmNothing ==
  /\ reg_alarms > 0
  /\ reg_alarms' = reg_alarms - 1
  /\ Release({})
  /\ UNCHANGED <<up, registered, ka_token, ka_count, ka_alarms, ka_alarm_id,
                 policy_alarms, active_policy, ka_lost>>

(* reg_alarm_callback                                                      *)
RegAlarm ==
  /\ reg_alarms > 0
  /\ reg_alarms' = reg_alarms - 1
  /\ send_register_command({})
  /\ UNCHANGED <<up, registered, ka_token, ka_count, ka_alarms, ka_alarm_id,
                 policy_alarms, active_policy, ka_lost>>

(* keepalive_alarm_callback.  The period is 20 s, and a keep-alive is      *)
(* given up after 5 s; the loop is taken not to be held up for the 15 s    *)
(* between.                                                                *)
KeepaliveAlarm ==
  /\ ka_alarms # {}
  /\ Outstanding("keepalive") = {}
  /\ ka_token' = (ka_token + 1) % TokenModulus
  /\ Request({}, "keepalive", ka_token', NoClientPolicy)
  /\ UNCHANGED <<up, registered, ka_count, ka_alarms, ka_alarm_id, reg_alarms,
                 policy_alarms, active_policy, ka_lost>>

(* policy_alarm_callback                                                   *)
PolicyAlarm ==
  /\ policy_alarms > 0
  /\ policy_alarms' = policy_alarms - 1
  /\ send_policy_command({}, active_policy)
  /\ UNCHANGED <<up, registered, ka_token, ka_count, ka_alarms, ka_alarm_id,
                 reg_alarms, active_policy, ka_lost>>

(* atlas_data_plane_parse_policy: the policy is sent at once, registered   *)
(* or not.                                                                 *)
ParsePolicy(policy) ==
  /\ up
  /\ active_policy' = policy
  /\ send_policy_command({}, policy)
  /\ UNCHANGED <<up, registered, ka_token, ka_count, ka_alarms, ka_alarm_id,
                 reg_alarms, policy_alarms, ka_lost>>

ClientInit ==
  /\ up = FALSE /\ registered = FALSE
  /\ ka_token = 0 /\ ka_count = 0 /\ ka_lost = 0
  /\ ka_alarms = {} /\ ka_alarm_id = -1
  /\ reg_alarms = 0 /\ policy_alarms = 0
  /\ active_policy = NoClientPolicy
  /\ req_entry = {} /\ requests = {} /\ responses = {} /\ unsent = {}

(* The client stops.  All its state is in memory.                          *)
ClientStop ==
  /\ up
  /\ up' = FALSE /\ registered' = FALSE
  /\ ka_token' = 0 /\ ka_count' = 0 /\ ka_lost' = 0
  /\ ka_alarms' = {} /\ ka_alarm_id' = -1
  /\ reg_alarms' = 0 /\ policy_alarms' = 0
  /\ active_policy' = NoClientPolicy
  /\ req_entry' = {} /\ requests' = {} /\ responses' = {} /\ unsent' = {}

(* atlas_register_start                                                    *)
ClientStart ==
  /\ ~up
  /\ up' = TRUE
  /\ send_register_command({})
  /\ UNCHANGED <<registered, ka_token, ka_count, ka_alarms, ka_alarm_id,
                 reg_alarms, policy_alarms, active_policy, ka_lost>>
=============================================================================
