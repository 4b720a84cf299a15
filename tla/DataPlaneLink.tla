---------------------------- MODULE DataPlaneLink ----------------------------
(***************************************************************************)
(* A data-plane application and the agent of its device, over a unix       *)
(* SEQPACKET socket: the application's policy, its packet statistics and   *)
(* its requests for the most trusted identity of a category.               *)
(*                                                                         *)
(* The application writes from two threads.  The writer (the main thread   *)
(* during atlas_init, then the statistics thread) connects again when a    *)
(* write fails; the query thread shares its socket and does not.  The      *)
(* agent is one thread, so each of its callbacks is one step.              *)
(***************************************************************************)
EXTENDS Integers, Sequences, FiniteSets, FiniteSetsExt

CONSTANTS
  Categories,       \* the sensor types asked for
  AppPolicies,      \* the policies an application may be started with
  Conns,            \* bound: connections either process still holds
  None,             \* no policy, connection or category
  MaxQueue,         \* messages a socket holds; a write to a full one blocks
  MaxPackets,       \* bound: packets received
  MaxStops,         \* bound: processes stopped from outside
  MaxLate           \* bound: reads that time out though an answer will come

ASSUME DataPlaneLinkAssumption ==
  /\ None \notin AppPolicies \cup Conns \cup Categories /\ MaxQueue \in Nat \ {0}

VARIABLES
  conn,             \* the connections: who has them open, what they carry
  app_up,
  policy,           \* client: what the application was started with
  fd,               \* the application's socket
  writer, query,    \* where its threads are
  payload_samples,
  agent_up,
  backlog,          \* connections the agent has not accepted
  connected_socket,
  watched,          \* the scheduler has an entry for connected_socket
  active_policy, packets_per_min,
  pending,          \* pending[c]: CoAP requests for c without an answer
  stops, late,      \* counters of the bounds
  received,         \* history: packets received by the application
  reported,         \* history: packets the agent was told of
  intact,           \* history: no process has ended
  strayed           \* history: an answer may be read by another request

appVars == <<app_up, policy, fd, writer, query, payload_samples>>
agentVars == <<agent_up, backlog, connected_socket, watched, active_policy,
               packets_per_min, pending>>
history == <<received, reported, intact, strayed>>
vars == <<conn, appVars, agentVars, stops, late, history>>

Statistics(n) == [kind |-> "statistics", packets |-> n]
PolicyCommand(p) == [kind |-> "policy", policy |-> p]
GetIdentity == [kind |-> "get_identity"]
ReputationRequest(c) == [kind |-> "request", category |-> c]
Identity == [kind |-> "identity"]
Reputation(c) == [kind |-> "reputation", category |-> c]
Error == [kind |-> "error"]

Closed == [app |-> FALSE, agent |-> FALSE, up |-> <<>>, down |-> <<>>, owner |-> None]
WriterOff == [at |-> "off", owed |-> 0, packets |-> 0, init |-> FALSE]
QueryIdle == [at |-> "idle", category |-> None, on |-> None]

TypeOK ==
  /\ \A c \in Conns : conn[c].app \in BOOLEAN /\ conn[c].agent \in BOOLEAN
                      /\ Len(conn[c].up) <= MaxQueue /\ Len(conn[c].down) <= MaxQueue
  /\ app_up \in BOOLEAN /\ policy \in AppPolicies \cup {None}
  /\ fd \in Conns \cup {None} /\ connected_socket \in Conns \cup {None}
  /\ writer.at \in {"off", "connect", "policy", "command", "identity", "idle"}
  /\ writer.at = "off" <=> ~app_up
  /\ query.at \in {"idle", "sent", "reading"}
  /\ payload_samples \in 0 .. MaxPackets /\ packets_per_min \in 0 .. MaxPackets
  /\ agent_up \in BOOLEAN /\ watched \in BOOLEAN
  /\ active_policy \in AppPolicies \cup {None}
  /\ connected_socket # None => conn[connected_socket].agent
  /\ fd # None => conn[fd].app
  /\ pending \in [Categories -> Nat]

Init ==
  /\ conn = [c \in Conns |-> Closed]
  /\ app_up = FALSE /\ policy = None /\ fd = None
  /\ writer = WriterOff /\ query = QueryIdle
  /\ payload_samples = 0
  /\ agent_up = TRUE /\ backlog = <<>> /\ connected_socket = None /\ watched = FALSE
  /\ active_policy = None /\ packets_per_min = 0
  /\ pending = [c \in Categories |-> 0]
  /\ stops = 0 /\ late = 0
  /\ received = 0 /\ reported = 0 /\ intact = TRUE /\ strayed = FALSE

-----------------------------------------------------------------------------
(* The socket.  A write to a connection fails when the other end is gone,  *)
(* and raises SIGPIPE, which ends a process that does not ignore it.       *)
Writable(c) == c # None /\ conn[c].agent /\ Len(conn[c].up) < MaxQueue
Broken(c) == c # None => ~conn[c].agent

(* A connection nobody holds is free for use.                              *)
Tidy(cs) == [c \in Conns |-> IF cs[c].app \/ cs[c].agent THEN cs[c] ELSE Closed]

(* An answer that no read has taken is yet to come.                        *)
Due ==
  \/ \E c \in Categories : pending[c] > 0
  \/ \E c \in Conns : conn[c].agent /\ \E i \in DOMAIN conn[c].up : conn[c].up[i].kind = "request"

(* close(fd): the file stays open while the query thread reads from it.    *)
CloseFd ==
  /\ fd' = None
  /\ conn' = IF fd = None THEN conn ELSE Tidy([conn EXCEPT ![fd].app = query.on = fd])

-----------------------------------------------------------------------------
(* The application ends.                                                   *)
AppEnds ==
  /\ app_up' = FALSE /\ policy' = None /\ fd' = None /\ writer' = WriterOff /\ query' = QueryIdle
  /\ payload_samples' = 0
  /\ conn' = Tidy([c \in Conns |-> [conn[c] EXCEPT !.app = FALSE]])
  /\ intact' = FALSE
  /\ UNCHANGED <<received, reported, strayed, agentVars>>

(* parse_arguments and atlas_init: the application is started.             *)
AppStart ==
  /\ ~app_up /\ app_up' = TRUE
  /\ policy' \in AppPolicies
  /\ writer' = [at |-> "connect", owed |-> 1, packets |-> 0, init |-> TRUE]
  /\ UNCHANGED <<conn, fd, query, payload_samples, agentVars, stops, late, history>>

(* Seeded fault: the policy is not sent.                                    *)
socket_connectUnregistered ==
  /\ writer.at = "connect"
  /\ agent_up /\ Len(backlog) < 2
  /\ \E c \in Conns : conn[c] = Closed
  /\ LET c == CHOOSE c \in Conns : conn[c] = Closed
     IN  /\ conn' = [conn EXCEPT ![c] = [Closed EXCEPT !.app = TRUE, !.agent = TRUE, !.owner = policy]]
         /\ fd' = c /\ backlog' = Append(backlog, c)
  /\ writer' = [writer EXCEPT !.at = "command"]
  /\ strayed' = (Due \/ (strayed /\ query.at = "reading"))
  /\ UNCHANGED <<app_up, policy, query, payload_samples, agent_up, connected_socket, watched,
                 active_policy, packets_per_min, pending, stops, late, received, reported, intact>>

(* socket_connect: the connect is tried every second until there is a      *)
(* listener with room.  The policy is the first thing the writer sends.    *)
socket_connect ==
  /\ writer.at = "connect"
  /\ agent_up /\ Len(backlog) < 2
  /\ \E c \in Conns : conn[c] = Closed
  /\ LET c == CHOOSE c \in Conns : conn[c] = Closed
     IN  /\ conn' = [conn EXCEPT ![c] = [Closed EXCEPT !.app = TRUE, !.agent = TRUE, !.owner = policy]]
         /\ fd' = c /\ backlog' = Append(backlog, c)
  /\ writer' = [writer EXCEPT !.at = "policy"]
  /\ strayed' = (Due \/ (strayed /\ query.at = "reading"))
  /\ UNCHANGED <<app_up, policy, query, payload_samples, agent_up, connected_socket, watched,
                 active_policy, packets_per_min, pending, stops, late, received, reported, intact>>

(* Seeded fault: the write is tried on the same socket.                     *)
write_to_socket_retrySame(m, next, owed) ==
  \/ /\ Writable(fd)
     /\ conn' = [conn EXCEPT ![fd].up = Append(@, m)]
     /\ writer' = next
     /\ UNCHANGED <<app_up, policy, fd, query, payload_samples, agentVars, stops, late, history>>
  \/ /\ Broken(fd)
     /\ UNCHANGED vars
  \/ /\ Broken(fd) /\ writer.init
     /\ AppEnds /\ UNCHANGED <<stops, late>>

(* write_to_socket_retry: a failed write is tried again on a connection of *)
(* its own.  Before MQTTClient_create nothing ignores SIGPIPE.             *)
write_to_socket_retry(m, next, owed) ==
  \/ /\ Writable(fd)
     /\ conn' = [conn EXCEPT ![fd].up = Append(@, m)]
     /\ writer' = next
     /\ UNCHANGED <<app_up, policy, fd, query, payload_samples, agentVars, stops, late, history>>
  \/ /\ Broken(fd)
     /\ CloseFd
     /\ writer' = [writer EXCEPT !.at = "connect", !.owed = owed]
     /\ UNCHANGED <<app_up, policy, query, payload_samples, agentVars, stops, late, history>>
  \/ /\ Broken(fd) /\ writer.init
     /\ AppEnds /\ UNCHANGED <<stops, late>>

(* Seeded fault: the samples are not reset.                                 *)
send_statistics_commandKeep ==
  /\ writer.at = "idle"
  /\ writer' = [writer EXCEPT !.at = "command", !.packets = payload_samples]
  /\ UNCHANGED payload_samples
  /\ UNCHANGED <<conn, app_up, policy, fd, query, agentVars, stops, late, history>>

(* Each write of the policy that fails connects, and so owes one more.     *)
send_registration_command ==
  /\ writer.at = "policy"
  /\ write_to_socket_retry(PolicyCommand(policy),
                           [writer EXCEPT !.owed = @ - 1,
                                          !.at = IF writer.owed = 1 THEN "command" ELSE "policy"],
                           writer.owed + 1)

send_statistics_command ==
  /\ writer.at = "idle"
  /\ writer' = [writer EXCEPT !.at = "command", !.packets = payload_samples]
  /\ payload_samples' = 0
  /\ UNCHANGED <<conn, app_up, policy, fd, query, agentVars, stops, late, history>>

write_command ==
  /\ writer.at = "command"
  /\ IF writer.init
     THEN write_to_socket_retry(GetIdentity, [writer EXCEPT !.at = "identity"], 1)
     ELSE write_to_socket_retry(Statistics(writer.packets), [writer EXCEPT !.at = "idle", !.packets = 0], 1)

(* send_identity_command, the read.  Without an identity the application   *)
(* ends: atlas_init fails or MQTTClient_create does.                       *)
read_identity ==
  /\ writer.at = "identity"
  /\ LET down == conn[fd].down
     IN  \/ /\ down # <<>> /\ Head(down) = Identity
            /\ conn' = [conn EXCEPT ![fd].down = Tail(down)]
            /\ writer' = [writer EXCEPT !.at = "idle", !.init = FALSE]
            /\ UNCHANGED <<app_up, policy, fd, query, payload_samples, agentVars, stops, late, history>>
         \/ /\ down # <<>> /\ Head(down) # Identity
            /\ AppEnds /\ UNCHANGED <<stops, late>>
         \/ /\ ~conn[fd].agent
            /\ AppEnds /\ UNCHANGED <<stops, late>>
         \/ /\ down = <<>> /\ late < MaxLate /\ late' = late + 1
            /\ AppEnds /\ UNCHANGED stops

atlas_pkt_received ==
  /\ app_up /\ ~writer.init /\ received < MaxPackets
  /\ payload_samples' = payload_samples + 1 /\ received' = received + 1
  /\ UNCHANGED <<conn, app_up, policy, fd, writer, query, agentVars, stops, late,
                 reported, intact, strayed>>

-----------------------------------------------------------------------------
(* atlas_reputation_request.  Its write is not tried again, and its read   *)
(* waits five seconds on what fd is by then.                               *)
atlas_reputation_request(c) ==
  /\ app_up /\ ~writer.init /\ query.at = "idle"
  /\ \/ /\ Writable(fd)
        /\ conn' = [conn EXCEPT ![fd].up = Append(@, ReputationRequest(c))]
        /\ query' = [QueryIdle EXCEPT !.at = "sent", !.category = c]
     \/ Broken(fd) /\ UNCHANGED <<query, conn>>
  /\ UNCHANGED <<app_up, policy, fd, writer, payload_samples, agentVars, stops, late, history>>

request_read ==
  /\ query.at = "sent"
  /\ query' = IF fd = None THEN QueryIdle ELSE [query EXCEPT !.at = "reading", !.on = fd]
  /\ UNCHANGED <<conn, app_up, policy, fd, writer, payload_samples, agentVars, stops, late, history>>

(* The query thread lets go of what it read from.                          *)
LetGo(cs) == Tidy([cs EXCEPT ![query.on].app = query.on = fd])

request_answered ==
  /\ query.at = "reading" /\ conn[query.on].down # <<>>
  /\ query' = QueryIdle
  /\ conn' = LetGo([conn EXCEPT ![query.on].down = Tail(@)])
  /\ UNCHANGED <<app_up, policy, fd, writer, payload_samples, agentVars, stops, late, history>>

request_failed ==
  /\ query.at = "reading" /\ ~conn[query.on].agent
  /\ query' = QueryIdle
  /\ conn' = LetGo(conn)
  /\ UNCHANGED <<app_up, policy, fd, writer, payload_samples, agentVars, stops, late, history>>

request_timeout ==
  /\ query.at = "reading" /\ conn[query.on].down = <<>>
  /\ Due => late < MaxLate
  /\ late' = IF Due THEN late + 1 ELSE late
  /\ strayed' = (strayed \/ Due)
  /\ query' = QueryIdle
  /\ conn' = LetGo(conn)
  /\ UNCHANGED <<app_up, policy, fd, writer, payload_samples, agentVars, stops, received, reported, intact>>

-----------------------------------------------------------------------------
(* The agent ends; its state is in memory.                                 *)
AgentEnds ==
  /\ agent_up' = FALSE /\ backlog' = <<>> /\ connected_socket' = None /\ watched' = FALSE
  /\ active_policy' = None /\ packets_per_min' = 0
  /\ pending' = [c \in Categories |-> 0]
  /\ conn' = Tidy([c \in Conns |-> [conn[c] EXCEPT !.agent = FALSE, !.up = <<>>]])
  /\ intact' = FALSE
  /\ UNCHANGED <<appVars, received, reported, strayed>>

atlas_data_plane_connector_start ==
  /\ ~agent_up /\ agent_up' = TRUE
  /\ UNCHANGED <<conn, appVars, backlog, connected_socket, watched, active_policy, packets_per_min,
                 pending, stops, late, history>>

(* Only one connection is kept.                                            *)
atlas_data_plane_accept_cb ==
  /\ agent_up /\ backlog # <<>>
  /\ connected_socket' = Head(backlog) /\ backlog' = Tail(backlog) /\ watched' = TRUE
  /\ conn' = IF connected_socket = None THEN conn
             ELSE Tidy([conn EXCEPT ![connected_socket].agent = FALSE, ![connected_socket].up = <<>>])
  /\ UNCHANGED <<appVars, agent_up, active_policy, packets_per_min, pending, stops, late, history>>

(* cs after m is written to connected_socket, if the other end is there.   *)
Answered(cs, m) ==
  IF cs[connected_socket].app THEN [cs EXCEPT ![connected_socket].down = Append(@, m)] ELSE cs

(* A write to an application that is gone ends the agent, unless SIGPIPE   *)
(* is ignored where it was started.                                        *)
NobodyThere == connected_socket # None /\ ~conn[connected_socket].app
RoomToAnswer == connected_socket # None => Len(conn[connected_socket].down) < MaxQueue

(* The commands of the application, once read: popped is conn after that.  *)
atlas_data_plane_parse_policy(m, popped) ==
  /\ m.kind = "policy"
  /\ active_policy' = m.policy /\ conn' = popped
  /\ UNCHANGED <<packets_per_min, pending, reported>>

set_packets_per_min(m, popped) ==
  /\ m.kind = "statistics"
  /\ packets_per_min' = m.packets /\ reported' = reported + m.packets /\ conn' = popped
  /\ UNCHANGED <<active_policy, pending>>

(* Seeded fault: a request is acknowledged before it is answered.          *)
atlas_feature_reputation_handleAcknowledged(m, popped) ==
  /\ m.kind = "request" /\ RoomToAnswer
  /\ pending' = [pending EXCEPT ![m.category] = @ + 1]
  /\ conn' = Answered(popped, Error)
  /\ UNCHANGED <<active_policy, packets_per_min, reported>>

(* When the CoAP request cannot be sent nobody is told.                    *)
atlas_feature_reputation_handle(m, popped) ==
  /\ m.kind = "request"
  /\ \/ pending' = [pending EXCEPT ![m.category] = @ + 1]
     \/ UNCHANGED pending
  /\ conn' = popped
  /\ UNCHANGED <<active_policy, packets_per_min, reported>>

atlas_data_plane_identity(m, popped) ==
  /\ m.kind = "get_identity" /\ RoomToAnswer
  /\ conn' = Answered(popped, Identity)
  /\ UNCHANGED <<active_policy, packets_per_min, pending, reported>>

atlas_data_plane_read_cb ==
  /\ watched /\ conn[connected_socket].up # <<>>
  /\ LET m == Head(conn[connected_socket].up)
         popped == [conn EXCEPT ![connected_socket].up = Tail(@)]
     IN  \/ /\ \/ atlas_data_plane_parse_policy(m, popped) \/ set_packets_per_min(m, popped)
               \/ atlas_feature_reputation_handle(m, popped) \/ atlas_data_plane_identity(m, popped)
            /\ UNCHANGED <<appVars, agent_up, backlog, connected_socket, watched, stops, late,
                           received, intact, strayed>>
         \/ /\ m.kind = "get_identity" /\ NobodyThere
            /\ AgentEnds /\ UNCHANGED <<stops, late>>

(* The same when the read fails: the socket is no longer watched, but it   *)
(* stays connected_socket.                                                 *)
read_fails ==
  /\ watched /\ ~conn[connected_socket].app
  /\ watched' = FALSE
  /\ UNCHANGED <<conn, appVars, agent_up, backlog, connected_socket, active_policy, packets_per_min,
                 pending, stops, late, history>>

(* feature_reputation_callback, for the answer of the gateway or for an    *)
(* error or a timeout: it goes to whoever is connected by then.            *)
feature_reputation_callback(c) ==
  /\ pending[c] > 0
  /\ \/ /\ RoomToAnswer
        /\ pending' = [pending EXCEPT ![c] = @ - 1]
        /\ \E m \in {Reputation(c), Error} :
             conn' = IF connected_socket = None THEN conn ELSE Answered(conn, m)
        /\ UNCHANGED <<appVars, agent_up, backlog, connected_socket, watched, active_policy,
                       packets_per_min, stops, late, history>>
     \/ NobodyThere /\ AgentEnds /\ UNCHANGED <<stops, late>>

-----------------------------------------------------------------------------
StopApp == app_up /\ stops < MaxStops /\ stops' = stops + 1 /\ AppEnds /\ UNCHANGED late
StopAgent == agent_up /\ stops < MaxStops /\ stops' = stops + 1 /\ AgentEnds /\ UNCHANGED late

Writer ==
  \/ socket_connect \/ send_registration_command \/ send_statistics_command \/ write_command \/ read_identity
Query == request_read \/ request_answered \/ request_failed \/ request_timeout
Agent ==
  \/ atlas_data_plane_accept_cb \/ atlas_data_plane_read_cb \/ read_fails
  \/ \E c \in Categories : feature_reputation_callback(c)

Next ==
  \/ Writer \/ Query \/ Agent
  \/ AppStart \/ atlas_data_plane_connector_start
  \/ atlas_pkt_received \/ \E c \in Categories : atlas_reputation_request(c)
  \/ StopApp \/ StopAgent

Spec == Init /\ [][Next]_vars

(* Both processes are started again; the threads and the agent's loop run; *)
(* the loop serves its listener and its connection in turn; and a read     *)
(* ends after its five seconds.                                            *)
FairSpec ==
  /\ Spec
  /\ WF_vars(AppStart) /\ WF_vars(atlas_data_plane_connector_start)
  /\ WF_vars(Writer) /\ WF_vars(Query)
  /\ WF_vars(atlas_data_plane_accept_cb) /\ WF_vars(atlas_data_plane_read_cb) /\ WF_vars(read_fails)
  /\ \A c \in Categories : WF_vars(feature_reputation_callback(c))

-----------------------------------------------------------------------------
(* The packets in what the agent has not read.                             *)
Queued ==
  LET at(u) == conn[u[1]].up[u[2]]
      unread == {u \in Conns \X (1 .. MaxQueue) :
                   u[2] <= Len(conn[u[1]].up) /\ at(u).kind = "statistics"}
  IN  MapThenSumSet(LAMBDA u : at(u).packets, unread)

(* A received packet is counted in one place: in the samples, by the       *)
(* statistics thread, on the socket or by the agent.  It is never counted  *)
(* twice, however often a write is tried again, and is lost only when a    *)
(* process ends.                                                           *)
PacketsConserved ==
  LET counted == payload_samples + writer.packets + Queued + reported
  IN  counted <= received /\ (intact => counted = received)

(* The agent takes statistics only from an application whose policy it     *)
(* has: the policy precedes them on every connection, the ones made after  *)
(* a failed write included.                                                *)
PolicyBeforeStatistics ==
  [][reported' # reported => active_policy = conn[connected_socket].owner]_vars

(* What the request that is being read for would return.                   *)
Returned ==
  IF query.at = "reading" /\ conn[query.on].down # <<>> THEN Head(conn[query.on].down) ELSE Error

(* While no read has given up on an answer that was still to come, and     *)
(* none was to come when the connection was made, the identity a request   *)
(* returns is the answer to a request for the same category.               *)
AnswersFresh == ~strayed /\ Returned.kind = "reputation" => Returned.category = query.category

(* When the processes are no longer stopped, the agent ends up with the    *)
(* policy the application was last started with.                           *)
PolicyConverges == <>[](app_up /\ active_policy = policy)

(* Every reputation request returns.                                       *)
RequestsReturn == query.at # "idle" ~> query.at = "idle"

(* "identity The most trusted identity within a category"                  *)
(* (src/atlas_client/src/data_plane/atlas_client.h:49): the identity a     *)
(* request returns is one of the category it asked for.                    *)
AnswerOfCategory == Returned.kind = "reputation" => Returned.category = query.category
=============================================================================
