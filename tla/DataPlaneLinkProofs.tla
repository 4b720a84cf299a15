------------------------- MODULE DataPlaneLinkProofs -------------------------
(***************************************************************************)
(* What holds of an application and its agent for any connections,         *)
(* policies, categories and queue lengths: what their threads hold open,   *)
(* and that the agent takes statistics only under the policy of the        *)
(* application that sends them.                                            *)
(***************************************************************************)
EXTENDS DataPlaneLink, TLAPS

\* Zenon proves what no pragma is cited for; arithmetic and sequences are for SMT.
USE Zenon

Commands ==
  [kind : {"statistics"}, packets : Nat] \cup [kind : {"policy"}, policy : AppPolicies]
    \cup [kind : {"get_identity"}] \cup [kind : {"request"}, category : Categories]
Answers ==
  [kind : {"identity"}] \cup [kind : {"error"}] \cup [kind : {"reputation"}, category : Categories]

Connection ==
  [app : BOOLEAN, agent : BOOLEAN, up : Seq(Commands), down : Seq(Answers),
   owner : AppPolicies \cup {None}]

WriterStates ==
  [at : {"off", "connect", "policy", "command", "identity", "idle"}, owed : Int, packets : Nat,
   init : BOOLEAN]
QueryStates ==
  [at : {"idle", "sent", "reading"}, category : Categories \cup {None}, on : Conns \cup {None}]

LinkTypes ==
  /\ conn \in [Conns -> Connection]
  /\ fd \in Conns \cup {None} /\ connected_socket \in Conns \cup {None}
  /\ writer \in WriterStates /\ query \in QueryStates
  /\ backlog \in Seq(Conns)
  /\ payload_samples \in Nat
  /\ pending \in [Categories -> Nat]

(* The two ends of the application: what its threads hold open.            *)
AppInv ==
  /\ fd = None <=> writer.at \in {"off", "connect"}
  /\ writer.at # "off" => policy \in AppPolicies
  /\ writer.at = "off" <=> ~app_up
  /\ writer.at = "off" => ~writer.init
  /\ writer.at = "identity" => writer.init
  /\ query.at # "idle" => app_up /\ ~writer.init
  /\ query.at = "reading" <=> query.on # None
  /\ fd # None => conn[fd].app
  /\ query.on # None => conn[query.on].app
  /\ \A c \in Conns : conn[c].app => c \in {fd, query.on}

(* The agent's: a connection is the one accepted or waits to be; the       *)
(* application's is the last made.                                         *)
AgentInv ==
  /\ watched => connected_socket # None
  /\ connected_socket # None => conn[connected_socket].agent
  /\ \A i \in 1 .. Len(backlog) : conn[backlog[i]].agent /\ backlog[i] # connected_socket
  /\ \A i, j \in 1 .. Len(backlog) : backlog[i] = backlog[j] => i = j
  /\ \A c \in Conns : ~conn[c].agent => conn[c].up = <<>>
  /\ fd # None /\ fd = connected_socket => backlog = <<>>
  /\ fd # None /\ backlog # <<>> => backlog[Len(backlog)] = fd
  /\ query.on \notin {None, fd} => ~conn[query.on].agent

LinkInv == LinkTypes /\ AppInv /\ AgentInv

(* The agent has, or will read, the policy of c's application before the   *)
(* i-th message on c.                                                      *)
Announced(c, i) ==
  \/ c = connected_socket /\ active_policy = conn[c].owner
  \/ \E j \in 1 .. i - 1 : conn[c].up[j].kind = "policy"

(* The inductive invariant behind PolicyBeforeStatistics.                  *)
AnnounceInv ==
  /\ \A c \in Conns : \A i \in 1 .. Len(conn[c].up) :
       /\ conn[c].up[i].kind = "policy" => conn[c].up[i].policy = conn[c].owner
       /\ conn[c].up[i].kind = "statistics" => Announced(c, i)
  /\ fd # None /\ conn[fd].agent => conn[fd].owner = policy
  /\ writer.at \in {"command", "identity", "idle"} /\ conn[fd].agent =>
       Announced(fd, Len(conn[fd].up) + 1)

-----------------------------------------------------------------------------
(* What the model's operators do to the connections.                       *)

Sent(cs, c, m) == [cs EXCEPT ![c].up = Append(@, m)]
Popped(cs, c) == [cs EXCEPT ![c].up = Tail(@)]
Taken(cs, c) == [cs EXCEPT ![c].down = Tail(@)]
Released(cs, c) == [cs EXCEPT ![c].app = FALSE]
Dropped(cs, c) == [cs EXCEPT ![c].agent = FALSE, ![c].up = <<>>]

\* What the application and the agent write is a command or an answer.
LEMMA MessageTypes ==
  /\ \A n \in Nat : Statistics(n) \in Commands
  /\ \A p \in AppPolicies : PolicyCommand(p) \in Commands
  /\ \A k \in Categories : ReputationRequest(k) \in Commands
  /\ GetIdentity \in Commands
  /\ \A k \in Categories : Reputation(k) \in Answers
  /\ Identity \in Answers /\ Error \in Answers
BY DEF Commands, Answers, Statistics, PolicyCommand, ReputationRequest, GetIdentity, Reputation,
       Identity, Error

\* A closed connection is open at neither end and carries nothing.
LEMMA ClosedType ==
  Closed \in Connection /\ ~Closed.app /\ ~Closed.agent /\ Closed.up = <<>> /\ Closed.down = <<>>
<1>1. <<>> \in Seq(Commands) /\ <<>> \in Seq(Answers)
  BY SMT
<1> QED BY <1>1 DEF Closed, Connection

\* A write to a socket (write_to_socket): only what it carries up is changed.
LEMMA SendEffect ==
  ASSUME LinkTypes, NEW c \in Conns, NEW m \in Commands,
         conn' = Sent(conn, c, m)
  PROVE  /\ conn' \in [Conns -> Connection]
         /\ conn'[c].up = Append(conn[c].up, m)
         /\ \A d \in Conns : /\ conn'[d].app = conn[d].app /\ conn'[d].agent = conn[d].agent
                             /\ conn'[d].down = conn[d].down /\ conn'[d].owner = conn[d].owner
                             /\ d # c => conn'[d] = conn[d]
<1>1. conn[c] \in Connection
  BY DEF LinkTypes
<1>2. Append(conn[c].up, m) \in Seq(Commands)
  BY <1>1, SMT DEF Connection
<1>3. [conn[c] EXCEPT !.up = Append(conn[c].up, m)] \in Connection
  BY <1>1, <1>2 DEF Connection
<1>4. conn' = [conn EXCEPT ![c] = [conn[c] EXCEPT !.up = Append(conn[c].up, m)]]
  BY DEF Sent
<1> HIDE DEF Connection
<1>5. conn' \in [Conns -> Connection]
  BY <1>3, <1>4 DEF LinkTypes
<1>6. conn'[c] = [conn[c] EXCEPT !.up = Append(conn[c].up, m)]
  BY <1>4 DEF LinkTypes
<1>7. \A d \in Conns : d # c => conn'[d] = conn[d]
  BY <1>4 DEF LinkTypes
<1>8. /\ conn'[c].up = Append(conn[c].up, m)
      /\ conn'[c].app = conn[c].app /\ conn'[c].agent = conn[c].agent
      /\ conn'[c].down = conn[c].down /\ conn'[c].owner = conn[c].owner
  BY <1>1, <1>6 DEF Connection
<1> QED BY <1>5, <1>7, <1>8

\* A read by the agent takes the first command (atlas_data_plane_read_cb).
LEMMA PopEffect ==
  ASSUME NEW cs \in [Conns -> Connection], NEW c \in Conns, cs[c].up # <<>>,
         NEW ds, ds = Popped(cs, c)
  PROVE  /\ ds \in [Conns -> Connection]
         /\ ds[c].up = Tail(cs[c].up)
         /\ \A d \in Conns : /\ ds[d].app = cs[d].app /\ ds[d].agent = cs[d].agent
                             /\ ds[d].down = cs[d].down /\ ds[d].owner = cs[d].owner
                             /\ d # c => ds[d] = cs[d]
<1>1. cs[c] \in Connection
  OBVIOUS
<1>2. Tail(cs[c].up) \in Seq(Commands)
  BY <1>1, SMT DEF Connection
<1>3. [cs[c] EXCEPT !.up = Tail(cs[c].up)] \in Connection
  BY <1>1, <1>2 DEF Connection
<1>4. ds = [cs EXCEPT ![c] = [cs[c] EXCEPT !.up = Tail(cs[c].up)]]
  BY DEF Popped
<1>5. ds \in [Conns -> Connection]
  BY <1>3, <1>4
<1>6. ds[c] = [cs[c] EXCEPT !.up = Tail(cs[c].up)]
  BY <1>4
<1>7. \A d \in Conns : d # c => ds[d] = cs[d]
  BY <1>4
<1> QED BY <1>1, <1>5, <1>6, <1>7, SMT DEF Connection

\* A read by the application takes the first answer.
LEMMA TakeEffect ==
  ASSUME NEW cs \in [Conns -> Connection], NEW c \in Conns, cs[c].down # <<>>,
         NEW ds, ds = Taken(cs, c)
  PROVE  /\ ds \in [Conns -> Connection]
         /\ ds[c].down = Tail(cs[c].down)
         /\ \A d \in Conns : /\ ds[d].app = cs[d].app /\ ds[d].agent = cs[d].agent
                             /\ ds[d].up = cs[d].up /\ ds[d].owner = cs[d].owner
                             /\ d # c => ds[d] = cs[d]
<1>1. cs[c] \in Connection
  OBVIOUS
<1>2. Tail(cs[c].down) \in Seq(Answers)
  BY <1>1, SMT DEF Connection
<1>3. [cs[c] EXCEPT !.down = Tail(cs[c].down)] \in Connection
  BY <1>1, <1>2 DEF Connection
<1>4. ds = [cs EXCEPT ![c] = [cs[c] EXCEPT !.down = Tail(cs[c].down)]]
  BY DEF Taken
<1>5. ds \in [Conns -> Connection]
  BY <1>3, <1>4
<1>6. ds[c] = [cs[c] EXCEPT !.down = Tail(cs[c].down)]
  BY <1>4
<1>7. \A d \in Conns : d # c => ds[d] = cs[d]
  BY <1>4
<1> QED BY <1>1, <1>5, <1>6, <1>7, SMT DEF Connection

\* An answer of the agent goes to the connection it has, if the application
\* is still there (atlas_data_plane_response).
LEMMA AnswerEffect ==
  ASSUME NEW cs \in [Conns -> Connection], connected_socket \in Conns, NEW m \in Answers,
         NEW ds, ds = Answered(cs, m)
  PROVE  /\ ds \in [Conns -> Connection]
         /\ \A d \in Conns : /\ ds[d].app = cs[d].app /\ ds[d].agent = cs[d].agent
                             /\ ds[d].up = cs[d].up /\ ds[d].owner = cs[d].owner
                             /\ d # connected_socket => ds[d] = cs[d]
         /\ ~cs[connected_socket].app => ds = cs
         /\ cs[connected_socket].app =>
              ds[connected_socket].down = Append(cs[connected_socket].down, m)
<1> DEFINE c == connected_socket
<1>1. CASE ~cs[c].app
  <2>1. ds = cs
    BY <1>1 DEF Answered
  <2> QED BY <1>1, <2>1
<1>2. CASE cs[c].app
  <2>1. cs[c] \in Connection
    OBVIOUS
  <2>2. Append(cs[c].down, m) \in Seq(Answers)
    BY <2>1, SMT DEF Connection
  <2>3. [cs[c] EXCEPT !.down = Append(cs[c].down, m)] \in Connection
    BY <2>1, <2>2 DEF Connection
  <2>4. ds = [cs EXCEPT ![c] = [cs[c] EXCEPT !.down = Append(cs[c].down, m)]]
    BY <1>2 DEF Answered
  <2>5. ds \in [Conns -> Connection]
    BY <2>3, <2>4
  <2>6. ds[c] = [cs[c] EXCEPT !.down = Append(cs[c].down, m)]
    BY <2>4
  <2>7. \A d \in Conns : d # c => ds[d] = cs[d]
    BY <2>4
  <2> QED BY <1>2, <2>1, <2>5, <2>6, <2>7, SMT DEF Connection
<1> QED BY <1>1, <1>2

\* A connection that an end still holds is left alone; the others are closed.
LEMMA TidyEffect ==
  ASSUME NEW cs \in [Conns -> Connection], NEW ds, ds = Tidy(cs)
  PROVE  /\ ds \in [Conns -> Connection]
         /\ \A d \in Conns : /\ ds[d].app = cs[d].app /\ ds[d].agent = cs[d].agent
                             /\ cs[d].app \/ cs[d].agent => ds[d] = cs[d]
                             /\ ds[d] # cs[d] => ds[d] = Closed
<1>1. \A d \in Conns : ds[d] = IF cs[d].app \/ cs[d].agent THEN cs[d] ELSE Closed
  BY DEF Tidy
<1>2. \A d \in Conns : cs[d] \in Connection /\ cs[d].app \in BOOLEAN /\ cs[d].agent \in BOOLEAN
  BY DEF Connection
<1>3. ds \in [Conns -> Connection]
  BY <1>2, ClosedType DEF Tidy
<1>4. Closed.app = FALSE /\ Closed.agent = FALSE
  BY DEF Closed
<1>5. ASSUME NEW d \in Conns
      PROVE  ds[d].app = cs[d].app /\ ds[d].agent = cs[d].agent
  BY <1>1, <1>2, <1>4
<1> QED BY <1>1, <1>3, <1>5

\* A connection that a thread of the application still reads from stays open.
LEMMA StillHeld ==
  ASSUME NEW cs \in [Conns -> Connection], NEW c \in Conns, cs[c].app
  PROVE  [cs EXCEPT ![c].app = TRUE] = cs
<1>1. cs[c] \in Connection /\ cs[c].app = TRUE
  BY DEF Connection
<1>2. [cs[c] EXCEPT !.app = TRUE] = cs[c]
  BY <1>1 DEF Connection
<1> QED BY <1>2

\* The application lets go of one connection.
LEMMA ReleaseEffect ==
  ASSUME NEW cs \in [Conns -> Connection], NEW c \in Conns,
         NEW ds, ds = Tidy(Released(cs, c))
  PROVE  /\ ds \in [Conns -> Connection]
         /\ ~ds[c].app
         /\ \A d \in Conns : /\ d # c => ds[d].app = cs[d].app
                             /\ ds[d].agent = cs[d].agent
                             /\ ds[d].up = cs[d].up \/ (~cs[d].agent /\ ds[d].up = <<>>)
                             /\ ds[d].down = cs[d].down \/ (~ds[d].app /\ ~cs[d].agent /\ ds[d].down = <<>>)
                             /\ cs[d].agent => ds[d].owner = cs[d].owner
<1> DEFINE rs == Released(cs, c)
<1>1. cs[c] \in Connection
  OBVIOUS
<1>2. [cs[c] EXCEPT !.app = FALSE] \in Connection
  BY <1>1 DEF Connection
<1>3. rs = [cs EXCEPT ![c] = [cs[c] EXCEPT !.app = FALSE]]
  BY DEF Released
<1>4. rs \in [Conns -> Connection]
  BY <1>2, <1>3
<1>5. rs[c] = [cs[c] EXCEPT !.app = FALSE]
  BY <1>3
<1>6. \A d \in Conns : d # c => rs[d] = cs[d]
  BY <1>3
<1>7. rs[c].app = FALSE /\ \A d \in Conns : /\ d # c => rs[d].app = cs[d].app
                                        /\ rs[d].agent = cs[d].agent /\ rs[d].up = cs[d].up
                                        /\ rs[d].down = cs[d].down /\ rs[d].owner = cs[d].owner
  BY <1>1, <1>5, <1>6, SMT DEF Connection
<1> HIDE DEF rs
<1>8. ds = Tidy(rs)
  BY DEF rs
<1>9. ASSUME NEW d \in Conns, ds[d] # rs[d]
      PROVE  ~rs[d].app /\ ~rs[d].agent /\ ds[d].up = <<>> /\ ds[d].down = <<>>
  BY <1>4, <1>8, <1>9, TidyEffect, ClosedType, SMT
<1>10. ds \in [Conns -> Connection] /\ \A d \in Conns : ds[d].app = rs[d].app /\ ds[d].agent = rs[d].agent
  BY <1>4, <1>8, TidyEffect, SMT
<1> QED BY <1>7, <1>9, <1>10, SMT

\* The agent lets go of one connection and of what it has not read there.
LEMMA DropEffect ==
  ASSUME NEW cs \in [Conns -> Connection], NEW c \in Conns,
         NEW ds, ds = Tidy(Dropped(cs, c))
  PROVE  /\ ds \in [Conns -> Connection]
         /\ ~ds[c].agent /\ ds[c].up = <<>> /\ ds[c].app = cs[c].app
         /\ cs[c].app => ds[c].down = cs[c].down
         /\ \A d \in Conns : d # c =>
              /\ ds[d].app = cs[d].app /\ ds[d].agent = cs[d].agent
              /\ cs[d].app \/ cs[d].agent => ds[d] = cs[d]
              /\ ds[d].up = cs[d].up \/ (~cs[d].agent /\ ds[d].up = <<>>)
<1> DEFINE rs == Dropped(cs, c)
           r == [cs[c] EXCEPT !.agent = FALSE, !.up = <<>>]
<1>1. cs[c] \in Connection
  OBVIOUS
<1>2. r \in Connection
  <2>1. <<>> \in Seq(Commands)
    BY SMT
  <2> QED BY <1>1, <2>1 DEF Connection
<1>3. rs = [cs EXCEPT ![c] = r]
  BY DEF Dropped
<1>4. /\ r.agent = FALSE /\ r.up = <<>> /\ r.app = cs[c].app /\ r.down = cs[c].down
  BY <1>1 DEF Connection
<1> HIDE DEF r
<1>5. rs \in [Conns -> Connection]
  BY <1>2, <1>3
<1>6. rs[c] = r /\ \A d \in Conns : d # c => rs[d] = cs[d]
  BY <1>3
<1> HIDE DEF rs
<1>7. ds = Tidy(rs)
  BY DEF rs
<1>8. /\ ds \in [Conns -> Connection]
      /\ \A d \in Conns : /\ ds[d].app = rs[d].app /\ ds[d].agent = rs[d].agent
                          /\ rs[d].app \/ rs[d].agent => ds[d] = rs[d]
                          /\ ds[d] # rs[d] => ds[d] = Closed
  BY <1>5, <1>7, TidyEffect, SMT
<1> QED BY <1>4, <1>6, <1>8, ClosedType, SMT

\* The application ends: it holds no connection, and what it wrote is still
\* there for the agent.
LEMMA AppEndsEffect ==
  ASSUME LinkTypes, AppEnds
  PROVE  /\ conn' \in [Conns -> Connection]
         /\ \A d \in Conns : /\ ~conn'[d].app /\ conn'[d].agent = conn[d].agent
                             /\ conn[d].agent => /\ conn'[d].up = conn[d].up
                                                 /\ conn'[d].owner = conn[d].owner
                             /\ ~conn[d].agent => conn'[d].up = <<>>
<1> DEFINE rs == [c \in Conns |-> [conn[c] EXCEPT !.app = FALSE]]
<1>1. ASSUME NEW d \in Conns
      PROVE  /\ rs[d] \in Connection /\ rs[d].app = FALSE /\ rs[d].agent = conn[d].agent
             /\ rs[d].up = conn[d].up /\ rs[d].owner = conn[d].owner
  <2>1. conn[d] \in Connection /\ rs[d] = [conn[d] EXCEPT !.app = FALSE]
    BY DEF LinkTypes
  <2> HIDE DEF rs
  <2> QED BY <2>1 DEF Connection
<1>2. rs \in [Conns -> Connection]
  BY <1>1
<1> HIDE DEF rs
<1>3. conn' = Tidy(rs)
  BY DEF AppEnds, rs
<1>4. /\ conn' \in [Conns -> Connection]
      /\ \A d \in Conns : /\ conn'[d].app = rs[d].app /\ conn'[d].agent = rs[d].agent
                          /\ rs[d].app \/ rs[d].agent => conn'[d] = rs[d]
                          /\ conn'[d] # rs[d] => conn'[d] = Closed
  BY <1>2, <1>3, TidyEffect, SMT
<1>5. \A d \in Conns : ~conn[d].agent => conn'[d] = Closed
  <2>1. \A d \in Conns : ~rs[d].app /\ ~rs[d].agent => Tidy(rs)[d] = Closed
    BY DEF Tidy
  <2> QED BY <1>1, <1>3, <2>1
<1>6. ASSUME NEW d \in Conns
      PROVE  /\ ~conn'[d].app /\ conn'[d].agent = conn[d].agent
             /\ conn[d].agent => conn'[d].up = conn[d].up /\ conn'[d].owner = conn[d].owner
             /\ ~conn[d].agent => conn'[d].up = <<>>
  <2>1. ~conn'[d].app /\ conn'[d].agent = conn[d].agent
    BY <1>1, <1>4
  <2>2. CASE conn[d].agent
    BY <1>1, <1>4, <2>1, <2>2
  <2>3. CASE ~conn[d].agent
    BY <1>5, <2>1, <2>3, ClosedType
  <2> QED BY <2>2, <2>3
<1> QED BY <1>4, <1>6

\* The agent ends: it holds no connection, and nothing is left to read.
LEMMA AgentEndsEffect ==
  ASSUME LinkTypes, AgentEnds
  PROVE  /\ conn' \in [Conns -> Connection]
         /\ \A d \in Conns : /\ ~conn'[d].agent /\ conn'[d].app = conn[d].app /\ conn'[d].up = <<>>
                             /\ conn[d].app => conn'[d].down = conn[d].down
<1> DEFINE rs == [c \in Conns |-> [conn[c] EXCEPT !.agent = FALSE, !.up = <<>>]]
<1>1. ASSUME NEW d \in Conns
      PROVE  /\ rs[d] \in Connection /\ rs[d].agent = FALSE /\ rs[d].app = conn[d].app
             /\ rs[d].up = <<>> /\ rs[d].down = conn[d].down
  <2>1. conn[d] \in Connection /\ rs[d] = [conn[d] EXCEPT !.agent = FALSE, !.up = <<>>]
    BY DEF LinkTypes
  <2>2. <<>> \in Seq(Commands)
    BY SMT
  <2> HIDE DEF rs
  <2> QED BY <2>1, <2>2 DEF Connection
<1>2. rs \in [Conns -> Connection]
  BY <1>1
<1> HIDE DEF rs
<1>3. conn' = Tidy(rs)
  BY DEF AgentEnds, rs
<1>4. /\ conn' \in [Conns -> Connection]
      /\ \A d \in Conns : /\ conn'[d].app = rs[d].app /\ conn'[d].agent = rs[d].agent
                          /\ rs[d].app \/ rs[d].agent => conn'[d] = rs[d]
                          /\ conn'[d] # rs[d] => conn'[d] = Closed
  BY <1>2, <1>3, TidyEffect, SMT
<1> QED BY <1>1, <1>4, ClosedType

-----------------------------------------------------------------------------
(* Who holds which connection.                                             *)

\* A step that opens and closes no connection leaves both ends consistent.
LEMMA LinkQuiet ==
  ASSUME LinkInv, conn' \in [Conns -> Connection],
         \A d \in Conns : conn'[d].app = conn[d].app /\ conn'[d].agent = conn[d].agent,
         \A d \in Conns : ~conn[d].agent => conn'[d].up = <<>>,
         UNCHANGED <<fd, backlog, connected_socket, app_up, policy>>, watched' => watched,
         writer' \in WriterStates, query' \in QueryStates,
         payload_samples' \in Nat, pending' \in [Categories -> Nat],
         writer'.at \in {"off", "connect"} <=> writer.at \in {"off", "connect"},
         writer'.at = "off" <=> writer.at = "off",
         writer'.at = "off" => ~writer'.init, writer'.at = "identity" => writer'.init,
         query'.at # "idle" => app_up /\ ~writer'.init,
         query'.at = "reading" <=> query'.on # None,
         query'.on = query.on \/ (query.on = None /\ query'.on = fd)
  PROVE  LinkInv'
<1>0. /\ fd \in Conns \cup {None} /\ connected_socket \in Conns \cup {None}
      /\ query.on \in Conns \cup {None} /\ query'.on \in Conns \cup {None}
  BY DEF LinkInv, LinkTypes, QueryStates
<1>1. LinkTypes'
  BY DEF LinkInv, LinkTypes
<1>2. /\ fd' = None <=> writer'.at \in {"off", "connect"}
      /\ writer'.at # "off" => policy' \in AppPolicies
      /\ writer'.at = "off" <=> ~app_up'
      /\ query'.at # "idle" => app_up' /\ ~writer'.init
  BY DEF LinkInv, AppInv
<1>3. /\ fd' # None => conn'[fd'].app
      /\ query'.on # None => conn'[query'.on].app
      /\ \A c \in Conns : conn'[c].app => c \in {fd', query'.on}
  BY <1>0, DataPlaneLinkAssumption DEF LinkInv, AppInv
<1>4. AppInv'
  BY <1>2, <1>3 DEF AppInv
<1>5. /\ watched' => connected_socket' # None
      /\ connected_socket' # None => conn'[connected_socket'].agent
      /\ \A c \in Conns : ~conn'[c].agent => conn'[c].up = <<>>
      /\ query'.on \notin {None, fd'} => ~conn'[query'.on].agent
  BY <1>0 DEF LinkInv, AgentInv
<1>6. \A i \in 1 .. Len(backlog) : backlog[i] \in Conns
  BY SMT DEF LinkInv, LinkTypes
<1>7. \A i \in 1 .. Len(backlog') : conn'[backlog'[i]].agent /\ backlog'[i] # connected_socket'
  BY <1>6 DEF LinkInv, AgentInv
<1>8. AgentInv'
  BY <1>5, <1>7 DEF LinkInv, AgentInv
<1> QED BY <1>1, <1>4, <1>8 DEF LinkInv

\* The application ends: its threads hold nothing, and the agent keeps its
\* connections.
LEMMA LinkAppEnds ==
  ASSUME LinkInv, AppEnds
  PROVE  LinkInv'
<1>0. LinkTypes
  BY DEF LinkInv
<1>1. /\ fd' = None /\ app_up' = FALSE /\ payload_samples' = 0
      /\ writer' = WriterOff /\ query' = QueryIdle
      /\ UNCHANGED <<backlog, connected_socket, watched, pending>>
  BY DEF AppEnds, agentVars
<1>2. /\ conn' \in [Conns -> Connection]
      /\ \A d \in Conns : /\ ~conn'[d].app /\ conn'[d].agent = conn[d].agent
                          /\ ~conn[d].agent => conn'[d].up = <<>>
  BY <1>0, AppEndsEffect
<1>3. /\ writer' \in WriterStates /\ writer'.at = "off" /\ ~writer'.init
      /\ query' \in QueryStates /\ query'.at = "idle" /\ query'.on = None
  BY <1>1, SMT DEF WriterOff, QueryIdle, WriterStates, QueryStates
<1>4. LinkTypes'
  BY <1>0, <1>1, <1>2, <1>3 DEF LinkTypes
<1>5. AppInv'
  BY <1>1, <1>2, <1>3 DEF AppInv
<1>6. \A i \in 1 .. Len(backlog) : backlog[i] \in Conns
  BY <1>0, SMT DEF LinkTypes
<1>7. \A i \in 1 .. Len(backlog') : conn'[backlog'[i]].agent /\ backlog'[i] # connected_socket'
  BY <1>1, <1>2, <1>6 DEF LinkInv, AgentInv
<1>8. AgentInv'
  BY <1>0, <1>1, <1>2, <1>3, <1>7 DEF LinkInv, AgentInv, LinkTypes
<1> QED BY <1>4, <1>5, <1>8 DEF LinkInv

\* The agent ends: it has no connection, accepted or waiting.
LEMMA LinkAgentEnds ==
  ASSUME LinkInv, AgentEnds
  PROVE  LinkInv'
<1>0. LinkTypes
  BY DEF LinkInv
<1>1. /\ backlog' = <<>> /\ connected_socket' = None /\ watched' = FALSE
      /\ pending' = [c \in Categories |-> 0]
      /\ UNCHANGED <<app_up, policy, fd, writer, query, payload_samples>>
  BY DEF AgentEnds, appVars
<1>2. /\ conn' \in [Conns -> Connection]
      /\ \A d \in Conns : ~conn'[d].agent /\ conn'[d].app = conn[d].app /\ conn'[d].up = <<>>
  BY <1>0, AgentEndsEffect
<1>3. backlog' \in Seq(Conns) /\ Len(backlog') = 0
  BY <1>1, SMT
<1>4. LinkTypes'
  BY <1>0, <1>1, <1>2, <1>3 DEF LinkTypes
<1>5. AppInv'
  BY <1>0, <1>1, <1>2 DEF LinkInv, AppInv, LinkTypes, QueryStates
<1>6. AgentInv'
  BY <1>0, <1>1, <1>2, <1>3, SMT DEF LinkInv, AgentInv, LinkTypes, QueryStates
<1> QED BY <1>4, <1>5, <1>6 DEF LinkInv

\* socket_connect: the new connection is the application's and waits to be
\* accepted.
LEMMA LinkConnect ==
  ASSUME LinkInv, socket_connect
  PROVE  LinkInv'
<1>0. LinkTypes /\ fd = None
  BY DEF LinkInv, AppInv, socket_connect
<1>1. PICK c \in Conns :
        /\ conn[c] = Closed
        /\ conn' = [conn EXCEPT ![c] = [Closed EXCEPT !.app = TRUE, !.agent = TRUE, !.owner = policy]]
        /\ fd' = c /\ backlog' = Append(backlog, c)
  BY DEF socket_connect
<1>2. /\ writer' = [writer EXCEPT !.at = "policy"] /\ writer.at = "connect"
      /\ UNCHANGED <<app_up, policy, query, payload_samples, connected_socket, watched, pending>>
  BY DEF socket_connect
<1>3. writer' \in WriterStates /\ writer'.at = "policy" /\ writer'.init = writer.init
  BY <1>0, <1>2 DEF LinkTypes, WriterStates
<1>4. policy \in AppPolicies
  BY <1>2 DEF LinkInv, AppInv
<1>5. /\ conn' \in [Conns -> Connection]
      /\ conn'[c].app /\ conn'[c].agent
      /\ \A d \in Conns : d # c => conn'[d] = conn[d]
  <2> DEFINE r == [Closed EXCEPT !.app = TRUE, !.agent = TRUE, !.owner = policy]
  <2>1. r \in Connection /\ r.app = TRUE /\ r.agent = TRUE
    BY <1>4, ClosedType DEF Connection
  <2> HIDE DEF r
  <2>2. conn' = [conn EXCEPT ![c] = r]
    BY <1>1 DEF r
  <2> QED BY <1>0, <2>1, <2>2 DEF LinkTypes
<1>6. ~conn[c].app /\ ~conn[c].agent
  BY <1>1, ClosedType
<1>7. backlog' \in Seq(Conns) /\ Len(backlog') = Len(backlog) + 1 /\ backlog'[Len(backlog')] = c
      /\ \A i \in 1 .. Len(backlog) : backlog'[i] = backlog[i] /\ backlog[i] \in Conns
  BY <1>0, <1>1, SMT DEF LinkTypes
<1>8. LinkTypes'
  BY <1>0, <1>1, <1>2, <1>3, <1>5, <1>7 DEF LinkTypes
<1>9. query.on \in Conns \cup {None} /\ query.on # c
  BY <1>0, <1>6, DataPlaneLinkAssumption DEF LinkInv, AppInv, LinkTypes, QueryStates
<1>10. AppInv'
  <2>1. fd' # None
    BY <1>1, DataPlaneLinkAssumption
  <2>2. app_up' /\ (query'.at # "idle" => ~writer'.init) /\ policy' \in AppPolicies
    BY <1>2, <1>3, <1>4 DEF LinkInv, AppInv
  <2>3. /\ conn'[fd'].app
        /\ query'.on # None => conn'[query'.on].app
        /\ \A d \in Conns : conn'[d].app => d \in {fd', query'.on}
    BY <1>0, <1>1, <1>2, <1>5, <1>9, DataPlaneLinkAssumption DEF LinkInv, AppInv
  <2>4. query'.at = "reading" <=> query'.on # None
    BY <1>2 DEF LinkInv, AppInv
  <2> QED BY <1>3, <2>1, <2>2, <2>3, <2>4 DEF AppInv
<1>11. connected_socket \in Conns \cup {None} /\ connected_socket # c
  BY <1>0, <1>6, DataPlaneLinkAssumption DEF LinkInv, AgentInv, LinkTypes
<1>12. \A i \in 1 .. Len(backlog) : backlog[i] # c
  BY <1>6 DEF LinkInv, AgentInv
<1>13. AgentInv'
  <2>1. /\ watched' => connected_socket' # None
        /\ connected_socket' # None => conn'[connected_socket'].agent
        /\ fd' # connected_socket'
    BY <1>1, <1>2, <1>5, <1>11 DEF LinkInv, AgentInv
  <2>2. \A i \in 1 .. Len(backlog) : backlog'[i] # c /\ conn'[backlog'[i]].agent
                                     /\ backlog'[i] # connected_socket
    BY <1>5, <1>7, <1>12, SMT DEF LinkInv, AgentInv
  <2>3. Len(backlog) \in Nat
    BY <1>0, SMT DEF LinkTypes
  <2>4. \A i \in 1 .. Len(backlog') : conn'[backlog'[i]].agent /\ backlog'[i] # connected_socket'
    BY <1>2, <1>5, <1>7, <1>11, <2>2, <2>3, SMT
  <2>5. \A i, j \in 1 .. Len(backlog') : backlog'[i] = backlog'[j] => i = j
    BY <1>7, <2>2, <2>3, SMT DEF LinkInv, AgentInv
  <2>6. \A d \in Conns : ~conn'[d].agent => conn'[d].up = <<>>
    BY <1>5 DEF LinkInv, AgentInv
  <2>7. query'.on \notin {None, fd'} => ~conn'[query'.on].agent
    BY <1>0, <1>2, <1>5, <1>9 DEF LinkInv, AgentInv
  <2> QED BY <1>1, <1>7, <2>1, <2>4, <2>5, <2>6, <2>7 DEF AgentInv
<1> QED BY <1>8, <1>10, <1>13 DEF LinkInv

\* close() of a connection the agent has left (write_to_socket_retry): it
\* stays open for the query thread, if that one reads from it.
LEMMA CloseEffect ==
  ASSUME LinkInv, fd # None, CloseFd
  PROVE  /\ conn' \in [Conns -> Connection]
         /\ conn'[fd].app <=> query.on = fd
         /\ \A d \in Conns : /\ d # fd => conn'[d].app = conn[d].app
                             /\ conn'[d].agent = conn[d].agent
                             /\ conn'[d].up = conn[d].up \/ (~conn[d].agent /\ conn'[d].up = <<>>)
                             /\ conn[d].agent => conn'[d].owner = conn[d].owner
         /\ query.on # None => conn'[query.on].down = conn[query.on].down
<1>0. fd \in Conns /\ query.on \in Conns \cup {None} /\ conn \in [Conns -> Connection]
  BY DEF LinkInv, LinkTypes, QueryStates
<1>1. conn' = Tidy([conn EXCEPT ![fd].app = (query.on = fd)])
  BY DEF CloseFd
<1>2. query.on # None => conn[query.on].app
  BY DEF LinkInv, AppInv
<1>3. CASE query.on = fd
  <2>1. conn[fd].app
    BY DEF LinkInv, AppInv
  <2>2. conn' = Tidy(conn)
    BY <1>0, <1>1, <1>3, <2>1, StillHeld
  <2> QED BY <1>0, <1>3, <2>1, <2>2, TidyEffect, ClosedType, SMT
<1>4. CASE query.on # fd
  <2>1. conn' = Tidy(Released(conn, fd))
    BY <1>1, <1>4 DEF Released
  <2>2. /\ conn' \in [Conns -> Connection]
        /\ ~conn'[fd].app
        /\ \A d \in Conns : /\ d # fd => conn'[d].app = conn[d].app
                            /\ conn'[d].agent = conn[d].agent
                            /\ conn'[d].up = conn[d].up \/ (~conn[d].agent /\ conn'[d].up = <<>>)
                            /\ conn[d].agent => conn'[d].owner = conn[d].owner
    BY <1>0, <2>1, ReleaseEffect, SMT
  <2>3. \A d \in Conns : conn'[d].down = conn[d].down \/ ~conn'[d].app
    BY <1>0, <2>1, ReleaseEffect, SMT
  <2> QED BY <1>0, <1>2, <1>4, <2>2, <2>3
<1> QED BY <1>3, <1>4

\* A write that failed: the connection is closed, and stays the query
\* thread's if that one reads from it (write_to_socket_retry).
LEMMA LinkCloses ==
  ASSUME LinkInv, fd # None, ~conn[fd].agent, CloseFd, NEW n \in Int,
         writer' = [writer EXCEPT !.at = "connect", !.owed = n],
         UNCHANGED <<app_up, policy, query, payload_samples, agentVars>>
  PROVE  LinkInv'
<1>0. LinkTypes /\ fd \in Conns /\ query.on \in Conns \cup {None}
  BY DEF LinkInv, LinkTypes, QueryStates
<1>1. /\ fd' = None
      /\ UNCHANGED <<backlog, connected_socket, watched, pending>>
  BY DEF CloseFd, agentVars
<1>2. writer' \in WriterStates /\ writer'.at = "connect" /\ writer'.init = writer.init
  BY <1>0 DEF LinkTypes, WriterStates
<1>5. /\ conn' \in [Conns -> Connection]
      /\ conn'[fd].app <=> query.on = fd
      /\ \A d \in Conns : /\ d # fd => conn'[d].app = conn[d].app
                          /\ conn'[d].agent = conn[d].agent
                          /\ conn'[d].up = conn[d].up \/ (~conn[d].agent /\ conn'[d].up = <<>>)
  BY CloseEffect
<1>6. LinkTypes'
  BY <1>0, <1>1, <1>2, <1>5 DEF LinkTypes
<1>7. AppInv'
  <2>1. app_up' /\ policy' \in AppPolicies /\ (query'.at # "idle" => ~writer'.init)
    BY <1>2 DEF LinkInv, AppInv
  <2>2. /\ query.on # None => conn'[query.on].app
        /\ \A c \in Conns : conn'[c].app => c = query.on
    BY <1>0, <1>5 DEF LinkInv, AppInv
  <2>3. query'.at = "reading" <=> query'.on # None
    BY DEF LinkInv, AppInv
  <2> QED BY <1>1, <1>2, <2>1, <2>2, <2>3 DEF AppInv
<1>8. AgentInv'
  <2>1. \A i \in 1 .. Len(backlog) : backlog[i] \in Conns
    BY <1>0, SMT DEF LinkTypes
  <2>2. \A i \in 1 .. Len(backlog') : conn'[backlog'[i]].agent /\ backlog'[i] # connected_socket'
    BY <1>1, <1>5, <2>1 DEF LinkInv, AgentInv
  <2>3. connected_socket' # None => conn'[connected_socket'].agent
    BY <1>0, <1>1, <1>5 DEF LinkInv, AgentInv, LinkTypes
  <2>5. \A c \in Conns : ~conn'[c].agent => conn'[c].up = <<>>
    BY <1>5, SMT DEF LinkInv, AgentInv
  <2>4. query'.on # None => ~conn'[query'.on].agent
    BY <1>0, <1>5 DEF LinkInv, AgentInv
  <2> QED BY <1>1, <2>2, <2>3, <2>4, <2>5, SMT DEF LinkInv, AgentInv
<1> QED BY <1>6, <1>7, <1>8 DEF LinkInv

\* The query thread lets go of what it read from; fd stays open.
LEMMA LetGoEffect ==
  ASSUME LinkInv, query.at = "reading", NEW cs \in [Conns -> Connection],
         \A d \in Conns : cs[d].app = conn[d].app,
         NEW ds, ds = LetGo(cs)
  PROVE  /\ ds \in [Conns -> Connection]
         /\ ds[query.on].app <=> query.on = fd
         /\ \A d \in Conns : /\ d # query.on => ds[d].app = cs[d].app
                             /\ ds[d].agent = cs[d].agent
                             /\ ds[d].up = cs[d].up \/ (~cs[d].agent /\ ds[d].up = <<>>)
                             /\ cs[d].agent => ds[d].owner = cs[d].owner
         /\ fd # None => ds[fd].down = cs[fd].down
<1>0. query.on \in Conns /\ fd \in Conns \cup {None} /\ (fd # None => cs[fd].app)
  <2>1. fd # None => conn[fd].app
    BY DEF LinkInv, AppInv
  <2> QED BY <2>1 DEF LinkInv, LinkTypes, AppInv, QueryStates
<1>1. ds = Tidy([cs EXCEPT ![query.on].app = (query.on = fd)])
  BY DEF LetGo
<1>2. CASE query.on = fd
  <2>1. ds = Tidy(cs)
    BY <1>0, <1>1, <1>2, StillHeld, DataPlaneLinkAssumption
  <2> QED BY <1>0, <1>2, <2>1, TidyEffect, ClosedType, DataPlaneLinkAssumption, SMT
<1>3. CASE query.on # fd
  <2>1. ds = Tidy(Released(cs, query.on))
    BY <1>1, <1>3 DEF Released
  <2>2. /\ ds \in [Conns -> Connection]
        /\ ~ds[query.on].app
        /\ \A d \in Conns : /\ d # query.on => ds[d].app = cs[d].app
                            /\ ds[d].agent = cs[d].agent
                            /\ ds[d].up = cs[d].up \/ (~cs[d].agent /\ ds[d].up = <<>>)
                            /\ cs[d].agent => ds[d].owner = cs[d].owner
    BY <1>0, <2>1, ReleaseEffect, SMT
  <2>3. \A d \in Conns : ds[d].down = cs[d].down \/ ~ds[d].app
    BY <1>0, <2>1, ReleaseEffect, SMT
  <2> QED BY <1>0, <1>3, <2>2, <2>3
<1> QED BY <1>2, <1>3

\* A request that ends leaves the writer its connection.
LEMMA LinkLetsGo ==
  ASSUME LinkInv, query.at = "reading", NEW cs \in [Conns -> Connection],
         \A d \in Conns : /\ cs[d].app = conn[d].app /\ cs[d].agent = conn[d].agent
                          /\ cs[d].up = conn[d].up,
         conn' = LetGo(cs), query' = QueryIdle,
         UNCHANGED <<app_up, policy, fd, writer, payload_samples, agentVars>>
  PROVE  LinkInv'
<1>0. LinkTypes /\ query.on \in Conns /\ fd \in Conns \cup {None}
  BY DEF LinkInv, LinkTypes, AppInv, QueryStates
<1>1. UNCHANGED <<backlog, connected_socket, watched, pending>>
  BY DEF agentVars
<1>2. query' \in QueryStates /\ query'.at = "idle" /\ query'.on = None
  BY DEF QueryIdle, QueryStates
<1>3. /\ conn' \in [Conns -> Connection]
      /\ conn'[query.on].app <=> query.on = fd
      /\ \A d \in Conns : /\ d # query.on => conn'[d].app = cs[d].app
                          /\ conn'[d].agent = cs[d].agent
                          /\ conn'[d].up = cs[d].up \/ (~cs[d].agent /\ conn'[d].up = <<>>)
  BY LetGoEffect, SMT
<1>4. \A d \in Conns : /\ d # query.on => conn'[d].app = conn[d].app
                       /\ conn'[d].agent = conn[d].agent
                       /\ conn'[d].up = conn[d].up \/ (~conn[d].agent /\ conn'[d].up = <<>>)
  BY <1>3
<1>5. LinkTypes'
  BY <1>0, <1>1, <1>2, <1>3 DEF LinkTypes
<1>6. AppInv'
  <2>1. /\ fd # None => conn'[fd].app
        /\ \A c \in Conns : conn'[c].app => c = fd
    BY <1>0, <1>3, <1>4 DEF LinkInv, AppInv
  <2> QED BY <1>2, <2>1 DEF LinkInv, AppInv
<1>7. AgentInv'
  <2>1. \A i \in 1 .. Len(backlog) : backlog[i] \in Conns
    BY <1>0, SMT DEF LinkTypes
  <2>2. \A i \in 1 .. Len(backlog') : conn'[backlog'[i]].agent /\ backlog'[i] # connected_socket'
    BY <1>1, <1>4, <2>1 DEF LinkInv, AgentInv
  <2>3. connected_socket' # None => conn'[connected_socket'].agent
    BY <1>0, <1>1, <1>4 DEF LinkInv, AgentInv, LinkTypes
  <2>4. \A c \in Conns : ~conn'[c].agent => conn'[c].up = <<>>
    BY <1>4, SMT DEF LinkInv, AgentInv
  <2> QED BY <1>1, <1>2, <2>2, <2>3, <2>4 DEF LinkInv, AgentInv
<1> QED BY <1>5, <1>6, <1>7 DEF LinkInv

\* atlas_data_plane_accept_cb: the first connection that waits replaces the
\* one the agent had, which is never the application's.
LEMMA LinkAccepts ==
  ASSUME LinkInv, atlas_data_plane_accept_cb
  PROVE  LinkInv'
<1>0. LinkTypes /\ query.on \in Conns \cup {None} /\ fd \in Conns \cup {None}
  BY DEF LinkInv, LinkTypes, QueryStates
<1>1. /\ connected_socket' = Head(backlog) /\ backlog' = Tail(backlog) /\ backlog # <<>>
      /\ UNCHANGED <<app_up, policy, fd, writer, query, payload_samples, pending>>
  BY DEF atlas_data_plane_accept_cb, appVars
<1>2. /\ backlog \in Seq(Conns) /\ Len(backlog) \in Nat \ {0} /\ backlog[1] \in Conns
      /\ connected_socket' = backlog[1] /\ backlog' \in Seq(Conns)
      /\ Len(backlog') = Len(backlog) - 1
      /\ \A i \in 1 .. Len(backlog') : i + 1 \in 1 .. Len(backlog) /\ backlog'[i] = backlog[i + 1]
                                       /\ backlog'[i] \in Conns
  BY <1>0, <1>1, SMT DEF LinkTypes
<1>3. fd # None => connected_socket # fd
  BY <1>1 DEF LinkInv, AgentInv
<1>4. /\ conn' \in [Conns -> Connection]
      /\ \A d \in Conns : /\ conn'[d].app = conn[d].app
                          /\ d # connected_socket => conn'[d].agent = conn[d].agent
                          /\ ~conn'[d].agent => conn'[d].up = <<>>
                          /\ conn'[d].agent => conn[d].agent
  <2>1. CASE connected_socket = None
    <3>1. conn' = conn
      BY <2>1 DEF atlas_data_plane_accept_cb
    <3> QED BY <1>0, <3>1 DEF LinkTypes, LinkInv, AgentInv
  <2>2. CASE connected_socket # None
    <3>1. connected_socket \in Conns /\ conn \in [Conns -> Connection]
      BY <1>0, <2>2 DEF LinkTypes
    <3>2. conn' = Tidy(Dropped(conn, connected_socket))
      BY <2>2 DEF atlas_data_plane_accept_cb, Dropped
    <3>3. /\ conn' \in [Conns -> Connection]
          /\ ~conn'[connected_socket].agent /\ conn'[connected_socket].up = <<>>
          /\ conn'[connected_socket].app = conn[connected_socket].app
          /\ \A d \in Conns : d # connected_socket =>
               /\ conn'[d].app = conn[d].app /\ conn'[d].agent = conn[d].agent
               /\ conn'[d].up = conn[d].up \/ (~conn[d].agent /\ conn'[d].up = <<>>)
      BY <3>1, <3>2, DropEffect, SMT
    <3> QED BY <3>1, <3>3, SMT DEF LinkInv, AgentInv
  <2> QED BY <2>1, <2>2
<1>5. LinkTypes'
  BY <1>0, <1>1, <1>2, <1>4 DEF LinkTypes
<1>6. AppInv'
  BY <1>0, <1>1, <1>4 DEF LinkInv, AppInv
<1>7. AgentInv'
  <2>1. \A i \in 1 .. Len(backlog) : /\ conn[backlog[i]].agent /\ backlog[i] # connected_socket
                                     /\ backlog[i] \in Conns
    BY <1>2, SMT DEF LinkInv, AgentInv
  <2>2. \A i \in 1 .. Len(backlog) : conn'[backlog[i]].agent
    BY <1>4, <2>1
  <2>3. connected_socket' # None /\ conn'[connected_socket'].agent
    BY <1>2, <2>2, DataPlaneLinkAssumption, SMT
  <2>4. \A i, j \in 1 .. Len(backlog) : backlog[i] = backlog[j] => i = j
    BY DEF LinkInv, AgentInv
  <2>5. \A i \in 1 .. Len(backlog') : conn'[backlog'[i]].agent /\ backlog'[i] # connected_socket'
    <3>1. \A i \in 1 .. Len(backlog') : i + 1 # 1
      BY <1>2, SMT
    <3>2. \A i \in 1 .. Len(backlog') : backlog'[i] # connected_socket'
      BY <1>2, <2>4, <3>1, SMT
    <3>3. \A i \in 1 .. Len(backlog') : conn'[backlog'[i]].agent
      BY <1>2, <2>2, SMT
    <3> QED BY <3>2, <3>3
  <2>6. \A i, j \in 1 .. Len(backlog') : backlog'[i] = backlog'[j] => i = j
    BY <1>2, <2>4, SMT
  <2>7. fd' # None /\ backlog' # <<>> => backlog'[Len(backlog')] = fd'
    <3>1. fd # None => backlog[Len(backlog)] = fd
      BY <1>1 DEF LinkInv, AgentInv
    <3>2. backlog' # <<>> => Len(backlog') \in 1 .. Len(backlog')
      BY <1>2, SMT
    <3> QED BY <1>1, <1>2, <3>1, <3>2, SMT
  <2>8. fd' # None /\ fd' = connected_socket' => backlog' = <<>>
    <3>1. fd # None => backlog[Len(backlog)] = fd
      BY <1>1 DEF LinkInv, AgentInv
    <3>2. fd # None /\ fd = backlog[1] => Len(backlog) = 1
      BY <1>2, <2>4, <3>1, SMT
    <3> QED BY <1>1, <1>2, <3>2, SMT
  <2>9. query'.on \notin {None, fd'} => ~conn'[query'.on].agent
    BY <1>0, <1>1, <1>4 DEF LinkInv, AgentInv
  <2> QED BY <1>4, <2>3, <2>5, <2>6, <2>7, <2>8, <2>9 DEF AgentInv
<1> QED BY <1>5, <1>6, <1>7 DEF LinkInv

\* write_to_socket_retry: the write, the connection closed after a failed one,
\* and the end of an application that SIGPIPE reaches.
LEMMA LinkWrites ==
  ASSUME LinkInv, fd # None, NEW m \in Commands, NEW n \in Int, NEW next \in WriterStates,
         next.at \in {"policy", "command", "identity", "idle"},
         next.at = "identity" => next.init, query.at # "idle" => ~next.init,
         write_to_socket_retry(m, next, n)
  PROVE  LinkInv'
<1>0. LinkTypes /\ fd \in Conns
  BY DEF LinkInv, LinkTypes
<1>1. CASE /\ Writable(fd)
           /\ conn' = [conn EXCEPT ![fd].up = Append(@, m)]
           /\ writer' = next
           /\ UNCHANGED <<app_up, policy, fd, query, payload_samples, agentVars, stops, late, history>>
  <2>1. conn' = Sent(conn, fd, m) /\ conn[fd].agent
    BY <1>1 DEF Sent, Writable
  <2>2. /\ conn' \in [Conns -> Connection]
        /\ \A d \in Conns : /\ conn'[d].app = conn[d].app /\ conn'[d].agent = conn[d].agent
                            /\ d # fd => conn'[d] = conn[d]
    BY <1>0, <2>1, SendEffect
  <2>3. \A d \in Conns : ~conn[d].agent => conn'[d].up = <<>>
    BY <2>1, <2>2, SMT DEF LinkInv, AgentInv
  <2>4. UNCHANGED <<fd, backlog, connected_socket, app_up, policy, watched, query, pending, payload_samples>>
    BY <1>1 DEF agentVars
  <2>5. /\ query' \in QueryStates /\ payload_samples' \in Nat /\ pending' \in [Categories -> Nat]
        /\ query'.at = "reading" <=> query'.on # None
    BY <1>0, <2>4 DEF LinkTypes, LinkInv, AppInv
  <2>6. writer.at \notin {"off", "connect"} /\ app_up
    BY DEF LinkInv, AppInv
  <2> QED BY <1>1, <2>2, <2>3, <2>4, <2>5, <2>6, LinkQuiet
<1>2. CASE /\ Broken(fd) /\ CloseFd
           /\ writer' = [writer EXCEPT !.at = "connect", !.owed = n]
           /\ UNCHANGED <<app_up, policy, query, payload_samples, agentVars, stops, late, history>>
  BY <1>2, LinkCloses DEF Broken
<1>3. CASE AppEnds
  BY <1>3, LinkAppEnds
<1> QED BY <1>1, <1>2, <1>3 DEF write_to_socket_retry

\* The writer's steps: socket_connect and the two commands of atlas_init, and
\* those of the statistics thread.
LEMMA LinkWriter ==
  ASSUME LinkInv, Writer
  PROVE  LinkInv'
<1>0. LinkTypes /\ writer \in WriterStates /\ fd \in Conns \cup {None}
  BY DEF LinkInv, LinkTypes
<1>a. writer.at \notin {"off", "connect"} => fd # None /\ app_up /\ policy \in AppPolicies
  BY DEF LinkInv, AppInv
<1>b. writer.owed + 1 \in Int /\ writer.packets \in Nat /\ 1 \in Int
  BY <1>0, SMT DEF WriterStates
<1>c. query.at # "idle" => ~writer.init
  BY DEF LinkInv, AppInv
<1>1. CASE socket_connect
  BY <1>1, LinkConnect
<1>2. CASE send_registration_command
  <2> DEFINE next == [writer EXCEPT !.owed = @ - 1,
                                    !.at = IF writer.owed = 1 THEN "command" ELSE "policy"]
  <2>1. next \in WriterStates /\ next.at \in {"policy", "command"} /\ next.init = writer.init
    <3>1. writer.owed - 1 \in Int
      BY <1>0, SMT DEF WriterStates
    <3>2. CASE writer.owed = 1
      <4>1. next = [writer EXCEPT !.owed = writer.owed - 1, !.at = "command"]
        BY <3>2
      <4> QED BY <1>0, <3>1, <4>1 DEF WriterStates
    <3>3. CASE writer.owed # 1
      <4>1. next = [writer EXCEPT !.owed = writer.owed - 1, !.at = "policy"]
        BY <3>3
      <4> QED BY <1>0, <3>1, <4>1 DEF WriterStates
    <3> QED BY <3>2, <3>3
  <2>2. writer.at = "policy" /\ write_to_socket_retry(PolicyCommand(policy), next, writer.owed + 1)
    BY <1>2 DEF send_registration_command
  <2> HIDE DEF next
  <2>3. PolicyCommand(policy) \in Commands
    BY <1>a, <2>2, MessageTypes
  <2> QED BY <1>a, <1>b, <1>c, <2>1, <2>2, <2>3, LinkWrites
<1>3. CASE send_statistics_command
  <2>1. /\ writer.at = "idle" /\ writer' = [writer EXCEPT !.at = "command", !.packets = payload_samples]
        /\ payload_samples' = 0
        /\ UNCHANGED <<conn, app_up, policy, fd, query, backlog, connected_socket, watched, pending>>
    BY <1>3 DEF send_statistics_command, agentVars
  <2>2. writer' \in WriterStates /\ writer'.at = "command" /\ writer'.init = writer.init
    BY <1>0, <2>1 DEF LinkTypes, WriterStates
  <2>3. conn' \in [Conns -> Connection] /\ query' \in QueryStates /\ pending' \in [Categories -> Nat]
    BY <1>0, <2>1 DEF LinkTypes
  <2>4. \A d \in Conns : ~conn[d].agent => conn'[d].up = <<>>
    BY <2>1 DEF LinkInv, AgentInv
  <2>5. query'.at = "reading" <=> query'.on # None
    BY <2>1 DEF LinkInv, AppInv
  <2> QED BY <1>a, <1>c, <2>1, <2>2, <2>3, <2>4, <2>5, LinkQuiet
<1>4. CASE write_command
  <2>1. CASE writer.init
    <3> DEFINE next == [writer EXCEPT !.at = "identity"]
    <3>1. next \in WriterStates /\ next.at = "identity" /\ next.init = writer.init
      BY <1>0 DEF WriterStates
    <3>2. writer.at = "command" /\ write_to_socket_retry(GetIdentity, next, 1)
      BY <1>4, <2>1 DEF write_command
    <3> HIDE DEF next
    <3> QED BY <1>a, <1>b, <1>c, <2>1, <3>1, <3>2, MessageTypes, LinkWrites
  <2>2. CASE ~writer.init
    <3> DEFINE next == [writer EXCEPT !.at = "idle", !.packets = 0]
    <3>1. next \in WriterStates /\ next.at = "idle" /\ next.init = writer.init
      BY <1>0 DEF WriterStates
    <3>2. writer.at = "command" /\ write_to_socket_retry(Statistics(writer.packets), next, 1)
      BY <1>4, <2>2 DEF write_command
    <3> HIDE DEF next
    <3>3. Statistics(writer.packets) \in Commands
      BY <1>b, MessageTypes
    <3> QED BY <1>a, <1>b, <1>c, <2>2, <3>1, <3>2, <3>3, LinkWrites
  <2> QED BY <2>1, <2>2
<1>5. CASE read_identity
  <2>1. CASE AppEnds
    BY <2>1, LinkAppEnds
  <2>2. CASE ~AppEnds
    <3>1. /\ writer.at = "identity" /\ conn[fd].down # <<>>
          /\ conn' = [conn EXCEPT ![fd].down = Tail(conn[fd].down)]
          /\ writer' = [writer EXCEPT !.at = "idle", !.init = FALSE]
          /\ UNCHANGED <<app_up, policy, fd, query, payload_samples, agentVars>>
      BY <1>5, <2>2 DEF read_identity
    <3>2. /\ fd \in Conns /\ conn \in [Conns -> Connection] /\ conn' = Taken(conn, fd)
          /\ conn[fd].down # <<>>
      BY <1>0, <1>a, <3>1 DEF Taken, LinkTypes
    <3>3. /\ conn' \in [Conns -> Connection]
          /\ \A d \in Conns : /\ conn'[d].app = conn[d].app /\ conn'[d].agent = conn[d].agent
                              /\ conn'[d].up = conn[d].up
      BY <3>2, TakeEffect, SMT
    <3>4. writer' \in WriterStates /\ writer'.at = "idle" /\ ~writer'.init
      BY <1>0, <3>1 DEF WriterStates
    <3>5. UNCHANGED <<backlog, connected_socket, watched, pending>>
      BY <3>1 DEF agentVars
    <3>6. query' \in QueryStates /\ payload_samples' \in Nat /\ pending' \in [Categories -> Nat]
      BY <1>0, <3>1, <3>5 DEF LinkTypes
    <3>7. \A d \in Conns : ~conn[d].agent => conn'[d].up = <<>>
      BY <3>3 DEF LinkInv, AgentInv
    <3>8. query'.at = "reading" <=> query'.on # None
      BY <3>1 DEF LinkInv, AppInv
    <3> QED BY <1>a, <3>1, <3>3, <3>4, <3>5, <3>6, <3>7, <3>8, LinkQuiet
  <2> QED BY <2>1, <2>2
<1> QED BY <1>1, <1>2, <1>3, <1>4, <1>5 DEF Writer

\* The query thread: a request, its read and the three ways it ends
\* (atlas_reputation_request).
LEMMA LinkQuery ==
  ASSUME LinkInv, Query \/ \E k \in Categories : atlas_reputation_request(k)
  PROVE  LinkInv'
<1>0. /\ LinkTypes /\ writer \in WriterStates /\ query \in QueryStates /\ fd \in Conns \cup {None}
      /\ conn \in [Conns -> Connection]
  BY DEF LinkInv, LinkTypes
<1>a. /\ query.at = "reading" <=> query.on # None
      /\ writer.at = "off" => ~writer.init
      /\ writer.at = "identity" => writer.init
      /\ \A d \in Conns : ~conn[d].agent => conn[d].up = <<>>
  BY DEF LinkInv, AppInv, AgentInv
<1>1. ASSUME UNCHANGED <<app_up, policy, fd, writer, payload_samples, agentVars>>,
             conn' \in [Conns -> Connection],
             \A d \in Conns : conn'[d].app = conn[d].app /\ conn'[d].agent = conn[d].agent,
             \A d \in Conns : ~conn[d].agent => conn'[d].up = <<>>,
             query' \in QueryStates, query'.at # "idle" => app_up /\ ~writer.init,
             query'.at = "reading" <=> query'.on # None,
             query'.on = query.on \/ (query.on = None /\ query'.on = fd)
      PROVE  LinkInv'
  <2>1. UNCHANGED <<backlog, connected_socket, watched, pending>>
    BY <1>1 DEF agentVars
  <2>2. payload_samples' \in Nat /\ pending' \in [Categories -> Nat]
    BY <1>0, <1>1, <2>1 DEF LinkTypes
  <2> QED BY <1>0, <1>a, <1>1, <2>1, <2>2, LinkQuiet
<1>2. ASSUME NEW k \in Categories, atlas_reputation_request(k) PROVE LinkInv'
  <2>1. /\ app_up /\ ~writer.init /\ query.at = "idle"
        /\ UNCHANGED <<app_up, policy, fd, writer, payload_samples, agentVars>>
    BY <1>2 DEF atlas_reputation_request
  <2>2. CASE /\ Writable(fd)
             /\ conn' = [conn EXCEPT ![fd].up = Append(@, ReputationRequest(k))]
             /\ query' = [QueryIdle EXCEPT !.at = "sent", !.category = k]
    <3>1. /\ fd \in Conns /\ conn' = Sent(conn, fd, ReputationRequest(k)) /\ conn[fd].agent
          /\ ReputationRequest(k) \in Commands
      BY <1>0, <2>2, MessageTypes DEF Writable, Sent
    <3>2. /\ conn' \in [Conns -> Connection]
          /\ \A d \in Conns : /\ conn'[d].app = conn[d].app /\ conn'[d].agent = conn[d].agent
                              /\ d # fd => conn'[d] = conn[d]
      BY <1>0, <3>1, SendEffect
    <3>3. \A d \in Conns : ~conn[d].agent => conn'[d].up = <<>>
      BY <1>a, <3>1, <3>2, SMT
    <3>4. query' \in QueryStates /\ query'.at = "sent" /\ query'.on = None
      BY <2>2 DEF QueryStates, QueryIdle
    <3> QED BY <1>1, <1>a, <2>1, <3>2, <3>3, <3>4
  <2>3. CASE UNCHANGED <<query, conn>>
    BY <1>0, <1>a, <1>1, <2>1, <2>3
  <2> QED BY <1>2, <2>2, <2>3 DEF atlas_reputation_request
<1>3. CASE request_read
  <2>1. /\ query.at = "sent"
        /\ query' = IF fd = None THEN QueryIdle ELSE [query EXCEPT !.at = "reading", !.on = fd]
        /\ conn' = conn /\ UNCHANGED <<app_up, policy, fd, writer, payload_samples, agentVars>>
    BY <1>3 DEF request_read
  <2>2. /\ query' \in QueryStates
        /\ IF fd = None THEN query'.at = "idle" /\ query'.on = None
                        ELSE query'.at = "reading" /\ query'.on = fd
    BY <1>0, <2>1 DEF QueryStates, QueryIdle
  <2>3. app_up /\ ~writer.init
    BY <2>1 DEF LinkInv, AppInv
  <2> QED BY <1>0, <1>a, <1>1, <2>1, <2>2, <2>3
<1>4. CASE request_answered
  <2>1. /\ query.at = "reading" /\ conn[query.on].down # <<>> /\ query' = QueryIdle
        /\ conn' = LetGo(Taken(conn, query.on))
        /\ UNCHANGED <<app_up, policy, fd, writer, payload_samples, agentVars>>
    BY <1>4 DEF request_answered, Taken
  <2>2. query.on \in Conns
    BY <1>0, <1>a, <2>1 DEF QueryStates
  <2>3. PICK cs : cs = Taken(conn, query.on)
    OBVIOUS
  <2>4. /\ cs \in [Conns -> Connection]
        /\ \A d \in Conns : /\ cs[d].app = conn[d].app /\ cs[d].agent = conn[d].agent
                            /\ cs[d].up = conn[d].up
    BY <1>0, <2>1, <2>2, <2>3, TakeEffect, SMT
  <2> QED BY <2>1, <2>3, <2>4, LinkLetsGo
<1>5. CASE request_failed \/ request_timeout
  <2>1. /\ query.at = "reading" /\ query' = QueryIdle /\ conn' = LetGo(conn)
        /\ UNCHANGED <<app_up, policy, fd, writer, payload_samples, agentVars>>
    BY <1>5 DEF request_failed, request_timeout
  <2> QED BY <1>0, <2>1, LinkLetsGo
<1> QED BY <1>2, <1>3, <1>4, <1>5 DEF Query

\* A read of the agent changes what is carried, not who holds it.
LEMMA ReadEffect ==
  ASSUME LinkInv, watched, connected_socket # None, conn[connected_socket].up # <<>>,
         NEW cs, cs = Popped(conn, connected_socket),
         \/ conn' = cs
         \/ conn' = Answered(cs, Identity)
  PROVE  /\ conn' \in [Conns -> Connection]
         /\ conn'[connected_socket].up = Tail(conn[connected_socket].up)
         /\ \A d \in Conns : /\ conn'[d].app = conn[d].app /\ conn'[d].agent = conn[d].agent
                             /\ conn'[d].owner = conn[d].owner
                             /\ d # connected_socket => conn'[d] = conn[d]
<1>0. connected_socket \in Conns /\ conn \in [Conns -> Connection]
  BY DEF LinkInv, LinkTypes
<1>1. /\ cs \in [Conns -> Connection]
      /\ cs[connected_socket].up = Tail(conn[connected_socket].up)
      /\ \A d \in Conns : /\ cs[d].app = conn[d].app /\ cs[d].agent = conn[d].agent
                          /\ cs[d].owner = conn[d].owner
                          /\ d # connected_socket => cs[d] = conn[d]
  BY <1>0, PopEffect, SMT
<1>2. CASE conn' = cs
  BY <1>1, <1>2
<1>3. CASE conn' = Answered(cs, Identity)
  <2>1. Identity \in Answers
    BY MessageTypes
  <2>2. /\ conn' \in [Conns -> Connection]
        /\ \A d \in Conns : /\ conn'[d].app = cs[d].app /\ conn'[d].agent = cs[d].agent
                            /\ conn'[d].up = cs[d].up /\ conn'[d].owner = cs[d].owner
                            /\ d # connected_socket => conn'[d] = cs[d]
    BY <1>0, <1>1, <1>3, <2>1, AnswerEffect, SMT
  <2> QED BY <1>0, <1>1, <2>2, SMT
<1> QED BY <1>2, <1>3

\* atlas_data_plane_read_cb, by the command that is read.
LEMMA ReadCases ==
  ASSUME LinkInv, atlas_data_plane_read_cb, ~AgentEnds
  PROVE  /\ connected_socket \in Conns /\ watched /\ conn[connected_socket].up # <<>>
         /\ conn[connected_socket].up[1] \in Commands
         /\ Head(conn[connected_socket].up) = conn[connected_socket].up[1]
         /\ UNCHANGED <<appVars, agent_up, backlog, connected_socket, watched, stops, late,
                        received, intact, strayed>>
         /\ LET m == conn[connected_socket].up[1]
                cs == Popped(conn, connected_socket)
            IN  \/ /\ m.kind = "policy" /\ active_policy' = m.policy /\ conn' = cs
                   /\ UNCHANGED <<pending, reported>>
                \/ /\ m.kind = "statistics" /\ reported' = reported + m.packets /\ conn' = cs
                   /\ UNCHANGED <<active_policy, pending>>
                \/ /\ m.kind = "request" /\ conn' = cs
                   /\ pending' = [pending EXCEPT ![m.category] = @ + 1] \/ UNCHANGED pending
                   /\ UNCHANGED <<active_policy, reported>>
                \/ /\ m.kind = "get_identity" /\ conn' = Answered(cs, Identity)
                   /\ UNCHANGED <<active_policy, pending, reported>>
<1> DEFINE m == Head(conn[connected_socket].up)
           cs == Popped(conn, connected_socket)
<1>1. watched /\ conn[connected_socket].up # <<>> /\ connected_socket # None
  BY DEF atlas_data_plane_read_cb, LinkInv, AgentInv
<1>2. connected_socket \in Conns /\ conn[connected_socket] \in Connection
  BY <1>1 DEF LinkInv, LinkTypes
<1>3. conn[connected_socket].up \in Seq(Commands)
  BY <1>2 DEF Connection
<1>4. m = conn[connected_socket].up[1] /\ conn[connected_socket].up[1] \in Commands
  BY <1>1, <1>3, SMT
<1>5. /\ \/ atlas_data_plane_parse_policy(m, cs) \/ set_packets_per_min(m, cs)
         \/ atlas_feature_reputation_handle(m, cs) \/ atlas_data_plane_identity(m, cs)
      /\ UNCHANGED <<appVars, agent_up, backlog, connected_socket, watched, stops, late,
                     received, intact, strayed>>
  BY DEF atlas_data_plane_read_cb, Popped
<1> HIDE DEF m, cs
<1>6. \/ /\ m.kind = "policy" /\ active_policy' = m.policy /\ conn' = cs
         /\ UNCHANGED <<pending, reported>>
      \/ /\ m.kind = "statistics" /\ reported' = reported + m.packets /\ conn' = cs
         /\ UNCHANGED <<active_policy, pending>>
      \/ /\ m.kind = "request" /\ conn' = cs
         /\ pending' = [pending EXCEPT ![m.category] = @ + 1] \/ UNCHANGED pending
         /\ UNCHANGED <<active_policy, reported>>
      \/ /\ m.kind = "get_identity" /\ conn' = Answered(cs, Identity)
         /\ UNCHANGED <<active_policy, pending, reported>>
  BY <1>5 DEF atlas_data_plane_parse_policy, set_packets_per_min, atlas_feature_reputation_handle,
              atlas_data_plane_identity
<1> QED BY <1>1, <1>2, <1>4, <1>5, <1>6 DEF m, cs

\* The CoAP answers that are awaited are counted.
LEMMA PendingType ==
  ASSUME LinkInv, NEW k \in Categories, NEW n \in Nat
  PROVE  [pending EXCEPT ![k] = n] \in [Categories -> Nat]
BY DEF LinkInv, LinkTypes

\* feature_reputation_callback, by whether there is a connection.
LEMMA CallbackCases ==
  ASSUME LinkInv, NEW k \in Categories, feature_reputation_callback(k), ~AgentEnds
  PROVE  /\ pending[k] > 0 /\ pending' = [pending EXCEPT ![k] = pending[k] - 1]
         /\ \/ conn' = conn
            \/ /\ connected_socket \in Conns
               /\ \E m \in {Reputation(k), Error} : m \in Answers /\ conn' = Answered(conn, m)
         /\ UNCHANGED <<appVars, agent_up, backlog, connected_socket, watched, active_policy,
                        packets_per_min, stops, late, history>>
<1>1. /\ pending[k] > 0 /\ pending' = [pending EXCEPT ![k] = @ - 1]
      /\ \E m \in {Reputation(k), Error} :
           conn' = IF connected_socket = None THEN conn ELSE Answered(conn, m)
      /\ UNCHANGED <<appVars, agent_up, backlog, connected_socket, watched, active_policy,
                     packets_per_min, stops, late, history>>
  BY DEF feature_reputation_callback
<1>2. Reputation(k) \in Answers /\ Error \in Answers
  BY MessageTypes
<1>3. connected_socket \in Conns \cup {None}
  BY DEF LinkInv, LinkTypes
<1> QED BY <1>1, <1>2, <1>3

\* The agent's callbacks: accept, read, a read that fails and an answer of the
\* gateway.
LEMMA LinkAgent ==
  ASSUME LinkInv, Agent
  PROVE  LinkInv'
<1>0. /\ LinkTypes /\ writer \in WriterStates /\ query \in QueryStates /\ conn \in [Conns -> Connection]
      /\ payload_samples \in Nat /\ pending \in [Categories -> Nat]
  BY DEF LinkInv, LinkTypes
<1>a. /\ query.at = "reading" <=> query.on # None
      /\ query.at # "idle" => app_up /\ ~writer.init
      /\ writer.at = "off" => ~writer.init
      /\ writer.at = "identity" => writer.init
      /\ \A d \in Conns : ~conn[d].agent => conn[d].up = <<>>
  BY DEF LinkInv, AppInv, AgentInv
<1>1. ASSUME UNCHANGED <<appVars, backlog, connected_socket>>, watched' => watched,
             conn' \in [Conns -> Connection],
             \A d \in Conns : conn'[d].app = conn[d].app /\ conn'[d].agent = conn[d].agent,
             \A d \in Conns : ~conn[d].agent => conn'[d].up = <<>>,
             pending' \in [Categories -> Nat]
      PROVE  LinkInv'
  <2>1. UNCHANGED <<app_up, policy, fd, writer, query, payload_samples>>
    BY <1>1 DEF appVars
  <2> QED BY <1>0, <1>a, <1>1, <2>1, LinkQuiet
<1>2. CASE AgentEnds
  BY <1>2, LinkAgentEnds
<1>3. CASE atlas_data_plane_accept_cb
  BY <1>3, LinkAccepts
<1>4. CASE atlas_data_plane_read_cb /\ ~AgentEnds
  <2> DEFINE m == conn[connected_socket].up[1]
             cs == Popped(conn, connected_socket)
  <2>1. /\ connected_socket \in Conns /\ watched /\ conn[connected_socket].up # <<>> /\ m \in Commands
        /\ UNCHANGED <<appVars, backlog, connected_socket, watched>>
        /\ conn' = cs \/ conn' = Answered(cs, Identity)
        /\ \/ UNCHANGED pending
           \/ m.kind = "request" /\ pending' = [pending EXCEPT ![m.category] = @ + 1]
    BY <1>4, ReadCases
  <2>2. connected_socket # None /\ conn[connected_socket].agent
    BY <2>1, DataPlaneLinkAssumption DEF LinkInv, AgentInv
  <2>3. /\ conn' \in [Conns -> Connection]
        /\ \A d \in Conns : /\ conn'[d].app = conn[d].app /\ conn'[d].agent = conn[d].agent
                            /\ d # connected_socket => conn'[d] = conn[d]
    BY <2>1, <2>2, ReadEffect
  <2>4. \A d \in Conns : ~conn[d].agent => conn'[d].up = <<>>
    BY <1>a, <2>2, <2>3
  <2>5. pending' \in [Categories -> Nat]
    <3>1. m.kind = "request" => m.category \in Categories
      BY <2>1 DEF Commands
    <3> HIDE DEF m
    <3>2. \A k \in Categories : pending[k] + 1 \in Nat
      BY <1>0, SMT
    <3> QED BY <1>0, <2>1, <3>1, <3>2, PendingType
  <2> QED BY <1>1, <2>1, <2>3, <2>4, <2>5
<1>5. CASE read_fails
  <2>1. /\ UNCHANGED <<appVars, backlog, connected_socket, conn, pending>> /\ watched' = FALSE
    BY <1>5 DEF read_fails
  <2> QED BY <1>0, <1>a, <1>1, <2>1
<1>6. ASSUME NEW k \in Categories, feature_reputation_callback(k), ~AgentEnds PROVE LinkInv'
  <2>1. /\ pending[k] > 0 /\ pending' = [pending EXCEPT ![k] = pending[k] - 1]
        /\ \/ conn' = conn
           \/ /\ connected_socket \in Conns
              /\ \E m \in {Reputation(k), Error} : m \in Answers /\ conn' = Answered(conn, m)
        /\ UNCHANGED <<appVars, backlog, connected_socket, watched>>
    BY <1>6, CallbackCases
  <2>2. pending' \in [Categories -> Nat]
    <3>1. pending[k] - 1 \in Nat
      BY <1>0, <2>1, SMT
    <3> QED BY <2>1, <3>1, PendingType
  <2>3. CASE conn' = conn
    BY <1>0, <1>a, <1>1, <2>1, <2>2, <2>3
  <2>4. CASE conn' # conn
    <3>1. PICK m \in Answers : connected_socket \in Conns /\ conn' = Answered(conn, m)
      BY <2>1, <2>4
    <3>2. /\ conn' \in [Conns -> Connection]
          /\ \A d \in Conns : /\ conn'[d].app = conn[d].app /\ conn'[d].agent = conn[d].agent
                              /\ conn'[d].up = conn[d].up
      BY <1>0, <3>1, AnswerEffect, SMT
    <3> QED BY <1>a, <1>1, <2>1, <2>2, <3>2
  <2> QED BY <2>3, <2>4
<1> QED BY <1>2, <1>3, <1>4, <1>5, <1>6 DEF Agent

\* parse_arguments and atlas_init: an application that starts has no
\* connection yet.
LEMMA LinkAppStart ==
  ASSUME LinkInv, AppStart
  PROVE  LinkInv'
<1>1. /\ ~app_up /\ app_up' /\ policy' \in AppPolicies
      /\ writer' = [at |-> "connect", owed |-> 1, packets |-> 0, init |-> TRUE]
      /\ UNCHANGED <<conn, fd, query, payload_samples, backlog, connected_socket, watched, pending>>
  BY DEF AppStart, agentVars
<1>2. writer' \in WriterStates /\ writer'.at = "connect"
  BY <1>1, SMT DEF WriterStates
<1>3. fd = None /\ query.at = "idle"
  BY <1>1 DEF LinkInv, AppInv
<1>4. LinkTypes'
  BY <1>1, <1>2 DEF LinkInv, LinkTypes
<1>5. AppInv'
  BY <1>1, <1>2, <1>3 DEF LinkInv, AppInv
<1>6. AgentInv'
  BY <1>1 DEF LinkInv, AgentInv
<1> QED BY <1>4, <1>5, <1>6 DEF LinkInv

\* Every step keeps the two ends consistent.
LEMMA LinkStep == LinkInv /\ [Next]_vars => LinkInv'
<1> SUFFICES ASSUME LinkInv, [Next]_vars PROVE LinkInv'
  OBVIOUS
<1>1. ASSUME UNCHANGED <<conn, app_up, policy, fd, writer, query, backlog, connected_socket,
                         watched, pending>>, payload_samples' \in Nat
      PROVE  LinkInv'
  BY <1>1 DEF LinkInv, LinkTypes, AppInv, AgentInv
<1>2. CASE atlas_pkt_received
  <2>1. payload_samples' \in Nat
    BY <1>2, SMT DEF atlas_pkt_received, LinkInv, LinkTypes
  <2> QED BY <1>1, <1>2, <2>1 DEF atlas_pkt_received, agentVars
<1>3. CASE atlas_data_plane_connector_start \/ UNCHANGED vars
  <2>1. /\ UNCHANGED <<conn, app_up, policy, fd, writer, query, backlog, connected_socket, watched, pending>>
        /\ UNCHANGED payload_samples
    BY <1>3 DEF atlas_data_plane_connector_start, vars, appVars, agentVars
  <2> QED BY <1>1, <2>1 DEF LinkInv, LinkTypes
<1>4. CASE StopApp
  BY <1>4, LinkAppEnds DEF StopApp
<1>5. CASE StopAgent
  BY <1>5, LinkAgentEnds DEF StopAgent
<1> QED BY <1>2, <1>3, <1>4, <1>5, LinkWriter, LinkQuery, LinkAgent, LinkAppStart DEF Next

\* At first no connection is open.
LEMMA LinkInit == Init => LinkInv
<1> SUFFICES ASSUME Init PROVE LinkInv
  OBVIOUS
<1>1. \A c \in Conns : conn[c] = Closed
  BY DEF Init
<1>2. conn \in [Conns -> Connection]
  BY ClosedType DEF Init
<1>3. writer \in WriterStates /\ writer.at = "off" /\ ~writer.init
      /\ query \in QueryStates /\ query.at = "idle" /\ query.on = None
  BY SMT DEF Init, WriterOff, QueryIdle, WriterStates, QueryStates
<1>4. backlog \in Seq(Conns) /\ Len(backlog) = 0
  BY SMT DEF Init
<1>5. LinkTypes
  BY <1>2, <1>3, <1>4 DEF Init, LinkTypes
<1>6. AppInv
  BY <1>1, <1>3, ClosedType DEF Init, AppInv
<1>7. AgentInv
  BY <1>1, <1>3, <1>4, ClosedType, SMT DEF Init, AgentInv
<1> QED BY <1>5, <1>6, <1>7 DEF LinkInv

\* The application's descriptors and the agent's agree about who holds which
\* connection: the agent's backlog has no connection twice, and the one it
\* drops when it accepts another is never the one the application writes to
\* (socket_connect, atlas_data_plane_accept_cb).
THEOREM LinkInvHolds == Spec => []LinkInv
BY LinkInit, LinkStep, PTL DEF Spec

-----------------------------------------------------------------------------
(* The policy precedes the statistics.                                     *)

\* A step that leaves what the agent is to read, and the writer where it is.
LEMMA AnnounceKept ==
  ASSUME LinkInv, AnnounceInv,
         \A d \in Conns : \/ conn'[d].up = <<>>
                          \/ conn'[d].up = conn[d].up /\ conn'[d].owner = conn[d].owner,
         \A d \in Conns : conn'[d].agent =>
                            /\ conn[d].agent /\ conn'[d].up = conn[d].up
                            /\ conn'[d].owner = conn[d].owner
                            /\ d = connected_socket => d = connected_socket',
         active_policy' = active_policy,
         fd' \in {fd, None}, fd' # None => policy' = policy /\ conn'[fd'].agent = conn[fd'].agent,
         writer'.at \in {"command", "identity", "idle"} =>
           fd' = fd /\ fd # None /\ writer.at \in {"command", "identity", "idle"},
         LinkInv'
  PROVE  AnnounceInv'
<1>1. \A d \in Conns : \A i : conn'[d].agent /\ Announced(d, i) => Announced(d, i)'
  BY DEF Announced
<1>2. \A d \in Conns : ~conn'[d].agent => conn'[d].up = <<>> /\ Len(conn'[d].up) = 0
  BY SMT DEF LinkInv, AgentInv
<1>3. \A d \in Conns : \A i \in 1 .. Len(conn'[d].up) :
        /\ conn'[d].up[i].kind = "policy" => conn'[d].up[i].policy = conn'[d].owner
        /\ conn'[d].up[i].kind = "statistics" => Announced(d, i)'
  BY <1>1, <1>2, SMT DEF AnnounceInv
<1>4. fd \in Conns \cup {None}
  BY DEF LinkInv, LinkTypes
<1>5. fd' # None /\ conn'[fd'].agent => conn'[fd'].owner = policy'
  BY <1>4 DEF AnnounceInv
<1>6. writer'.at \in {"command", "identity", "idle"} /\ conn'[fd'].agent =>
        Announced(fd, Len(conn[fd].up) + 1)
  BY <1>4 DEF AnnounceInv
<1>7. writer'.at \in {"command", "identity", "idle"} /\ conn'[fd'].agent =>
        Announced(fd, Len(conn[fd].up) + 1)'
  BY <1>1, <1>4, <1>6, SMT DEF Announced
<1> QED BY <1>3, <1>5, <1>7 DEF AnnounceInv

\* A write on the application's connection: a policy is the application's,
\* and the writer sends statistics once a policy is sent.
LEMMA AnnounceSends ==
  ASSUME LinkInv, AnnounceInv, fd \in Conns, conn[fd].agent, NEW m \in Commands,
         conn' = Sent(conn, fd, m),
         m.kind = "policy" => m.policy = policy,
         m.kind = "statistics" => writer.at \in {"command", "identity", "idle"},
         writer'.at \in {"command", "identity", "idle"} =>
           m.kind = "policy" \/ writer.at \in {"command", "identity", "idle"},
         UNCHANGED <<fd, policy, connected_socket, active_policy>>
  PROVE  AnnounceInv'
<1>0. LinkTypes
  BY DEF LinkInv
<1>1. /\ conn'[fd].up = Append(conn[fd].up, m)
      /\ \A d \in Conns : /\ conn'[d].agent = conn[d].agent /\ conn'[d].owner = conn[d].owner
                          /\ d # fd => conn'[d] = conn[d]
  BY <1>0, SendEffect
<1>2. conn[fd].up \in Seq(Commands)
  BY <1>0 DEF LinkTypes, Connection
<1> DEFINE n == Len(conn[fd].up)
<1>3. /\ n \in Nat /\ Len(conn'[fd].up) = n + 1 /\ conn'[fd].up[n + 1] = m
      /\ \A i \in 1 .. n : conn'[fd].up[i] = conn[fd].up[i]
  BY <1>1, <1>2, SMT
<1> HIDE DEF n
<1>4. \A d \in Conns : \A i \in 1 .. Len(conn[d].up) : conn'[d].up[i] = conn[d].up[i]
  BY <1>1, <1>3, SMTT(20) DEF n
<1>5. ASSUME NEW d \in Conns, NEW i \in 1 .. Len(conn[d].up) + 1, Announced(d, i)
      PROVE  Announced(d, i)'
  <2>1. conn[d].up \in Seq(Commands)
    BY <1>0 DEF LinkTypes, Connection
  <2>2. \A j \in 1 .. i - 1 : j \in 1 .. Len(conn[d].up)
    BY <2>1, SMT
  <2>3. CASE d = connected_socket /\ active_policy = conn[d].owner
    BY <1>1, <2>3 DEF Announced
  <2>4. CASE \E j \in 1 .. i - 1 : conn[d].up[j].kind = "policy"
    BY <1>4, <2>2, <2>4 DEF Announced
  <2> QED BY <1>5, <2>3, <2>4 DEF Announced
<1>6. writer.at \in {"command", "identity", "idle"} => Announced(fd, n + 1)
  BY DEF AnnounceInv, n
<1>7. ASSUME NEW d \in Conns, NEW i \in 1 .. Len(conn'[d].up)
      PROVE  /\ conn'[d].up[i].kind = "policy" => conn'[d].up[i].policy = conn'[d].owner
             /\ conn'[d].up[i].kind = "statistics" => Announced(d, i)'
  <2>1. CASE d # fd \/ i # n + 1
    <3>1. i \in 1 .. Len(conn[d].up)
      <4>1. CASE d # fd
        BY <1>1, <4>1
      <4>2. CASE d = fd
        BY <1>3, <2>1, <4>2, SMT DEF n
      <4> QED BY <4>1, <4>2
    <3>2. Len(conn[d].up) \in Nat
      BY <1>0, SMT DEF LinkTypes, Connection
    <3>3. /\ conn[d].up[i].kind = "policy" => conn[d].up[i].policy = conn[d].owner
          /\ conn[d].up[i].kind = "statistics" => Announced(d, i)
      BY <3>1 DEF AnnounceInv
    <3>4. i \in 1 .. Len(conn[d].up) + 1
      BY <3>1, <3>2, SMT
    <3>5. conn'[d].up[i] = conn[d].up[i] /\ conn'[d].owner = conn[d].owner
      BY <1>1, <1>4, <3>1
    <3> QED BY <1>5, <3>3, <3>4, <3>5
  <2>2. CASE d = fd /\ i = n + 1
    <3>1. conn[fd].owner = policy
      BY DataPlaneLinkAssumption DEF AnnounceInv
    <3>2. n + 1 \in 1 .. Len(conn[fd].up) + 1
      BY <1>3, SMT DEF n
    <3> QED BY <1>1, <1>3, <1>5, <1>6, <2>2, <3>1, <3>2
  <2> QED BY <2>1, <2>2
<1>8. fd' # None /\ conn'[fd'].agent => conn'[fd'].owner = policy'
  BY <1>1 DEF AnnounceInv
<1>9. ASSUME writer'.at \in {"command", "identity", "idle"}
      PROVE  Announced(fd, Len(conn[fd].up) + 1)'
  <2>1. Len(conn'[fd].up) + 1 = n + 2 /\ n + 1 \in 1 .. (n + 2) - 1 /\ \A j \in 1 .. n : j \in 1 .. (n + 2) - 1
    BY <1>3, SMT
  <2>2. CASE m.kind = "policy"
    BY <1>3, <2>1, <2>2, SMT DEF Announced
  <2>3. CASE m.kind # "policy"
    <3>1. Announced(fd, n + 1)
      BY <1>6, <1>9, <2>3
    <3>2. \/ fd = connected_socket /\ active_policy = conn[fd].owner
          \/ \E j \in 1 .. n : conn[fd].up[j].kind = "policy"
      BY <1>3, <3>1, SMT DEF Announced
    <3> QED BY <1>1, <1>3, <2>1, <3>2, SMT DEF Announced
  <2> QED BY <2>2, <2>3
<1> QED BY <1>7, <1>8, <1>9 DEF AnnounceInv

\* atlas_data_plane_read_cb: a policy that is read is in force, and another
\* command that is read leaves the ones behind it announced.
LEMMA AnnounceReads ==
  ASSUME LinkInv, AnnounceInv, atlas_data_plane_read_cb, ~AgentEnds
  PROVE  AnnounceInv'
<1> DEFINE c == connected_socket
           m == conn[c].up[1]
<1>1. /\ c \in Conns /\ watched /\ conn[c].up # <<>> /\ connected_socket' = connected_socket
      /\ UNCHANGED <<fd, policy, writer>>
      /\ conn' = Popped(conn, c) \/ conn' = Answered(Popped(conn, c), Identity)
      /\ IF m.kind = "policy" THEN active_policy' = m.policy ELSE active_policy' = active_policy
  BY ReadCases DEF appVars
<1>2. c # None /\ c \in Conns
  BY <1>1, DataPlaneLinkAssumption
<1>3. /\ conn'[c].up = Tail(conn[c].up)
      /\ \A d \in Conns : /\ conn'[d].agent = conn[d].agent /\ conn'[d].owner = conn[d].owner
                          /\ d # c => conn'[d] = conn[d]
  BY <1>1, <1>2, ReadEffect
<1>4. conn[c].up \in Seq(Commands)
  BY <1>1 DEF LinkInv, LinkTypes, Connection
<1>5. /\ Len(conn[c].up) \in Nat \ {0} /\ Len(conn'[c].up) = Len(conn[c].up) - 1
      /\ \A i \in 1 .. Len(conn'[c].up) : i + 1 \in 1 .. Len(conn[c].up)
                                          /\ conn'[c].up[i] = conn[c].up[i + 1]
  BY <1>1, <1>3, <1>4, SMT
<1> HIDE DEF m
<1>6. m = conn[c].up[1] /\ (m.kind = "policy" => m.policy = conn[c].owner)
  BY <1>2, <1>5, SMT DEF AnnounceInv, m
<1> HIDE DEF c
<1>7. ASSUME NEW d \in Conns, d # c, NEW i, Announced(d, i) PROVE Announced(d, i)'
  BY <1>3, <1>7 DEF Announced, c
<1>8. ASSUME NEW i \in 1 .. Len(conn'[c].up) + 1, Announced(c, i + 1) PROVE Announced(c, i)'
  <2>1. CASE m.kind = "policy"
    <3>1. active_policy' = conn'[c].owner /\ c = connected_socket'
      BY <1>1, <1>2, <1>3, <1>6, <2>1 DEF c
    <3> QED BY <3>1 DEF Announced, c
  <2>2. CASE m.kind # "policy"
    <3>1. CASE active_policy = conn[c].owner
      <4>1. active_policy' = conn'[c].owner /\ c = connected_socket'
        BY <1>1, <1>2, <1>3, <2>2, <3>1 DEF c
      <4> QED BY <4>1 DEF Announced, c
    <3>2. CASE \E j \in 1 .. (i + 1) - 1 : conn[c].up[j].kind = "policy"
      <4>1. PICK j \in 1 .. i : conn[c].up[j].kind = "policy"
        BY <1>5, <3>2, SMT
      <4>2. j # 1
        BY <1>6, <2>2, <4>1
      <4>3. j - 1 \in 1 .. i - 1 /\ j - 1 \in 1 .. Len(conn'[c].up) /\ (j - 1) + 1 = j
        BY <1>5, <4>2, SMT
      <4>4. conn'[c].up[j - 1] = conn[c].up[j]
        BY <1>5, <4>3
      <4>5. \E h \in 1 .. i - 1 : conn'[c].up[h].kind = "policy"
        BY <4>1, <4>3, <4>4
      <4> QED BY <1>1, <4>5 DEF Announced, c
    <3> QED BY <1>8, <3>1, <3>2 DEF Announced
  <2> QED BY <2>1, <2>2
<1>9. ASSUME NEW d \in Conns, NEW i \in 1 .. Len(conn'[d].up)
      PROVE  /\ conn'[d].up[i].kind = "policy" => conn'[d].up[i].policy = conn'[d].owner
             /\ conn'[d].up[i].kind = "statistics" => Announced(d, i)'
  <2>1. CASE d # c
    BY <1>3, <1>7, <2>1, SMT DEF AnnounceInv
  <2>2. CASE d = c
    <3>1. i + 1 \in 1 .. Len(conn[c].up) /\ conn'[c].up[i] = conn[c].up[i + 1]
      BY <1>5, <2>2
    <3>2. i \in 1 .. Len(conn'[c].up) + 1
      BY <1>5, <2>2, SMT
    <3>3. /\ conn[c].up[i + 1].kind = "policy" => conn[c].up[i + 1].policy = conn[c].owner
          /\ conn[c].up[i + 1].kind = "statistics" => Announced(c, i + 1)
      BY <2>2, <3>1 DEF AnnounceInv
    <3>4. Announced(c, i + 1) => Announced(c, i)'
      BY <1>8, <3>2
    <3>5. Announced(c, i)' => Announced(d, i)'
      BY <1>1, <2>2 DEF Announced, c
    <3> QED BY <1>3, <2>2, <3>1, <3>3, <3>4, <3>5
  <2> QED BY <2>1, <2>2
<1>10. fd \in Conns \cup {None}
  BY DEF LinkInv, LinkTypes
<1>11. fd' # None /\ conn'[fd'].agent => conn'[fd'].owner = policy'
  BY <1>1, <1>3, <1>10 DEF AnnounceInv
<1>12. ASSUME writer'.at \in {"command", "identity", "idle"}, conn'[fd'].agent
       PROVE  Announced(fd, Len(conn[fd].up) + 1)'
  <2>1. fd \in Conns /\ Announced(fd, Len(conn[fd].up) + 1)
    <3>1. fd # None
      BY <1>1, <1>12 DEF LinkInv, AppInv
    <3> QED BY <1>1, <1>3, <1>10, <1>12, <3>1 DEF AnnounceInv
  <2>2. CASE fd # c
    BY <1>1, <1>3, <1>7, <2>1, <2>2 DEF Announced
  <2>3. CASE fd = c
    <3>1. /\ Len(conn'[c].up) + 1 \in 1 .. Len(conn'[c].up) + 1
          /\ (Len(conn'[c].up) + 1) + 1 = Len(conn[c].up) + 1
      BY <1>5, SMT
    <3>2. PICK i \in 1 .. Len(conn'[c].up) + 1 : i = Len(conn'[c].up) + 1
      BY <3>1
    <3>3. Announced(c, i + 1)
      BY <2>1, <2>3, <3>1, <3>2
    <3>4. Announced(c, i)'
      BY <1>8, <3>3
    <3> QED BY <1>1, <2>3, <3>2, <3>4 DEF Announced, c
  <2> QED BY <2>2, <2>3
<1> QED BY <1>9, <1>11, <1>12 DEF AnnounceInv

\* socket_connect: a new connection carries nothing, and its owner is the
\* policy the writer is about to send.
LEMMA AnnounceConnects ==
  ASSUME LinkInv, AnnounceInv, socket_connect
  PROVE  AnnounceInv'
<1>1. PICK c \in Conns :
        /\ conn[c] = Closed
        /\ conn' = [conn EXCEPT ![c] = [Closed EXCEPT !.app = TRUE, !.agent = TRUE, !.owner = policy]]
        /\ fd' = c
  BY DEF socket_connect
<1>2. /\ writer' = [writer EXCEPT !.at = "policy"]
      /\ UNCHANGED <<policy, connected_socket, active_policy>>
  BY DEF socket_connect
<1>3. /\ conn'[c].up = <<>> /\ conn'[c].owner = policy
      /\ \A d \in Conns : d # c => conn'[d] = conn[d]
  <2> DEFINE r == [Closed EXCEPT !.app = TRUE, !.agent = TRUE, !.owner = policy]
  <2>1. r.up = <<>> /\ r.owner = policy
    BY DEF Closed
  <2> HIDE DEF r
  <2>2. conn' = [conn EXCEPT ![c] = r]
    BY <1>1 DEF r
  <2> QED BY <2>1, <2>2 DEF LinkInv, LinkTypes
<1>4. writer'.at = "policy"
  BY <1>2 DEF LinkInv, LinkTypes, WriterStates
<1>5. Len(conn'[c].up) = 0
  BY <1>3, SMT
<1>6. ASSUME NEW d \in Conns, NEW i \in 1 .. Len(conn'[d].up)
      PROVE  /\ conn'[d].up[i].kind = "policy" => conn'[d].up[i].policy = conn'[d].owner
             /\ conn'[d].up[i].kind = "statistics" => Announced(d, i)'
  <2>1. d # c
    BY <1>5, SMT
  <2> QED BY <1>2, <1>3, <2>1, SMT DEF AnnounceInv, Announced
<1> QED BY <1>1, <1>2, <1>3, <1>4, <1>6 DEF AnnounceInv

\* The writer: a policy is sent on every connection it makes.
LEMMA AnnounceWriter ==
  ASSUME LinkInv, AnnounceInv, Writer, LinkInv'
  PROVE  AnnounceInv'
<1>0. LinkTypes /\ writer \in WriterStates /\ conn \in [Conns -> Connection] /\ fd \in Conns \cup {None}
  BY DEF LinkInv, LinkTypes
<1>a. writer.at \notin {"off", "connect"} => fd # None /\ policy \in AppPolicies
  BY DEF LinkInv, AppInv
<1>b. \A d \in Conns : ~conn[d].agent => conn[d].up = <<>>
  BY DEF LinkInv, AgentInv
<1>1. CASE AppEnds
  <2>1. \A d \in Conns : /\ conn'[d].agent = conn[d].agent
                         /\ conn[d].agent => conn'[d].up = conn[d].up /\ conn'[d].owner = conn[d].owner
                         /\ ~conn[d].agent => conn'[d].up = <<>>
    BY <1>0, <1>1, AppEndsEffect
  <2>2. fd' = None /\ writer'.at = "off" /\ UNCHANGED <<connected_socket, active_policy>>
    BY <1>1 DEF AppEnds, WriterOff, agentVars
  <2> QED BY <2>1, <2>2, AnnounceKept
<1>2. CASE socket_connect
  BY <1>2, AnnounceConnects
<1>3. ASSUME NEW m, NEW next, NEW n, write_to_socket_retry(m, next, n), m \in Commands,
             fd # None, m.kind = "policy" => m.policy = policy,
             m.kind = "statistics" => writer.at = "command",
             next.at \in {"command", "identity", "idle"} => m.kind = "policy" \/ writer.at = "command"
      PROVE  AnnounceInv'
  <2>1. CASE /\ Writable(fd) /\ conn' = [conn EXCEPT ![fd].up = Append(@, m)] /\ writer' = next
             /\ UNCHANGED <<app_up, policy, fd, query, payload_samples, agentVars, stops, late, history>>
    <3>1. conn' = Sent(conn, fd, m) /\ conn[fd].agent /\ fd \in Conns
      BY <1>0, <1>3, <2>1 DEF Sent, Writable
    <3>2. UNCHANGED <<connected_socket, active_policy, fd, policy>>
      BY <2>1 DEF agentVars
    <3> QED BY <1>3, <2>1, <3>1, <3>2, AnnounceSends
  <2>2. CASE /\ Broken(fd) /\ CloseFd /\ writer' = [writer EXCEPT !.at = "connect", !.owed = n]
             /\ UNCHANGED <<app_up, policy, query, payload_samples, agentVars, stops, late, history>>
    <3>1. fd' = None /\ UNCHANGED <<connected_socket, active_policy>>
      BY <2>2 DEF CloseFd, agentVars
    <3>2. writer'.at = "connect"
      BY <1>0, <2>2 DEF WriterStates
    <3>3. \A d \in Conns : /\ conn'[d].agent = conn[d].agent
                           /\ conn'[d].up = conn[d].up \/ (~conn[d].agent /\ conn'[d].up = <<>>)
                           /\ conn[d].agent => conn'[d].owner = conn[d].owner
      BY <1>3, <2>2, CloseEffect
    <3> QED BY <1>b, <3>1, <3>2, <3>3, AnnounceKept
  <2> QED BY <1>1, <1>3, <2>1, <2>2 DEF write_to_socket_retry
<1>4. CASE send_registration_command
  <2> DEFINE next == [writer EXCEPT !.owed = @ - 1,
                                    !.at = IF writer.owed = 1 THEN "command" ELSE "policy"]
  <2>1. writer.at = "policy" /\ write_to_socket_retry(PolicyCommand(policy), next, writer.owed + 1)
    BY <1>4 DEF send_registration_command
  <2> HIDE DEF next
  <2>2. PolicyCommand(policy) \in Commands
    BY <1>a, <2>1, MessageTypes
  <2>3. PolicyCommand(policy).kind = "policy" /\ PolicyCommand(policy).policy = policy
    BY DEF PolicyCommand
  <2> QED BY <1>3, <1>a, <2>1, <2>2, <2>3
<1>5. CASE send_statistics_command
  <2>1. /\ writer.at = "idle" /\ UNCHANGED <<conn, fd, policy, connected_socket, active_policy>>
    BY <1>5 DEF send_statistics_command, agentVars
  <2> QED BY <1>a, <1>b, <2>1, AnnounceKept
<1>6. CASE write_command
  <2>1. writer.at = "command"
    BY <1>6 DEF write_command
  <2>2. CASE writer.init
    <3> DEFINE next == [writer EXCEPT !.at = "identity"]
    <3>1. write_to_socket_retry(GetIdentity, next, 1)
      BY <1>6, <2>2 DEF write_command
    <3> HIDE DEF next
    <3>2. GetIdentity \in Commands /\ GetIdentity.kind = "get_identity"
      BY MessageTypes DEF GetIdentity
    <3> QED BY <1>3, <1>a, <2>1, <3>1, <3>2
  <2>3. CASE ~writer.init
    <3> DEFINE next == [writer EXCEPT !.at = "idle", !.packets = 0]
    <3>1. write_to_socket_retry(Statistics(writer.packets), next, 1)
      BY <1>6, <2>3 DEF write_command
    <3> HIDE DEF next
    <3>2. writer.packets \in Nat
      BY <1>0 DEF WriterStates
    <3>3. Statistics(writer.packets) \in Commands /\ Statistics(writer.packets).kind = "statistics"
      BY <3>2, MessageTypes DEF Statistics
    <3> QED BY <1>3, <1>a, <2>1, <3>1, <3>3
  <2> QED BY <2>2, <2>3
<1>7. CASE read_identity /\ ~AppEnds
  <2>1. /\ writer.at = "identity" /\ conn[fd].down # <<>>
        /\ conn' = Taken(conn, fd)
        /\ UNCHANGED <<policy, fd, agentVars>>
    BY <1>7 DEF read_identity, Taken
  <2>2. \A d \in Conns : /\ conn'[d].agent = conn[d].agent /\ conn'[d].up = conn[d].up
                         /\ conn'[d].owner = conn[d].owner
    BY <1>0, <1>a, <2>1, TakeEffect, SMT
  <2>3. UNCHANGED <<connected_socket, active_policy>>
    BY <2>1 DEF agentVars
  <2> QED BY <1>a, <1>b, <2>1, <2>2, <2>3, <1>0, AnnounceKept
<1> QED BY <1>1, <1>2, <1>4, <1>5, <1>6, <1>7 DEF Writer

\* The query thread announces nothing and sends no statistics.
LEMMA AnnounceQuery ==
  ASSUME LinkInv, AnnounceInv, Query \/ \E k \in Categories : atlas_reputation_request(k), LinkInv'
  PROVE  AnnounceInv'
<1>0. LinkTypes /\ conn \in [Conns -> Connection] /\ fd \in Conns \cup {None}
  BY DEF LinkInv, LinkTypes
<1>a. writer.at \notin {"off", "connect"} => fd # None
  BY DEF LinkInv, AppInv
<1>b. \A d \in Conns : ~conn[d].agent => conn[d].up = <<>>
  BY DEF LinkInv, AgentInv
<1>1. ASSUME UNCHANGED <<policy, fd, writer, agentVars>>,
             \A d \in Conns : /\ conn'[d].agent = conn[d].agent
                              /\ conn'[d].up = conn[d].up \/ (~conn[d].agent /\ conn'[d].up = <<>>)
                              /\ conn[d].agent => conn'[d].owner = conn[d].owner
      PROVE  AnnounceInv'
  <2>1. UNCHANGED <<connected_socket, active_policy>>
    BY <1>1 DEF agentVars
  <2> QED BY <1>0, <1>a, <1>b, <1>1, <2>1, AnnounceKept
<1>2. ASSUME NEW k \in Categories, atlas_reputation_request(k) PROVE AnnounceInv'
  <2>1. UNCHANGED <<policy, fd, writer, agentVars>>
    BY <1>2 DEF atlas_reputation_request
  <2>2. CASE Writable(fd) /\ conn' = [conn EXCEPT ![fd].up = Append(@, ReputationRequest(k))]
    <3>1. fd \in Conns /\ conn' = Sent(conn, fd, ReputationRequest(k)) /\ conn[fd].agent
      BY <1>0, <2>2 DEF Writable, Sent
    <3>2. ReputationRequest(k) \in Commands /\ ReputationRequest(k).kind = "request"
      BY MessageTypes DEF ReputationRequest
    <3>3. UNCHANGED <<connected_socket, active_policy>>
      BY <2>1 DEF agentVars
    <3> QED BY <2>1, <3>1, <3>2, <3>3, AnnounceSends
  <2>3. CASE UNCHANGED conn
    BY <1>1, <2>1, <2>3
  <2> QED BY <1>2, <2>2, <2>3 DEF atlas_reputation_request
<1>3. CASE request_read
  BY <1>1, <1>3 DEF request_read
<1>4. CASE request_answered
  <2>1. /\ query.at = "reading" /\ conn[query.on].down # <<>>
        /\ conn' = LetGo(Taken(conn, query.on)) /\ UNCHANGED <<policy, fd, writer, agentVars>>
    BY <1>4 DEF request_answered, Taken
  <2>2. query.on \in Conns
    BY <2>1 DEF LinkInv, LinkTypes, AppInv, QueryStates
  <2>3. PICK cs : cs = Taken(conn, query.on)
    OBVIOUS
  <2>4. /\ cs \in [Conns -> Connection]
        /\ \A d \in Conns : /\ cs[d].app = conn[d].app /\ cs[d].agent = conn[d].agent
                            /\ cs[d].up = conn[d].up /\ cs[d].owner = conn[d].owner
    BY <1>0, <2>1, <2>2, <2>3, TakeEffect, SMT
  <2>5. \A d \in Conns : /\ conn'[d].agent = cs[d].agent
                         /\ conn'[d].up = cs[d].up \/ (~cs[d].agent /\ conn'[d].up = <<>>)
                         /\ cs[d].agent => conn'[d].owner = cs[d].owner
    <3>1. conn' = LetGo(cs) /\ query.at = "reading"
      BY <2>1, <2>3
    <3>2. \A d \in Conns : cs[d].app = conn[d].app
      BY <2>4
    <3> QED BY <2>4, <3>1, <3>2, LetGoEffect, SMT
  <2>6. \A d \in Conns : /\ conn'[d].agent = conn[d].agent
                         /\ conn'[d].up = conn[d].up \/ (~conn[d].agent /\ conn'[d].up = <<>>)
                         /\ conn[d].agent => conn'[d].owner = conn[d].owner
    BY <2>4, <2>5
  <2> QED BY <1>1, <2>1, <2>6
<1>5. CASE request_failed \/ request_timeout
  <2>1. /\ query.at = "reading" /\ conn' = LetGo(conn) /\ UNCHANGED <<policy, fd, writer, agentVars>>
    BY <1>5 DEF request_failed, request_timeout
  <2>2. \A d \in Conns : /\ conn'[d].agent = conn[d].agent
                         /\ conn'[d].up = conn[d].up \/ (~conn[d].agent /\ conn'[d].up = <<>>)
                         /\ conn[d].agent => conn'[d].owner = conn[d].owner
    BY <1>0, <2>1, LetGoEffect
  <2> QED BY <1>1, <2>1, <2>2
<1> QED BY <1>2, <1>3, <1>4, <1>5 DEF Query

\* The agent's callbacks: a connection it accepts starts with its own policy.
LEMMA AnnounceAgent ==
  ASSUME LinkInv, AnnounceInv, Agent \/ AgentEnds, LinkInv'
  PROVE  AnnounceInv'
<1>0. /\ LinkTypes /\ conn \in [Conns -> Connection] /\ fd \in Conns \cup {None}
      /\ connected_socket \in Conns \cup {None}
  BY DEF LinkInv, LinkTypes
<1>a. writer.at \notin {"off", "connect"} <=> fd # None
  BY <1>0 DEF LinkInv, AppInv, LinkTypes, WriterStates
<1>b. \A d \in Conns : ~conn[d].agent => conn[d].up = <<>>
  BY DEF LinkInv, AgentInv
<1>1. CASE AgentEnds
  <2>1. \A d \in Conns : ~conn'[d].agent /\ Len(conn'[d].up) = 0
    BY <1>0, <1>1, AgentEndsEffect, SMT
  <2>2. UNCHANGED <<fd, writer>>
    BY <1>1 DEF AgentEnds, appVars
  <2> QED BY <1>0, <1>a, <2>1, <2>2, SMT DEF AnnounceInv
<1>2. ASSUME UNCHANGED <<policy, fd, writer, connected_socket, active_policy>>,
             \A d \in Conns : /\ conn'[d].agent = conn[d].agent
                              /\ conn'[d].up = conn[d].up /\ conn'[d].owner = conn[d].owner
      PROVE  AnnounceInv'
  BY <1>0, <1>a, <1>b, <1>2, AnnounceKept
<1>3. CASE atlas_data_plane_accept_cb
  <2>1. UNCHANGED <<policy, fd, writer, active_policy>>
    BY <1>3 DEF atlas_data_plane_accept_cb, appVars
  <2>2. CASE connected_socket = None
    <3>1. conn' = conn
      BY <1>3, <2>2 DEF atlas_data_plane_accept_cb
    <3>2. None \notin Conns
      BY DataPlaneLinkAssumption
    <3> QED BY <1>0, <1>a, <1>b, <2>1, <2>2, <3>1, <3>2, AnnounceKept
  <2>3. CASE connected_socket # None
    <3>1. connected_socket \in Conns /\ conn' = Tidy(Dropped(conn, connected_socket))
      BY <1>0, <1>3, <2>3 DEF atlas_data_plane_accept_cb, Dropped
    <3>2. /\ ~conn'[connected_socket].agent /\ conn'[connected_socket].up = <<>>
          /\ \A d \in Conns : d # connected_socket =>
               /\ conn'[d].agent = conn[d].agent
               /\ conn[d].agent => conn'[d] = conn[d]
               /\ conn'[d].up = conn[d].up \/ (~conn[d].agent /\ conn'[d].up = <<>>)
      BY <1>0, <3>1, DropEffect, SMT
    <3>3. fd # connected_socket
      BY <1>3, <2>3 DEF atlas_data_plane_accept_cb, LinkInv, AgentInv
    <3> QED BY <1>0, <1>a, <1>b, <2>1, <3>1, <3>2, <3>3, AnnounceKept
  <2> QED BY <2>2, <2>3
<1>4. CASE atlas_data_plane_read_cb
  BY <1>1, <1>4, AnnounceReads
<1>5. CASE read_fails
  BY <1>2, <1>5 DEF read_fails, appVars
<1>6. ASSUME NEW k \in Categories, feature_reputation_callback(k), ~AgentEnds PROVE AnnounceInv'
  <2>1. /\ \/ conn' = conn
           \/ /\ connected_socket \in Conns
              /\ \E m \in {Reputation(k), Error} : m \in Answers /\ conn' = Answered(conn, m)
        /\ UNCHANGED <<policy, fd, writer, connected_socket, active_policy>>
    BY <1>6, CallbackCases DEF appVars
  <2>2. CASE conn' = conn
    BY <1>2, <2>1, <2>2
  <2>3. CASE conn' # conn
    <3>1. PICK m \in Answers : connected_socket \in Conns /\ conn' = Answered(conn, m)
      BY <2>1, <2>3
    <3>2. \A d \in Conns : /\ conn'[d].agent = conn[d].agent
                           /\ conn'[d].up = conn[d].up /\ conn'[d].owner = conn[d].owner
      BY <1>0, <3>1, AnswerEffect, SMT
    <3> QED BY <1>2, <2>1, <3>2
  <2> QED BY <2>2, <2>3
<1> QED BY <1>1, <1>3, <1>4, <1>5, <1>6 DEF Agent

\* Every step keeps the statistics behind a policy.
LEMMA AnnounceStep == LinkInv /\ AnnounceInv /\ [Next]_vars => AnnounceInv'
<1> SUFFICES ASSUME LinkInv, AnnounceInv, [Next]_vars PROVE AnnounceInv'
  OBVIOUS
<1>0. LinkInv' /\ fd \in Conns \cup {None} /\ (writer.at \notin {"off", "connect"} => fd # None)
  BY LinkStep DEF LinkInv, LinkTypes, AppInv
<1>b. \A d \in Conns : ~conn[d].agent => conn[d].up = <<>>
  BY DEF LinkInv, AgentInv
<1>1. ASSUME UNCHANGED <<conn, fd, policy, connected_socket, active_policy, writer>>
      PROVE  AnnounceInv'
  BY <1>0, <1>b, <1>1, AnnounceKept
<1>2. CASE atlas_pkt_received \/ atlas_data_plane_connector_start \/ UNCHANGED vars
  BY <1>1, <1>2 DEF atlas_pkt_received, atlas_data_plane_connector_start, vars, appVars, agentVars
<1>3. CASE AppStart
  <2>1. /\ UNCHANGED <<conn, fd, connected_socket, active_policy>> /\ ~app_up /\ writer'.at = "connect"
    BY <1>3 DEF AppStart, agentVars
  <2>2. fd = None
    BY <2>1 DEF LinkInv, AppInv
  <2> QED BY <1>0, <1>b, <2>1, <2>2, AnnounceKept
<1>4. CASE StopApp
  <2>1. LinkTypes /\ AppEnds
    BY <1>4 DEF StopApp, LinkInv
  <2>2. \A d \in Conns : /\ conn'[d].agent = conn[d].agent
                         /\ conn[d].agent => conn'[d].up = conn[d].up /\ conn'[d].owner = conn[d].owner
                         /\ ~conn[d].agent => conn'[d].up = <<>>
    BY <2>1, AppEndsEffect
  <2>3. fd' = None /\ writer'.at = "off" /\ UNCHANGED <<connected_socket, active_policy>>
    BY <2>1 DEF AppEnds, WriterOff, agentVars
  <2> QED BY <1>0, <2>2, <2>3, AnnounceKept
<1>5. CASE StopAgent
  BY <1>0, <1>5, AnnounceAgent DEF StopAgent
<1> QED BY <1>0, <1>2, <1>3, <1>4, <1>5, AnnounceWriter, AnnounceQuery, AnnounceAgent DEF Next

\* At first nothing is written.
LEMMA AnnounceInit == Init => AnnounceInv
<1> SUFFICES ASSUME Init PROVE AnnounceInv
  OBVIOUS
<1>1. \A c \in Conns : conn[c].up = <<>> /\ Len(conn[c].up) = 0
  BY ClosedType DEF Init
<1>2. fd = None /\ writer.at = "off"
  BY DEF Init, WriterOff
<1> QED BY <1>1, <1>2, SMT DEF AnnounceInv

\* Statistics that are read are the application's of the policy in force.
LEMMA AnnounceImplies ==
  LinkInv /\ AnnounceInv /\ [Next]_vars =>
    [reported' # reported => active_policy = conn[connected_socket].owner]_vars
<1> SUFFICES ASSUME LinkInv, AnnounceInv, Next, reported' # reported
             PROVE  active_policy = conn[connected_socket].owner
  BY DEF vars, history
<1>1. ~AgentEnds /\ ~AppEnds
  BY DEF AgentEnds, AppEnds
<1>2. atlas_data_plane_read_cb
  BY <1>1 DEF Next, Writer, Query, Agent, socket_connect, send_registration_command,
       send_statistics_command, write_command, write_to_socket_retry, read_identity, request_read,
       request_answered, request_failed, request_timeout, atlas_data_plane_accept_cb, read_fails,
       feature_reputation_callback, AppStart, atlas_data_plane_connector_start, atlas_pkt_received,
       atlas_reputation_request, StopApp, StopAgent, history
<1>3. /\ connected_socket \in Conns /\ conn[connected_socket].up # <<>>
      /\ conn[connected_socket].up[1].kind = "statistics"
  BY <1>1, <1>2, ReadCases
<1>4. 1 \in 1 .. Len(conn[connected_socket].up)
  <2>1. conn[connected_socket].up \in Seq(Commands)
    BY <1>3 DEF LinkInv, LinkTypes, Connection
  <2> QED BY <1>3, <2>1, SMT
<1>5. Announced(connected_socket, 1)
  BY <1>3, <1>4 DEF AnnounceInv
<1> QED BY <1>5, SMT DEF Announced

\* The agent takes statistics only from an application whose policy it has
\* (set_packets_per_min after atlas_data_plane_parse_policy), for any number
\* of connections, failed writes and restarts of either process.
THEOREM PolicyBeforeStatisticsHolds == Spec => PolicyBeforeStatistics
<1>1. Spec => []AnnounceInv
  BY LinkInvHolds, AnnounceInit, AnnounceStep, PTL DEF Spec
<1> QED BY <1>1, LinkInvHolds, AnnounceImplies, PTL DEF Spec, PolicyBeforeStatistics

=============================================================================
