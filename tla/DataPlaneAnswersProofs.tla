----------------------- MODULE DataPlaneAnswersProofs -----------------------
(***************************************************************************)
(* A reputation request of the application returns no answer to another    *)
(* one unless an answer has strayed, for any connections, policies,        *)
(* categories and queue lengths.                                           *)
(***************************************************************************)
EXTENDS DataPlaneLinkProofs

\* Zenon proves what no pragma is cited for; arithmetic and sequences are for SMT.
USE Zenon

(* A message the agent answers.                                            *)
Answerable(m) == m.kind \in {"request", "get_identity"}

NoRequest(c) == \A i \in 1 .. Len(conn[c].up) : conn[c].up[i].kind # "request"
NothingAsked(c) == \A i \in 1 .. Len(conn[c].up) : ~Answerable(conn[c].up[i])

(* The request in progress is the one that fd's messages and answers are   *)
(* about.                                                                  *)
Querying == query.at # "idle" /\ query.on \in {None, fd}

(* What an answer says is of the category asked for.                       *)
Fresh(m) == m.kind = "reputation" => m.category = query.category

(* At most one answer is due on the application's connection or has come,  *)
(* and it is the one its thread waits for.                                 *)
OneAnswer ==
  /\ \A c \in Conns \ {fd} : NoRequest(c)
  /\ \A k \in Categories : pending[k] > 0 => /\ k = query.category /\ pending[k] = 1 /\ Querying
                                             /\ conn[fd].agent /\ conn[fd].down = <<>>
  /\ \A i \in 1 .. Len(conn[fd].up) : Answerable(conn[fd].up[i]) =>
       /\ \A j \in 1 .. Len(conn[fd].up) : Answerable(conn[fd].up[j]) => j = i
       /\ \A k \in Categories : pending[k] = 0
       /\ conn[fd].down = <<>>
       /\ IF conn[fd].up[i].kind = "request" THEN Querying /\ conn[fd].up[i].category = query.category
                                             ELSE writer.at = "identity"
  /\ conn[fd].down # <<>> =>
       /\ Len(conn[fd].down) = 1
       /\ \/ writer.at = "identity" /\ conn[fd].down[1].kind = "identity"
          \/ Querying /\ Fresh(conn[fd].down[1])
          \/ query.at = "idle" /\ ~conn[fd].agent

(* The inductive invariant behind AnswersFresh.                            *)
AnswerInv ==
  ~strayed =>
    /\ fd # None => OneAnswer
    /\ query.on \notin {None, fd} => \A i \in 1 .. Len(conn[query.on].down) : Fresh(conn[query.on].down[i])

\* A socket that holds nothing is a queue of any messages.
LEMMA EmptyQueue ==
  ASSUME NEW S
  PROVE  /\ <<>> \in Seq(S) /\ Len(<<>>) = 0
         /\ \A s \in Seq(S) : s # <<>> <=> Len(s) # 0
BY SMT

\* read() takes the first message of a socket and leaves the others.
LEMMA HeadAndTail ==
  ASSUME NEW S, NEW s \in Seq(S), s # <<>>
  PROVE  /\ Head(s) \in S
         /\ Tail(s) \in Seq(S)
         /\ Len(Tail(s)) = Len(s) - 1
         /\ \A i \in 1 .. Len(Tail(s)) : Tail(s)[i] = s[i + 1]
BY SMT

-----------------------------------------------------------------------------
(* An answer belongs to the request that returns it.                       *)

\* A step that leaves fd and the query thread alone, and asks for nothing.
LEMMA AnswerKept ==
  ASSUME LinkInv, AnswerInv, UNCHANGED <<fd, query, pending, strayed>>,
         writer'.at = writer.at \/ writer.at # "identity",
         \A d \in Conns : d # fd => (NoRequest(d) => NoRequest(d)'),
         fd # None => /\ conn'[fd].up = conn[fd].up /\ conn'[fd].down = conn[fd].down
                      /\ conn'[fd].agent = conn[fd].agent,
         query.on # None => conn'[query.on].down = conn[query.on].down
  PROVE  AnswerInv'
<1> SUFFICES ASSUME ~strayed PROVE AnswerInv'
  BY DEF AnswerInv
<1>1. fd # None => OneAnswer
  BY DEF AnswerInv
<1>2. Querying' = Querying /\ \A m : Fresh(m)' = Fresh(m)
  BY DEF Querying, Fresh
<1>3. ASSUME fd # None PROVE OneAnswer'
  <2>1. \A d \in Conns \ {fd'} : NoRequest(d)'
    BY <1>1, <1>3 DEF OneAnswer
  <2>2. \A k \in Categories : pending'[k] > 0 =>
          /\ k = query'.category /\ pending'[k] = 1 /\ Querying'
          /\ conn'[fd'].agent /\ conn'[fd'].down = <<>>
    BY <1>1, <1>2, <1>3 DEF OneAnswer
  <2>3. \A i \in 1 .. Len(conn'[fd'].up) : Answerable(conn'[fd'].up[i]) =>
          /\ \A j \in 1 .. Len(conn'[fd'].up) : Answerable(conn'[fd'].up[j]) => j = i
          /\ \A k \in Categories : pending'[k] = 0
          /\ conn'[fd'].down = <<>>
          /\ IF conn'[fd'].up[i].kind = "request"
             THEN Querying' /\ conn'[fd'].up[i].category = query'.category
             ELSE writer'.at = "identity"
    BY <1>1, <1>2, <1>3, SMT DEF OneAnswer
  <2>4. conn'[fd'].down # <<>> =>
          /\ Len(conn'[fd'].down) = 1
          /\ \/ writer'.at = "identity" /\ conn'[fd'].down[1].kind = "identity"
             \/ Querying' /\ Fresh(conn[fd].down[1])'
             \/ query'.at = "idle" /\ ~conn'[fd'].agent
    <3>1. Fresh(conn[fd].down[1])' <=> Fresh(conn[fd].down[1])
      BY <1>3 DEF Fresh
    <3> QED BY <1>1, <1>2, <1>3, <3>1 DEF OneAnswer
  <2> QED BY <2>1, <2>2, <2>3, <2>4 DEF OneAnswer, Answerable
<1>4. query'.on \notin {None, fd'} => \A i \in 1 .. Len(conn'[query'.on].down) : Fresh(conn[query.on].down[i])'
  BY <1>2 DEF AnswerInv, Fresh
<1> QED BY <1>3, <1>4 DEF AnswerInv

\* Without a connection and a request there is nothing to show.
LEMMA AnswerNone ==
  ASSUME fd' = None, query'.on = None
  PROVE  AnswerInv'
BY DEF AnswerInv

\* A state in which nothing is asked for on fd and no request is in progress.
LEMMA AnswerCleared ==
  ASSUME query'.on = None,
         \A d \in Conns \ {fd'} : NoRequest(d)',
         \A k \in Categories : ~(pending'[k] > 0),
         fd' # None => /\ NothingAsked(fd)'
                       /\ conn'[fd'].down # <<>> =>
                            Len(conn'[fd'].down) = 1 /\ query'.at = "idle" /\ ~conn'[fd'].agent
  PROVE  AnswerInv'
<1>1. fd' # None => OneAnswer'
  BY DEF OneAnswer, NothingAsked
<1> QED BY <1>1 DEF AnswerInv

\* The writer's connection when no request of the query thread is about it:
\* before and after the writer's own question nothing is asked for there.
LEMMA NothingDue ==
  ASSUME LinkInv, AnswerInv, ~strayed, fd # None, ~Querying, writer.at # "identity"
  PROVE  /\ \A d \in Conns \ {fd} : NoRequest(d)
         /\ \A k \in Categories : ~(pending[k] > 0) /\ pending[k] = 0
         /\ NothingAsked(fd) /\ NoRequest(fd)
         /\ conn[fd].down # <<>> =>
              Len(conn[fd].down) = 1 /\ query.at = "idle" /\ ~conn[fd].agent
<1>1. OneAnswer
  BY DEF AnswerInv
<1>2. \A k \in Categories : ~(pending[k] > 0)
  BY <1>1 DEF OneAnswer
<1>3. \A k \in Categories : pending[k] = 0
  BY <1>2, SMT DEF LinkInv, LinkTypes
<1>4. NothingAsked(fd)
  BY <1>1 DEF OneAnswer, NothingAsked, Answerable
<1>5. NoRequest(fd)
  BY <1>4 DEF NothingAsked, NoRequest, Answerable
<1> QED BY <1>1, <1>2, <1>3, <1>4, <1>5 DEF OneAnswer

\* What is due anywhere, in the terms of the invariant.
LEMMA NothingDueAnywhere ==
  ASSUME LinkInv, ~Due
  PROVE  /\ \A d \in Conns : NoRequest(d)
         /\ \A k \in Categories : ~(pending[k] > 0)
<1>1. \A d \in Conns : conn[d].up \in Seq(Commands) /\ (~conn[d].agent => conn[d].up = <<>>)
  BY DEF LinkInv, LinkTypes, AgentInv, Connection
<1>2. ASSUME NEW d \in Conns PROVE NoRequest(d)
  <2>1. CASE conn[d].agent
    <3>1. DOMAIN conn[d].up = 1 .. Len(conn[d].up)
      BY <1>1, SMT
    <3> QED BY <2>1, <3>1 DEF Due, NoRequest
  <2>2. CASE ~conn[d].agent
    <3>1. Len(conn[d].up) = 0
      BY <1>1, <2>2, SMT
    <3> QED BY <3>1, SMT DEF NoRequest
  <2> QED BY <2>1, <2>2
<1> QED BY <1>2 DEF Due

\* socket_connect: an answer that is still due strays; otherwise the new
\* connection is clean.
LEMMA AnswerConnects ==
  ASSUME LinkInv, AnswerInv, socket_connect
  PROVE  AnswerInv'
<1> SUFFICES ASSUME ~strayed' PROVE AnswerInv'
  BY DEF AnswerInv
<1>0. LinkTypes /\ fd = None /\ query.on \in Conns \cup {None} /\ writer.at = "connect"
  BY DEF LinkInv, LinkTypes, AppInv, QueryStates, socket_connect
<1>1. PICK c \in Conns :
        /\ conn[c] = Closed
        /\ conn' = [conn EXCEPT ![c] = [Closed EXCEPT !.app = TRUE, !.agent = TRUE, !.owner = policy]]
        /\ fd' = c
  BY DEF socket_connect
<1>2. ~Due /\ ~(strayed /\ query.at = "reading") /\ UNCHANGED <<query, pending>>
  BY DEF socket_connect
<1>3. /\ conn'[c].up = <<>> /\ conn'[c].down = <<>>
      /\ \A d \in Conns : d # c => conn'[d] = conn[d]
  <2> DEFINE r == [Closed EXCEPT !.app = TRUE, !.agent = TRUE, !.owner = policy]
  <2>1. r.up = <<>> /\ r.down = <<>>
    BY DEF Closed
  <2> HIDE DEF r
  <2>2. conn' = [conn EXCEPT ![c] = r]
    BY <1>1 DEF r
  <2> QED BY <1>0, <2>1, <2>2 DEF LinkTypes
<1>4. query.on # c
  BY <1>0, <1>1, ClosedType, DataPlaneLinkAssumption DEF LinkInv, AppInv
<1>5. (\A d \in Conns : NoRequest(d)) /\ \A k \in Categories : ~(pending[k] > 0)
  BY <1>2, NothingDueAnywhere
<1>6. \A d \in Conns \ {fd'} : NoRequest(d)'
  BY <1>1, <1>3, <1>5, SMT DEF NoRequest
<1>7. OneAnswer'
  <2>1. Len(conn'[c].up) = 0
    BY <1>3, SMT
  <2> QED BY <1>1, <1>2, <1>3, <1>5, <1>6, <2>1, SMT DEF OneAnswer
<1>8. ASSUME query'.on \notin {None, fd'}
      PROVE  \A i \in 1 .. Len(conn'[query'.on].down) : Fresh(conn[query.on].down[i])'
  <2>1. query.at = "reading" /\ query.on \notin {None, fd} /\ query.on \in Conns
    BY <1>0, <1>2, <1>8 DEF LinkInv, AppInv
  <2>2. \A i \in 1 .. Len(conn[query.on].down) : Fresh(conn[query.on].down[i])
    BY <1>2, <2>1 DEF AnswerInv
  <2>3. conn'[query'.on] = conn[query.on]
    BY <1>2, <1>3, <1>4, <2>1
  <2> QED BY <1>2, <2>2, <2>3 DEF Fresh
<1> QED BY <1>7, <1>8 DEF AnswerInv

\* A command that asks for nothing, written on fd.
LEMMA AnswerSends ==
  ASSUME LinkInv, AnswerInv, fd \in Conns, NEW m \in Commands, ~Answerable(m),
         conn' = Sent(conn, fd, m), writer.at # "identity",
         UNCHANGED <<fd, query, pending, strayed>>
  PROVE  AnswerInv'
<1> SUFFICES ASSUME ~strayed PROVE AnswerInv'
  BY DEF AnswerInv
<1>0. LinkTypes /\ query.on \in Conns \cup {None} /\ fd # None
  BY DataPlaneLinkAssumption DEF LinkInv, LinkTypes, QueryStates
<1>1. /\ conn'[fd].up = Append(conn[fd].up, m)
      /\ \A d \in Conns : /\ conn'[d].agent = conn[d].agent /\ conn'[d].down = conn[d].down
                          /\ d # fd => conn'[d] = conn[d]
  BY <1>0, SendEffect
<1>2. conn[fd].up \in Seq(Commands)
  BY <1>0 DEF LinkTypes, Connection
<1>3. /\ Len(conn[fd].up) \in Nat /\ Len(conn'[fd].up) = Len(conn[fd].up) + 1
      /\ conn'[fd].up[Len(conn[fd].up) + 1] = m
      /\ \A i \in 1 .. Len(conn[fd].up) : conn'[fd].up[i] = conn[fd].up[i]
  BY <1>1, <1>2, SMT
<1>4. OneAnswer
  BY <1>0 DEF AnswerInv
<1>5. Querying' = Querying /\ \A x : Fresh(x)' = Fresh(x)
  BY DEF Querying, Fresh
<1>6. \A d \in Conns \ {fd'} : NoRequest(d)'
  BY <1>1, <1>4, SMT DEF OneAnswer, NoRequest
<1>7. \A i \in 1 .. Len(conn'[fd].up) : Answerable(conn'[fd].up[i]) =>
        i \in 1 .. Len(conn[fd].up) /\ conn'[fd].up[i] = conn[fd].up[i]
  BY <1>3, SMTT(20)
<1>8. \A k \in Categories : pending'[k] > 0 =>
        /\ k = query'.category /\ pending'[k] = 1 /\ Querying'
        /\ conn'[fd'].agent /\ conn'[fd'].down = <<>>
  BY <1>1, <1>4, <1>5 DEF OneAnswer
<1>9. \A i \in 1 .. Len(conn'[fd'].up) : Answerable(conn'[fd'].up[i]) =>
        /\ \A j \in 1 .. Len(conn'[fd'].up) : Answerable(conn'[fd'].up[j]) => j = i
        /\ \A k \in Categories : pending'[k] = 0
        /\ conn'[fd'].down = <<>>
        /\ IF conn'[fd'].up[i].kind = "request"
           THEN Querying' /\ conn'[fd'].up[i].category = query'.category
           ELSE writer'.at = "identity"
  <2> SUFFICES ASSUME NEW i \in 1 .. Len(conn'[fd].up), Answerable(conn'[fd].up[i])
               PROVE  /\ \A j \in 1 .. Len(conn'[fd].up) : Answerable(conn'[fd].up[j]) => j = i
                      /\ \A k \in Categories : pending[k] = 0
                      /\ conn[fd].down = <<>>
                      /\ conn'[fd].up[i].kind = "request" /\ Querying
                      /\ conn'[fd].up[i].category = query.category
    BY <1>1, <1>5, ZenonT(30)
  <2>1. i \in 1 .. Len(conn[fd].up) /\ conn'[fd].up[i] = conn[fd].up[i]
    BY <1>7
  <2>2. /\ \A j \in 1 .. Len(conn[fd].up) : Answerable(conn[fd].up[j]) => j = i
        /\ \A k \in Categories : pending[k] = 0
        /\ conn[fd].down = <<>>
        /\ conn[fd].up[i].kind = "request" /\ Querying
        /\ conn[fd].up[i].category = query.category
    BY <1>4, <2>1 DEF OneAnswer
  <2>3. \A j \in 1 .. Len(conn'[fd].up) : Answerable(conn'[fd].up[j]) => j = i
    BY <1>7, <2>2
  <2> QED BY <2>1, <2>2, <2>3
<1>10. conn'[fd'].down # <<>> =>
         /\ Len(conn'[fd'].down) = 1
         /\ \/ Querying' /\ Fresh(conn[fd].down[1])'
            \/ query'.at = "idle" /\ ~conn'[fd'].agent
  <2>1. Fresh(conn[fd].down[1])' <=> Fresh(conn[fd].down[1])
    BY <1>1 DEF Fresh
  <2> QED BY <1>1, <1>4, <1>5, <2>1 DEF OneAnswer
<1>11. OneAnswer'
  BY <1>6, <1>8, <1>9, <1>10 DEF OneAnswer, Answerable
<1>12. query'.on \notin {None, fd'} => \A i \in 1 .. Len(conn'[query'.on].down) : Fresh(conn[query.on].down[i])'
  BY <1>0, <1>1, SMT DEF AnswerInv, Fresh
<1> QED BY <1>11, <1>12 DEF AnswerInv

\* A question written on fd when nothing else is asked for there: the
\* identity by the writer, or a reputation by the query thread.
LEMMA AnswerAsks ==
  ASSUME LinkInv, AnswerInv, fd \in Conns, conn[fd].agent, NEW m \in Commands, Answerable(m),
         conn' = Sent(conn, fd, m), query.at = "idle", writer.at # "identity",
         m.kind = "request" => query'.at # "idle" /\ query'.category = m.category,
         m.kind = "get_identity" => writer'.at = "identity",
         query'.on = None,
         UNCHANGED <<fd, pending, strayed>>
  PROVE  AnswerInv'
<1> SUFFICES ASSUME ~strayed PROVE AnswerInv'
  BY DEF AnswerInv
<1>0. LinkTypes /\ fd # None
  BY DataPlaneLinkAssumption DEF LinkInv
<1>1. /\ conn'[fd].up = Append(conn[fd].up, m)
      /\ \A d \in Conns : /\ conn'[d].agent = conn[d].agent /\ conn'[d].down = conn[d].down
                          /\ d # fd => conn'[d] = conn[d]
  BY <1>0, SendEffect
<1>2. conn[fd].up \in Seq(Commands)
  BY <1>0 DEF LinkTypes, Connection
<1>3. /\ Len(conn[fd].up) \in Nat /\ Len(conn'[fd].up) = Len(conn[fd].up) + 1
      /\ conn'[fd].up[Len(conn[fd].up) + 1] = m
      /\ \A i \in 1 .. Len(conn[fd].up) : conn'[fd].up[i] = conn[fd].up[i]
  BY <1>1, <1>2, SMT
<1>4. /\ \A d \in Conns \ {fd} : NoRequest(d)
      /\ \A k \in Categories : ~(pending[k] > 0) /\ pending[k] = 0
      /\ NothingAsked(fd) /\ conn[fd].down = <<>>
  BY <1>0, NothingDue DEF Querying
<1>5. \A d \in Conns \ {fd'} : NoRequest(d)'
  BY <1>1, <1>4, SMT DEF NoRequest
<1>6. \A i \in 1 .. Len(conn'[fd].up) : Answerable(conn'[fd].up[i]) => i = Len(conn[fd].up) + 1
  BY <1>3, <1>4, SMT DEF NothingAsked
<1>7. m.kind = "request" => Querying'
  BY DEF Querying
<1>8. \A i \in 1 .. Len(conn'[fd].up) : Answerable(conn'[fd].up[i]) =>
        /\ \A j \in 1 .. Len(conn'[fd].up) : Answerable(conn'[fd].up[j]) => j = i
        /\ IF conn'[fd].up[i].kind = "request"
           THEN Querying' /\ conn'[fd].up[i].category = query'.category
           ELSE writer'.at = "identity"
  <2> SUFFICES ASSUME NEW i \in 1 .. Len(conn'[fd].up), Answerable(conn'[fd].up[i])
               PROVE  /\ \A j \in 1 .. Len(conn'[fd].up) : Answerable(conn'[fd].up[j]) => j = i
                      /\ IF conn'[fd].up[i].kind = "request"
                         THEN Querying' /\ conn'[fd].up[i].category = query'.category
                         ELSE writer'.at = "identity"
    OBVIOUS
  <2>1. i = Len(conn[fd].up) + 1 /\ conn'[fd].up[i] = m
    BY <1>3, <1>6
  <2>2. m.kind = "request" \/ m.kind = "get_identity"
    BY DEF Answerable
  <2>3. \A j \in 1 .. Len(conn'[fd].up) : Answerable(conn'[fd].up[j]) => j = i
    BY <1>6, <2>1
  <2> QED BY <1>7, <2>1, <2>2, <2>3
<1>9. conn'[fd].down = <<>>
  BY <1>1, <1>4
<1>10. OneAnswer'
  BY <1>4, <1>5, <1>8, <1>9, SMT DEF OneAnswer, Answerable
<1> QED BY <1>10 DEF AnswerInv

\* A failed write: what has come on the old connection is still the query
\* thread's answer.
LEMMA AnswerCloses ==
  ASSUME LinkInv, AnswerInv, fd # None, CloseFd, UNCHANGED <<query, strayed>>
  PROVE  AnswerInv'
<1> SUFFICES ASSUME ~strayed, query.on # None
             PROVE  \A i \in 1 .. Len(conn'[query.on].down) : Fresh(conn[query.on].down[i])'
  BY DEF AnswerInv, CloseFd
<1>1. conn'[query.on].down = conn[query.on].down
  BY CloseEffect
<1>2. query.at = "reading" /\ writer.at # "identity"
  BY DEF LinkInv, AppInv
<1>3. \A i \in 1 .. Len(conn[query.on].down) : Fresh(conn[query.on].down[i])
  <2>1. CASE query.on = fd
    <3>1. OneAnswer
      BY DEF AnswerInv
    <3>2. CASE conn[fd].down = <<>>
      <4>1. Len(conn[fd].down) = 0
        BY <3>2, SMT
      <4> QED BY <2>1, <4>1, SMT
    <3>3. CASE conn[fd].down # <<>>
      <4>1. Len(conn[fd].down) = 1 /\ Fresh(conn[fd].down[1])
        BY <1>2, <3>1, <3>3 DEF OneAnswer
      <4> QED BY <2>1, <4>1, SMT
    <3> QED BY <3>2, <3>3
  <2>2. CASE query.on # fd
    BY <2>2 DEF AnswerInv
  <2> QED BY <2>1, <2>2
<1> QED BY <1>1, <1>3 DEF Fresh

\* A connection with one answer has none once it is read.
LEMMA TailOfOne ==
  ASSUME NEW s \in Seq(Answers), Len(s) = 1
  PROVE  Tail(s) = <<>>
<1>1. s # <<>>
  <2>1. s = <<>> => Len(s) = Len(<<>>)
    OBVIOUS
  <2> QED BY <2>1, EmptyQueue, SMT
<1>2. Tail(s) \in Seq(Answers) /\ Len(Tail(s)) = 0
  BY <1>1, HeadAndTail, SMT
<1> QED BY <1>2, EmptyQueue

\* The identity is read: nothing else is asked for on the new connection.
LEMMA AnswerIdentity ==
  ASSUME LinkInv, AnswerInv, writer.at = "identity", conn[fd].down # <<>>,
         conn' = Taken(conn, fd), UNCHANGED <<fd, query, pending, strayed>>
  PROVE  AnswerInv'
<1> SUFFICES ASSUME ~strayed PROVE AnswerInv'
  BY DEF AnswerInv
<1>0. /\ fd \in Conns /\ conn \in [Conns -> Connection] /\ query.at = "idle" /\ query.on = None
  BY DEF LinkInv, LinkTypes, AppInv
<1>1. OneAnswer
  BY <1>0, DataPlaneLinkAssumption DEF AnswerInv
<1>2. /\ conn'[fd].down = Tail(conn[fd].down)
      /\ \A d \in Conns : conn'[d].up = conn[d].up
  BY <1>0, TakeEffect, SMT
<1>3. conn[fd].down \in Seq(Answers) /\ Len(conn[fd].down) = 1
  BY <1>0, <1>1 DEF OneAnswer, Connection
<1>4. conn'[fd].down = <<>>
  BY <1>2, <1>3, TailOfOne
<1>5. /\ \A d \in Conns \ {fd} : NoRequest(d)
      /\ \A k \in Categories : ~(pending[k] > 0)
      /\ NothingAsked(fd)
  BY <1>1 DEF OneAnswer, NothingAsked
<1>6. (\A d \in Conns \ {fd} : NoRequest(d)') /\ NothingAsked(fd)'
  BY <1>0, <1>2, <1>5 DEF NoRequest, NothingAsked
<1> QED BY <1>0, <1>4, <1>5, <1>6, AnswerCleared

\* The writer's steps.
LEMMA AnswerWriter ==
  ASSUME LinkInv, AnswerInv, Writer
  PROVE  AnswerInv'
<1>0. LinkTypes /\ writer \in WriterStates /\ conn \in [Conns -> Connection] /\ fd \in Conns \cup {None}
  BY DEF LinkInv, LinkTypes
<1>a. writer.at \notin {"off", "connect"} => fd # None /\ policy \in AppPolicies
  BY DEF LinkInv, AppInv
<1>1. CASE AppEnds
  <2>1. fd' = None /\ query'.on = None
    BY <1>1 DEF AppEnds, QueryIdle
  <2> QED BY <2>1, AnswerNone
<1>2. CASE socket_connect
  BY <1>2, AnswerConnects
<1>3. ASSUME NEW m, NEW next, NEW n, write_to_socket_retry(m, next, n), m \in Commands,
             fd # None, writer.at # "identity",
             Answerable(m) => m.kind = "get_identity" /\ next.at = "identity" /\ query.at = "idle"
      PROVE  AnswerInv'
  <2>1. CASE /\ Writable(fd) /\ conn' = [conn EXCEPT ![fd].up = Append(@, m)] /\ writer' = next
             /\ UNCHANGED <<app_up, policy, fd, query, payload_samples, agentVars, stops, late, history>>
    <3>1. conn' = Sent(conn, fd, m) /\ conn[fd].agent /\ fd \in Conns
      BY <1>0, <1>3, <2>1 DEF Sent, Writable
    <3>2. UNCHANGED <<fd, query, pending, strayed>>
      BY <2>1 DEF agentVars, history
    <3>3. CASE ~Answerable(m)
      BY <1>3, <3>1, <3>2, <3>3, AnswerSends
    <3>4. CASE Answerable(m)
      <4>1. query'.on = None
        BY <1>3, <3>2, <3>4 DEF LinkInv, AppInv
      <4> QED BY <1>3, <2>1, <3>1, <3>2, <3>4, <4>1, AnswerAsks
    <3> QED BY <3>3, <3>4
  <2>2. CASE /\ Broken(fd) /\ CloseFd /\ writer' = [writer EXCEPT !.at = "connect", !.owed = n]
             /\ UNCHANGED <<app_up, policy, query, payload_samples, agentVars, stops, late, history>>
    BY <1>3, <2>2, AnswerCloses DEF history
  <2> QED BY <1>1, <1>3, <2>1, <2>2 DEF write_to_socket_retry
<1>4. CASE send_registration_command
  <2> DEFINE next == [writer EXCEPT !.owed = @ - 1,
                                    !.at = IF writer.owed = 1 THEN "command" ELSE "policy"]
  <2>1. writer.at = "policy" /\ write_to_socket_retry(PolicyCommand(policy), next, writer.owed + 1)
    BY <1>4 DEF send_registration_command
  <2> HIDE DEF next
  <2>2. PolicyCommand(policy) \in Commands
    BY <1>a, <2>1, MessageTypes
  <2>3. ~Answerable(PolicyCommand(policy))
    BY DEF PolicyCommand, Answerable
  <2> QED BY <1>3, <1>a, <2>1, <2>2, <2>3
<1>5. CASE send_statistics_command
  <2>1. writer.at = "idle" /\ UNCHANGED <<conn, fd, query, pending, strayed>>
    BY <1>5 DEF send_statistics_command, agentVars, history
  <2> QED BY <2>1, AnswerKept DEF NoRequest
<1>6. CASE write_command
  <2>1. writer.at = "command"
    BY <1>6 DEF write_command
  <2>2. CASE writer.init
    <3> DEFINE next == [writer EXCEPT !.at = "identity"]
    <3>1. write_to_socket_retry(GetIdentity, next, 1)
      BY <1>6, <2>2 DEF write_command
    <3>2. next.at = "identity"
      BY <1>0 DEF WriterStates
    <3> HIDE DEF next
    <3>3. GetIdentity \in Commands /\ GetIdentity.kind = "get_identity"
      BY MessageTypes DEF GetIdentity
    <3>4. query.at = "idle"
      BY <2>2 DEF LinkInv, AppInv
    <3> QED BY <1>3, <1>a, <2>1, <3>1, <3>2, <3>3, <3>4
  <2>3. CASE ~writer.init
    <3> DEFINE next == [writer EXCEPT !.at = "idle", !.packets = 0]
    <3>1. write_to_socket_retry(Statistics(writer.packets), next, 1)
      BY <1>6, <2>3 DEF write_command
    <3> HIDE DEF next
    <3>2. writer.packets \in Nat
      BY <1>0 DEF WriterStates
    <3>3. Statistics(writer.packets) \in Commands
      BY <3>2, MessageTypes
    <3>4. ~Answerable(Statistics(writer.packets))
      BY DEF Statistics, Answerable
    <3> QED BY <1>3, <1>a, <2>1, <3>1, <3>3, <3>4
  <2> QED BY <2>2, <2>3
<1>7. CASE read_identity /\ ~AppEnds
  <2>1. /\ writer.at = "identity" /\ conn[fd].down # <<>> /\ conn' = Taken(conn, fd)
        /\ UNCHANGED <<fd, query, pending, strayed>>
    BY <1>7 DEF read_identity, Taken, agentVars, history
  <2> QED BY <2>1, AnswerIdentity
<1> QED BY <1>1, <1>2, <1>4, <1>5, <1>6, <1>7 DEF Writer

\* A read of the query thread ends, with an answer or without one.
LEMMA AnswerEnds ==
  ASSUME LinkInv, AnswerInv, ~strayed, query.at = "reading", query' = QueryIdle,
         UNCHANGED <<fd, pending>>,
         \A d \in Conns : /\ conn'[d].agent = conn[d].agent
                          /\ conn'[d].up = conn[d].up \/ conn'[d].up = <<>>,
         query.on # fd /\ fd # None => conn'[fd].down = conn[fd].down,
         query.on = fd => /\ \A k \in Categories : ~(pending[k] > 0)
                          /\ NothingAsked(fd)
                          /\ conn'[fd].down # <<>> => Len(conn'[fd].down) = 1 /\ ~conn[fd].agent
  PROVE  AnswerInv'
<1>0. fd \in Conns \cup {None} /\ writer.at # "identity" /\ query.on # None
  BY DEF LinkInv, LinkTypes, AppInv
<1>1. query'.at = "idle" /\ query'.on = None
  BY DEF QueryIdle
<1>2. CASE fd = None
  BY <1>1, <1>2, AnswerNone
<1>3. CASE fd # None
  <2>1. /\ \A d \in Conns \ {fd} : NoRequest(d)
        /\ \A k \in Categories : ~(pending[k] > 0)
        /\ NothingAsked(fd)
        /\ conn'[fd].down # <<>> => Len(conn'[fd].down) = 1 /\ ~conn[fd].agent
    <3>1. CASE query.on = fd
      <4>1. OneAnswer
        BY <1>3 DEF AnswerInv
      <4> QED BY <3>1, <4>1 DEF OneAnswer
    <3>2. CASE query.on # fd
      <4>1. ~Querying
        BY <1>0, <3>2 DEF Querying
      <4> QED BY <1>0, <1>3, <3>2, <4>1, NothingDue
    <3> QED BY <3>1, <3>2
  <2>2. \A d \in Conns : Len(conn'[d].up) = 0 \/ conn'[d].up = conn[d].up
    BY EmptyQueue
  <2>3. \A d \in Conns \ {fd} : NoRequest(d)'
    BY <2>1, <2>2, SMT DEF NoRequest
  <2>4. NothingAsked(fd)'
    BY <1>0, <1>3, <2>1, <2>2, SMT DEF NothingAsked
  <2> QED BY <1>0, <1>1, <1>3, <2>1, <2>3, <2>4, AnswerCleared
<1> QED BY <1>2, <1>3

\* The query thread's steps.
LEMMA AnswerQuery ==
  ASSUME LinkInv, AnswerInv, Query \/ \E k \in Categories : atlas_reputation_request(k)
  PROVE  AnswerInv'
<1>0. /\ LinkTypes /\ query \in QueryStates /\ fd \in Conns \cup {None}
      /\ conn \in [Conns -> Connection]
  BY DEF LinkInv, LinkTypes
<1>a. /\ query.at = "reading" <=> query.on # None
      /\ query.at # "idle" => writer.at # "identity"
      /\ \A d \in Conns : ~conn[d].agent => conn[d].up = <<>>
  BY DEF LinkInv, AppInv, AgentInv
<1>1. ASSUME NEW k \in Categories, atlas_reputation_request(k) PROVE AnswerInv'
  <2>1. query.at = "idle" /\ ~writer.init /\ UNCHANGED <<fd, writer, pending, strayed>>
    BY <1>1 DEF atlas_reputation_request, agentVars, history
  <2>2. CASE /\ Writable(fd)
             /\ conn' = [conn EXCEPT ![fd].up = Append(@, ReputationRequest(k))]
             /\ query' = [QueryIdle EXCEPT !.at = "sent", !.category = k]
    <3>1. /\ fd \in Conns /\ conn' = Sent(conn, fd, ReputationRequest(k)) /\ conn[fd].agent
      BY <1>0, <2>2 DEF Writable, Sent
    <3>2. /\ ReputationRequest(k) \in Commands /\ ReputationRequest(k).kind = "request"
          /\ ReputationRequest(k).category = k /\ Answerable(ReputationRequest(k))
      BY MessageTypes DEF ReputationRequest, Answerable
    <3>3. query'.at = "sent" /\ query'.category = k /\ query'.on = None
      BY <2>2 DEF QueryIdle
    <3>4. writer.at # "identity"
      BY <2>1 DEF LinkInv, AppInv
    <3> QED BY <2>1, <3>1, <3>2, <3>3, <3>4, AnswerAsks
  <2>3. CASE UNCHANGED <<query, conn>>
    BY <2>1, <2>3, AnswerKept DEF NoRequest
  <2> QED BY <1>1, <2>2, <2>3 DEF atlas_reputation_request
<1>2. CASE request_read
  <2>1. /\ query.at = "sent" /\ UNCHANGED <<conn, fd, writer, pending, strayed>>
        /\ query' = IF fd = None THEN QueryIdle ELSE [query EXCEPT !.at = "reading", !.on = fd]
    BY <1>2 DEF request_read, agentVars, history
  <2>2. CASE fd = None
    BY <2>1, <2>2, AnswerNone DEF QueryIdle
  <2>3. CASE fd # None
    <3>1. query'.at = "reading" /\ query'.on = fd /\ query'.category = query.category
      BY <1>0, <2>1, <2>3 DEF QueryStates
    <3>2. query.on = None
      BY <1>a, <2>1
    <3>3. Querying /\ Querying' /\ (\A m : Fresh(m)' = Fresh(m))
      BY <2>1, <3>1, <3>2 DEF Querying, Fresh
    <3>4. OneAnswer => OneAnswer'
      <4> SUFFICES ASSUME OneAnswer PROVE OneAnswer'
        OBVIOUS
      <4>1. conn[fd].down # <<>> => Fresh(conn[fd].down[1]) \/ writer.at = "identity"
        BY <2>1 DEF OneAnswer
      <4>2. Fresh(conn[fd].down[1])' = Fresh(conn[fd].down[1])
        BY <2>1, <3>1 DEF Fresh
      <4> QED BY <1>a, <2>1, <3>1, <3>3, <4>1, <4>2, SMT DEF OneAnswer, NoRequest
    <3> QED BY <2>1, <2>3, <3>1, <3>4 DEF AnswerInv
  <2> QED BY <2>2, <2>3
<1> SUFFICES ASSUME request_answered \/ request_failed \/ request_timeout, ~strayed' PROVE AnswerInv'
  BY <1>1, <1>2 DEF Query, AnswerInv
<1>3. /\ query.at = "reading" /\ query' = QueryIdle /\ query.on \in Conns
      /\ UNCHANGED <<fd, pending>> /\ ~strayed
  <2>1. /\ query.at = "reading" /\ query' = QueryIdle /\ UNCHANGED <<fd, pending>>
        /\ strayed' = strayed \/ strayed' = (strayed \/ Due)
    BY DEF request_answered, request_failed, request_timeout, agentVars, history
  <2>2. query.on \in Conns
    BY <1>0, <1>a, <2>1 DEF QueryStates
  <2>3. ~strayed
    BY <2>1
  <2> QED BY <2>1, <2>2, <2>3
<1>4. CASE request_answered
  <2>1. conn[query.on].down # <<>>
    BY <1>4 DEF request_answered
  <2>2. PICK cs : cs = Taken(conn, query.on)
    OBVIOUS
  <2>3. conn' = LetGo(cs)
    BY <1>4, <2>2 DEF request_answered, Taken
  <2>4. /\ cs \in [Conns -> Connection] /\ cs[query.on].down = Tail(conn[query.on].down)
        /\ \A d \in Conns : /\ cs[d].app = conn[d].app /\ cs[d].agent = conn[d].agent
                            /\ cs[d].up = conn[d].up /\ (d # query.on => cs[d] = conn[d])
    BY <1>0, <1>3, <2>1, <2>2, TakeEffect, SMT
  <2>5. /\ \A d \in Conns : /\ conn'[d].agent = cs[d].agent
                            /\ conn'[d].up = cs[d].up \/ (~cs[d].agent /\ conn'[d].up = <<>>)
        /\ fd # None => conn'[fd].down = cs[fd].down
    BY <1>3, <2>3, <2>4, LetGoEffect, SMT
  <2>6. ASSUME query.on = fd
        PROVE  /\ \A k \in Categories : ~(pending[k] > 0)
               /\ NothingAsked(fd) /\ conn'[fd].down = <<>>
    <3>1. fd # None /\ OneAnswer
      BY <1>3, <1>a, <2>6 DEF AnswerInv
    <3>2. (\A k \in Categories : ~(pending[k] > 0)) /\ NothingAsked(fd)
      BY <2>1, <2>6, <3>1 DEF OneAnswer, NothingAsked
    <3>3. conn[fd].down \in Seq(Answers) /\ Len(conn[fd].down) = 1
      BY <1>0, <1>3, <2>1, <2>6, <3>1 DEF OneAnswer, Connection
    <3>4. conn'[fd].down = <<>>
      BY <2>4, <2>5, <2>6, <3>1, <3>3, TailOfOne
    <3> QED BY <3>2, <3>4
  <2>7. query.on # fd /\ fd # None => conn'[fd].down = conn[fd].down
    BY <1>0, <2>4, <2>5
  <2> QED BY <1>3, <2>4, <2>5, <2>6, <2>7, AnswerEnds
<1>5. CASE request_failed \/ request_timeout
  <2>1. conn' = LetGo(conn)
    BY <1>5 DEF request_failed, request_timeout
  <2>2. /\ \A d \in Conns : /\ conn'[d].agent = conn[d].agent
                            /\ conn'[d].up = conn[d].up \/ (~conn[d].agent /\ conn'[d].up = <<>>)
        /\ fd # None => conn'[fd].down = conn[fd].down
    BY <1>0, <1>3, <2>1, LetGoEffect, SMT
  <2>3. ASSUME query.on = fd
        PROVE  /\ \A k \in Categories : ~(pending[k] > 0)
               /\ NothingAsked(fd)
               /\ conn'[fd].down # <<>> => Len(conn'[fd].down) = 1 /\ ~conn[fd].agent
    <3>1. fd # None /\ OneAnswer
      BY <1>3, <1>a, <2>3 DEF AnswerInv
    <3>2. CASE request_failed
      <4>1. ~conn[fd].agent /\ Len(conn[fd].up) = 0
        BY <1>3, <1>a, <2>3, <3>2, EmptyQueue DEF request_failed
      <4> QED BY <2>2, <3>1, <4>1, SMT DEF OneAnswer, NothingAsked
    <3>3. CASE request_timeout
      <4>1. conn'[fd].down = <<>> /\ ~Due
        BY <2>2, <2>3, <3>1, <3>3 DEF request_timeout
      <4>2. (\A d \in Conns : NoRequest(d)) /\ \A k \in Categories : ~(pending[k] > 0)
        BY <4>1, NothingDueAnywhere
      <4>3. NothingAsked(fd)
        BY <1>3, <1>a, <2>3, <3>1, <4>2 DEF OneAnswer, NothingAsked, NoRequest
      <4> QED BY <4>1, <4>2, <4>3
    <3> QED BY <1>5, <3>2, <3>3
  <2> QED BY <1>3, <2>2, <2>3, AnswerEnds
<1> QED BY <1>4, <1>5

\* The agent ends: what it owed is gone, what it answered can still be read.
LEMMA AnswerAgentEnds ==
  ASSUME LinkInv, AnswerInv, AgentEnds
  PROVE  AnswerInv'
<1> SUFFICES ASSUME ~strayed PROVE AnswerInv'
  BY DEF AnswerInv, AgentEnds
<1>0. LinkTypes /\ fd \in Conns \cup {None} /\ query.on \in Conns \cup {None}
  BY DEF LinkInv, LinkTypes, QueryStates
<1>1. /\ UNCHANGED <<fd, query, writer>> /\ \A k \in Categories : pending'[k] = 0
  BY DEF AgentEnds, appVars
<1>2. /\ \A d \in Conns : ~conn'[d].agent /\ Len(conn'[d].up) = 0
      /\ \A d \in Conns : conn[d].app => conn'[d].down = conn[d].down
  BY <1>0, AgentEndsEffect, EmptyQueue
<1>3. /\ fd # None => conn'[fd].down = conn[fd].down
      /\ query.on # None => conn'[query.on].down = conn[query.on].down
  BY <1>0, <1>2 DEF LinkInv, AppInv
<1>4. Querying' = Querying /\ \A m : Fresh(m)' = Fresh(m)
  BY <1>1 DEF Querying, Fresh
<1>5. ASSUME fd # None PROVE OneAnswer'
  <2>1. OneAnswer /\ fd \in Conns
    BY <1>0, <1>5 DEF AnswerInv
  <2>2. Fresh(conn[fd].down[1])' = Fresh(conn[fd].down[1])
    BY <1>1, <1>3, <1>5 DEF Fresh
  <2> QED BY <1>1, <1>2, <1>3, <1>4, <1>5, <2>1, <2>2, SMT DEF OneAnswer, NoRequest
<1>6. query.on \notin {None, fd} =>
        \A i \in 1 .. Len(conn'[query.on].down) : Fresh(conn[query.on].down[i])'
  BY <1>1, <1>3 DEF AnswerInv, Fresh
<1> QED BY <1>1, <1>5, <1>6 DEF AnswerInv

\* The agent accepts a connection: the one it drops is not fd.
LEMMA AnswerAccepts ==
  ASSUME LinkInv, AnswerInv, atlas_data_plane_accept_cb
  PROVE  AnswerInv'
<1>0. /\ LinkTypes /\ conn \in [Conns -> Connection] /\ fd \in Conns \cup {None}
      /\ query.on \in Conns \cup {None} /\ connected_socket \in Conns \cup {None}
  BY DEF LinkInv, LinkTypes, QueryStates
<1>1. UNCHANGED <<fd, query, writer, pending, strayed>>
  BY DEF atlas_data_plane_accept_cb, appVars, history
<1>2. CASE connected_socket = None
  <2>1. conn' = conn
    BY <1>2 DEF atlas_data_plane_accept_cb
  <2> QED BY <1>1, <2>1, AnswerKept DEF NoRequest
<1>3. CASE connected_socket # None
  <2>1. connected_socket \in Conns /\ conn' = Tidy(Dropped(conn, connected_socket))
    BY <1>0, <1>3 DEF atlas_data_plane_accept_cb, Dropped
  <2>2. /\ conn'[connected_socket].up = <<>>
        /\ conn[connected_socket].app => conn'[connected_socket].down = conn[connected_socket].down
        /\ \A d \in Conns : d # connected_socket =>
             /\ conn[d].app \/ conn[d].agent => conn'[d] = conn[d]
             /\ conn'[d].up = conn[d].up \/ conn'[d].up = <<>>
    BY <1>0, <2>1, DropEffect, SMT
  <2>3. fd # connected_socket
    BY <1>3 DEF atlas_data_plane_accept_cb, LinkInv, AgentInv
  <2>4. (fd # None => conn[fd].app) /\ (query.on # None => conn[query.on].app)
    BY DEF LinkInv, AppInv
  <2>5. \A d \in Conns : conn'[d].up = conn[d].up \/ Len(conn'[d].up) = 0
    BY <2>2, EmptyQueue
  <2>6. \A d \in Conns : NoRequest(d) => NoRequest(d)'
    BY <2>5, SMT DEF NoRequest
  <2>7. query.on # None => conn'[query.on].down = conn[query.on].down
    BY <1>0, <2>2, <2>4
  <2>8. fd # None => conn'[fd] = conn[fd]
    BY <1>0, <2>2, <2>3, <2>4
  <2> QED BY <1>1, <2>6, <2>7, <2>8, AnswerKept
<1> QED BY <1>2, <1>3

\* The agent reads a connection that the application has replaced: it holds no
\* request, and nobody is there for an answer.
LEMMA AnswerReadsOther ==
  ASSUME LinkInv, AnswerInv, atlas_data_plane_read_cb, ~AgentEnds, connected_socket # fd
  PROVE  AnswerInv'
<1> DEFINE c == connected_socket
           cs == Popped(conn, c)
<1>0. /\ LinkTypes /\ conn \in [Conns -> Connection] /\ fd \in Conns \cup {None}
      /\ query.on \in Conns \cup {None}
  BY DEF LinkInv, LinkTypes, QueryStates
<1>1. /\ c \in Conns /\ conn[c].up # <<>> /\ UNCHANGED <<fd, query, writer, strayed>>
      /\ conn' = cs \/ conn' = Answered(cs, Identity)
      /\ conn[c].up[1].kind # "request" => UNCHANGED pending
  BY ReadCases DEF appVars
<1>2. ~conn[c].app /\ query.on # c
  <2>1. conn[c].agent
    BY <1>1, DataPlaneLinkAssumption DEF LinkInv, AgentInv
  <2>2. query.on # c
    BY <1>1, <2>1, DataPlaneLinkAssumption DEF LinkInv, AgentInv
  <2> QED BY <1>1, <2>2 DEF LinkInv, AppInv
<1>3. /\ cs \in [Conns -> Connection] /\ cs[c].up = Tail(conn[c].up)
      /\ \A d \in Conns : /\ cs[d].app = conn[d].app /\ cs[d].agent = conn[d].agent
                          /\ cs[d].down = conn[d].down /\ (d # c => cs[d] = conn[d])
  BY <1>0, <1>1, PopEffect, SMT
<1> HIDE DEF cs
<1>4. conn' = cs
  <2>1. ~cs[c].app
    BY <1>1, <1>2, <1>3
  <2>2. Answered(cs, Identity) = cs
    BY <2>1 DEF Answered
  <2> QED BY <1>1, <2>2
<1>5. \A d \in Conns : NoRequest(d) => NoRequest(d)'
  <2> SUFFICES ASSUME NEW d \in Conns, NoRequest(d) PROVE NoRequest(d)'
    OBVIOUS
  <2>1. CASE d = c
    <3>1. conn[c].up \in Seq(Commands)
      BY <1>0, <1>1 DEF Connection
    <3>2. /\ Len(Tail(conn[c].up)) = Len(conn[c].up) - 1 /\ Len(conn[c].up) \in Nat
          /\ \A i \in 1 .. Len(Tail(conn[c].up)) : Tail(conn[c].up)[i] = conn[c].up[i + 1]
      BY <1>1, <3>1, HeadAndTail, SMT
    <3>3. \A i \in 1 .. Len(Tail(conn[c].up)) : i + 1 \in 1 .. Len(conn[c].up)
      BY <3>2, SMT
    <3>4. \A i \in 1 .. Len(Tail(conn[c].up)) : Tail(conn[c].up)[i].kind # "request"
      BY <2>1, <3>2, <3>3 DEF NoRequest
    <3>5. conn'[d].up = Tail(conn[c].up)
      BY <1>3, <1>4, <2>1
    <3> QED BY <3>4, <3>5 DEF NoRequest
  <2>2. CASE d # c
    BY <1>3, <1>4, <2>2 DEF NoRequest
  <2> QED BY <2>1, <2>2
<1>6. query.on # None => conn'[query.on].down = conn[query.on].down
  BY <1>0, <1>3, <1>4
<1>7. CASE fd = None
  BY <1>1, <1>6, <1>7 DEF AnswerInv, Fresh
<1>8. CASE fd # None
  <2> SUFFICES ASSUME ~strayed PROVE AnswerInv'
    BY <1>1 DEF AnswerInv
  <2>1. NoRequest(c)
    BY <1>1, <1>8 DEF AnswerInv, OneAnswer
  <2>2. 1 \in 1 .. Len(conn[c].up)
    <3>1. conn[c].up \in Seq(Commands)
      BY <1>0, <1>1 DEF Connection
    <3> QED BY <1>1, <3>1, SMT
  <2>3. UNCHANGED pending
    BY <1>1, <2>1, <2>2 DEF NoRequest
  <2>4. conn'[fd] = conn[fd]
    BY <1>0, <1>3, <1>4, <1>8
  <2> QED BY <1>1, <1>5, <1>6, <2>3, <2>4, AnswerKept
<1> QED BY <1>7, <1>8

\* The agent reads fd: the one message that is to be answered moves to the
\* front, then becomes the answer that is due or the identity.
LEMMA AnswerReads ==
  ASSUME LinkInv, AnswerInv, atlas_data_plane_read_cb, ~AgentEnds, connected_socket = fd
  PROVE  AnswerInv'
<1> SUFFICES ASSUME ~strayed PROVE AnswerInv'
  <2>1. strayed' = strayed
    BY ReadCases
  <2> QED BY <2>1 DEF AnswerInv
<1> DEFINE m == conn[fd].up[1]
           cs == Popped(conn, fd)
<1>0. /\ LinkTypes /\ conn \in [Conns -> Connection] /\ query.on \in Conns \cup {None}
      /\ pending \in [Categories -> Nat]
  BY DEF LinkInv, LinkTypes, QueryStates
<1>1. /\ fd \in Conns /\ fd # None /\ watched /\ conn[fd].up # <<>> /\ m \in Commands
      /\ UNCHANGED <<fd, query, writer, strayed, connected_socket>>
      /\ \/ ~Answerable(m) /\ conn' = cs /\ UNCHANGED pending
         \/ /\ m.kind = "request" /\ conn' = cs
            /\ pending' = [pending EXCEPT ![m.category] = @ + 1] \/ UNCHANGED pending
         \/ m.kind = "get_identity" /\ conn' = Answered(cs, Identity) /\ UNCHANGED pending
  BY ReadCases, DataPlaneLinkAssumption DEF appVars, Answerable
<1>2. OneAnswer /\ conn[fd].agent /\ conn[fd].app
  BY <1>1 DEF AnswerInv, LinkInv, AppInv, AgentInv
<1>3. /\ cs \in [Conns -> Connection] /\ cs[fd].up = Tail(conn[fd].up)
      /\ \A d \in Conns : /\ cs[d].app = conn[d].app /\ cs[d].agent = conn[d].agent
                          /\ cs[d].down = conn[d].down /\ (d # fd => cs[d] = conn[d])
  BY <1>0, <1>1, PopEffect, SMT
<1> HIDE DEF cs
<1>4. /\ conn'[fd].up = Tail(conn[fd].up) /\ conn'[fd].agent
      /\ \A d \in Conns : d # fd => conn'[d] = conn[d]
      /\ conn' = cs => conn'[fd].down = conn[fd].down
      /\ conn' = Answered(cs, Identity) => conn'[fd].down = Append(conn[fd].down, Identity)
  <2>0. ASSUME NEW ds, ds = Answered(cs, Identity)
        PROVE  /\ \A d \in Conns : /\ ds[d].agent = cs[d].agent /\ ds[d].up = cs[d].up
                                   /\ d # fd => ds[d] = cs[d]
               /\ ds[fd].down = Append(cs[fd].down, Identity)
    <3>1. Identity \in Answers /\ cs[fd].app /\ connected_socket \in Conns
      BY <1>1, <1>2, <1>3, MessageTypes
    <3>2. cs \in [Conns -> Connection]
      BY <1>3
    <3> QED BY <2>0, <3>1, <3>2, AnswerEffect, SMT
  <2>1. CASE conn' = cs
    <3>1. conn' = Answered(cs, Identity) => conn'[fd].down = Append(conn[fd].down, Identity)
      BY <1>1, <1>3, <2>0
    <3> QED BY <1>1, <1>2, <1>3, <2>1, <3>1
  <2>2. CASE conn' = Answered(cs, Identity)
    <3>1. /\ \A d \in Conns : /\ conn'[d].agent = cs[d].agent /\ conn'[d].up = cs[d].up
                              /\ d # fd => conn'[d] = cs[d]
          /\ conn'[fd].down = Append(cs[fd].down, Identity)
      BY <2>0, <2>2
    <3>2. conn' = cs => conn'[fd].down = conn[fd].down
      BY <1>1, <1>3
    <3> QED BY <1>1, <1>2, <1>3, <3>1, <3>2
  <2> QED BY <1>1, <2>1, <2>2
<1>5. /\ Len(conn'[fd].up) \in Nat /\ Len(conn[fd].up) = Len(conn'[fd].up) + 1
      /\ \A i \in 1 .. Len(conn'[fd].up) : conn'[fd].up[i] = conn[fd].up[i + 1]
  <2>1. conn[fd].up \in Seq(Commands)
    BY <1>0, <1>1 DEF Connection
  <2> QED BY <1>1, <1>4, <2>1, HeadAndTail, SMT
<1>6. /\ 1 \in 1 .. Len(conn[fd].up)
      /\ \A i \in 1 .. Len(conn'[fd].up) : i + 1 \in 1 .. Len(conn[fd].up) /\ i + 1 # 1
  BY <1>5, SMT
<1>7. \A d \in Conns \ {fd} : NoRequest(d)'
  BY <1>2, <1>4, SMT DEF OneAnswer, NoRequest
<1>8. Querying' = Querying /\ (\A x : Fresh(x)' = Fresh(x))
  BY <1>1 DEF Querying, Fresh
<1>9. query.on \notin {None, fd} =>
        \A i \in 1 .. Len(conn'[query.on].down) : Fresh(conn[query.on].down[i])'
  BY <1>0, <1>1, <1>4 DEF AnswerInv, Fresh
<1>10. CASE ~Answerable(m)
  <2>1. UNCHANGED pending /\ conn'[fd].down = conn[fd].down
    BY <1>1, <1>4, <1>10 DEF Answerable
  <2>2. ASSUME NEW i \in 1 .. Len(conn'[fd].up), Answerable(conn'[fd].up[i])
        PROVE  /\ \A j \in 1 .. Len(conn'[fd].up) : Answerable(conn'[fd].up[j]) => j = i
               /\ \A k \in Categories : pending[k] = 0
               /\ conn[fd].down = <<>>
               /\ IF conn'[fd].up[i].kind = "request"
                  THEN Querying /\ conn'[fd].up[i].category = query.category
                  ELSE writer.at = "identity"
    <3>1. i + 1 \in 1 .. Len(conn[fd].up) /\ Answerable(conn[fd].up[i + 1])
      BY <1>5, <1>6, <2>2
    <3>2. \A j \in 1 .. Len(conn'[fd].up) : Answerable(conn'[fd].up[j]) => j + 1 = i + 1
      BY <1>2, <1>5, <1>6, <3>1, SMT DEF OneAnswer
    <3>3. \A j \in 1 .. Len(conn'[fd].up) : j + 1 = i + 1 => j = i
      BY SMT
    <3>4. /\ \A k \in Categories : pending[k] = 0
          /\ conn[fd].down = <<>>
          /\ IF conn[fd].up[i + 1].kind = "request"
             THEN Querying /\ conn[fd].up[i + 1].category = query.category
             ELSE writer.at = "identity"
      BY <1>2, <3>1 DEF OneAnswer
    <3>5. conn'[fd].up[i] = conn[fd].up[i + 1]
      BY <1>5, <2>2
    <3> QED BY <3>2, <3>3, <3>4, <3>5
  <2>3. \A x : Answerable(x)' = Answerable(x)
    BY DEF Answerable
  <2>4. Fresh(conn[fd].down[1])' = Fresh(conn[fd].down[1])
    BY <1>1, <2>1 DEF Fresh
  <2>5. OneAnswer'
    <3>1. \A k \in Categories : pending'[k] > 0 =>
            /\ k = query'.category /\ pending'[k] = 1 /\ Querying'
            /\ conn'[fd'].agent /\ conn'[fd'].down = <<>>
      BY <1>1, <1>2, <1>4, <1>8, <2>1 DEF OneAnswer
    <3>2. \A i \in 1 .. Len(conn'[fd'].up) : Answerable(conn'[fd'].up[i]) =>
            /\ \A j \in 1 .. Len(conn'[fd'].up) : Answerable(conn'[fd'].up[j]) => j = i
            /\ \A k \in Categories : pending'[k] = 0
            /\ conn'[fd'].down = <<>>
            /\ IF conn'[fd'].up[i].kind = "request"
               THEN Querying' /\ conn'[fd'].up[i].category = query'.category
               ELSE writer'.at = "identity"
      BY <1>1, <1>8, <2>1, <2>2
    <3>3. conn'[fd'].down # <<>> =>
            /\ Len(conn'[fd'].down) = 1
            /\ \/ writer'.at = "identity" /\ conn'[fd'].down[1].kind = "identity"
               \/ Querying' /\ Fresh(conn[fd].down[1])'
               \/ query'.at = "idle" /\ ~conn'[fd'].agent
      BY <1>1, <1>2, <1>8, <2>1, <2>4 DEF OneAnswer
    <3> QED BY <1>1, <1>7, <3>1, <3>2, <3>3 DEF OneAnswer, Answerable
  <2> QED BY <1>1, <1>9, <2>5 DEF AnswerInv
<1>11. CASE Answerable(m)
  <2>1. /\ \A j \in 1 .. Len(conn[fd].up) : Answerable(conn[fd].up[j]) => j = 1
        /\ \A k \in Categories : pending[k] = 0
        /\ conn[fd].down = <<>>
        /\ IF m.kind = "request" THEN Querying /\ m.category = query.category ELSE writer.at = "identity"
    BY <1>2, <1>6, <1>11 DEF OneAnswer
  <2>2. NothingAsked(fd)'
    <3>1. \A i \in 1 .. Len(conn'[fd].up) : ~Answerable(conn'[fd].up[i])
      BY <1>5, <1>6, <2>1
    <3> QED BY <1>1, <3>1 DEF NothingAsked, Answerable
  <2>3. CASE m.kind = "request"
    <3>1. conn'[fd].down = <<>> /\ Querying'
      BY <1>1, <1>4, <1>8, <2>1, <2>3 DEF Answerable
    <3>2. \A k \in Categories : pending'[k] > 0 => k = query.category /\ pending'[k] = 1
      <4>1. CASE UNCHANGED pending
        BY <2>1, <4>1, SMT
      <4>2. CASE pending' = [pending EXCEPT ![m.category] = @ + 1]
        BY <1>0, <2>1, <2>3, <4>2, SMT
      <4> QED BY <1>1, <2>3, <4>1, <4>2 DEF Answerable
    <3>3. OneAnswer'
      BY <1>1, <1>4, <1>7, <2>2, <3>1, <3>2 DEF OneAnswer, NothingAsked
    <3> QED BY <1>1, <1>9, <3>3 DEF AnswerInv
  <2>4. CASE m.kind = "get_identity"
    <3>1. conn'[fd].down = Append(<<>>, Identity) /\ writer'.at = "identity" /\ UNCHANGED pending
      BY <1>1, <1>4, <2>1, <2>4 DEF Answerable
    <3>2. Len(conn'[fd].down) = 1 /\ conn'[fd].down[1].kind = "identity"
      BY <3>1, SMTT(30) DEF Identity
    <3>3. \A k \in Categories : ~(pending'[k] > 0)
      BY <2>1, <3>1, SMT
    <3>4. OneAnswer'
      BY <1>1, <1>7, <2>2, <3>1, <3>2, <3>3 DEF OneAnswer, NothingAsked
    <3> QED BY <1>1, <1>9, <3>4 DEF AnswerInv
  <2> QED BY <1>11, <2>3, <2>4 DEF Answerable
<1> QED BY <1>10, <1>11

\* The gateway answers: the answer is of the category asked for, and goes to fd
\* or to nobody.
LEMMA AnswerCallback ==
  ASSUME LinkInv, AnswerInv, NEW k \in Categories, feature_reputation_callback(k), ~AgentEnds
  PROVE  AnswerInv'
<1>0. /\ LinkTypes /\ conn \in [Conns -> Connection] /\ fd \in Conns \cup {None}
      /\ query.on \in Conns \cup {None} /\ pending \in [Categories -> Nat]
  BY DEF LinkInv, LinkTypes, QueryStates
<1>1. /\ pending[k] > 0 /\ pending' = [pending EXCEPT ![k] = pending[k] - 1]
      /\ \/ conn' = conn
         \/ /\ connected_socket \in Conns
            /\ \E m \in {Reputation(k), Error} : m \in Answers /\ conn' = Answered(conn, m)
      /\ UNCHANGED <<fd, query, writer, strayed>>
  BY CallbackCases DEF appVars, history
<1> SUFFICES ASSUME ~strayed PROVE AnswerInv'
  BY <1>1 DEF AnswerInv
<1>2. /\ \A d \in Conns : conn'[d].up = conn[d].up /\ conn'[d].agent = conn[d].agent
      /\ \A d \in Conns : ~conn[d].app \/ d # connected_socket => conn'[d] = conn[d]
      /\ \A d \in Conns : \/ conn'[d].down = conn[d].down
                          \/ conn'[d].down = Append(conn[d].down, Reputation(k))
                          \/ conn'[d].down = Append(conn[d].down, Error)
  <2>1. CASE conn' = conn
    BY <2>1
  <2>2. CASE conn' # conn
    <3>1. PICK m \in {Reputation(k), Error} :
            connected_socket \in Conns /\ m \in Answers /\ conn' = Answered(conn, m)
      BY <1>1, <2>2
    <3>2. /\ \A d \in Conns : /\ conn'[d].up = conn[d].up /\ conn'[d].agent = conn[d].agent
                              /\ d # connected_socket => conn'[d] = conn[d]
          /\ ~conn[connected_socket].app => conn' = conn
          /\ conn[connected_socket].app =>
               conn'[connected_socket].down = Append(conn[connected_socket].down, m)
      BY <1>0, <3>1, AnswerEffect, SMT
    <3> QED BY <3>1, <3>2
  <2> QED BY <2>1, <2>2
<1>3. connected_socket # None => conn[connected_socket].agent
  BY DEF LinkInv, AgentInv
<1>4. query.on \notin {None, fd} =>
        \A i \in 1 .. Len(conn'[query.on].down) : Fresh(conn[query.on].down[i])'
  <2> SUFFICES ASSUME query.on \notin {None, fd}
               PROVE  \A i \in 1 .. Len(conn'[query.on].down) : Fresh(conn[query.on].down[i])'
    OBVIOUS
  <2>1. query.on # connected_socket
    BY <1>3 DEF LinkInv, AgentInv
  <2>2. conn'[query.on] = conn[query.on]
    BY <1>0, <1>2, <2>1
  <2> QED BY <1>1, <2>2 DEF AnswerInv, Fresh
<1>5. ASSUME fd # None PROVE OneAnswer'
  <2>1. OneAnswer /\ fd \in Conns
    BY <1>0, <1>5 DEF AnswerInv
  <2>2. k = query.category /\ pending[k] = 1 /\ Querying /\ conn[fd].down = <<>>
    BY <1>1, <2>1 DEF OneAnswer
  <2>3. \A j \in Categories : ~(pending'[j] > 0)
    <3>1. \A j \in Categories : pending[j] > 0 => j = k
      BY <2>1, <2>2 DEF OneAnswer
    <3> QED BY <1>0, <1>1, <2>2, <3>1, SMT
  <2>4. NothingAsked(fd)
    <3>1. ~(pending[k] = 0)
      BY <2>2, SMT
    <3> QED BY <2>1, <3>1 DEF OneAnswer, NothingAsked
  <2>5. NothingAsked(fd)' /\ \A d \in Conns \ {fd} : NoRequest(d)'
    <3>1. \A d \in Conns \ {fd} : NoRequest(d)
      BY <2>1 DEF OneAnswer
    <3>2. fd' = fd /\ \A d \in Conns : conn'[d].up = conn[d].up
      BY <1>1, <1>2
    <3> QED BY <2>1, <2>4, <3>1, <3>2 DEF NoRequest, NothingAsked
  <2>6. Querying'
    BY <1>1, <2>2 DEF Querying
  <2>7. conn'[fd].down # <<>> => Len(conn'[fd].down) = 1 /\ Fresh(conn[fd].down[1])'
    <3> SUFFICES ASSUME conn'[fd].down # <<>>
                 PROVE  Len(conn'[fd].down) = 1 /\ Fresh(conn[fd].down[1])'
      OBVIOUS
    <3>1. PICK m \in {Reputation(k), Error} : conn'[fd].down = Append(<<>>, m)
      BY <1>2, <2>1, <2>2
    <3>2. Len(conn'[fd].down) = 1 /\ conn'[fd].down[1] = m
      BY <3>1, SMT
    <3>3. m.kind = "reputation" => m.category = k
      BY SMT DEF Reputation, Error
    <3> QED BY <1>1, <2>2, <3>2, <3>3 DEF Fresh
  <2> QED BY <1>1, <2>3, <2>5, <2>6, <2>7 DEF OneAnswer, NothingAsked
<1> QED BY <1>1, <1>4, <1>5 DEF AnswerInv

\* The agent's callbacks.
LEMMA AnswerAgent ==
  ASSUME LinkInv, AnswerInv, Agent
  PROVE  AnswerInv'
<1>1. CASE read_fails
  <2>1. UNCHANGED <<conn, fd, query, writer, pending, strayed>>
    BY <1>1 DEF read_fails, appVars, history
  <2> QED BY <2>1, AnswerKept DEF NoRequest
<1>2. CASE atlas_data_plane_read_cb
  BY <1>2, AnswerReads, AnswerReadsOther, AnswerAgentEnds
<1>3. ASSUME NEW k \in Categories, feature_reputation_callback(k) PROVE AnswerInv'
  BY <1>3, AnswerCallback, AnswerAgentEnds
<1> QED BY <1>1, <1>2, <1>3, AnswerAccepts DEF Agent

\* Every step keeps the answers those of the request in progress.
LEMMA AnswerStep == LinkInv /\ AnswerInv /\ [Next]_vars => AnswerInv'
<1> SUFFICES ASSUME LinkInv, AnswerInv, [Next]_vars PROVE AnswerInv'
  OBVIOUS
<1>1. CASE atlas_pkt_received \/ atlas_data_plane_connector_start \/ UNCHANGED vars
  <2>1. UNCHANGED <<conn, fd, query, writer, pending, strayed>>
    BY <1>1 DEF atlas_pkt_received, atlas_data_plane_connector_start, vars, appVars, agentVars, history
  <2> QED BY <2>1, AnswerKept DEF NoRequest
<1>2. CASE AppStart
  <2>1. UNCHANGED <<conn, fd, query, pending, strayed>> /\ ~app_up
    BY <1>2 DEF AppStart, agentVars, history
  <2>2. writer.at # "identity"
    BY <2>1 DEF LinkInv, AppInv
  <2> QED BY <2>1, <2>2, AnswerKept DEF NoRequest
<1>3. CASE StopApp
  <2>1. fd' = None /\ query'.on = None
    BY <1>3 DEF StopApp, AppEnds, QueryIdle
  <2> QED BY <2>1, AnswerNone
<1>4. CASE StopAgent
  BY <1>4, AnswerAgentEnds DEF StopAgent
<1> QED BY <1>1, <1>2, <1>3, <1>4, AnswerWriter, AnswerQuery, AnswerAgent DEF Next

\* At first there is no connection.
LEMMA AnswerInit == Init => AnswerInv
<1> SUFFICES ASSUME Init PROVE AnswerInv
  OBVIOUS
<1>1. fd = None /\ query.on = None
  BY DEF Init, QueryIdle
<1> QED BY <1>1 DEF AnswerInv

\* What a read would return is of the category asked for.
LEMMA AnswerImplies == LinkInv /\ AnswerInv => AnswersFresh
<1> SUFFICES ASSUME LinkInv, AnswerInv, ~strayed, Returned.kind = "reputation"
             PROVE  Returned.category = query.category
  BY DEF AnswersFresh
<1>1. query.at = "reading" /\ conn[query.on].down # <<>> /\ Returned = Head(conn[query.on].down)
  BY DEF Returned, Error
<1>2. /\ query.on \in Conns /\ writer.at # "identity" /\ conn \in [Conns -> Connection]
  BY <1>1 DEF LinkInv, LinkTypes, AppInv, QueryStates
<1>3. conn[query.on].down \in Seq(Answers)
  BY <1>2 DEF Connection
<1>4. Returned = conn[query.on].down[1] /\ 1 \in 1 .. Len(conn[query.on].down)
  BY <1>1, <1>3, SMT
<1>5. Fresh(conn[query.on].down[1])
  <2>1. CASE query.on = fd
    <3>1. OneAnswer
      BY <1>2, <2>1, DataPlaneLinkAssumption DEF AnswerInv
    <3> QED BY <1>1, <1>2, <2>1, <3>1 DEF OneAnswer
  <2>2. CASE query.on # fd
    BY <1>2, <1>4, <2>2, DataPlaneLinkAssumption DEF AnswerInv
  <2> QED BY <2>1, <2>2
<1> QED BY <1>4, <1>5 DEF Fresh

\* While no read has given up on an answer that was still to come, the identity
\* that atlas_reputation_request returns answers a request for its category
\* (feature_reputation_callback writes to whoever is connected by then), for any
\* number of connections, categories, failed writes and restarts.
THEOREM AnswersFreshHolds == Spec => []AnswersFresh
<1>1. Init => LinkInv /\ AnswerInv
  BY LinkInit, AnswerInit
<1>2. LinkInv /\ AnswerInv /\ [Next]_vars => (LinkInv /\ AnswerInv)'
  BY LinkStep, AnswerStep
<1> QED BY <1>1, <1>2, AnswerImplies, PTL DEF Spec
=============================================================================
