------------------------ MODULE CloudServicesProofs ------------------------
(***************************************************************************)
(* Proofs about CloudServices, for any set of web threads and any bounds:  *)
(* the saves of the two services undo no other, what waits for the owner   *)
(* is listed, a command waits in one place, and no failed notification is  *)
(* forgotten.                                                              *)
(*                                                                         *)
(* All of them rest on the monitors: MonitorsHeld says which monitor a     *)
(* request holds at which point of its call, so that two requests at       *)
(* points that need the same monitor are the same request.                 *)
(***************************************************************************)
EXTENDS CloudServices, TLAPS

\* Zenon proves what no pragma is cited for; arithmetic and sequences are for SMT.
USE Zenon

\* Where a request is inside a synchronized method of a service.
InGateway == {"enqueue", "saveOwner", "save"}
InOwner == {"saveOwner", "decide", "remove"}

\* What a request in the middle of its call holds and knows.
Held(w) ==
  /\ web[w].pc \in InGateway =>
       monitor["gateway"] = w /\ web[w].base.seqNo <= MaxCommands
  /\ web[w].pc \in InOwner => monitor["owner"] = w
  /\ web[w].pc \in {"enqueue", "saveOwner"} => web[w].base.claimed
  /\ web[w].pc \in {"decide", "remove"} =>
       web[w].ownerBase.commands # <<>> /\ web[w].ownerBase.commands[1] = web[w].seq

MonitorsHeld == \A w \in Web : Held(w)

\* The inductive invariant behind CopiesCurrent.
CopiesInv == TypeOK /\ MonitorsHeld /\ CopiesCurrent

\* A command of a claimed gateway that is about to be saved as waiting for
\* the owner: its state is not saved yet, its place in the list is.
AboutToWait(w) == web[w].pc = "save" /\ web[w].base.claimed

Listed(seq) == \E i \in DOMAIN ownerDb.commands : ownerDb.commands[i] = seq

\* The inductive invariant behind WaitingIsListed: the list is ahead of the
\* state when a command is issued, and behind it when one is decided; the
\* two never happen together.
ListInv ==
  /\ WaitingIsListed
  /\ \A w \in Web : AboutToWait(w) => Listed(web[w].base.seqNo)
  /\ \A v \in Web : At(v, "remove") =>
       /\ gatewayDb.state[web[v].seq] # "OWNER"
       /\ \A w \in Web : ~AboutToWait(w)

\* The inductive invariant behind OnePlace: where a command may be in two
\* places, or have a number not given yet, and by whose call.
PlaceInv ==
  ~disturbed =>
    /\ Exists(gatewayDb)
    /\ \A i \in DOMAIN gatewayDb.pending : gatewayDb.pending[i] < gatewayDb.seqNo
    /\ \A i, j \in DOMAIN gatewayDb.pending :
         gatewayDb.pending[i] = gatewayDb.pending[j] => i = j
    /\ Increasing(ownerDb.commands)
    /\ \A i \in DOMAIN ownerDb.commands :
         \/ ownerDb.commands[i] < gatewayDb.seqNo
         \/ ownerDb.commands[i] = gatewayDb.seqNo /\ \E w \in Web : AboutToWait(w)
    /\ \A i \in DOMAIN gatewayDb.pending, j \in DOMAIN ownerDb.commands :
         gatewayDb.pending[i] = ownerDb.commands[j] =>
           j = 1 /\ \E v \in Web : At(v, "remove")

\* The inductive invariant behind FailedIsRetried: while the retry task
\* goes through the tokens nothing is added to them.
RetryInv ==
  /\ FailedIsRetried
  /\ cron.pc = "trying" => monitor["retry"] = Cron /\ untried \subseteq cron.left

-----------------------------------------------------------------------------
(* The documents.                                                          *)

\* A document that sendCommandToClient has changed is a document.
LEMMA IssuedType ==
  ASSUME NEW doc \in Document, doc.seqNo <= MaxCommands
  PROVE  /\ Issued(doc) \in Document
         /\ Issued(doc).id = doc.id
         /\ Issued(doc).seqNo = doc.seqNo + 1
         /\ Issued(doc).pending = IF doc.claimed THEN doc.pending
                                                  ELSE Append(doc.pending, doc.seqNo)
         /\ Issued(doc).state = [doc.state EXCEPT ![doc.seqNo] =
                                    IF doc.claimed THEN "OWNER" ELSE "GATEWAY"]
<1>1. doc.seqNo \in Seqs /\ doc.seqNo + 1 \in 1 .. MaxCommands + 1
  BY CloudServicesAssumption, SMT DEF Document, Seqs
<1>2. Append(doc.pending, doc.seqNo) \in Seq(Seqs)
  BY <1>1, SMT DEF Document
<1>3. [doc.state EXCEPT ![doc.seqNo] = IF doc.claimed THEN "OWNER" ELSE "GATEWAY"]
        \in [Seqs -> States]
  BY <1>1 DEF Document, States
<1> QED BY <1>1, <1>2, <1>3 DEF Issued, Document

\* What addGateway creates is a document, so is a new owner, and a thread without
\* a call is a request.
LEMMA NewTypes ==
  /\ \A id \in 0 .. MaxGateways : NewGateway(id) \in Document
  /\ NoGateway \in Document
  /\ NewOwner \in OwnerDocument
  /\ IdleRequest \in WebRequest
<1>1. 1 \in Seqs /\ 1 \in 1 .. MaxCommands + 1 /\ 0 \in 0 .. MaxGateways
  BY CloudServicesAssumption, SMT DEF Seqs
<1>2. [n \in Seqs |-> "none"] \in [Seqs -> States]
  BY DEF States
<1>3. <<>> \in Seq(Seqs)
  BY SMT
<1>4. \A id \in 0 .. MaxGateways : NewGateway(id) \in Document
  BY <1>1, <1>2, <1>3 DEF NewGateway, Document
<1>5. NewOwner \in OwnerDocument
  BY <1>3 DEF NewOwner, OwnerDocument
<1>6. IdleRequest \in WebRequest
  BY <1>1, <1>4, <1>5 DEF IdleRequest, WebRequest, NoGateway
<1> QED BY <1>1, <1>4, <1>5, <1>6 DEF NoGateway

-----------------------------------------------------------------------------
(* Types.                                                                  *)

\* The state the services are started in has its type.
LEMMA TypeInit == Init => TypeOK
<1> SUFFICES ASSUME Init PROVE TypeOK
  OBVIOUS
<1>1. gatewayDb \in Document /\ created \in 1 .. MaxGateways
  BY NewTypes, CloudServicesAssumption, SMT DEF Init
<1>2. deletions \in 0 .. MaxDeletions /\ stops \in 0 .. MaxStops
  BY CloudServicesAssumption, SMT DEF Init
<1>3. ownerDb \in OwnerDocument /\ web \in [Web -> WebRequest]
  BY NewTypes DEF Init
<1>4. monitor \in [Services -> Web \cup {Nobody, Cron}]
  BY DEF Init
<1>5. task \in [Tasks -> {"free", "sending", "failed"}]
  BY DEF Init
<1>6. cron \in [pc : {"idle", "trying"}, left : SUBSET {Token}]
  BY DEF Init
<1> QED BY <1>1, <1>2, <1>3, <1>4, <1>5, <1>6 DEF Init, TypeOK

\* The steps a web request's call is at once it has read a document.
Reached == {"enqueue", "saveOwner", "save", "decide", "deleteClient", "deleteGateway"}

\* A web request that goes on with the gateway's document is one.
LEMMA RequestGateway ==
  ASSUME NEW r \in WebRequest, NEW pc \in Reached, NEW base \in Document
  PROVE  [r EXCEPT !.pc = pc, !.base = base] \in WebRequest
BY DEF WebRequest, Reached

\* So is one that goes on with the owner's document,
LEMMA RequestOwner ==
  ASSUME NEW r \in WebRequest, NEW pc \in Reached, NEW base \in OwnerDocument
  PROVE  [r EXCEPT !.pc = pc, !.ownerBase = base] \in WebRequest
BY DEF WebRequest, Reached

\* also when it decides on a command.
LEMMA RequestDecision ==
  ASSUME NEW r \in WebRequest, NEW pc \in Reached, NEW base \in OwnerDocument,
         NEW seq \in Seqs, NEW approved \in BOOLEAN
  PROVE  [r EXCEPT !.pc = pc, !.ownerBase = base, !.seq = seq, !.approved = approved]
           \in WebRequest
BY DEF WebRequest, Reached

\* The types that a web request's call keeps.
LEMMA TypeWebCall ==
  ASSUME TypeOK, MonitorsHeld, NEW w \in Web, WebCall(w)
  PROVE  TypeOK'
<1> USE DEF TypeOK, firebaseVars, boundVars, Idle, Free
<1>1. CASE sendCommandToClient(w)
  <2>1. [web[w] EXCEPT !.pc = IF gatewayDb.claimed THEN "enqueue" ELSE "save",
                       !.base = gatewayDb] \in WebRequest
    <3>1. (IF gatewayDb.claimed THEN "enqueue" ELSE "save") \in Reached
      BY DEF Reached
    <3> QED BY <3>1, RequestGateway
  <2> QED BY <1>1, <2>1 DEF sendCommandToClient, Services
<1>2. ASSUME NEW seq \in Seqs, NEW approved \in BOOLEAN,
             setOwnerCommandStatus(w, seq, approved)
      PROVE  TypeOK'
  <2>1. [web[w] EXCEPT !.pc = "decide", !.ownerBase = ownerDb,
                       !.seq = seq, !.approved = approved] \in WebRequest
    <3>1. "decide" \in Reached
      BY DEF Reached
    <3> QED BY <3>1, RequestDecision
  <2> QED BY <1>2, <2>1 DEF setOwnerCommandStatus, Services
<1>3. CASE updateFirebaseToken(w)
  BY <1>3 DEF updateFirebaseToken, OwnerDocument
<1>4. ASSUME NEW what \in {"deleteClient", "deleteGateway"}, readForDeletion(w, what)
      PROVE  TypeOK'
  <2>1. [web[w] EXCEPT !.pc = what, !.base = gatewayDb] \in WebRequest
    <3>1. what \in Reached
      BY DEF Reached
    <3> QED BY <3>1, RequestGateway
  <2>2. deletions' \in 0 .. MaxDeletions
    BY <1>4, CloudServicesAssumption, SMT DEF readForDeletion
  <2> QED BY <1>4, <2>1, <2>2 DEF readForDeletion
<1>5. CASE addGateway(w)
  BY <1>5, NewTypes, CloudServicesAssumption, SMT DEF addGateway
<1> QED BY <1>1, <1>2, <1>3, <1>4, <1>5 DEF WebCall

\* The types that a step inside a web request's call keeps.
LEMMA TypeWebStep ==
  ASSUME TypeOK, MonitorsHeld, NEW w \in Web, WebStep(w)
  PROVE  TypeOK'
<1> USE DEF TypeOK, firebaseVars, boundVars, At, Free
<1>1. CASE enqueueOwnerCommand(w)
  <2>1. [web[w] EXCEPT !.pc = "saveOwner", !.ownerBase = ownerDb] \in WebRequest
    <3>1. "saveOwner" \in Reached
      BY DEF Reached
    <3> QED BY <3>1, RequestOwner
  <2> QED BY <1>1, <2>1 DEF enqueueOwnerCommand, Services
<1>2. CASE saveOwner(w)
  <2>1. web[w].base.seqNo \in Seqs
    BY <1>2, CloudServicesAssumption, SMTT(20)
    DEF saveOwner, MonitorsHeld, Held, InGateway, Seqs, WebRequest, Document
  <2>2. ownerDb' \in OwnerDocument
    <3>1. web[w].ownerBase \in OwnerDocument /\ web[w].ownerBase.commands \in Seq(Seqs)
      BY DEF WebRequest, OwnerDocument
    <3>2. Append(web[w].ownerBase.commands, web[w].base.seqNo) \in Seq(Seqs)
      BY <2>1, <3>1, SMT
    <3> QED BY <1>2, <3>1, <3>2 DEF saveOwner, OwnerDocument
  <2>3. CASE Accepted(w)
    BY <1>2, <2>2, <2>3, SMTT(20) DEF saveOwner, Accepted, WebRequest, Services, FreeTasks
  <2>4. CASE Refused(w)
    BY <1>2, <2>2, <2>4, NewTypes DEF saveOwner, Refused, Return, Services
  <2> QED BY <1>2, <2>3, <2>4 DEF saveOwner
<1>3. CASE saveGateway(w)
  <2>1. gatewayDb' \in Document
    <3>1. web[w].base \in Document
      BY DEF WebRequest
    <3>2. web[w].base.seqNo <= MaxCommands
      BY <1>3 DEF saveGateway, MonitorsHeld, Held, InGateway
    <3>3. gatewayDb' = Issued(web[w].base)
      BY <1>3 DEF saveGateway
    <3> QED BY <3>1, <3>2, <3>3, IssuedType
  <2> QED BY <1>3, <2>1, NewTypes DEF saveGateway, Return, Services
<1>4. CASE decide(w)
  <2>1. CASE sendApprovedCommandToClient(w)
    <3>1. web[w].seq \in Seqs /\ [web[w] EXCEPT !.pc = "remove"] \in WebRequest
      BY SMT DEF WebRequest
    <3>2. Append(gatewayDb.pending, web[w].seq) \in Seq(Seqs)
      BY <3>1, SMT DEF Document
    <3>3. [gatewayDb.state EXCEPT ![web[w].seq] = IF @ = "none" THEN @ ELSE "GATEWAY"]
            \in [Seqs -> States]
      BY <3>1 DEF Document, States
    <3>4. gatewayDb' \in Document
      BY <2>1, <3>2, <3>3 DEF sendApprovedCommandToClient, Document
    <3> QED BY <1>4, <2>1, <3>1, <3>4 DEF decide, sendApprovedCommandToClient
  <2>2. CASE markCommandAsRejected(w)
    <3>1. web[w].seq \in Seqs /\ [web[w] EXCEPT !.pc = "remove"] \in WebRequest
      BY DEF WebRequest
    <3>2. [gatewayDb.state EXCEPT ![web[w].seq] = "REJECTED"] \in [Seqs -> States]
      BY <3>1 DEF Document, States
    <3>3. gatewayDb' \in Document
      BY <2>2, <3>2 DEF markCommandAsRejected, Document
    <3> QED BY <1>4, <2>2, <3>1, <3>3 DEF decide, markCommandAsRejected
  <2>3. CASE decisionRefused(w)
    BY <1>4, <2>3, NewTypes DEF decide, decisionRefused, Return, Services
  <2> QED BY <1>4, <2>1, <2>2, <2>3 DEF decide
<1>5. CASE removeOwnerCommand(w)
  <2>1. ownerDb' \in OwnerDocument
    <3>1. /\ web[w].ownerBase \in OwnerDocument /\ web[w].ownerBase.commands \in Seq(Seqs)
          /\ web[w].ownerBase.commands # <<>>
      BY <1>5 DEF removeOwnerCommand, MonitorsHeld, Held, WebRequest, OwnerDocument
    <3>2. Tail(web[w].ownerBase.commands) \in Seq(Seqs)
      BY <3>1, SMT
    <3> QED BY <1>5, <3>1, <3>2 DEF removeOwnerCommand, OwnerDocument
  <2> QED BY <1>5, <2>1, NewTypes DEF removeOwnerCommand, Return, Services
<1>6. CASE deleteClient(w)
  <2>1. gatewayDb' \in Document
    <3>1. web[w].base \in Document
      BY DEF WebRequest
    <3>2. [n \in Seqs |-> "none"] \in [Seqs -> States]
      BY DEF States
    <3>3. [web[w].base EXCEPT !.client = FALSE, !.state = [n \in Seqs |-> "none"]] \in Document
      BY <3>1, <3>2 DEF Document
    <3> QED BY <1>6, <3>3 DEF deleteClient
  <2> QED BY <1>6, <2>1, NewTypes DEF deleteClient, Return
<1>7. CASE deleteGateway(w)
  BY <1>7, NewTypes DEF deleteGateway, Return
<1> QED BY <1>1, <1>2, <1>3, <1>4, <1>5, <1>6, <1>7 DEF WebStep

\* The types that every step keeps.
LEMMA TypeStep ==
  ASSUME TypeOK, MonitorsHeld, [Next]_vars
  PROVE  TypeOK'
<1> USE DEF TypeOK, firebaseVars, boundVars, restVars, Free
<1>1. CASE messageReceived
  <2>1. gatewayDb' \in Document
    <3>1. ASSUME NEW seq \in Seqs, handleClientCommandAck(seq) PROVE gatewayDb' \in Document
      <4>1. Tail(gatewayDb.pending) \in Seq(Seqs)
        BY <3>1, SMT DEF handleClientCommandAck, Document
      <4>2. [gatewayDb.state EXCEPT ![seq] = IF @ = "none" THEN @ ELSE "CLIENT"]
              \in [Seqs -> States]
        BY DEF Document, States
      <4> QED BY <3>1, <4>1, <4>2 DEF handleClientCommandAck, Document
    <3>2. CASE updateClientCommand
      BY <3>2 DEF updateClientCommand, Document
    <3>3. CASE updateGatewayCommand
      BY <3>3 DEF updateGatewayCommand, Document
    <3> QED BY <1>1, <3>1, <3>2, <3>3 DEF messageReceived
  <2> QED BY <1>1, <2>1 DEF messageReceived
<1>2. ASSUME NEW t \in Tasks, TaskStep(t) PROVE TypeOK'
  BY <1>2 DEF TaskStep, sendPushNotification, addToRetrySet
<1>3. CASE RetryStep
  BY <1>3, SMT DEF RetryStep, sendRetryNotifications, retryOne, clearRetrySet, Services
<1>4. CASE Restart
  BY <1>4, NewTypes, CloudServicesAssumption, SMT DEF Restart, Idle
<1>5. CASE UNCHANGED vars
  BY <1>5 DEF vars
<1> QED BY <1>1, <1>2, <1>3, <1>4, <1>5, TypeWebCall, TypeWebStep DEF Next

-----------------------------------------------------------------------------
(* The monitors and the copies.                                            *)

\* The names for a free monitor and for the retry task name no web thread.
LEMMA NobodyIsNoThread == Nobody \notin Web /\ Cron \notin Web /\ Nobody # Cron
BY CloudServicesAssumption DEF Nobody, Cron

\* No call is running when the services start.
LEMMA CopiesInit == Init => CopiesInv
<1> SUFFICES ASSUME Init PROVE MonitorsHeld /\ CopiesCurrent
  BY TypeInit DEF CopiesInv
<1>1. \A w \in Web : web[w].pc = "idle"
  BY DEF Init, IdleRequest
<1> QED BY <1>1 DEF MonitorsHeld, Held, CopiesCurrent, InGateway, InOwner

\* A call that begins takes a free monitor and copies the saved document.
LEMMA CopiesWebCall ==
  ASSUME CopiesInv, NEW w \in Web, WebCall(w)
  PROVE  MonitorsHeld' /\ CopiesCurrent'
<1> USE NobodyIsNoThread
    DEF CopiesInv, MonitorsHeld, Held, InGateway, InOwner, CopiesCurrent, Idle, Free
<1>0. web \in [Web -> WebRequest] /\ monitor \in [Services -> Web \cup {Nobody, Cron}]
  BY DEF TypeOK
<1>1. CASE sendCommandToClient(w)
  <2>1. /\ \A v \in Web \ {w} : web'[v] = web[v]
        /\ web'[w].pc \in {"enqueue", "save"} /\ web'[w].base = gatewayDb
        /\ web'[w].pc = "enqueue" => gatewayDb.claimed
        /\ monitor'["gateway"] = w /\ monitor'["owner"] = monitor["owner"]
        /\ gatewayDb' = gatewayDb /\ ownerDb' = ownerDb /\ gatewayDb.seqNo <= MaxCommands
    BY <1>0, <1>1, SMT DEF sendCommandToClient, CanIssue, WebRequest, Services
  <2>2. \A v \in Web : web[v].pc \notin {"enqueue", "saveOwner", "save"}
    BY <1>1 DEF sendCommandToClient
  <2> QED BY <2>1, <2>2, SMT
<1>2. ASSUME NEW seq \in Seqs, NEW approved \in BOOLEAN,
             setOwnerCommandStatus(w, seq, approved)
      PROVE  MonitorsHeld' /\ CopiesCurrent'
  <2>1. /\ \A v \in Web \ {w} : web'[v] = web[v]
        /\ web'[w].pc = "decide" /\ web'[w].ownerBase = ownerDb /\ web'[w].seq = seq
        /\ monitor'["owner"] = w /\ monitor'["gateway"] = monitor["gateway"]
        /\ gatewayDb' = gatewayDb /\ ownerDb' = ownerDb
        /\ ownerDb.commands # <<>> /\ ownerDb.commands[1] = seq
    BY <1>0, <1>2, SMT DEF setOwnerCommandStatus, WebRequest, Services
  <2>2. \A v \in Web : web[v].pc \notin {"saveOwner", "decide", "remove"}
    BY <1>2 DEF setOwnerCommandStatus
  <2> QED BY <2>1, <2>2, SMT
<1>3. CASE updateFirebaseToken(w)
  <2>1. \A v \in Web : web[v].pc \notin {"saveOwner", "decide", "remove"}
    BY <1>3 DEF updateFirebaseToken
  <2> QED BY <1>3, <2>1 DEF updateFirebaseToken
<1>4. ASSUME NEW what \in {"deleteClient", "deleteGateway"}, readForDeletion(w, what)
      PROVE  MonitorsHeld' /\ CopiesCurrent'
  <2>1. /\ \A v \in Web \ {w} : web'[v] = web[v]
        /\ web'[w].pc = what
    BY <1>0, <1>4, SMT DEF readForDeletion, WebRequest
  <2> QED BY <1>4, <2>1, SMT DEF readForDeletion
<1>5. CASE addGateway(w)
  <2>1. \A v \in Web : web[v].pc \notin {"enqueue", "saveOwner", "save"}
    BY <1>5 DEF addGateway
  <2> QED BY <1>5, <2>1 DEF addGateway
<1> QED BY <1>1, <1>2, <1>3, <1>4, <1>5, SMT DEF WebCall

\* A step inside a call changes the documents only under the monitors that
\* the other calls would need.
LEMMA CopiesWebStep ==
  ASSUME CopiesInv, NEW w \in Web, WebStep(w)
  PROVE  MonitorsHeld' /\ CopiesCurrent'
<1> USE NobodyIsNoThread
    DEF CopiesInv, MonitorsHeld, Held, InGateway, InOwner, CopiesCurrent, At, Free
<1>0. web \in [Web -> WebRequest] /\ monitor \in [Services -> Web \cup {Nobody, Cron}]
  BY DEF TypeOK
<1>a. ASSUME Return(w)
      PROVE  web'[w].pc = "idle" /\ \A v \in Web \ {w} : web'[v] = web[v]
  BY <1>0, <1>a DEF Return, IdleRequest
<1>1. CASE enqueueOwnerCommand(w)
  <2>1. /\ \A v \in Web \ {w} : web'[v] = web[v]
        /\ web'[w].pc = "saveOwner" /\ web'[w].base = web[w].base /\ web'[w].ownerBase = ownerDb
        /\ monitor'["owner"] = w /\ monitor'["gateway"] = monitor["gateway"]
        /\ gatewayDb' = gatewayDb /\ ownerDb' = ownerDb
    BY <1>0, <1>1, SMT DEF enqueueOwnerCommand, WebRequest, Services
  <2>2. \A v \in Web : web[v].pc \notin {"saveOwner", "decide", "remove"}
    BY <1>1 DEF enqueueOwnerCommand
  <2> QED BY <1>1, <2>1, <2>2, SMT DEF enqueueOwnerCommand
<1>2. CASE saveOwner(w)
  <2>1. \A v \in Web \ {w} : web[v].pc \notin {"enqueue", "saveOwner", "save", "decide", "remove"}
    BY <1>2, SMT DEF saveOwner
  <2>2. CASE Accepted(w)
    <3>1. /\ \A v \in Web \ {w} : web'[v] = web[v]
          /\ web'[w].pc = "save" /\ web'[w].base = web[w].base
          /\ monitor'["gateway"] = monitor["gateway"] /\ gatewayDb' = gatewayDb
      BY <1>0, <1>2, <2>2, SMT DEF saveOwner, Accepted, WebRequest, Services
    <3> QED BY <1>2, <2>1, <3>1, SMT DEF saveOwner
  <2>3. CASE Refused(w)
    BY <1>a, <2>1, <2>3, SMT DEF Refused
  <2> QED BY <1>2, <2>2, <2>3 DEF saveOwner
<1>3. CASE saveGateway(w)
  <2>1. \A v \in Web \ {w} : web[v].pc \notin {"enqueue", "saveOwner", "save"}
    BY <1>3, SMT DEF saveGateway
  <2>2. monitor'["owner"] = monitor["owner"] /\ ownerDb' = ownerDb
    BY <1>0, <1>3 DEF saveGateway, Services
  <2> QED BY <1>3, <1>a, <2>1, <2>2, SMT DEF saveGateway
<1>4. CASE decide(w)
  <2>1. /\ \A v \in Web \ {w} : web[v].pc \notin {"saveOwner", "decide", "remove"}
        /\ \A v \in Web : web[v].pc \notin {"enqueue", "saveOwner", "save"}
    BY <1>4 DEF decide
  <2>2. CASE sendApprovedCommandToClient(w) \/ markCommandAsRejected(w)
    <3>1. /\ \A v \in Web \ {w} : web'[v] = web[v]
          /\ web'[w].pc = "remove" /\ web'[w].ownerBase = web[w].ownerBase
          /\ web'[w].seq = web[w].seq
          /\ monitor' = monitor /\ ownerDb' = ownerDb
      BY <1>0, <1>4, <2>2, SMT
      DEF decide, sendApprovedCommandToClient, markCommandAsRejected, WebRequest
    <3> QED BY <1>4, <2>1, <3>1, SMT DEF decide
  <2>3. CASE decisionRefused(w)
    BY <1>a, <2>1, <2>3, SMT DEF decisionRefused
  <2> QED BY <1>4, <2>2, <2>3 DEF decide
<1>5. CASE removeOwnerCommand(w)
  <2>1. \A v \in Web \ {w} : web[v].pc \notin {"saveOwner", "decide", "remove"}
    BY <1>5 DEF removeOwnerCommand
  <2>2. monitor'["gateway"] = monitor["gateway"] /\ gatewayDb' = gatewayDb
    BY <1>0, <1>5 DEF removeOwnerCommand, Services
  <2> QED BY <1>5, <1>a, <2>1, <2>2, SMT DEF removeOwnerCommand
<1>6. CASE deleteClient(w)
  <2>1. \A v \in Web : web[v].pc \notin {"enqueue", "saveOwner", "save"}
    BY <1>6 DEF deleteClient
  <2> QED BY <1>6, <1>a, <2>1, SMT DEF deleteClient
<1>7. CASE deleteGateway(w)
  <2>1. \A v \in Web : web[v].pc \notin {"enqueue", "saveOwner", "save"}
    BY <1>7 DEF deleteGateway
  <2> QED BY <1>7, <1>a, <2>1, SMT DEF deleteGateway
<1> QED BY <1>1, <1>2, <1>3, <1>4, <1>5, <1>6, <1>7 DEF WebStep

\* Every step keeps the copies current, those of the MQTT thread, the
\* notification tasks and a restart included.
LEMMA CopiesStep == CopiesInv /\ [Next]_vars => CopiesInv'
<1> SUFFICES ASSUME CopiesInv, [Next]_vars PROVE CopiesInv'
  OBVIOUS
<1>0. TypeOK'
  BY TypeStep DEF CopiesInv
<1> USE NobodyIsNoThread
    DEF CopiesInv, MonitorsHeld, Held, InGateway, InOwner, CopiesCurrent, Free
<1>a. web \in [Web -> WebRequest] /\ monitor \in [Services -> Web \cup {Nobody, Cron}]
  BY DEF TypeOK
<1>1. CASE messageReceived
  <2>1. \A v \in Web : web[v].pc \notin {"enqueue", "saveOwner", "save"}
    BY <1>1 DEF messageReceived
  <2> QED BY <1>0, <1>1, <2>1 DEF messageReceived
<1>2. ASSUME NEW t \in Tasks, TaskStep(t) PROVE CopiesInv'
  BY <1>0, <1>2, SMT DEF TaskStep, sendPushNotification, addToRetrySet, restVars
<1>3. CASE RetryStep
  <2>1. /\ monitor'["gateway"] = monitor["gateway"] /\ monitor'["owner"] = monitor["owner"]
        /\ UNCHANGED <<web, gatewayDb, ownerDb>>
    BY <1>a, <1>3
    DEF RetryStep, sendRetryNotifications, retryOne, clearRetrySet, restVars, Services
  <2> QED BY <1>0, <2>1
<1>4. CASE Restart
  <2>1. \A v \in Web : web'[v].pc = "idle"
    BY <1>4 DEF Restart, IdleRequest
  <2> QED BY <1>0, <2>1
<1>5. CASE UNCHANGED vars
  BY <1>0, <1>5 DEF vars
<1> QED BY <1>0, <1>1, <1>2, <1>3, <1>4, <1>5, CopiesWebCall, CopiesWebStep DEF Next

\* The inductive invariant holds in every reachable state.
THEOREM CopiesInvHolds == Spec => []CopiesInv
BY CopiesInit, CopiesStep, PTL DEF Spec

\* sendCommandToClient and setOwnerCommandStatus never save an outdated
\* document, for any number of web threads: the types and the monitors make
\* CopiesCurrent inductive.
THEOREM CopiesCurrentHolds == Spec => []CopiesCurrent
<1>1. CopiesInv => CopiesCurrent
  BY DEF CopiesInv
<1> QED BY <1>1, CopiesInvHolds, PTL

-----------------------------------------------------------------------------
(* What waits for the owner is listed.                                     *)

\* Nothing waits for the owner when the services start.
LEMMA ListInit == Init => ListInv
<1> SUFFICES ASSUME Init PROVE ListInv
  OBVIOUS
<1>1. \A w \in Web : web[w].pc = "idle"
  BY DEF Init, IdleRequest
<1>2. \A seq \in Seqs : gatewayDb.state[seq] = "none"
  BY DEF Init, NewGateway
<1> QED BY <1>1, <1>2 DEF ListInv, WaitingIsListed, AboutToWait, At

\* When the list stays and no command begins to wait for the owner, only
\* the requests can break the invariant.
LEMMA ListKept ==
  ASSUME CopiesInv, ListInv, UNCHANGED ownerDb.commands,
         \A seq \in Seqs : gatewayDb.state[seq]' = "OWNER" => gatewayDb.state[seq] = "OWNER",
         \A w \in Web : AboutToWait(w)' => AboutToWait(w) /\ web[w]'.base = web[w].base,
         \A w \in Web : At(w, "remove")' => At(w, "remove") /\ web[w]'.seq = web[w].seq
  PROVE  ListInv'
<1>1. \A w \in Web : web[w].seq \in Seqs
  BY DEF CopiesInv, TypeOK, WebRequest
<1>2. WaitingIsListed'
  BY SMT DEF ListInv, WaitingIsListed
<1>3. \A w \in Web : AboutToWait(w)' => Listed(web[w].base.seqNo)'
  BY DEF ListInv, Listed
<1>4. \A v \in Web : At(v, "remove")' =>
        gatewayDb.state[web[v].seq]' # "OWNER" /\ \A w \in Web : ~AboutToWait(w)'
  BY <1>1 DEF ListInv
<1> QED BY <1>2, <1>3, <1>4 DEF ListInv

\* A call that begins brings no command into the owner's list.
LEMMA ListWebCall ==
  ASSUME CopiesInv, ListInv, NEW w \in Web, WebCall(w)
  PROVE  ListInv'
<1> USE DEF AboutToWait, At, Idle
<1>0. web \in [Web -> WebRequest]
  BY DEF CopiesInv, TypeOK
<1>1. CASE sendCommandToClient(w)
  <2>1. /\ \A v \in Web \ {w} : web'[v] = web[v]
        /\ ~AboutToWait(w)' /\ ~At(w, "remove")'
        /\ gatewayDb' = gatewayDb /\ ownerDb' = ownerDb
    BY <1>0, <1>1 DEF sendCommandToClient, WebRequest
  <2> QED BY <2>1, ListKept
<1>2. ASSUME NEW seq \in Seqs, NEW approved \in BOOLEAN,
             setOwnerCommandStatus(w, seq, approved)
      PROVE  ListInv'
  <2>1. /\ \A v \in Web \ {w} : web'[v] = web[v]
        /\ ~AboutToWait(w)' /\ ~At(w, "remove")'
        /\ gatewayDb' = gatewayDb /\ ownerDb' = ownerDb
    BY <1>0, <1>2 DEF setOwnerCommandStatus, WebRequest
  <2> QED BY <2>1, ListKept
<1>3. CASE updateFirebaseToken(w)
  <2>1. web' = web /\ gatewayDb' = gatewayDb /\ ownerDb'.commands = ownerDb.commands
    BY <1>3 DEF updateFirebaseToken, CopiesInv, TypeOK, OwnerDocument
  <2> QED BY <2>1, ListKept
<1>4. ASSUME NEW what \in {"deleteClient", "deleteGateway"}, readForDeletion(w, what)
      PROVE  ListInv'
  <2>1. /\ \A v \in Web \ {w} : web'[v] = web[v]
        /\ ~AboutToWait(w)' /\ ~At(w, "remove")'
        /\ gatewayDb' = gatewayDb /\ ownerDb' = ownerDb
    BY <1>0, <1>4 DEF readForDeletion, WebRequest
  <2> QED BY <2>1, ListKept
<1>5. CASE addGateway(w)
  <2>1. /\ \A seq \in Seqs : gatewayDb'.state[seq] = "none"
        /\ web' = web /\ ownerDb' = ownerDb
    BY <1>5 DEF addGateway, NewGateway
  <2> QED BY <2>1, ListKept
<1> QED BY <1>1, <1>2, <1>3, <1>4, <1>5 DEF WebCall

\* The list is saved first when a command is issued ...
LEMMA ListSaveOwner ==
  ASSUME CopiesInv, ListInv, NEW w \in Web, saveOwner(w)
  PROVE  ListInv'
<1> USE DEF AboutToWait, At
<1>0. web \in [Web -> WebRequest] /\ ownerDb.commands \in Seq(Seqs)
  BY DEF CopiesInv, TypeOK, OwnerDocument
<1>1. web[w].pc = "saveOwner" /\ web[w].base.claimed
  BY DEF saveOwner, CopiesInv, MonitorsHeld, Held
<1>2. \A v \in Web \ {w} : web[v].pc \notin {"save", "remove"}
  BY <1>1 DEF CopiesInv, MonitorsHeld, Held, InGateway, InOwner
<1>3. ownerDb'.commands = Append(ownerDb.commands, web[w].base.seqNo)
  BY <1>1 DEF saveOwner, CopiesInv, CopiesCurrent, TypeOK, OwnerDocument
<1>4. /\ \A i \in DOMAIN ownerDb.commands :
           i \in DOMAIN ownerDb'.commands /\ ownerDb'.commands[i] = ownerDb.commands[i]
      /\ Len(ownerDb.commands) + 1 \in DOMAIN ownerDb'.commands
      /\ ownerDb'.commands[Len(ownerDb.commands) + 1] = web[w].base.seqNo
  BY <1>0, <1>3, SMT
<1>5. /\ \A v \in Web \ {w} : web'[v] = web[v]
      /\ web'[w].pc # "remove" /\ (web'[w].pc = "save" => web'[w].base = web[w].base)
      /\ gatewayDb' = gatewayDb
  BY <1>0, SMT DEF saveOwner, Accepted, Refused, Return, IdleRequest, WebRequest
<1>6. WaitingIsListed'
  BY <1>4, <1>5, SMT DEF ListInv, WaitingIsListed
<1>7. \A v \in Web : AboutToWait(v)' => Listed(web[v].base.seqNo)'
  BY <1>2, <1>4, <1>5, SMT DEF Listed
<1>8. \A v \in Web : ~At(v, "remove")'
  BY <1>2, <1>5
<1> QED BY <1>6, <1>7, <1>8 DEF ListInv

\* ... and the state after it.
LEMMA ListSaveGateway ==
  ASSUME CopiesInv, ListInv, NEW w \in Web, saveGateway(w)
  PROVE  ListInv'
<1> USE DEF AboutToWait, At
<1>0. web \in [Web -> WebRequest] /\ gatewayDb \in Document
  BY DEF CopiesInv, TypeOK
<1>1. web[w].pc = "save" /\ web[w].base = gatewayDb /\ gatewayDb.seqNo <= MaxCommands
  BY DEF saveGateway, CopiesInv, CopiesCurrent, MonitorsHeld, Held, InGateway
<1>2. /\ gatewayDb'.state = [gatewayDb.state EXCEPT ![gatewayDb.seqNo] =
                               IF gatewayDb.claimed THEN "OWNER" ELSE "GATEWAY"]
      /\ ownerDb' = ownerDb
  BY <1>0, <1>1, IssuedType DEF saveGateway
<1>3. \A seq \in Seqs : gatewayDb'.state[seq] = "OWNER" =>
        gatewayDb.state[seq] = "OWNER" \/ (seq = gatewayDb.seqNo /\ gatewayDb.claimed)
  BY <1>0, <1>2 DEF Document
<1>4. /\ \A v \in Web \ {w} : web'[v] = web[v]
      /\ web'[w].pc = "idle"
  BY <1>0 DEF saveGateway, Return, IdleRequest
<1>5. CASE gatewayDb.claimed
  <2>1. Listed(gatewayDb.seqNo) /\ \A v \in Web : ~At(v, "remove")
    BY <1>1, <1>5 DEF ListInv
  <2>2. \A v \in Web \ {w} : ~AboutToWait(v)
    BY <1>1 DEF CopiesInv, MonitorsHeld, Held, InGateway
  <2>3. WaitingIsListed'
    BY <1>2, <1>3, <2>1 DEF ListInv, WaitingIsListed, Listed
  <2> QED BY <1>4, <2>1, <2>2, <2>3 DEF ListInv
<1>6. CASE ~gatewayDb.claimed
  BY <1>2, <1>3, <1>4, <1>6, ListKept
<1> QED BY <1>5, <1>6

\* A decision is saved in the gateway's document first ...
LEMMA ListDecide ==
  ASSUME CopiesInv, ListInv, NEW w \in Web, decide(w)
  PROVE  ListInv'
<1> USE DEF AboutToWait, At
<1>0. web \in [Web -> WebRequest] /\ gatewayDb \in Document /\ web[w].seq \in Seqs
  BY DEF CopiesInv, TypeOK, WebRequest
<1>1. /\ web[w].pc = "decide" /\ ownerDb' = ownerDb
      /\ \A v \in Web : ~AboutToWait(v)
      /\ \A v \in Web : ~At(v, "remove")
  BY NobodyIsNoThread, SMT DEF decide, Free, CopiesInv, MonitorsHeld, Held, InGateway, InOwner
<1>2. \A v \in Web \ {w} : web'[v] = web[v]
  BY <1>0 DEF decide, sendApprovedCommandToClient, markCommandAsRejected, decisionRefused, Return
<1>3. CASE sendApprovedCommandToClient(w) \/ markCommandAsRejected(w)
  <2>1. web'[w].pc = "remove" /\ web'[w].seq = web[w].seq
    BY <1>0, <1>3, SMT DEF sendApprovedCommandToClient, markCommandAsRejected, WebRequest
  <2>2. \/ gatewayDb'.state = [gatewayDb.state EXCEPT ![web[w].seq] = "REJECTED"]
        \/ gatewayDb'.state = [gatewayDb.state EXCEPT ![web[w].seq] =
                                 IF @ = "none" THEN @ ELSE "GATEWAY"]
    BY <1>0, <1>3 DEF sendApprovedCommandToClient, markCommandAsRejected, Document
  <2>3. /\ gatewayDb'.state[web[w].seq] # "OWNER"
        /\ \A seq \in Seqs : gatewayDb'.state[seq] = "OWNER" => gatewayDb.state[seq] = "OWNER"
    BY <1>0, <2>2 DEF Document
  <2>4. WaitingIsListed'
    BY <1>1, <2>3 DEF ListInv, WaitingIsListed
  <2>5. \A v \in Web : ~AboutToWait(v)'
    BY <1>1, <1>2, <2>1
  <2>6. \A v \in Web : At(v, "remove")' => gatewayDb.state[web[v].seq]' # "OWNER"
    BY <1>1, <1>2, <2>1, <2>3
  <2> QED BY <2>4, <2>5, <2>6 DEF ListInv
<1>4. CASE decisionRefused(w)
  <2>1. gatewayDb' = gatewayDb /\ web'[w].pc = "idle"
    BY <1>0, <1>4 DEF decisionRefused, Return, IdleRequest
  <2> QED BY <1>1, <1>2, <2>1, ListKept
<1> QED BY <1>3, <1>4 DEF decide

\* ... and the list after it.
LEMMA ListRemove ==
  ASSUME CopiesInv, ListInv, NEW w \in Web, removeOwnerCommand(w)
  PROVE  ListInv'
<1> USE DEF AboutToWait, At
<1>0. web \in [Web -> WebRequest] /\ ownerDb.commands \in Seq(Seqs)
  BY DEF CopiesInv, TypeOK, OwnerDocument
<1>1. /\ web[w].pc = "remove" /\ ownerDb.commands # <<>> /\ ownerDb.commands[1] = web[w].seq
      /\ gatewayDb.state[web[w].seq] # "OWNER"
      /\ \A v \in Web : ~AboutToWait(v)
      /\ \A v \in Web \ {w} : ~At(v, "remove")
  BY SMT DEF removeOwnerCommand, CopiesInv, CopiesCurrent, MonitorsHeld, Held, InOwner, ListInv
<1>2. ownerDb'.commands = Tail(ownerDb.commands) /\ gatewayDb' = gatewayDb
  BY <1>1 DEF removeOwnerCommand, CopiesInv, CopiesCurrent, TypeOK, OwnerDocument
<1>3. \A i \in DOMAIN ownerDb.commands :
        i = 1 \/ (i - 1 \in DOMAIN ownerDb'.commands /\ ownerDb'.commands[i - 1] = ownerDb.commands[i])
  BY <1>0, <1>1, <1>2, SMT
<1>4. /\ \A v \in Web \ {w} : web'[v] = web[v]
      /\ web'[w].pc = "idle"
  BY <1>0 DEF removeOwnerCommand, Return, IdleRequest
<1>5. WaitingIsListed'
  <2> SUFFICES ASSUME NEW seq \in Seqs, gatewayDb.state[seq] = "OWNER"
               PROVE  \E i \in DOMAIN ownerDb'.commands : ownerDb'.commands[i] = seq
    BY <1>2 DEF WaitingIsListed
  <2>1. PICK i \in DOMAIN ownerDb.commands : ownerDb.commands[i] = seq
    BY DEF ListInv, WaitingIsListed
  <2> QED BY <1>1, <1>3, <2>1
<1> QED BY <1>1, <1>4, <1>5, SMT DEF ListInv

\* Every step keeps what waits for the owner listed.
LEMMA ListStep == CopiesInv /\ ListInv /\ [Next]_vars => ListInv'
<1> SUFFICES ASSUME CopiesInv, ListInv, [Next]_vars PROVE ListInv'
  OBVIOUS
<1> USE DEF AboutToWait, At
<1>0. web \in [Web -> WebRequest] /\ gatewayDb \in Document
  BY DEF CopiesInv, TypeOK
<1>1. ASSUME NEW w \in Web, WebStep(w) PROVE ListInv'
  <2>a. ASSUME Return(w)
        PROVE  web'[w].pc = "idle" /\ \A v \in Web \ {w} : web'[v] = web[v]
    BY <1>0, <2>a DEF Return, IdleRequest
  <2>1. CASE enqueueOwnerCommand(w)
    <3>1. /\ \A v \in Web \ {w} : web'[v] = web[v]
          /\ web'[w].pc = "saveOwner" /\ gatewayDb' = gatewayDb /\ ownerDb' = ownerDb
      BY <1>0, <2>1 DEF enqueueOwnerCommand, WebRequest
    <3> QED BY <3>1, ListKept
  <2>2. CASE deleteClient(w)
    <3>1. \A seq \in Seqs : gatewayDb'.state[seq] \in {gatewayDb.state[seq], "none"}
      BY <1>0, <2>2 DEF deleteClient, WebRequest, Document
    <3> QED BY <2>2, <2>a, <3>1, ListKept DEF deleteClient
  <2>3. CASE deleteGateway(w)
    <3>1. \A seq \in Seqs : gatewayDb'.state[seq] \in {gatewayDb.state[seq], "none"}
      BY <2>3 DEF deleteGateway, NoGateway, NewGateway
    <3> QED BY <2>3, <2>a, <3>1, ListKept DEF deleteGateway
  <2> QED BY <1>1, <2>1, <2>2, <2>3, ListSaveOwner, ListSaveGateway, ListDecide, ListRemove
          DEF WebStep
<1>2. CASE messageReceived
  <2>1. \A seq \in Seqs : gatewayDb'.state[seq] \in {gatewayDb.state[seq], "CLIENT"}
    <3>1. ASSUME NEW n \in Seqs, handleClientCommandAck(n)
          PROVE  \A seq \in Seqs : gatewayDb'.state[seq] \in {gatewayDb.state[seq], "CLIENT"}
      BY <1>0, <3>1 DEF handleClientCommandAck, Document
    <3>2. CASE updateClientCommand \/ updateGatewayCommand
      BY <1>0, <3>2 DEF updateClientCommand, updateGatewayCommand, Document
    <3> QED BY <1>2, <3>1, <3>2 DEF messageReceived
  <2> QED BY <1>2, <2>1, ListKept DEF messageReceived
<1>3. ASSUME NEW t \in Tasks, TaskStep(t) PROVE ListInv'
  BY <1>3, ListKept DEF TaskStep, sendPushNotification, addToRetrySet, restVars
<1>4. CASE RetryStep
  BY <1>4, ListKept DEF RetryStep, sendRetryNotifications, retryOne, clearRetrySet, restVars
<1>5. CASE Restart
  <2>1. \A v \in Web : web'[v].pc = "idle"
    BY <1>5 DEF Restart, IdleRequest
  <2> QED BY <1>5, <2>1, ListKept DEF Restart
<1>6. CASE UNCHANGED vars
  BY <1>6, ListKept DEF vars
<1> QED BY <1>1, <1>2, <1>3, <1>4, <1>5, <1>6, ListWebCall DEF Next

\* Whatever the database shows as waiting for the owner is in the owner's
\* list, also after a stop between any two saves of sendCommandToClient or
\* setOwnerCommandStatus: the two write the documents in opposite orders,
\* and never both at a time (ListInv).
THEOREM WaitingIsListedHolds == Spec => []WaitingIsListed
<1>1. ListInv => WaitingIsListed
  BY DEF ListInv
<1> QED BY <1>1, ListInit, ListStep, CopiesInvHolds, PTL DEF Spec

-----------------------------------------------------------------------------
(* Failed notifications.                                                   *)

\* Every step keeps the failed tokens in the set, or in what the retry task
\* still has to try.
LEMMA RetryStepKept == CopiesInv /\ RetryInv /\ [Next]_vars => RetryInv'
<1> SUFFICES ASSUME CopiesInv, RetryInv, [Next]_vars PROVE RetryInv'
  OBVIOUS
<1> USE NobodyIsNoThread DEF RetryInv, FailedIsRetried
<1>0. monitor \in [Services -> Web \cup {Nobody, Cron}]
  BY DEF CopiesInv, TypeOK
<1>1. ASSUME UNCHANGED firebaseVars, monitor'["retry"] = monitor["retry"] PROVE RetryInv'
  BY <1>1 DEF firebaseVars
<1>2. ASSUME NEW w \in Web, WebCall(w) PROVE RetryInv'
  BY <1>0, <1>1, <1>2 DEF WebCall, sendCommandToClient, setOwnerCommandStatus,
     updateFirebaseToken, readForDeletion, addGateway, Services
<1>3. ASSUME NEW w \in Web, WebStep(w) PROVE RetryInv'
  BY <1>0, <1>1, <1>3 DEF WebStep, enqueueOwnerCommand, saveOwner, Accepted, Refused,
     saveGateway, decide, sendApprovedCommandToClient, markCommandAsRejected,
     decisionRefused, removeOwnerCommand, deleteClient, deleteGateway, Services
<1>4. CASE messageReceived
  BY <1>1, <1>4 DEF messageReceived
<1>5. ASSUME NEW t \in Tasks, TaskStep(t) PROVE RetryInv'
  BY <1>5 DEF TaskStep, sendPushNotification, addToRetrySet, firebaseVars, Free
<1>6. CASE RetryStep
  <2>1. CASE sendRetryNotifications
    BY <1>0, <2>1 DEF sendRetryNotifications, Services
  <2>2. CASE retryOne
    BY <2>2 DEF retryOne, CopiesInv, TypeOK
  <2>3. CASE clearRetrySet
    BY <2>3 DEF clearRetrySet
  <2> QED BY <1>6, <2>1, <2>2, <2>3 DEF RetryStep
<1>7. CASE Restart
  BY <1>7 DEF Restart
<1>8. CASE UNCHANGED vars
  BY <1>1, <1>8 DEF vars, firebaseVars
<1> QED BY <1>2, <1>3, <1>4, <1>5, <1>6, <1>7, <1>8 DEF Next

\* addToRetrySet and sendRetryNotifications share the set under one lock: no
\* token is cleared that was not tried since it was put there.
THEOREM FailedIsRetriedHolds == Spec => []FailedIsRetried
<1>1. Init => RetryInv
  BY SMT DEF Init, RetryInv, FailedIsRetried
<1>2. RetryInv => FailedIsRetried
  BY DEF RetryInv
<1> QED BY <1>1, <1>2, RetryStepKept, CopiesInvHolds, PTL DEF Spec

-----------------------------------------------------------------------------
(* A command waits in one place.                                           *)

\* A list of commands is a list of numbers.
LEMMA NumbersOf ==
  ASSUME NEW s \in Seq(Seqs)
  PROVE  /\ Len(s) \in Nat /\ DOMAIN s = 1 .. Len(s)
         /\ \A i \in DOMAIN s : s[i] \in Nat
<1>1. \A i \in 1 .. Len(s) : s[i] \in Seqs
  BY SMT
<1> QED BY <1>1, SMT DEF Seqs

\* A list in the order of issue stays one when a higher number joins its end,
\* as enqueueOwnerCommand's new command does.
LEMMA IncreasingAppend ==
  ASSUME NEW s \in Seq(Seqs), NEW n \in Nat, Increasing(s), \A i \in DOMAIN s : s[i] < n
  PROVE  Increasing(Append(s, n))
<1>1. /\ DOMAIN Append(s, n) = 1 .. Len(s) + 1 /\ Append(s, n)[Len(s) + 1] = n
      /\ \A i \in 1 .. Len(s) : Append(s, n)[i] = s[i]
  BY SMT
<1>2. /\ Len(s) \in Nat /\ DOMAIN s = 1 .. Len(s) /\ \A i \in DOMAIN s : s[i] \in Nat
  BY NumbersOf
<1> SUFFICES ASSUME NEW i \in 1 .. Len(s) + 1, NEW j \in 1 .. Len(s) + 1, i < j
             PROVE  Append(s, n)[i] < Append(s, n)[j]
  BY <1>1 DEF Increasing
<1>3. i \in 1 .. Len(s)
  BY <1>2, SMT
<1>4. CASE j = Len(s) + 1
  BY <1>1, <1>2, <1>3, <1>4
<1>5. CASE j \in 1 .. Len(s)
  BY <1>1, <1>2, <1>3, <1>5 DEF Increasing
<1> QED BY <1>2, <1>4, <1>5, SMT

\* Nothing waits anywhere when the services start.
LEMMA PlaceInit == Init => PlaceInv
BY SMT DEF Init, PlaceInv, NewGateway, NewOwner, Exists, Increasing

\* When the queue, the list and the next number stay, so does the invariant,
\* unless a call that explains a command in two places goes away.
LEMMA PlaceKept ==
  ASSUME PlaceInv, ~disturbed' => ~disturbed /\ (Exists(gatewayDb) => Exists(gatewayDb)'),
         UNCHANGED <<gatewayDb.pending, gatewayDb.seqNo, ownerDb.commands>>,
         \A w \in Web : AboutToWait(w) => AboutToWait(w)',
         \A w \in Web : At(w, "remove") => At(w, "remove")'
  PROVE  PlaceInv'
BY DEF PlaceInv, Increasing

\* A call that begins moves no command.
LEMMA PlaceWebCall ==
  ASSUME CopiesInv, PlaceInv, NEW w \in Web, WebCall(w)
  PROVE  PlaceInv'
<1> USE DEF AboutToWait, At, Idle
<1>0. web \in [Web -> WebRequest]
  BY DEF CopiesInv, TypeOK
<1>1. CASE sendCommandToClient(w)
  BY <1>0, <1>1, PlaceKept DEF sendCommandToClient
<1>2. ASSUME NEW seq \in Seqs, NEW approved \in BOOLEAN,
             setOwnerCommandStatus(w, seq, approved)
      PROVE  PlaceInv'
  BY <1>0, <1>2, PlaceKept DEF setOwnerCommandStatus
<1>3. CASE updateFirebaseToken(w)
  <2>1. ownerDb'.commands = ownerDb.commands
    BY <1>3 DEF updateFirebaseToken, CopiesInv, TypeOK, OwnerDocument
  <2> QED BY <1>3, <2>1, PlaceKept DEF updateFirebaseToken
<1>4. ASSUME NEW what \in {"deleteClient", "deleteGateway"}, readForDeletion(w, what)
      PROVE  PlaceInv'
  BY <1>0, <1>4, PlaceKept DEF readForDeletion
<1>5. CASE addGateway(w)
  BY <1>5 DEF addGateway, PlaceInv
<1> QED BY <1>1, <1>2, <1>3, <1>4, <1>5 DEF WebCall

\* The number put in the owner's list is the next to be given: it is above
\* all others there, and not in the queue.
LEMMA PlaceSaveOwner ==
  ASSUME CopiesInv, PlaceInv, NEW w \in Web, saveOwner(w)
  PROVE  PlaceInv'
<1> USE DEF AboutToWait, At
<1> SUFFICES ASSUME ~disturbed' PROVE PlaceInv'
  BY DEF PlaceInv
<1> DEFINE c == ownerDb.commands
           n == gatewayDb.seqNo
<1>0. /\ web \in [Web -> WebRequest] /\ c \in Seq(Seqs) /\ n \in Nat
      /\ gatewayDb.pending \in Seq(Seqs) /\ Seqs \subseteq Nat
  BY CloudServicesAssumption, SMTT(20) DEF CopiesInv, TypeOK, OwnerDocument, Document, Seqs
<1>1. Accepted(w) /\ ~disturbed
  BY SMT DEF saveOwner, Accepted, Refused
<1>2. web[w].pc = "saveOwner" /\ web[w].base.claimed /\ web[w].base = gatewayDb
  BY DEF saveOwner, CopiesInv, MonitorsHeld, Held, CopiesCurrent
<1>3. \A v \in Web \ {w} : web[v].pc \notin {"save", "remove"}
  BY <1>2 DEF CopiesInv, MonitorsHeld, Held, InGateway, InOwner
<1>4. c' = Append(c, n) /\ gatewayDb' = gatewayDb
  BY <1>2 DEF saveOwner, CopiesInv, CopiesCurrent, TypeOK, OwnerDocument
<1>5. web'[w].pc = "save" /\ web'[w].base.claimed
  BY <1>0, <1>1, <1>2 DEF Accepted, WebRequest
<1>6. \A i \in 1 .. Len(c) : c[i] < n
  BY <1>0, <1>1, <1>2, <1>3, SMT DEF PlaceInv
<1>7. /\ DOMAIN c' = 1 .. Len(c) + 1 /\ c'[Len(c) + 1] = n
      /\ \A i \in 1 .. Len(c) : c'[i] = c[i]
  BY <1>0, <1>4, SMT
<1> HIDE DEF c, n
<1>8. Increasing(c')
  <2>1. Increasing(c)
    BY <1>1 DEF PlaceInv, c
  <2>2. \A i \in DOMAIN c : c[i] < n
    BY <1>0, <1>6, NumbersOf
  <2> QED BY <1>0, <1>4, <2>1, <2>2, IncreasingAppend
<1>9. \A i \in DOMAIN c' : c'[i] < n \/ (c'[i] = n /\ AboutToWait(w)')
  BY <1>0, <1>5, <1>6, <1>7, SMT
<1>10. \A i \in DOMAIN gatewayDb.pending, j \in DOMAIN c' : gatewayDb.pending[i] # c'[j]
  <2> SUFFICES ASSUME NEW i \in DOMAIN gatewayDb.pending, NEW j \in DOMAIN c'
               PROVE  gatewayDb.pending[i] # c'[j]
    OBVIOUS
  <2>1. gatewayDb.pending[i] < n /\ gatewayDb.pending[i] \in Nat
    <3>1. gatewayDb.pending[i] < n
      BY <1>1 DEF PlaceInv, n
    <3> QED BY <1>0, <3>1, NumbersOf
  <2>2. CASE j = Len(c) + 1
    BY <1>0, <1>7, <2>1, <2>2, SMT
  <2>3. CASE j \in 1 .. Len(c)
    <3>1. DOMAIN c = 1 .. Len(c)
      BY <1>0, SMT
    <3> QED BY <1>1, <1>2, <1>3, <1>7, <2>3, <3>1, SMT DEF PlaceInv, c
  <2> QED BY <1>0, <1>7, <2>2, <2>3, SMT
<1> QED BY <1>1, <1>4, <1>8, <1>9, <1>10 DEF PlaceInv, c, n

\* The number is given: what waited for that moment is below the next one.
LEMMA PlaceSaveGateway ==
  ASSUME CopiesInv, PlaceInv, NEW w \in Web, saveGateway(w)
  PROVE  PlaceInv'
<1> USE DEF AboutToWait, At
<1> SUFFICES ASSUME ~disturbed' PROVE PlaceInv'
  BY DEF PlaceInv
<1> DEFINE p == gatewayDb.pending
           n == gatewayDb.seqNo
<1>0. /\ web \in [Web -> WebRequest] /\ gatewayDb \in Document /\ n \in Nat
      /\ p \in Seq(Seqs) /\ ownerDb.commands \in Seq(Seqs) /\ Seqs \subseteq Nat
  BY CloudServicesAssumption, SMT DEF CopiesInv, TypeOK, OwnerDocument, Document, Seqs
<1>1. web[w].pc = "save" /\ web[w].base = gatewayDb /\ gatewayDb.seqNo <= MaxCommands
  BY DEF saveGateway, CopiesInv, CopiesCurrent, MonitorsHeld, Held, InGateway
<1>2. /\ n' = n + 1 /\ p' = IF gatewayDb.claimed THEN p ELSE Append(p, n)
      /\ gatewayDb'.id = gatewayDb.id /\ ownerDb' = ownerDb /\ ~disturbed
  BY <1>0, <1>1, IssuedType DEF saveGateway
<1>3. \A v \in Web : At(v, "remove") => At(v, "remove")'
  BY <1>0, <1>1 DEF saveGateway, Return
<1>4. \A v \in Web : AboutToWait(v) => v = w
  BY <1>1 DEF CopiesInv, MonitorsHeld, Held, InGateway
<1>a. /\ DOMAIN p = 1 .. Len(p) /\ Len(p) \in Nat /\ \A i \in DOMAIN p : p[i] \in Nat
      /\ \A j \in DOMAIN ownerDb.commands : ownerDb.commands[j] \in Nat
  BY <1>0, NumbersOf
<1>b. /\ \A i \in DOMAIN p : p[i] < n
      /\ \A j \in DOMAIN ownerDb.commands : ownerDb.commands[j] < n \/ ownerDb.commands[j] = n
  BY <1>2 DEF PlaceInv
<1>5. CASE gatewayDb.claimed
  <2> HIDE DEF p, n
  <2>1. \A i \in DOMAIN p : p[i] < n'
    BY <1>0, <1>2, <1>a, <1>b, SMT
  <2>2. ASSUME NEW j \in DOMAIN ownerDb.commands PROVE ownerDb.commands[j] < n'
    <3>1. n' = n + 1 /\ n \in Nat
      BY <1>0, <1>2
    <3>2. ownerDb.commands[j] \in Nat /\ (ownerDb.commands[j] < n \/ ownerDb.commands[j] = n)
      BY <1>a, <1>b
    <3> QED BY <3>1, <3>2, SMT
  <2> QED BY <1>2, <1>3, <1>5, <2>1, <2>2, SMTT(30) DEF PlaceInv, Exists, p, n
<1>6. CASE ~gatewayDb.claimed
  <2>1. \A j \in DOMAIN ownerDb.commands : ownerDb.commands[j] < n
    BY <1>1, <1>2, <1>4, <1>6 DEF PlaceInv
  <2>2. \A i \in DOMAIN p : p[i] < n
    BY <1>2 DEF PlaceInv
  <2>3. /\ DOMAIN p' = 1 .. Len(p) + 1 /\ p'[Len(p) + 1] = n
        /\ \A i \in 1 .. Len(p) : p'[i] = p[i]
    BY <1>0, <1>2, <1>6, SMT
  <2> HIDE DEF p, n
  <2>5. /\ \A i \in DOMAIN p' : p'[i] < n'
        /\ \A j \in DOMAIN ownerDb.commands : ownerDb.commands[j] < n'
    BY <1>0, <1>2, <1>a, <2>1, <2>2, <2>3, SMT
  <2>6. \A i, j \in DOMAIN p' : p'[i] = p'[j] => i = j
    <3>1. \A i, j \in DOMAIN p : p[i] = p[j] => i = j
      BY <1>2 DEF PlaceInv, p
    <3>2. \A i \in DOMAIN p' : i = Len(p) + 1 \/ i \in DOMAIN p
      BY <1>a, <2>3, SMT
    <3>3. \A i \in DOMAIN p : p'[i] = p[i] /\ p'[i] # n
      BY <1>0, <1>a, <2>2, <2>3, SMT
    <3> QED BY <2>3, <3>1, <3>2, <3>3
  <2>7. \A i \in DOMAIN p', j \in DOMAIN ownerDb.commands :
          p'[i] = ownerDb.commands[j] => i \in DOMAIN p /\ p[i] = ownerDb.commands[j]
    BY <1>0, <1>a, <2>1, <2>3, SMT
  <2> QED BY <1>2, <1>3, <2>5, <2>6, <2>7, SMTT(30) DEF PlaceInv, p, n, Exists
<1> QED BY <1>5, <1>6

\* An approved command joins the queue while it is still the first of the
\* list: the one moment it is in both.
LEMMA PlaceDecide ==
  ASSUME CopiesInv, PlaceInv, NEW w \in Web, decide(w)
  PROVE  PlaceInv'
<1> USE DEF AboutToWait, At
<1> SUFFICES ASSUME ~disturbed' PROVE PlaceInv'
  BY DEF PlaceInv
<1> DEFINE p == gatewayDb.pending
           c == ownerDb.commands
           q == web[w].seq
           n == gatewayDb.seqNo
<1>0. /\ web \in [Web -> WebRequest] /\ gatewayDb \in Document /\ n \in Nat /\ q \in Seqs
      /\ p \in Seq(Seqs) /\ c \in Seq(Seqs)
  <2>1. web \in [Web -> WebRequest] /\ gatewayDb \in Document /\ ownerDb \in OwnerDocument
    BY DEF CopiesInv, TypeOK
  <2>2. n \in Nat /\ p \in Seq(Seqs)
    BY <2>1, SMT DEF Document
  <2> QED BY <2>1, <2>2 DEF OwnerDocument, WebRequest
<1>1. /\ web[w].pc = "decide" /\ ownerDb' = ownerDb /\ ~disturbed
      /\ \A v \in Web : ~AboutToWait(v)
      /\ \A v \in Web : ~At(v, "remove")
      /\ c # <<>> /\ c[1] = q
  BY NobodyIsNoThread, SMT
  DEF decide, Free, CopiesInv, CopiesCurrent, MonitorsHeld, Held, InGateway, InOwner
<1>2. \A v \in Web \ {w} : web'[v] = web[v]
  BY <1>0 DEF decide, sendApprovedCommandToClient, markCommandAsRejected, decisionRefused, Return
<1>3. CASE sendApprovedCommandToClient(w)
  <2>1. p' = Append(p, q) /\ n' = n /\ gatewayDb'.id = gatewayDb.id /\ At(w, "remove")'
    BY <1>0, <1>3 DEF sendApprovedCommandToClient, Document, WebRequest
  <2>2. /\ DOMAIN p = 1 .. Len(p) /\ Len(p) \in Nat
        /\ DOMAIN c = 1 .. Len(c) /\ Len(c) \in Nat /\ \A j \in DOMAIN c : c[j] \in Nat
    BY <1>0, NumbersOf
  <2>3. /\ DOMAIN p' = 1 .. Len(p) + 1 /\ p'[Len(p) + 1] = q
        /\ \A i \in DOMAIN p : p'[i] = p[i]
    BY <1>0, <2>1, SMT
  <2>4. 1 \in DOMAIN c
    BY <1>0, <1>1, <2>2, SMT
  <2>5. /\ \A j \in DOMAIN c : c[j] < n
        /\ \A i \in DOMAIN p : p[i] < n
        /\ \A i \in DOMAIN p, j \in DOMAIN c : p[i] # c[j]
        /\ \A i, j \in DOMAIN p : p[i] = p[j] => i = j
        /\ Increasing(c) /\ Exists(gatewayDb)
    BY <1>1 DEF PlaceInv
  <2> HIDE DEF p, c, q, n
  <2>6. \A i \in DOMAIN p' : i = Len(p) + 1 \/ i \in DOMAIN p
    BY <2>2, <2>3, SMT
  <2>7. \A i \in DOMAIN p' : p'[i] < n
    BY <1>1, <2>3, <2>4, <2>5, <2>6
  <2>8. \A i, j \in DOMAIN p' : p'[i] = p'[j] => i = j
    BY <1>1, <2>3, <2>4, <2>5, <2>6, SMT
  <2>9. \A j \in DOMAIN c : c[j] = q => j = 1
    <3>1. \A j \in DOMAIN c : j # 1 => c[1] < c[j]
      BY <2>2, <2>4, <2>5, SMT DEF Increasing
    <3> QED BY <1>1, <2>2, <2>4, <3>1, SMT
  <2>10. \A i \in DOMAIN p', j \in DOMAIN c : p'[i] = c[j] => j = 1
    BY <2>3, <2>5, <2>6, <2>9, SMT
  <2> QED BY <1>1, <2>1, <2>5, <2>7, <2>8, <2>10 DEF PlaceInv, Exists, p, c, n
<1>4. CASE markCommandAsRejected(w)
  <2>1. p' = p /\ n' = n /\ gatewayDb'.id = gatewayDb.id
    BY <1>0, <1>4 DEF markCommandAsRejected, Document
  <2> QED BY <1>1, <2>1, PlaceKept DEF Exists
<1>5. CASE decisionRefused(w)
  BY <1>1, <1>5, PlaceKept DEF decisionRefused
<1> QED BY <1>3, <1>4, <1>5 DEF decide

\* The first of the list goes: what is left is not in the queue.
LEMMA PlaceRemove ==
  ASSUME CopiesInv, PlaceInv, NEW w \in Web, removeOwnerCommand(w)
  PROVE  PlaceInv'
<1> USE DEF AboutToWait, At
<1> SUFFICES ASSUME ~disturbed' PROVE PlaceInv'
  BY DEF PlaceInv
<1> DEFINE c == ownerDb.commands
<1>0. web \in [Web -> WebRequest] /\ c \in Seq(Seqs)
  BY DEF CopiesInv, TypeOK, OwnerDocument
<1>1. /\ web[w].pc = "remove" /\ c # <<>> /\ ~disturbed /\ gatewayDb' = gatewayDb
      /\ c' = Tail(c)
  BY DEF removeOwnerCommand, CopiesInv, CopiesCurrent, MonitorsHeld, Held, TypeOK, OwnerDocument
<1>2. \A v \in Web : AboutToWait(v) => AboutToWait(v)'
  BY <1>0, <1>1 DEF removeOwnerCommand, Return
<1>3. /\ Len(c) \in Nat /\ DOMAIN c = 1 .. Len(c) /\ DOMAIN c' = 1 .. Len(c) - 1
      /\ \A j \in 1 .. Len(c) - 1 : c'[j] = c[j + 1]
  BY <1>0, <1>1, SMT
<1>4. \A j \in DOMAIN c' : j + 1 \in DOMAIN c /\ j + 1 # 1 /\ c'[j] = c[j + 1]
  BY <1>3, SMT
<1> HIDE DEF c
<1>5. Increasing(c')
  <2>1. Increasing(c)
    BY <1>1 DEF PlaceInv, c
  <2> SUFFICES ASSUME NEW i \in DOMAIN c', NEW j \in DOMAIN c', i < j PROVE c'[i] < c'[j]
    BY DEF Increasing
  <2>2. i + 1 < j + 1
    BY <1>3, SMT
  <2> QED BY <1>4, <2>1, <2>2 DEF Increasing
<1>6. \A j \in DOMAIN c' : \/ c'[j] < gatewayDb.seqNo
                           \/ c'[j] = gatewayDb.seqNo /\ \E v \in Web : AboutToWait(v)'
  BY <1>1, <1>2, <1>4, SMT DEF PlaceInv, c
<1>7. \A i \in DOMAIN gatewayDb.pending, j \in DOMAIN c' : gatewayDb.pending[i] # c'[j]
  BY <1>1, <1>4, SMT DEF PlaceInv, c
<1> QED BY <1>1, <1>5, <1>6, <1>7 DEF PlaceInv, c

\* An acknowledgement takes the first command out of the queue; the other
\* messages leave the queue alone.
LEMMA PlaceAck ==
  ASSUME CopiesInv, PlaceInv, messageReceived
  PROVE  PlaceInv'
<1> USE DEF AboutToWait, At
<1>0. gatewayDb \in Document /\ gatewayDb.pending \in Seq(Seqs)
  BY DEF CopiesInv, TypeOK, Document
<1>1. UNCHANGED <<ownerDb, web, disturbed>>
  BY DEF messageReceived
<1>2. CASE updateClientCommand \/ updateGatewayCommand
  <2>1. /\ gatewayDb'.pending = gatewayDb.pending /\ gatewayDb'.seqNo = gatewayDb.seqNo
        /\ gatewayDb'.id = gatewayDb.id
    BY <1>0, <1>2 DEF updateClientCommand, updateGatewayCommand, Document
  <2> QED BY <1>1, <2>1, PlaceKept DEF Exists
<1>3. ASSUME NEW seq \in Seqs, handleClientCommandAck(seq) PROVE PlaceInv'
  <2> DEFINE p == gatewayDb.pending
  <2>1. /\ p' = Tail(p) /\ p # <<>>
        /\ gatewayDb'.seqNo = gatewayDb.seqNo /\ gatewayDb'.id = gatewayDb.id
    BY <1>0, <1>3 DEF handleClientCommandAck, Document
  <2>2. /\ Len(p) \in Nat /\ DOMAIN p = 1 .. Len(p) /\ DOMAIN p' = 1 .. Len(p) - 1
        /\ \A j \in 1 .. Len(p) - 1 : p'[j] = p[j + 1]
    BY <1>0, <2>1, SMT
  <2>3. \A j \in DOMAIN p' : j + 1 \in DOMAIN p /\ p'[j] = p[j + 1]
    BY <2>2, SMT
  <2> HIDE DEF p
  <2> SUFFICES ASSUME ~disturbed PROVE PlaceInv'
    BY <1>1 DEF PlaceInv
  <2>4. \A i, j \in DOMAIN p' : p'[i] = p'[j] => i = j
    <3> SUFFICES ASSUME NEW i \in DOMAIN p', NEW j \in DOMAIN p', p'[i] = p'[j] PROVE i = j
      OBVIOUS
    <3>1. i + 1 = j + 1
      BY <2>3, SMT DEF PlaceInv, p
    <3> QED BY <2>2, <3>1, SMT
  <2>5. \A i \in DOMAIN p' : p'[i] < gatewayDb.seqNo
    BY <2>3 DEF PlaceInv, p
  <2>6. \A i \in DOMAIN p', j \in DOMAIN ownerDb.commands :
          p'[i] = ownerDb.commands[j] => j = 1 /\ \E v \in Web : At(v, "remove")
    BY <2>3, SMT DEF PlaceInv, p
  <2> QED BY <1>1, <2>1, <2>4, <2>5, <2>6, SMT DEF PlaceInv, p, Exists
<1> QED BY <1>2, <1>3 DEF messageReceived

\* Every step keeps a command in one place.
LEMMA PlaceStep == CopiesInv /\ PlaceInv /\ [Next]_vars => PlaceInv'
<1> SUFFICES ASSUME CopiesInv, PlaceInv, [Next]_vars PROVE PlaceInv'
  OBVIOUS
<1> USE DEF AboutToWait, At
<1>0. web \in [Web -> WebRequest]
  BY DEF CopiesInv, TypeOK
<1>1. ASSUME NEW w \in Web, WebStep(w) PROVE PlaceInv'
  <2>1. CASE enqueueOwnerCommand(w)
    BY <1>0, <2>1, PlaceKept DEF enqueueOwnerCommand
  <2>2. CASE deleteClient(w)
    <3> SUFFICES ASSUME ~disturbed' PROVE PlaceInv'
      BY DEF PlaceInv
    <3>1. ~disturbed /\ web[w].base = gatewayDb
      BY <2>2 DEF deleteClient, CopiesInv, TypeOK
    <3>2. /\ gatewayDb'.pending = gatewayDb.pending /\ gatewayDb'.seqNo = gatewayDb.seqNo
          /\ gatewayDb'.id = gatewayDb.id
      BY <2>2, <3>1 DEF deleteClient, CopiesInv, TypeOK, Document
    <3>3. \A v \in Web : v # w => web'[v] = web[v]
      BY <1>0, <2>2 DEF deleteClient, Return
    <3> QED BY <2>2, <3>1, <3>2, <3>3, PlaceKept DEF deleteClient, Exists
  <2>3. CASE deleteGateway(w)
    BY <2>3 DEF deleteGateway, PlaceInv
  <2> QED BY <1>1, <2>1, <2>2, <2>3, PlaceSaveOwner, PlaceSaveGateway, PlaceDecide, PlaceRemove
          DEF WebStep
<1>2. ASSUME NEW t \in Tasks, TaskStep(t) PROVE PlaceInv'
  BY <1>2, PlaceKept, SMTT(30) DEF TaskStep, sendPushNotification, addToRetrySet, restVars
<1>3. CASE RetryStep
  BY <1>3, PlaceKept, SMT DEF RetryStep, sendRetryNotifications, retryOne, clearRetrySet, restVars
<1>4. CASE Restart
  <2> SUFFICES ASSUME ~disturbed' PROVE PlaceInv'
    BY DEF PlaceInv
  <2>1. ~disturbed /\ \A v \in Web : web[v].pc = "idle"
    BY <1>4 DEF Restart, Idle, CopiesInv, TypeOK
  <2> QED BY <1>4, <2>1, PlaceKept DEF Restart
<1>5. CASE UNCHANGED vars
  BY <1>5, PlaceKept DEF vars
<1> QED BY <1>1, <1>2, <1>3, <1>4, <1>5, PlaceWebCall, PlaceAck DEF Next

\* Between the calls nothing is in both places.
LEMMA PlaceImplies == CopiesInv /\ PlaceInv => OnePlace
<1> SUFFICES ASSUME CopiesInv, PlaceInv, ~disturbed,
                    \A w \in Web : web[w].pc \notin {"save", "remove"}
             PROVE  /\ \A i, j \in DOMAIN Waiting : Waiting[i] = Waiting[j] => i = j
                    /\ Increasing(ownerDb.commands)
                    /\ \A i \in DOMAIN Waiting : Waiting[i] < gatewayDb.seqNo
  BY DEF OnePlace
<1> DEFINE p == gatewayDb.pending
           c == ownerDb.commands
<1>0. p \in Seq(Seqs) /\ c \in Seq(Seqs)
  BY DEF CopiesInv, TypeOK, OwnerDocument, Document
<1>1. /\ DOMAIN p = 1 .. Len(p) /\ Len(p) \in Nat
      /\ DOMAIN c = 1 .. Len(c) /\ Len(c) \in Nat /\ \A j \in DOMAIN c : c[j] \in Nat
  BY <1>0, NumbersOf
<1>w. Waiting = p \o c
  BY DEF Waiting
<1>2. /\ DOMAIN Waiting = 1 .. Len(p) + Len(c)
      /\ \A i \in 1 .. Len(p) + Len(c) :
           Waiting[i] = IF i <= Len(p) THEN p[i] ELSE c[i - Len(p)]
  <2> HIDE DEF p, c
  <2> QED BY <1>0, <1>w, SMT
<1>3. /\ \A j \in DOMAIN c : c[j] < gatewayDb.seqNo
      /\ \A i \in DOMAIN p : p[i] < gatewayDb.seqNo
      /\ \A i \in DOMAIN p, j \in DOMAIN c : p[i] # c[j]
      /\ \A i, j \in DOMAIN p : p[i] = p[j] => i = j
      /\ Increasing(c)
  BY DEF PlaceInv, AboutToWait, At
<1> HIDE DEF p, c
<1>4. \A i, j \in DOMAIN c : c[i] = c[j] => i = j
  <2>1. \A i, j \in DOMAIN c : i < j => c[i] < c[j]
    BY <1>3 DEF Increasing
  <2> QED BY <1>1, <2>1, SMT
<1>5. ASSUME NEW i \in DOMAIN Waiting
      PROVE  \/ i \in DOMAIN p /\ Waiting[i] = p[i]
             \/ i - Len(p) \in DOMAIN c /\ Waiting[i] = c[i - Len(p)]
  BY <1>1, <1>2, SMT
<1>6. ASSUME NEW i \in DOMAIN Waiting, NEW j \in DOMAIN Waiting, Waiting[i] = Waiting[j]
      PROVE  i = j
  <2>1. i \in Int /\ j \in Int
    BY <1>1, <1>2, SMT
  <2> QED BY <1>1, <1>3, <1>4, <1>5, <1>6, <2>1, SMT
<1>7. \A i \in DOMAIN Waiting : Waiting[i] < gatewayDb.seqNo
  BY <1>3, <1>5
<1> QED BY <1>3, <1>6, <1>7 DEF c

\* As long as no call ended half way and no deletion undid a save, a command
\* waits once, with the owner or in the gateway's queue, the owner's list is
\* in the order of issue and no number is given again (sendCommandToClient,
\* setOwnerCommandStatus, handleClientCommandAck).
THEOREM OnePlaceHolds == Spec => []OnePlace
BY PlaceInit, PlaceStep, PlaceImplies, CopiesInvHolds, PTL DEF Spec
=============================================================================
