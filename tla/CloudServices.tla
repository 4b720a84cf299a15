--------------------------- MODULE CloudServices ---------------------------
(***************************************************************************)
(* The cloud back-end as a multi-threaded program over a database.         *)
(* Requests of the web front end run on threads of their own; the methods  *)
(* of the gateway service and of the owner service are synchronized, each  *)
(* service on its own monitor, and call each other; a method reads a       *)
(* document, changes its copy and saves the whole document; the process    *)
(* may stop between two saves.  Push notifications run on the task         *)
(* executor; those that fail are collected for a scheduled retry.          *)
(*                                                                         *)
(* One gateway, one client and one owner.  CloudCommands models the same   *)
(* handlers as single actions and with the messages they exchange; here    *)
(* what is published is left out, and the gateway may acknowledge the      *)
(* first command of its queue at any time.  Handlers that change other     *)
(* fields of the document (keep-alive, samples, alias, DONE) read and save *)
(* it in one stay in the monitor, as messageReceived does.                 *)
(***************************************************************************)
EXTENDS Integers, Sequences, FiniteSets

CONSTANTS
  Web,            \* threads that serve web requests
  MaxTasks,       \* tasks the executor holds, running or queued (160 in the code)
  Token,          \* the owner's Firebase token
  MaxCommands,    \* bound: the highest sequence number given
  MaxWaiting,     \* bound: commands waiting when one more is issued
  MaxGateways,    \* bound: documents created for the gateway
  MaxDeletions,   \* bound: requests to delete a client or the gateway
  MaxStops        \* bound: stops of the process

Nobody == "nobody"
Cron == "cron"

ASSUME CloudServicesAssumption ==
  /\ {MaxTasks, MaxCommands, MaxWaiting, MaxGateways} \subseteq Nat \ {0}
  /\ {MaxDeletions, MaxStops} \subseteq Nat
  /\ Web \cap {Nobody, Cron} = {}

VARIABLES
  gatewayDb,      \* the gateway's document
  ownerDb,        \* the owner's document
  monitor,        \* who is inside the synchronized methods of each service
  web,            \* where each web request is, and the copies it works on
  task,           \* the executor's tasks
  retrySet,       \* FirebaseServiceImpl.retrySet
  cron,           \* the retry task: idle, or the tokens it has still to try
  created,        \* documents created so far
  deletions,      \* deletions requested so far
  stops,          \* stops so far
  disturbed,      \* history: did a call end half way, or did a save undo another?
  untried         \* history: tokens put in the retry set and not tried since

vars == <<gatewayDb, ownerDb, monitor, web, task, retrySet, cron,
          created, deletions, stops, disturbed, untried>>

Seqs == 1 .. MaxCommands
Tasks == 1 .. MaxTasks
Services == {"gateway", "owner", "retry"}

\* States of a transmitted command; "none": the client's list has no such command.
States == {"none", "OWNER", "GATEWAY", "CLIENT", "REJECTED"}

-----------------------------------------------------------------------------
(* Documents.  The id is MongoDB's: a gateway added again gets another.    *)
NewGateway(id) ==
  [id |-> id, client |-> FALSE, claimed |-> FALSE,
   seqNo |-> 1, state |-> [n \in Seqs |-> "none"], pending |-> <<>>]

NoGateway == NewGateway(0)

Exists(doc) == doc.id # 0

NewOwner == [commands |-> <<>>, hasToken |-> FALSE]

IdleRequest == [pc |-> "idle", base |-> NoGateway, ownerBase |-> NewOwner,
                seq |-> 1, approved |-> FALSE]

Init ==
  /\ gatewayDb = NewGateway(1)
  /\ ownerDb = NewOwner
  /\ monitor = [s \in Services |-> Nobody]
  /\ web = [w \in Web |-> IdleRequest]
  /\ task = [t \in Tasks |-> "free"]
  /\ retrySet = {}
  /\ cron = [pc |-> "idle", left |-> {}]
  /\ created = 1
  /\ deletions = 0
  /\ stops = 0
  /\ disturbed = FALSE
  /\ untried = {}

Free(s) == monitor[s] = Nobody
Idle(w) == web[w].pc = "idle"
At(w, pc) == web[w].pc = pc
Return(w) == web' = [web EXCEPT ![w] = IdleRequest]

firebaseVars == <<retrySet, cron, untried>>
boundVars == <<created, deletions, stops>>

-----------------------------------------------------------------------------
(* A command is issued: sendCommandToClient and enqueueOwnerCommand.       *)
\* What sendCommandToClient makes of the document it has read.
Issued(doc) ==
  LET n == doc.seqNo
  IN  [doc EXCEPT !.seqNo = n + 1,
                  !.state[n] = IF doc.claimed THEN "OWNER" ELSE "GATEWAY",
                  !.pending = IF doc.claimed THEN @ ELSE Append(@, n)]

CanIssue ==
  /\ Exists(gatewayDb) /\ gatewayDb.client
  /\ gatewayDb.seqNo <= MaxCommands
  /\ Len(gatewayDb.pending) + Len(ownerDb.commands) < MaxWaiting

sendCommandToClient(w) ==
  /\ Idle(w) /\ Free("gateway") /\ CanIssue
  /\ monitor' = [monitor EXCEPT !["gateway"] = w]
  /\ web' = [web EXCEPT ![w] =
               [@ EXCEPT !.pc = IF gatewayDb.claimed THEN "enqueue" ELSE "save",
                         !.base = gatewayDb]]
  /\ UNCHANGED <<gatewayDb, ownerDb, task, firebaseVars, boundVars, disturbed>>

\* Seeded fault: enqueueOwnerCommand is not synchronized.
enqueueOwnerCommandUnlocked(w) ==
  /\ At(w, "enqueue")
  /\ web' = [web EXCEPT ![w] = [@ EXCEPT !.pc = "saveOwner", !.ownerBase = ownerDb]]
  /\ UNCHANGED <<gatewayDb, ownerDb, monitor, task, firebaseVars, boundVars, disturbed>>

\* The call enters the owner service and reads the owner's document.
enqueueOwnerCommand(w) ==
  /\ At(w, "enqueue") /\ Free("owner")
  /\ monitor' = [monitor EXCEPT !["owner"] = w]
  /\ web' = [web EXCEPT ![w] = [@ EXCEPT !.pc = "saveOwner", !.ownerBase = ownerDb]]
  /\ UNCHANGED <<gatewayDb, ownerDb, task, firebaseVars, boundVars, disturbed>>

(***************************************************************************)
(* The owner's document is saved and a notification handed to the          *)
(* executor.  A full executor throws: the exception leaves both services,  *)
(* and the gateway's document is not saved.                                *)
(***************************************************************************)
FreeTasks == {t \in Tasks : task[t] = "free"}

Accepted(w) ==
  /\ IF web[w].ownerBase.hasToken
     THEN \E t \in FreeTasks : task' = [task EXCEPT ![t] = "sending"]
     ELSE UNCHANGED task
  /\ monitor' = [monitor EXCEPT !["owner"] = Nobody]
  /\ web' = [web EXCEPT ![w].pc = "save"]
  /\ UNCHANGED disturbed

Refused(w) ==
  /\ web[w].ownerBase.hasToken /\ FreeTasks = {}
  /\ monitor' = [monitor EXCEPT !["owner"] = Nobody, !["gateway"] = Nobody]
  /\ Return(w)
  /\ disturbed' = TRUE
  /\ UNCHANGED task

saveOwner(w) ==
  /\ At(w, "saveOwner")
  /\ ownerDb' = [web[w].ownerBase EXCEPT !.commands = Append(@, web[w].base.seqNo)]
  /\ (Accepted(w) \/ Refused(w))
  /\ UNCHANGED <<gatewayDb, firebaseVars, boundVars>>

\* The last line of sendCommandToClient.
saveGateway(w) ==
  /\ At(w, "save")
  /\ gatewayDb' = Issued(web[w].base)
  /\ monitor' = [monitor EXCEPT !["gateway"] = Nobody]
  /\ Return(w)
  /\ UNCHANGED <<ownerDb, task, firebaseVars, boundVars, disturbed>>

-----------------------------------------------------------------------------
(* The owner decides: setOwnerCommandStatus.                               *)
\* Only a decision on the first command of the list goes on.
setOwnerCommandStatus(w, seq, approved) ==
  /\ Idle(w) /\ Free("owner")
  /\ ownerDb.commands # <<>> /\ ownerDb.commands[1] = seq
  /\ monitor' = [monitor EXCEPT !["owner"] = w]
  /\ web' = [web EXCEPT ![w] = [@ EXCEPT !.pc = "decide", !.ownerBase = ownerDb,
                                         !.seq = seq, !.approved = approved]]
  /\ UNCHANGED <<gatewayDb, ownerDb, task, firebaseVars, boundVars, disturbed>>

Known(seq) == Exists(gatewayDb) /\ gatewayDb.client /\ gatewayDb.state[seq] # "none"

\* The command joins the queue, whether or not the client's list has it.
sendApprovedCommandToClient(w) ==
  LET seq == web[w].seq
      doc == [gatewayDb EXCEPT !.state[seq] = IF @ = "none" THEN @ ELSE "GATEWAY",
                               !.pending = Append(@, seq)]
  IN  /\ web[w].approved
      /\ Exists(gatewayDb) /\ gatewayDb.client
      /\ gatewayDb' = doc
      /\ web' = [web EXCEPT ![w].pc = "remove"]
      /\ UNCHANGED monitor

\* Seeded fault: the rejection is not saved.
markCommandAsRejectedUnsaved(w) ==
  /\ ~web[w].approved
  /\ Known(web[w].seq)
  /\ web' = [web EXCEPT ![w].pc = "remove"]
  /\ UNCHANGED <<gatewayDb, monitor>>

markCommandAsRejected(w) ==
  /\ ~web[w].approved
  /\ Known(web[w].seq)
  /\ gatewayDb' = [gatewayDb EXCEPT !.state[web[w].seq] = "REJECTED"]
  /\ web' = [web EXCEPT ![w].pc = "remove"]
  /\ UNCHANGED monitor

\* Seeded fault: what the gateway service does not take is offered again.
decisionRefusedRetry(w) ==
  /\ IF web[w].approved THEN ~(Exists(gatewayDb) /\ gatewayDb.client)
                        ELSE ~Known(web[w].seq)
  /\ UNCHANGED <<web, monitor, gatewayDb>>

\* The gateway service answers false: nothing is saved.
decisionRefused(w) ==
  /\ IF web[w].approved THEN ~(Exists(gatewayDb) /\ gatewayDb.client)
                        ELSE ~Known(web[w].seq)
  /\ monitor' = [monitor EXCEPT !["owner"] = Nobody]
  /\ Return(w)
  /\ UNCHANGED gatewayDb

\* The call into the gateway service, which needs its monitor.
decide(w) ==
  /\ At(w, "decide") /\ Free("gateway")
  /\ (sendApprovedCommandToClient(w) \/ markCommandAsRejected(w) \/ decisionRefused(w))
  /\ UNCHANGED <<ownerDb, task, firebaseVars, boundVars, disturbed>>

\* Seeded fault: the decided command stays in the owner's list.
removeOwnerCommandKept(w) ==
  /\ At(w, "remove")
  /\ ownerDb' = web[w].ownerBase
  /\ monitor' = [monitor EXCEPT !["owner"] = Nobody]
  /\ Return(w)
  /\ UNCHANGED <<gatewayDb, task, firebaseVars, boundVars, disturbed>>

removeOwnerCommand(w) ==
  /\ At(w, "remove")
  /\ ownerDb' = [web[w].ownerBase EXCEPT !.commands = Tail(@)]
  /\ monitor' = [monitor EXCEPT !["owner"] = Nobody]
  /\ Return(w)
  /\ UNCHANGED <<gatewayDb, task, firebaseVars, boundVars, disturbed>>

updateFirebaseToken(w) ==
  /\ Idle(w) /\ Free("owner") /\ ~ownerDb.hasToken
  /\ ownerDb' = [ownerDb EXCEPT !.hasToken = TRUE]
  /\ UNCHANGED <<gatewayDb, monitor, web, task, firebaseVars, boundVars, disturbed>>

-----------------------------------------------------------------------------
(* Gateways and clients come and go.  The controller reads the document    *)
(* before it calls the service, outside the monitor.                       *)
readForDeletion(w, what) ==
  /\ Idle(w) /\ Exists(gatewayDb) /\ deletions < MaxDeletions
  /\ deletions' = deletions + 1
  /\ web' = [web EXCEPT ![w] = [@ EXCEPT !.pc = what, !.base = gatewayDb]]
  /\ UNCHANGED <<gatewayDb, ownerDb, monitor, task, firebaseVars, created, stops, disturbed>>

\* The document as it was read, without the client, replaces the one in
\* the database.  The unique identity makes the save fail when the gateway
\* was added again in the meantime.
deleteClient(w) ==
  /\ At(w, "deleteClient") /\ Free("gateway")
  /\ gatewayDb' = IF Exists(gatewayDb) /\ gatewayDb.id # web[w].base.id
                  THEN gatewayDb
                  ELSE [web[w].base EXCEPT !.client = FALSE,
                                           !.state = [n \in Seqs |-> "none"]]
  /\ disturbed' = (disturbed \/ web[w].base # gatewayDb)
  /\ Return(w)
  /\ UNCHANGED <<ownerDb, monitor, task, firebaseVars, boundVars>>

deleteGateway(w) ==
  /\ At(w, "deleteGateway") /\ Free("gateway")
  /\ gatewayDb' = IF gatewayDb.id = web[w].base.id THEN NoGateway ELSE gatewayDb
  /\ disturbed' = TRUE
  /\ Return(w)
  /\ UNCHANGED <<ownerDb, monitor, task, firebaseVars, boundVars>>

addGateway(w) ==
  /\ Idle(w) /\ Free("gateway")
  /\ ~Exists(gatewayDb) /\ created < MaxGateways
  /\ gatewayDb' = NewGateway(created + 1)
  /\ created' = created + 1
  /\ UNCHANGED <<ownerDb, monitor, web, task, firebaseVars, deletions, stops, disturbed>>

-----------------------------------------------------------------------------
(* Messages of the gateway: each is one synchronized call of               *)
(* messageReceived, with one save.                                         *)
handleClientCommandAck(seq) ==
  /\ gatewayDb.pending # <<>> /\ gatewayDb.pending[1] = seq
  /\ gatewayDb.client
  /\ gatewayDb' = [gatewayDb EXCEPT !.pending = Tail(@),
                                    !.state[seq] = IF @ = "none" THEN @ ELSE "CLIENT"]

updateClientCommand ==
  /\ ~gatewayDb.client
  /\ gatewayDb' = [gatewayDb EXCEPT !.client = TRUE]

updateGatewayCommand ==
  /\ ~gatewayDb.claimed
  /\ gatewayDb' = [gatewayDb EXCEPT !.claimed = TRUE]

messageReceived ==
  /\ Free("gateway") /\ Exists(gatewayDb)
  /\ \/ \E seq \in Seqs : handleClientCommandAck(seq)
     \/ updateClientCommand
     \/ updateGatewayCommand
  /\ UNCHANGED <<ownerDb, monitor, web, task, firebaseVars, boundVars, disturbed>>

-----------------------------------------------------------------------------
(* Push notifications: sendPushNotification on the executor, and the       *)
(* retry task.                                                             *)
restVars == <<gatewayDb, ownerDb, web, boundVars, disturbed>>

\* Firebase answers, or does not within its time-out.
sendPushNotification(t) ==
  /\ task[t] = "sending"
  /\ \E outcome \in {"free", "failed"} : task' = [task EXCEPT ![t] = outcome]
  /\ UNCHANGED <<restVars, monitor, firebaseVars>>

addToRetrySet(t) ==
  /\ task[t] = "failed" /\ Free("retry")
  /\ retrySet' = retrySet \cup {Token}
  /\ untried' = untried \cup {Token}
  /\ task' = [task EXCEPT ![t] = "free"]
  /\ UNCHANGED <<restVars, monitor, cron>>

\* Seeded fault: the retry task does not take the lock.
sendRetryNotificationsUnlocked ==
  /\ cron.pc = "idle"
  /\ cron' = [pc |-> "trying", left |-> retrySet]
  /\ UNCHANGED <<restVars, monitor, task, retrySet, untried>>

sendRetryNotifications ==
  /\ cron.pc = "idle" /\ Free("retry")
  /\ monitor' = [monitor EXCEPT !["retry"] = Cron]
  /\ cron' = [pc |-> "trying", left |-> retrySet]
  /\ UNCHANGED <<restVars, task, retrySet, untried>>

\* The call is not through the proxy: it runs here, in the retry task, and
\* a failure adds what the set still holds.
retryOne ==
  /\ cron.pc = "trying"
  /\ \E token \in cron.left :
       /\ cron' = [cron EXCEPT !.left = @ \ {token}]
       /\ untried' = untried \ {token}
  /\ UNCHANGED <<restVars, monitor, task, retrySet>>

clearRetrySet ==
  /\ cron.pc = "trying" /\ cron.left = {}
  /\ retrySet' = {}
  /\ cron' = [pc |-> "idle", left |-> {}]
  /\ monitor' = [monitor EXCEPT !["retry"] = Nobody]
  /\ UNCHANGED <<restVars, task, untried>>

-----------------------------------------------------------------------------
(* The process stops and starts: initGateways waits for the gateway to     *)
(* register, initOwners notifies an owner with commands to decide.         *)
Restart ==
  /\ stops < MaxStops
  /\ stops' = stops + 1
  /\ monitor' = [s \in Services |-> Nobody]
  /\ web' = [w \in Web |-> IdleRequest]
  /\ task' = [t \in Tasks |-> IF t = 1 /\ ownerDb.commands # <<>> /\ ownerDb.hasToken
                              THEN "sending" ELSE "free"]
  /\ retrySet' = {} /\ untried' = {}
  /\ cron' = [pc |-> "idle", left |-> {}]
  /\ disturbed' = (disturbed \/ \E w \in Web : ~Idle(w))
  /\ UNCHANGED <<gatewayDb, ownerDb, created, deletions>>

WebCall(w) ==
  \/ sendCommandToClient(w)
  \/ \E seq \in Seqs, approved \in BOOLEAN : setOwnerCommandStatus(w, seq, approved)
  \/ updateFirebaseToken(w)
  \/ \E what \in {"deleteClient", "deleteGateway"} : readForDeletion(w, what)
  \/ addGateway(w)

WebStep(w) ==
  \/ enqueueOwnerCommand(w)
  \/ saveOwner(w)
  \/ saveGateway(w)
  \/ decide(w)
  \/ removeOwnerCommand(w)
  \/ deleteClient(w)
  \/ deleteGateway(w)

TaskStep(t) == sendPushNotification(t) \/ addToRetrySet(t)
RetryStep == sendRetryNotifications \/ retryOne \/ clearRetrySet

Next ==
  \/ \E w \in Web : WebCall(w) \/ WebStep(w)
  \/ messageReceived
  \/ \E t \in Tasks : TaskStep(t)
  \/ RetryStep
  \/ Restart

Spec == Init /\ [][Next]_vars

\* A thread inside a call goes on when it can, and one that waits for a
\* monitor gets it if it is free again and again.  Nothing is assumed of
\* the notifications: no call waits for them.
FairSpec == Spec /\ \A w \in Web : SF_vars(WebStep(w))

-----------------------------------------------------------------------------
Document == [id : 0 .. MaxGateways, client : BOOLEAN, claimed : BOOLEAN,
             seqNo : 1 .. MaxCommands + 1,
             state : [Seqs -> States], pending : Seq(Seqs)]
OwnerDocument == [commands : Seq(Seqs), hasToken : BOOLEAN]
WebRequest == [pc : {"idle", "enqueue", "saveOwner", "save", "decide", "remove",
                     "deleteClient", "deleteGateway"},
               base : Document, ownerBase : OwnerDocument,
               seq : Seqs, approved : BOOLEAN]

\* The type invariant: in particular a document's next sequence number,
\* which addGateway sets, is at least 1, so that no command gets 0.
TypeOK ==
  /\ gatewayDb \in Document
  /\ ownerDb \in OwnerDocument
  /\ monitor \in [Services -> Web \cup {Nobody, Cron}]
  /\ web \in [Web -> WebRequest]
  /\ task \in [Tasks -> {"free", "sending", "failed"}]
  /\ retrySet \subseteq {Token} /\ untried \subseteq {Token}
  /\ cron \in [pc : {"idle", "trying"}, left : SUBSET {Token}]
  /\ created \in 1 .. MaxGateways /\ deletions \in 0 .. MaxDeletions
  /\ stops \in 0 .. MaxStops /\ disturbed \in BOOLEAN

\* A document that a command or a decision is about to save is still the
\* one in the database it was read from, although the call went through
\* the other service in between (sendCommandToClient, setOwnerCommandStatus):
\* such a save undoes no other.  Deletion, whose controller reads outside
\* the monitor, is left out: it does undo what happened in between.
CopiesCurrent ==
  \A w \in Web :
    /\ web[w].pc \in {"enqueue", "saveOwner", "save"} => web[w].base = gatewayDb
    /\ web[w].pc \in {"saveOwner", "decide", "remove"} => web[w].ownerBase = ownerDb

\* Whatever the database says is waiting for the owner is in the owner's
\* list, also after a stop of the process, a refused notification or a
\* deletion: enqueueOwnerCommand saves the list before sendCommandToClient
\* saves the state, and the decision is saved before the list.
WaitingIsListed ==
  \A seq \in Seqs :
    gatewayDb.state[seq] = "OWNER" => \E i \in DOMAIN ownerDb.commands : ownerDb.commands[i] = seq

\* As long as no call ended half way, no gateway was deleted and no
\* deletion saved an outdated document: between the calls a command waits
\* in one place, with the owner or in the gateway's queue, once, in the
\* order of issue, and its number is not given again.
Waiting == gatewayDb.pending \o ownerDb.commands
Increasing(s) == \A i, j \in DOMAIN s : i < j => s[i] < s[j]
OnePlace ==
  (~disturbed /\ \A w \in Web : web[w].pc \notin {"save", "remove"}) =>
    /\ \A i, j \in DOMAIN Waiting : Waiting[i] = Waiting[j] => i = j
    /\ Increasing(ownerDb.commands)
    /\ \A i \in DOMAIN Waiting : Waiting[i] < gatewayDb.seqNo

\* A token that a failed notification put in the retry set stays there
\* until the retry task has tried it: none is cleared unseen.
FailedIsRetried == untried \subseteq retrySet

\* Two calls hold one monitor each and want the other's.
Embrace ==
  \E v, w \in Web : /\ At(v, "enqueue") /\ monitor["owner"] = w
                    /\ At(w, "decide") /\ monitor["gateway"] = v

\* Every call returns, unless an issued command and a decision meet with
\* the monitors taken in opposite order: the one way to wait for ever.
CallsReturn == \A w \in Web : (~Idle(w)) ~> (Idle(w) \/ Embrace)
=============================================================================
