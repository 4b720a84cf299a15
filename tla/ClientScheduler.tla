--------------------------- MODULE ClientScheduler ---------------------------
(***************************************************************************)
(* The select loop of the client and the three lists it works on: the      *)
(* scheduler's entries, the alarms and the CoAP requests.  All three refer *)
(* to each other by descriptor number, and a number is given out again as  *)
(* soon as it is closed, also while the loop goes through its entries.     *)
(*                                                                         *)
(* A callback with all it calls is one step, a function of the lists and   *)
(* the descriptors.  The client's own callbacks are abstracted to what     *)
(* they do to these: send a request, set an alarm, cancel one.             *)
(***************************************************************************)
EXTENDS Integers, Sequences, FiniteSets, SequencesExt

CONSTANTS
  MaxFd,        \* bound: descriptors of the process, the server's apart
  MaxRequests,  \* bound: requests at a time
  MaxAlarms     \* bound: alarms of the client at a time, those of requests apart

ASSUME ClientSchedulerAssumption == MaxFd \in Nat /\ MaxRequests \in Nat /\ MaxAlarms \in Nat

VARIABLES
  c,     \* the client: see Client
  loop   \* where atlas_sched_loop is

vars == <<c, loop>>

Server == 0
Fds == 1 .. MaxFd

(* k is what the kernel keeps, with the number of times (history) each     *)
(* descriptor was closed in the current pass of the loop.                  *)
Client ==
  [k : [open : SUBSET Fds, readable : SUBSET (Fds \cup {Server}), closed : [Fds -> Nat]],
   sched : Seq([fd : Fds \cup {Server}, cb : {"alarm", "coap", "server"}, dirty : BOOLEAN]),
   alarms : Seq([fd : Fds, use : {"request", "client"}, once : BOOLEAN]),
   reqs : Seq([fd : Fds, alarm : Fds])]

AtSelect == [at |-> "select", pos |-> 0, bits |-> {}]

(* The variables range over their types, and only open descriptors are     *)
(* readable.                                                               *)
TypeOK ==
  /\ c \in Client /\ c.k.readable \subseteq c.k.open \cup {Server}
  /\ loop.at \in {"select", "pass", "read"} /\ loop.bits \subseteq Fds \cup {Server}

-----------------------------------------------------------------------------
(* The kernel gives out the lowest free number.                            *)
Free(s) == Fds \ s.k.open
Lowest(S) == CHOOSE x \in S : \A y \in S : x <= y
Open(k, fds) == [k EXCEPT !.open = @ \cup fds]
Close(k, fd) ==
  [k EXCEPT !.open = @ \ {fd}, !.readable = @ \ {fd}, !.closed[fd] = @ + 1]
Taken(s, fd) == [s EXCEPT !.k.readable = @ \ {fd}]

atlas_sched_add_entry(sched, fd, cb) ==
  Append(sched, [fd |-> fd, cb |-> cb, dirty |-> FALSE])

(* The first entry with the number is marked; the loop frees it.           *)
atlas_sched_del_entry(sched, fd) ==
  LET i == SelectInSeq(sched, LAMBDA e : e.fd = fd)
  IN  IF i = 0 THEN sched ELSE [sched EXCEPT ![i].dirty = TRUE]

(* An alarm is known by its descriptor; there may be none left.            *)
atlas_alarm_set(s, use, once) ==
  LET fd == Lowest(Free(s))
  IN  IF Free(s) = {} THEN s
      ELSE [s EXCEPT !.k = Open(@, {fd}),
                     !.sched = atlas_sched_add_entry(@, fd, "alarm"),
                     !.alarms = Append(@, [fd |-> fd, use |-> use, once |-> once])]

(* Seeded fault: the scheduler's entry is kept.                            *)
atlas_alarm_cancelEntry(s, fd) ==
  IF \A a \in Range(s.alarms) : a.fd # fd THEN s
  ELSE [s EXCEPT !.alarms = SelectSeq(@, LAMBDA a : a.fd # fd), !.k = Close(@, fd)]

atlas_alarm_cancel(s, fd) ==
  IF \A a \in Range(s.alarms) : a.fd # fd THEN s
  ELSE [s EXCEPT !.alarms = SelectSeq(@, LAMBDA a : a.fd # fd),
                 !.sched = atlas_sched_del_entry(@, fd),
                 !.k = Close(@, fd)]

(* add_request: the context's descriptor gets an alarm and an entry.       *)
add_request(s, fd, alarm) ==
  [s EXCEPT !.k = Open(@, {fd, alarm}),
            !.alarms = Append(@, [fd |-> alarm, use |-> "request", once |-> TRUE]),
            !.sched = atlas_sched_add_entry(atlas_sched_add_entry(@, alarm, "alarm"), fd, "coap"),
            !.reqs = Append(@, [fd |-> fd, alarm |-> alarm])]

(* When the context or the alarm is not to be had nothing is left behind.  *)
atlas_coap_client_request(s) ==
  LET fd == Lowest(Free(s))
  IN  IF Cardinality(Free(s)) < 2 THEN s
      ELSE add_request(s, fd, Lowest(Free(s) \ {fd}))

-----------------------------------------------------------------------------
(* What the client's callbacks do, within the bounds.                      *)
ClientAlarms(s) == {a \in Range(s.alarms) : a.use = "client"}
Request(s) == IF Len(s.reqs) < MaxRequests THEN {atlas_coap_client_request(s)} ELSE {}
SetAlarm(s) ==
  IF Cardinality(ClientAlarms(s)) < MaxAlarms
  THEN {atlas_alarm_set(s, "client", once) : once \in BOOLEAN} ELSE {}
CancelOne(s) == {atlas_alarm_cancel(s, a.fd) : a \in ClientAlarms(s)}

(* An alarm of the client sends a request: a keep-alive, a registration, a *)
(* policy, telemetry.                                                      *)
AlarmCallback(s) == {s} \cup Request(s)

(* The callback of a request sets an alarm (reg_callback, policy_callback, *)
(* telemetry_callback), or cancels the keep-alive alarm and registers      *)
(* (keepalive_callback).                                                   *)
ResponseCallback(s) ==
  {s} \cup Request(s) \cup SetAlarm(s) \cup UNION {Request(t) : t \in CancelOne(s)}

(* A command from the gateway or the data plane: an alert is set anew, or  *)
(* a request is passed on.                                                 *)
ServerCallback(s) ==
  {s} \cup Request(s) \cup SetAlarm(s) \cup UNION {SetAlarm(t) : t \in CancelOne(s)}

-----------------------------------------------------------------------------
(* The request r is over: its context is freed and its entry marked.       *)
Released(s, r) ==
  [s EXCEPT !.reqs = SelectSeq(@, LAMBDA q : q # r),
            !.sched = atlas_sched_del_entry(@, r.fd),
            !.k = Close(@, r.fd)]

request_alarm_cb(s, alarm) ==
  LET mine == {r \in Range(s.reqs) : r.alarm = alarm}
  IN  IF mine = {} THEN {s}
      ELSE {Released(t, r) : t \in ResponseCallback(s), r \in mine}

(* The callback runs, and an alarm that runs once is cancelled after it.   *)
Ran(s, a) ==
  {IF a.once THEN atlas_alarm_cancel(t, a.fd) ELSE t :
     t \in IF a.use = "request" THEN request_alarm_cb(s, a.fd) ELSE AlarmCallback(s)}

atlas_alarm_trigger(s, fd) ==
  LET mine == {a \in Range(s.alarms) : a.fd = fd}
  IN  IF mine = {} THEN {s} ELSE UNION {Ran(Taken(s, fd), a) : a \in mine}

(* An answer without the request's token is dropped; another marks the     *)
(* request and calls the client's callback.                                *)
message_handler(s) ==
  {[dirty |-> FALSE, s |-> s]} \cup {[dirty |-> TRUE, s |-> t] : t \in ResponseCallback(s)}

coap_client_sched_callback(s, fd) ==
  LET mine == {r \in Range(s.reqs) : r.fd = fd}
  IN  IF mine = {} \/ fd \notin s.k.readable THEN {s}
      ELSE {IF got.dirty THEN atlas_alarm_cancel(Released(got.s, r), r.alarm) ELSE got.s :
              got \in message_handler(Taken(s, fd)), r \in mine}

Callbacks(s, e) ==
  CASE e.cb = "alarm" -> atlas_alarm_trigger(s, e.fd)
    [] e.cb = "coap" -> coap_client_sched_callback(s, e.fd)
    [] e.cb = "server" -> ServerCallback(Taken(s, e.fd))

-----------------------------------------------------------------------------
(* A number was closed, given out and closed again in this pass.           *)
ClosedTwice == \E fd \in Fds : c.k.closed[fd] > 1

(* atlas_sched_loop.  Dirty entries are freed, and the others watched; on  *)
(* a closed descriptor select fails, and the loop begins again.  Bound: no *)
(* pass is explored after one in which a number was closed twice.          *)
Kept == SelectSeq(c.sched, LAMBDA e : ~e.dirty)
Watched == {e.fd : e \in Range(Kept)}

PassOver(bits) ==
  /\ ~ClosedTwice /\ bits # {}
  /\ c' = [c EXCEPT !.sched = Kept, !.k.closed = [fd \in Fds |-> 0]]
  /\ loop' = [at |-> "pass", pos |-> 1, bits |-> bits]

SelectFails ==
  /\ ~(Watched \subseteq c.k.open \cup {Server})
  /\ c' = [c EXCEPT !.sched = Kept]
  /\ UNCHANGED loop

(* Seeded fault: the highest descriptor is not watched.                    *)
SelectShort ==
  /\ loop.at = "select"
  /\ \/ SelectFails
     \/ /\ Watched \subseteq c.k.open \cup {Server}
        /\ PassOver({fd \in Watched \cap c.k.readable : \E g \in Watched : fd < g})

Select ==
  /\ loop.at = "select"
  /\ \/ SelectFails
     \/ /\ Watched \subseteq c.k.open \cup {Server}
        /\ PassOver(Watched \cap c.k.readable)

(* The entries are gone through from pos on, those appended meanwhile too. *)
Due == {i \in loop.pos .. Len(c.sched) : ~c.sched[i].dirty /\ c.sched[i].fd \in loop.bits}

(* The read of an alarm that has not expired blocks the loop.              *)
Blocks(e) ==
  e.cb = "alarm" /\ e.fd \notin c.k.readable /\ \E a \in Range(c.alarms) : a.fd = e.fd

Serve(i) ==
  /\ c' \in Callbacks(c, c.sched[i])
  /\ loop' = [at |-> "pass", pos |-> i + 1, bits |-> loop.bits \ {c.sched[i].fd}]

Block(i) == loop' = [loop EXCEPT !.at = "read", !.pos = i] /\ UNCHANGED c

Dispatch ==
  /\ loop.at = "pass"
  /\ IF Due = {} THEN loop' = AtSelect /\ UNCHANGED c
                 ELSE LET i == Lowest(Due)
                      IN  IF Blocks(c.sched[i]) THEN Block(i) ELSE Serve(i)

Unblock ==
  /\ loop.at = "read" /\ c.sched[loop.pos].fd \in c.k.readable
  /\ Serve(loop.pos)

Loop == Select \/ Dispatch \/ Unblock

-----------------------------------------------------------------------------
(* A timer expires, an answer arrives, a command comes in.                 *)
BecomesReadable(fd) ==
  /\ fd \in c.k.open \cup {Server} /\ fd \notin c.k.readable
  /\ c' = [c EXCEPT !.k.readable = @ \cup {fd}]
  /\ UNCHANGED loop

Expires(fd) == (\E a \in Range(c.alarms) : a.fd = fd) /\ BecomesReadable(fd)
Arrives(fd) == (fd = Server \/ \E r \in Range(c.reqs) : r.fd = fd) /\ BecomesReadable(fd)

(* The client starts with its server's socket and a registration.          *)
Init ==
  /\ c = atlas_coap_client_request(
           [k |-> [open |-> {}, readable |-> {}, closed |-> [fd \in Fds |-> 0]],
            alarms |-> <<>>, reqs |-> <<>>,
            sched |-> <<[fd |-> Server, cb |-> "server", dirty |-> FALSE]>>])
  /\ loop = AtSelect

Next ==
  \/ Loop
  \/ \E fd \in Fds : Expires(fd) \/ Arrives(fd)
  \/ Arrives(Server)

Spec == Init /\ [][Next]_vars

(* The loop runs and timers expire; no answer or command need come.        *)
FairSpec == Spec /\ WF_vars(Loop) /\ \A fd \in Fds : WF_vars(Expires(fd))

-----------------------------------------------------------------------------
Clean == {i \in DOMAIN c.sched : ~c.sched[i].dirty /\ c.sched[i].fd # Server}

(* The three lists stay in step, though each callback may close numbers    *)
(* the others use and open them for something else: every open descriptor  *)
(* has one entry that is not marked, of the kind that fits it, and is      *)
(* either an alarm or a request whose alarm is set; and no entry is left   *)
(* for a closed one, on which select would fail for ever.  The exception   *)
(* is a number that is closed twice in one pass: then the deletion marks   *)
(* the entry that was marked before.                                       *)
InStep ==
  ~ClosedTwice =>
    LET alarm == {a.fd : a \in Range(c.alarms)}
        req == {r.fd : r \in Range(c.reqs)}
    IN  /\ {c.sched[i].fd : i \in Clean} = c.k.open
        /\ \A i, j \in Clean : c.sched[i].fd = c.sched[j].fd => i = j
        /\ alarm \cup req = c.k.open /\ alarm \cap req = {}
        /\ \A i \in Clean : c.sched[i].cb = IF c.sched[i].fd \in req THEN "coap" ELSE "alarm"
        /\ {a.fd : a \in {b \in Range(c.alarms) : b.use = "request"}}
             = {r.alarm : r \in Range(c.reqs)}

(* A request ends by its answer or its alarm, whatever else is ready and   *)
(* even if a number left over in the pass makes the loop read an alarm     *)
(* that has not expired.                                                   *)
RequestsEnd == \A fd \in Fds : []<>(ClosedTwice \/ \A r \in Range(c.reqs) : r.fd # fd)

(* No descriptor stays readable: what expired or arrived is served.        *)
EventsServed == \A fd \in Fds : []<>(ClosedTwice \/ fd \notin c.k.readable)
=============================================================================
