---------------------------- MODULE FeedbackWindow ----------------------------
(***************************************************************************)
(* The feedback window of a data-plane application: a thread opens it,     *)
(* sleeps, closes it and reports what was heard in between, while the MQTT *)
(* client's thread files the values that arrive.  The two share rep_info.  *)
(* The callback holds rep_info.lock for all it does; the task holds it     *)
(* only around feedback_active.                                            *)
(*                                                                         *)
(* A step is one access to what they share.  Time is counted in seconds    *)
(* since the current query, so the start of an earlier window is negative. *)
(***************************************************************************)
EXTENDS Integers, Sequences, FiniteSets, FiniteSetsExt

CONSTANTS
  Publishers,     \* the identities that publish the feature
  Readings,       \* values they publish, in tenths
  Average,        \* target_value = -1: no target, the average is the target
  TargetValue,    \* target_value, in tenths, where there is one
  QueryRate, WindowSize,
  ATLAS_DATA_PLANE_FEEDBACK_MAX,
  NoOne,          \* an entry nobody has filled
  Undefined,      \* outcomes of converting a negative double to uint16_t
  MaxInbox,       \* bound: values on their way
  MaxFailures     \* bound: writes to the agent that fail in a window

ASSUME FeedbackWindowAssumption ==
  /\ Readings \subseteq Nat /\ TargetValue \in Nat /\ Average \in BOOLEAN
  /\ WindowSize \in Nat \ {0} /\ QueryRate \in Nat /\ WindowSize < QueryRate
  /\ ATLAS_DATA_PLANE_FEEDBACK_MAX \in Nat
  /\ IsFiniteSet(Publishers) /\ Cardinality(Publishers) <= ATLAS_DATA_PLANE_FEEDBACK_MAX
  /\ NoOne \notin Publishers /\ Undefined \subseteq Nat

VARIABLES
  task,             \* where reputation_query_task is
  now,              \* seconds since its last query
  handler,          \* where handle_data is, with the value it files
  feedback_active, feedback_length, window_start,
  feedback,         \* rep_info.sensor_val and rep_info.feedback
  inbox,            \* values the MQTT client has not delivered
  asked,            \* publishers the request for a value is on its way to
  sent,             \* the feedback written to the agent for this window
  failed,           \* writes that failed for it
  heard             \* history: heard[p]: the value of p taken in this window

repInfo == <<feedback_active, feedback_length, window_start, feedback>>
vars == <<task, now, handler, repInfo, inbox, asked, sent, failed, heard>>

Slots == 0 .. ATLAS_DATA_PLANE_FEEDBACK_MAX - 1
Lengths == 0 .. ATLAS_DATA_PLANE_FEEDBACK_MAX
Values == [id : Publishers, val : Readings]
NoEntry == [id |-> NoOne, val |-> 0, sensor |-> 0, time |-> 0]
NotHeard == [val |-> 0, taken |-> FALSE, whole |-> FALSE]
Idle == [at |-> "idle", value |-> [id |-> NoOne, val |-> 0], index |-> 0]

(* The variables range over their types, and a value is filed within the   *)
(* array, which has room for the publishers.  (The code's own guard would  *)
(* let a value in when the array is full.)                                 *)
TypeOK ==
  /\ task \in {"query", "open", "reset", "start", "window", "score", "send", "clear", "sleep"}
  /\ now \in 0 .. QueryRate
  /\ handler.at \in {"idle", "value", "identity", "sensor", "time", "load", "store"}
  /\ handler.index \in Lengths
  /\ handler.at \in {"value", "identity", "sensor", "time"} => feedback_length \in Slots
  /\ feedback_active \in BOOLEAN /\ feedback_length \in Lengths
  /\ window_start \in Int
  /\ \A i \in Slots : feedback[i].id \in Publishers \cup {NoOne}
  /\ inbox \in Seq(Values) /\ asked \subseteq Publishers
  /\ failed \in 0 .. MaxFailures

Init ==
  /\ task = "query" /\ now = 0 /\ handler = Idle
  /\ feedback_active = FALSE /\ feedback_length = 0
  /\ window_start = -QueryRate
  /\ feedback = [i \in Slots |-> NoEntry]
  /\ inbox = <<>> /\ asked = {} /\ sent = {} /\ failed = 0
  /\ heard = [p \in Publishers |-> NotHeard]

-----------------------------------------------------------------------------
(* get_sensor_feedback, for value / parts tenths.                          *)
get_sensor_feedback(value, parts) ==
  LET below(t) == value < t * parts
  IN  CASE below(2) -> 98
        [] below(6) -> 95
        [] below(8) -> 90
        [] below(10) -> 85
        [] below(13) -> 80
        [] below(15) -> 50
        [] below(20) -> 35
        [] below(25) -> 20
        [] below(30) -> 10
        [] OTHER -> 0

Abs(x) == IF x < 0 THEN -x ELSE x

(* The response time score: 100 minus the per cent of the window gone.     *)
TimeScores ==
  LET gone == now - window_start
  IN  IF gone <= WindowSize THEN {(100 * (WindowSize - gone)) \div WindowSize} ELSE Undefined

-----------------------------------------------------------------------------
(* The publishers: a value every publish_rate, and one on request, if the  *)
(* request and the answer are not dropped on their way.                    *)
publish_feature_value(p) ==
  /\ Len(inbox) < MaxInbox
  /\ \E v \in Readings : inbox' = Append(inbox, [id |-> p, val |-> v])

publish_task(p) ==
  /\ publish_feature_value(p)
  /\ UNCHANGED <<task, now, handler, repInfo, asked, sent, failed, heard>>

handle_publish_req(p) ==
  /\ p \in asked /\ asked' = asked \ {p}
  /\ publish_feature_value(p) \/ UNCHANGED inbox
  /\ UNCHANGED <<task, now, handler, repInfo, sent, failed, heard>>

-----------------------------------------------------------------------------
(* handle_data.  Holding the lock, it looks whether the window is active   *)
(* and the identity new, and then files the value at feedback_length,      *)
(* which it reads each time anew.                                          *)
Locked == handler.at # "idle"
(* Seeded fault: the last entry is not looked at.                          *)
FiledButLast(p) == \E i \in 0 .. feedback_length - 2 : feedback[i].id = p
Filed(p) == \E i \in 0 .. feedback_length - 1 : feedback[i].id = p

(* Seeded fault: the value is taken whether the window is open or not.     *)
handle_dataAlways ==
  /\ ~Locked /\ inbox # <<>> /\ inbox' = Tail(inbox)
  /\ LET value == Head(inbox)
     IN  IF Filed(value.id)
         THEN UNCHANGED <<handler, heard>>
         ELSE /\ handler' = [Idle EXCEPT !.at = "value", !.value = value]
              /\ heard' = [heard EXCEPT ![value.id] =
                             [val |-> value.val, taken |-> TRUE, whole |-> task = "window"]]
  /\ UNCHANGED <<task, now, repInfo, asked, sent, failed>>

handle_data ==
  /\ ~Locked /\ inbox # <<>> /\ inbox' = Tail(inbox)
  /\ LET value == Head(inbox)
     IN  IF \/ ~feedback_active \/ Filed(value.id)
            \/ feedback_length > ATLAS_DATA_PLANE_FEEDBACK_MAX
         THEN UNCHANGED <<handler, heard>>
         ELSE /\ handler' = [Idle EXCEPT !.at = "value", !.value = value]
              /\ heard' = [heard EXCEPT ![value.id] =
                             [val |-> value.val, taken |-> TRUE, whole |-> task = "window"]]
  /\ UNCHANGED <<task, now, repInfo, asked, sent, failed>>

Files(from, to, field, x) ==
  /\ handler.at = from /\ handler' = [handler EXCEPT !.at = to]
  /\ feedback' = [feedback EXCEPT ![feedback_length][field] = x]
  /\ UNCHANGED <<task, now, feedback_active, feedback_length, window_start,
                 inbox, asked, sent, failed, heard>>

(* Seeded fault: every value is filed at the first place.                  *)
set_sensor_valFirst ==
  /\ handler.at = "value" /\ handler' = [handler EXCEPT !.at = "identity"]
  /\ feedback' = [feedback EXCEPT ![0].val = handler.value.val]
  /\ UNCHANGED <<task, now, feedback_active, feedback_length, window_start,
                 inbox, asked, sent, failed, heard>>

set_sensor_val == Files("value", "identity", "val", handler.value.val)
set_identity == Files("identity", "sensor", "id", handler.value.id)
set_sensor_score ==
  Files("sensor", "time", "sensor",
        IF Average THEN feedback[feedback_length].sensor
                   ELSE get_sensor_feedback(Abs(handler.value.val - TargetValue), 1))
set_time_score == \E score \in TimeScores : Files("time", "load", "time", score)

(* feedback_length++, and the lock is released.                            *)
load_length ==
  /\ handler.at = "load"
  /\ handler' = [handler EXCEPT !.at = "store", !.index = feedback_length]
  /\ UNCHANGED <<task, now, repInfo, inbox, asked, sent, failed, heard>>

store_length ==
  /\ handler.at = "store"
  /\ feedback_length' = handler.index + 1
  /\ handler' = Idle
  /\ UNCHANGED <<task, now, feedback_active, window_start, feedback,
                 inbox, asked, sent, failed, heard>>

-----------------------------------------------------------------------------
(* reputation_query_task.                                                  *)
TaskGoes(from, to) == task = from /\ task' = to

(* A new query: the publishers are asked.  Times are counted from here.    *)
request_reputation_val ==
  /\ TaskGoes("query", "open")
  /\ now' = 0 /\ window_start' = window_start - now
  /\ asked' = Publishers
  /\ UNCHANGED <<handler, feedback_active, feedback_length, feedback, inbox, sent, failed, heard>>

open_window ==
  /\ TaskGoes("open", "reset")
  /\ ~Locked /\ feedback_active' = TRUE
  /\ UNCHANGED <<now, handler, feedback_length, window_start, feedback,
                 inbox, asked, sent, failed, heard>>

reset_length ==
  /\ TaskGoes("reset", "start")
  /\ feedback_length' = 0
  /\ UNCHANGED <<now, handler, feedback_active, window_start, feedback,
                 inbox, asked, sent, failed, heard>>

set_window_start ==
  /\ TaskGoes("start", "window")
  /\ window_start' = now
  /\ UNCHANGED <<now, handler, feedback_active, feedback_length, feedback,
                 inbox, asked, sent, failed, heard>>

close_window ==
  /\ TaskGoes("window", "score") /\ now - window_start = WindowSize
  /\ ~Locked /\ feedback_active' = FALSE
  /\ UNCHANGED <<now, handler, feedback_length, window_start, feedback,
                 inbox, asked, sent, failed, heard>>

(* Seeded fault: a value is compared with the average up to itself.        *)
score_valuesRunning ==
  /\ TaskGoes("score", "send")
  /\ LET total(i) == MapThenSumSet(LAMBDA j : feedback[j].val, 0 .. i)
         score(i) == get_sensor_feedback(Abs(feedback[i].val * (i + 1) - total(i)), i + 1)
     IN  feedback' = [i \in Slots |-> IF i < feedback_length THEN [feedback[i] EXCEPT !.sensor = score(i)]
                                                              ELSE feedback[i]]
  /\ UNCHANGED <<now, handler, feedback_active, feedback_length, window_start,
                 inbox, asked, sent, failed, heard>>

(* Without a target every value is compared with the average of all.       *)
score_values ==
  /\ TaskGoes("score", "send")
  /\ LET filed == 0 .. feedback_length - 1
         total == MapThenSumSet(LAMBDA i : feedback[i].val, filed)
         score(i) == get_sensor_feedback(Abs(feedback[i].val * feedback_length - total), feedback_length)
     IN  feedback' = IF Average
                     THEN [i \in Slots |-> IF i \in filed THEN [feedback[i] EXCEPT !.sensor = score(i)]
                                                            ELSE feedback[i]]
                     ELSE feedback
  /\ UNCHANGED <<now, handler, feedback_active, feedback_length, window_start,
                 inbox, asked, sent, failed, heard>>

(* atlas_reputation_feedback: a score above a hundred ends the loop; a     *)
(* write that fails does not.                                              *)
atlas_reputation_feedback ==
  /\ TaskGoes("send", "clear")
  /\ LET valid(i) == feedback[i].sensor <= 100 /\ feedback[i].time <= 100
         tried == {i \in 0 .. feedback_length - 1 : \A j \in 0 .. i : valid(j)}
     IN  \E lost \in SUBSET tried :
           /\ Cardinality(lost) <= MaxFailures /\ failed' = Cardinality(lost)
           /\ sent' = {feedback[i] : i \in tried \ lost}
  /\ UNCHANGED <<now, handler, repInfo, inbox, asked, heard>>

(* The window is over, and with it what is remembered of it.  The code     *)
(* leaves the entries in the array, but what is at or above the length is  *)
(* never read, and below it nothing an earlier window wrote: blanking them *)
(* here only saves states.                                                 *)
clear_length ==
  /\ TaskGoes("clear", "sleep")
  /\ feedback_length' = 0
  /\ sent' = {} /\ failed' = 0 /\ heard' = [p \in Publishers |-> NotHeard]
  /\ feedback' = [i \in Slots |-> NoEntry]
  /\ UNCHANGED <<now, handler, feedback_active, window_start, inbox, asked>>

wake ==
  /\ TaskGoes("sleep", "query") /\ now = QueryRate
  /\ UNCHANGED <<now, handler, repInfo, inbox, asked, sent, failed, heard>>

(* A second passes while the task sleeps; the task is never late by as     *)
(* much as a hundredth of the window.                                      *)
Tick ==
  /\ \/ task = "window" /\ now - window_start < WindowSize
     \/ task = "sleep" /\ now < QueryRate
  /\ now' = now + 1
  /\ UNCHANGED <<task, handler, repInfo, inbox, asked, sent, failed, heard>>

-----------------------------------------------------------------------------
Task ==
  \/ request_reputation_val \/ open_window \/ reset_length \/ set_window_start \/ close_window
  \/ score_values \/ atlas_reputation_feedback \/ clear_length \/ wake
Callback ==
  \/ handle_data \/ set_sensor_val \/ set_identity \/ set_sensor_score \/ set_time_score
  \/ load_length \/ store_length

Next ==
  \/ Task \/ Callback \/ Tick
  \/ \E p \in Publishers : publish_task(p) \/ handle_publish_req(p)

Spec == Init /\ [][Next]_vars

(* The threads are scheduled and seconds pass; nothing is assumed of the   *)
(* publishers.                                                             *)
FairSpec == Spec /\ WF_vars(Task) /\ WF_vars(Callback) /\ WF_vars(Tick)

-----------------------------------------------------------------------------
Taken == {p \in Publishers : heard[p].taken}
Whole == {p \in Publishers : heard[p].whole}

(* "keep only the first entry" (atlas_data_plane.c:260): no identity has   *)
(* two entries, whatever the callback thread and the reset of the length   *)
(* did to each other.                                                      *)
OneEntryEach ==
  \A i, j \in 0 .. feedback_length - 1 : feedback[i].id = feedback[j].id => i = j

(* A value whose handling began after the window's start is in the report  *)
(* with the value that was published and a response time score within      *)
(* range: the race at the start of the window reaches no later value.      *)
WholeIsFiled ==
  task \in {"score", "send", "clear"} =>
    \A p \in Whole : \E i \in 0 .. feedback_length - 1 :
      /\ feedback[i].id = p /\ feedback[i].val = heard[p].val
      /\ feedback[i].time \in 0 .. 100

(* When no value was handled while the window was being opened and every   *)
(* write succeeded, the agent is sent feedback for exactly the devices     *)
(* heard, each scored against the average of what they published.          *)
ReportExact ==
  task = "clear" /\ Taken = Whole /\ failed = 0 =>
    LET n == Cardinality(Taken)
        total == MapThenSumSet(LAMBDA p : heard[p].val, Taken)
        off(p) == IF Average THEN Abs(heard[p].val * n - total) ELSE n * Abs(heard[p].val - TargetValue)
    IN  {<<e.id, e.sensor>> : e \in sent} = {<<p, get_sensor_feedback(off(p), n)>> : p \in Taken}

(* The report is worked on without the lock: between the closing of the    *)
(* window and the reset of the length no step of the callback thread       *)
(* changes an entry or the length.                                         *)
ReportSettled ==
  [][(task \in {"score", "send", "clear"} /\ task' = task)
       => UNCHANGED <<feedback, feedback_length>>]_vars

(* Every query is followed by another: the window is closed and the report *)
(* sent however many values arrive and whoever holds the lock.             *)
QueriesGoOn == []<>(task = "query")

(* "it will deliver feedback for all the publisher devices"                *)
(* (src/atlas_client/README.md:55): every device whose value the           *)
(* application took in a window is sent feedback, unless a write fails.    *)
FeedbackForAll == task = "clear" /\ failed = 0 => Taken \subseteq {e.id : e \in sent}
=============================================================================
