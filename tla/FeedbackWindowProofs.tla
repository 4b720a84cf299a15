------------------------ MODULE FeedbackWindowProofs ------------------------
(***************************************************************************)
(* Proofs about FeedbackWindow, for any publishers, readings and periods:  *)
(* values are filed within the array and one for an identity, the report   *)
(* is not changed while it is worked on, and what was heard in the window  *)
(* is in it.                                                               *)
(*                                                                         *)
(* The lock settles less than it seems to: the reset of the length can     *)
(* fall between any two steps of the callback.  FileInv says what is in    *)
(* the array at each of them, whichever length it was filed under.         *)
(***************************************************************************)
EXTENDS FeedbackWindow, FiniteSetTheorems, TLAPS

\* Zenon proves what no pragma is cited for; arithmetic and sequences are for SMT.
USE Zenon

Entry == [id : Publishers \cup {NoOne}, val : Nat, sensor : Nat, time : Nat]

\* The first n entries are of n publishers.
Distinct(n) ==
  /\ \A i \in 0 .. n - 1 : feedback[i].id \in Publishers
  /\ \A i, j \in 0 .. n - 1 : feedback[i].id = feedback[j].id => i = j

Opened == {"reset", "start", "window"}
Filing == {"value", "identity", "sensor", "time", "load"}

FileTypes ==
  /\ handler \in [at : {"idle", "store"} \cup Filing,
                  value : [id : Publishers \cup {NoOne}, val : Nat], index : Int]
  /\ feedback \in [Slots -> Entry] /\ feedback_length \in Lengths
  /\ inbox \in Seq(Values)

Clocks == now \in Int /\ window_start \in Int

\* The inductive invariant behind OneEntryEach and ReportSettled.
FileInv ==
  /\ FileTypes
  /\ feedback_active <=> task \in Opened
  /\ Locked => handler.value \in Values /\ task \in Opened
  /\ handler.at \in Filing => feedback_length \in Slots
  /\ handler.at \in {"idle", "value", "identity"} => Distinct(feedback_length)
  /\ handler.at \in {"value", "identity"} => ~Filed(handler.value.id)
  /\ handler.at \in {"sensor", "time", "load"} => Distinct(feedback_length + 1)
  /\ handler.at = "store" =>
       /\ handler.index \in Slots /\ feedback_length <= handler.index
       /\ Distinct(handler.index + 1)

\* The value of p is in the report.
FiledWell(p) ==
  \E i \in 0 .. feedback_length - 1 :
    feedback[i].id = p /\ feedback[i].val = heard[p].val /\ feedback[i].time \in 0 .. 100

\* The callback files a value that it took after the window's start.
FilingWhole == Locked /\ heard[handler.value.id].whole

\* The inductive invariant behind WholeIsFiled: a value taken after the
\* window's start is filed under one length, and one taken before it ends
\* before the first of those.
WholeInv ==
  /\ task = "window" => now - window_start \in 0 .. WindowSize
  /\ heard \in [Publishers -> [val : Nat, taken : BOOLEAN, whole : BOOLEAN]]
  /\ task \notin {"window", "score", "send", "clear"} => Whole = {}
  /\ Locked /\ ~FilingWhole => Whole = {}
  /\ \A p \in Whole : (Locked /\ handler.value.id = p) \/ FiledWell(p)
  /\ FilingWhole =>
       /\ task = "window" /\ heard[handler.value.id].val = handler.value.val
       /\ handler.at \in {"identity", "sensor", "time", "load", "store"} =>
            feedback[feedback_length].val = handler.value.val
       /\ handler.at \in {"sensor", "time", "load", "store"} =>
            feedback[feedback_length].id = handler.value.id
       /\ handler.at \in {"load", "store"} => feedback[feedback_length].time \in 0 .. 100
       /\ handler.at = "store" => handler.index = feedback_length

-----------------------------------------------------------------------------
(* The array.                                                              *)

\* A prefix of distinct entries is distinct.
LEMMA DistinctPrefix ==
  ASSUME NEW n \in Int, NEW m \in Int, m <= n, Distinct(n)
  PROVE  Distinct(m)
<1>1. \A i \in 0 .. m - 1 : i \in 0 .. n - 1
  BY SMT
<1> QED BY <1>1 DEF Distinct

\* Entries that keep their identities stay distinct.
LEMMA DistinctKept ==
  ASSUME NEW n \in Int, Distinct(n), \A i \in 0 .. n - 1 : feedback'[i].id = feedback[i].id
  PROVE  /\ \A i \in 0 .. n - 1 : feedback'[i].id \in Publishers
         /\ \A i, j \in 0 .. n - 1 : feedback'[i].id = feedback'[j].id => i = j
BY DEF Distinct

\* The array has room for every publisher: when a publisher is not filed,
\* there is a place left (atlas_data_plane.c's guard alone would allow one
\* more than there are).
LEMMA RoomLeft ==
  ASSUME FileTypes, Distinct(feedback_length), NEW p \in Publishers, ~Filed(p)
  PROVE  feedback_length \in Slots
<1> DEFINE n == feedback_length
           f == [i \in 0 .. n |-> IF i = n THEN p ELSE feedback[i].id]
<1>1. n \in Nat /\ n <= ATLAS_DATA_PLANE_FEEDBACK_MAX /\ ATLAS_DATA_PLANE_FEEDBACK_MAX \in Nat
  BY FeedbackWindowAssumption, SMT DEF FileTypes, Lengths
<1>2. f \in Injection(0 .. n, Publishers)
  <2>1. f \in [0 .. n -> Publishers]
    BY <1>1, SMT DEF Distinct
  <2>2. \A i, j \in 0 .. n : f[i] = f[j] => i = j
    BY <1>1, SMT DEF Distinct, Filed
  <2> QED BY <2>1, <2>2 DEF Injection, IsInjective
<1>3. IsFiniteSet(Publishers) /\ Cardinality(Publishers) <= ATLAS_DATA_PLANE_FEEDBACK_MAX
  BY FeedbackWindowAssumption
<1>4. Cardinality(0 .. n) <= Cardinality(Publishers)
  BY <1>2, <1>3, FS_Injection
<1>5. Cardinality(0 .. n) = n + 1
  BY <1>1, FS_Interval, SMT
<1>6. Cardinality(Publishers) \in Nat
  BY <1>3, FS_CardinalityType
<1> QED BY <1>1, <1>3, <1>4, <1>5, <1>6, SMT DEF Slots

\* What a step of the callback that files a part of the value changes.
LEMMA FilesEffect ==
  ASSUME FileTypes, feedback_length \in Slots, NEW from, NEW to,
         NEW field \in {"id", "val", "sensor", "time"}, NEW x, Files(from, to, field, x),
         field = "id" => x \in Publishers, field # "id" => x \in Nat
  PROVE  /\ feedback' \in [Slots -> Entry]
         /\ \A i \in Slots : i # feedback_length => feedback'[i] = feedback[i]
         /\ feedback'[feedback_length][field] = x
         /\ \A g \in {"id", "val", "sensor", "time"} \ {field} :
              feedback'[feedback_length][g] = feedback[feedback_length][g]
<1> DEFINE L == feedback_length
           e == [feedback[L] EXCEPT ![field] = x]
<1>1. feedback' = [feedback EXCEPT ![L] = e]
  BY DEF Files
<1>2. feedback[L] \in Entry
  BY DEF FileTypes
<1>3. e \in Entry
  BY <1>2 DEF Entry
<1>4. /\ e[field] = x
      /\ \A g \in {"id", "val", "sensor", "time"} \ {field} : e[g] = feedback[L][g]
  BY <1>2 DEF Entry
<1> HIDE DEF e
<1> QED BY <1>1, <1>3, <1>4 DEF FileTypes

-----------------------------------------------------------------------------
(* The array at each step.                                                 *)

\* A step that leaves the array and the callback alone.
LEMMA FileKept ==
  ASSUME FileInv, UNCHANGED <<handler, feedback, feedback_length>>, inbox' \in Seq(Values),
         feedback_active' <=> task' \in Opened, Locked => task' \in Opened
  PROVE  FileInv'
<1>1. \A n : Distinct(n)' = Distinct(n)
  BY DEF Distinct
<1>2. \A p : Filed(p)' = Filed(p)
  BY DEF Filed
<1>3. FileTypes' /\ Locked' = Locked
  BY DEF FileInv, FileTypes, Locked
<1> QED BY <1>1, <1>2, <1>3 DEF FileInv

\* The callback begins: the identity is not filed, so there is a place.
LEMMA FileBegins ==
  ASSUME FileInv, handle_data
  PROVE  FileInv'
<1>1. inbox \in Seq(Values) /\ inbox # <<>> /\ inbox' = Tail(inbox)
  BY DEF handle_data, FileInv, FileTypes
<1>2. Head(inbox) \in Values /\ inbox' \in Seq(Values)
  BY <1>1, SMT
<1>3. UNCHANGED <<task, feedback, feedback_active, feedback_length>> /\ handler.at = "idle"
  BY DEF handle_data, repInfo, Locked
<1>4. CASE UNCHANGED handler
  BY <1>2, <1>3, <1>4, FileKept DEF FileInv
<1>5. CASE /\ feedback_active /\ ~Filed(Head(inbox).id)
           /\ handler' = [Idle EXCEPT !.at = "value", !.value = Head(inbox)]
  <2>1. handler' = [at |-> "value", value |-> Head(inbox), index |-> 0]
    BY <1>5 DEF Idle
  <2>2. Head(inbox).id \in Publishers /\ Head(inbox).val \in Nat
        /\ Head(inbox) \in [id : Publishers \cup {NoOne}, val : Nat]
    BY <1>2, FeedbackWindowAssumption DEF Values
  <2>3. Distinct(feedback_length)' /\ ~Filed(handler.value.id)'
    BY <1>3, <1>5, <2>1 DEF FileInv, Distinct, Filed
  <2>4. feedback_length \in Slots
    BY <1>3, <1>5, <2>2, RoomLeft DEF FileInv
  <2>5. FileTypes'
    BY <1>2, <1>3, <2>1, <2>2, SMT DEF FileInv, FileTypes, Filing
  <2>6. task \in Opened
    BY <1>5 DEF FileInv
  <2> QED BY <1>2, <1>3, <2>1, <2>3, <2>4, <2>5, <2>6 DEF FileInv, Filing, Locked
<1> QED BY <1>4, <1>5 DEF handle_data

\* A score is a number.
LEMMA ScoreType ==
  ASSUME NEW v, NEW parts
  PROVE  get_sensor_feedback(v, parts) \in Nat
BY DEF get_sensor_feedback

\* The response time score is a number, and one within range while the window
\* is open.
LEMMA TimeScoreType ==
  ASSUME now \in Int, window_start \in Int
  PROVE  /\ now - window_start \in Int
         /\ TimeScores \subseteq Nat
         /\ now - window_start \in 0 .. WindowSize => TimeScores \subseteq 0 .. 100
<1> DEFINE gone == now - window_start
<1>1. WindowSize \in Nat \ {0} /\ gone \in Int
  BY FeedbackWindowAssumption, SMT
<1>2. CASE gone <= WindowSize
  <2> DEFINE x == 100 * (WindowSize - gone)
  <2>1. x \in Nat /\ (gone >= 0 => x <= 100 * WindowSize)
    BY <1>1, <1>2, SMT
  <2>2. x \div WindowSize \in Nat
    BY <1>1, <2>1, SMT
  <2>3. gone >= 0 => x \div WindowSize <= 100
    BY <1>1, <2>1, <2>2, SMT
  <2>4. TimeScores = {x \div WindowSize}
    BY <1>2 DEF TimeScores
  <2> QED BY <1>1, <2>2, <2>3, <2>4, SMT
<1>3. CASE ~(gone <= WindowSize)
  <2>1. TimeScores = Undefined
    BY <1>3 DEF TimeScores
  <2> QED BY <1>1, <1>3, <2>1, FeedbackWindowAssumption, SMT
<1> QED BY <1>1, <1>2, <1>3

\* The value and the two scores leave the identities alone; the identity is
\* filed behind those that are there.
LEMMA FileFiles ==
  ASSUME FileInv, Clocks,
         set_sensor_val \/ set_identity \/ set_sensor_score \/ set_time_score
  PROVE  FileInv'
<1> DEFINE L == feedback_length
<1>0. /\ UNCHANGED <<task, feedback_active, feedback_length, inbox>>
      /\ handler' = [handler EXCEPT !.at = handler'.at]
  BY DEF set_sensor_val, set_identity, set_sensor_score, set_time_score, Files, FileInv, FileTypes
<1>1. L \in Slots /\ L \in Nat /\ FileTypes
  BY SMT DEF set_sensor_val, set_identity, set_sensor_score, set_time_score, Files, FileInv, Filing, Slots
<1>2. handler.at # "idle" /\ handler.value \in Values /\ task \in Opened
  BY DEF set_sensor_val, set_identity, set_sensor_score, set_time_score, Files, FileInv, Locked
<1>3. handler.value.id \in Publishers /\ handler.value.val \in Nat
  BY <1>2, FeedbackWindowAssumption DEF Values
<1>t. ASSUME handler'.at \in Filing, feedback' \in [Slots -> Entry] PROVE FileTypes'
  BY <1>0, <1>1, <1>t DEF FileTypes
<1>4. \A i \in 0 .. L - 1 : i \in Slots /\ i # L
  BY <1>1, FeedbackWindowAssumption, SMT DEF Slots
<1>5. CASE set_sensor_val
  <2>1. /\ feedback' \in [Slots -> Entry] /\ \A i \in Slots : i # L => feedback'[i] = feedback[i]
    BY <1>1, <1>3, <1>5, FilesEffect DEF set_sensor_val
  <2>2. handler.at = "value" /\ handler'.at = "identity" /\ handler'.value = handler.value
    BY <1>1, <1>5 DEF set_sensor_val, Files, FileTypes
  <2>3. \A i \in 0 .. L - 1 : feedback'[i].id = feedback[i].id
    BY <1>4, <2>1
  <2>4. Distinct(L)' /\ ~Filed(handler.value.id)'
    BY <1>0, <2>2, <2>3, SMT DEF FileInv, Distinct, Filed
  <2> QED BY <1>0, <1>1, <1>2, <1>t, <2>1, <2>2, <2>4 DEF FileInv, Filing, Locked
<1>6. CASE set_identity
  <2>1. /\ feedback' \in [Slots -> Entry] /\ \A i \in Slots : i # L => feedback'[i] = feedback[i]
        /\ feedback'[L].id = handler.value.id
    <3>1. Files("identity", "sensor", "id", handler.value.id)
      BY <1>6 DEF set_identity
    <3>2. /\ feedback' \in [Slots -> Entry]
          /\ \A i \in Slots : i # L => feedback'[i] = feedback[i]
      BY <1>1, <1>3, <3>1, FilesEffect
    <3>3. feedback' = [feedback EXCEPT ![L].id = handler.value.id]
      BY <3>1 DEF Files
    <3>4. feedback'[L].id = handler.value.id
      BY <1>1, <3>3 DEF FileTypes, Entry
    <3> QED BY <3>2, <3>4
  <2>2. handler.at = "identity" /\ handler'.at = "sensor" /\ handler'.value = handler.value
    BY <1>1, <1>6 DEF set_identity, Files, FileTypes
  <2>3. \A i \in 0 .. L - 1 : feedback'[i].id = feedback[i].id
    BY <1>4, <2>1
  <2>4. Distinct(L) /\ \A i \in 0 .. L - 1 : feedback[i].id # handler.value.id
    BY <2>2 DEF FileInv, Filed
  <2>5. \A i \in 0 .. (L + 1) - 1 : i \in 0 .. L - 1 \/ i = L
    BY <1>1, SMT
  <2>6. Distinct(L + 1)'
    BY <1>0, <1>3, <2>1, <2>3, <2>4, <2>5, SMT DEF Distinct
  <2> QED BY <1>0, <1>1, <1>2, <1>t, <2>1, <2>2, <2>6 DEF FileInv, Filing, Locked
<1>7. CASE set_sensor_score \/ set_time_score
  <2>1. \A x : Files("time", "load", "time", x) /\ x \in Nat =>
          /\ feedback' \in [Slots -> Entry]
          /\ \A i \in Slots : i # L => feedback'[i] = feedback[i]
          /\ feedback'[L].id = feedback[L].id
    BY <1>1, FilesEffect
  <2>2. \A x : Files("sensor", "time", "sensor", x) /\ x \in Nat =>
          /\ feedback' \in [Slots -> Entry]
          /\ \A i \in Slots : i # L => feedback'[i] = feedback[i]
          /\ feedback'[L].id = feedback[L].id
    BY <1>1, FilesEffect
  <2>3. feedback[L].sensor \in Nat /\ TimeScores \subseteq Nat
    BY <1>1, TimeScoreType DEF FileTypes, Entry, Clocks
  <2>4. /\ feedback' \in [Slots -> Entry]
        /\ \A i \in Slots : i # L => feedback'[i] = feedback[i]
        /\ feedback'[L].id = feedback[L].id
    BY <1>7, <2>1, <2>2, <2>3, ScoreType DEF set_sensor_score, set_time_score
  <2>5. /\ handler.at \in {"sensor", "time"} /\ handler'.at \in {"time", "load"}
        /\ handler'.value = handler.value
    BY <1>1, <1>7 DEF set_sensor_score, set_time_score, Files, FileTypes
  <2>6. \A i \in 0 .. (L + 1) - 1 : feedback'[i].id = feedback[i].id
    <3>1. \A i \in 0 .. (L + 1) - 1 : i \in Slots
      BY <1>1, FeedbackWindowAssumption, SMT DEF Slots
    <3> QED BY <2>4, <3>1
  <2>7. Distinct(L + 1)'
    BY <1>0, <2>5, <2>6, SMT DEF FileInv, Distinct
  <2> QED BY <1>0, <1>1, <1>2, <1>t, <2>4, <2>5, <2>7 DEF FileInv, Filing, Locked
<1> QED BY <1>5, <1>6, <1>7

\* The length is read and written in two steps; the reset may fall between.
LEMMA FileLength ==
  ASSUME FileInv, load_length \/ store_length
  PROVE  FileInv'
<1>0. /\ FileTypes /\ feedback_length \in Nat /\ handler.value \in Values /\ task \in Opened
      /\ ATLAS_DATA_PLANE_FEEDBACK_MAX \in Nat
  BY FeedbackWindowAssumption, SMT DEF load_length, store_length, FileInv, FileTypes, Lengths, Locked
<1>1. CASE load_length
  <2>1. /\ handler'.at = "store" /\ handler'.index = feedback_length
        /\ handler'.value = handler.value /\ handler.at = "load"
        /\ UNCHANGED <<task, feedback_active, feedback_length, feedback, inbox>>
    BY <1>0, <1>1 DEF load_length, FileTypes, repInfo
  <2>2. FileTypes'
    <3>1. handler' = [at |-> "store", value |-> handler.value, index |-> feedback_length]
      BY <1>0, <1>1 DEF FileTypes, load_length
    <3> QED BY <1>0, <2>1, <3>1, SMT DEF FileTypes
  <2>3. feedback_length \in Slots /\ Distinct(feedback_length + 1)'
    BY <2>1, SMT DEF FileInv, Filing, Distinct
  <2> QED BY <1>0, <2>1, <2>2, <2>3, SMT DEF FileInv, Filing, Locked
<1>2. CASE store_length
  <2>1. /\ handler' = Idle /\ feedback_length' = handler.index + 1 /\ handler.at = "store"
        /\ UNCHANGED <<task, feedback_active, feedback, inbox>>
    BY <1>2 DEF store_length
  <2>2. /\ handler.index \in Slots /\ Distinct(handler.index + 1)
    BY <2>1 DEF FileInv
  <2>3. feedback_length' \in Lengths /\ Distinct(feedback_length)'
    BY <1>0, <2>1, <2>2, SMT DEF Slots, Lengths, Distinct
  <2>4. FileTypes'
    BY <1>0, <2>1, <2>3, SMT DEF FileTypes, Idle
  <2> QED BY <2>1, <2>3, <2>4 DEF FileInv, Filing, Locked, Idle
<1> QED BY <1>1, <1>2

\* reputation_query_task: the window opens and closes when the callback is
\* outside, the length is reset wherever it is.
LEMMA FileTask ==
  ASSUME FileInv, Task
  PROVE  FileInv'
<1>0. FileTypes /\ inbox \in Seq(Values)
  BY DEF FileInv, FileTypes
<1>1. CASE request_reputation_val \/ set_window_start \/ atlas_reputation_feedback \/ wake
  <2>1. UNCHANGED <<handler, feedback, feedback_length, feedback_active, inbox>>
    BY <1>1 DEF request_reputation_val, set_window_start, atlas_reputation_feedback, wake, repInfo
  <2>2. task' \in Opened <=> task \in Opened
    BY <1>1 DEF request_reputation_val, set_window_start, atlas_reputation_feedback, wake,
                TaskGoes, Opened
  <2> QED BY <1>0, <2>1, <2>2, FileKept DEF FileInv
<1>2. CASE open_window \/ close_window
  <2>1. UNCHANGED <<handler, feedback, feedback_length, inbox>> /\ ~Locked
    BY <1>2 DEF open_window, close_window
  <2>2. feedback_active' <=> task' \in Opened
    BY <1>2 DEF open_window, close_window, TaskGoes, Opened
  <2> QED BY <1>0, <2>1, <2>2, FileKept
<1>3. CASE reset_length
  <2>1. /\ UNCHANGED <<handler, feedback, feedback_active, inbox>> /\ feedback_length' = 0
        /\ task \in Opened /\ task' \in Opened
    BY <1>3 DEF reset_length, TaskGoes, Opened
  <2>2. /\ feedback_length \in Nat /\ 0 \in Lengths
        /\ feedback_length \in Slots => 0 \in Slots
    BY <1>0, FeedbackWindowAssumption, SMT DEF FileTypes, Lengths, Slots
  <2>3. FileTypes'
    BY <1>0, <2>1, <2>2 DEF FileTypes
  <2>4. Distinct(0)' /\ \A p : ~Filed(p)'
    BY <2>1, SMT DEF Distinct, Filed
  <2>5. Distinct(feedback_length + 1) => Distinct(0 + 1)'
    <3>1. Distinct(feedback_length + 1) => Distinct(1)
      BY <2>2, DistinctPrefix, SMT
    <3> QED BY <2>1, <3>1, SMT DEF Distinct
  <2>6. \A n : Distinct(n)' = Distinct(n)
    BY <2>1 DEF Distinct
  <2>7. handler.at = "store" => 0 <= handler.index
    BY <2>2, SMT DEF FileInv, Slots
  <2> QED BY <2>1, <2>2, <2>3, <2>4, <2>5, <2>6, <2>7 DEF FileInv, Locked, Filing
<1>4. CASE score_values
  <2>1. /\ UNCHANGED <<handler, feedback_length, feedback_active, inbox>>
        /\ task \notin Opened /\ task' \notin Opened
    BY <1>4 DEF score_values, TaskGoes, Opened
  <2>2. feedback' \in [Slots -> Entry] /\ \A i \in Slots : feedback'[i].id = feedback[i].id
    <3>1. \A i \in Slots : \A v, n : [feedback[i] EXCEPT !.sensor = get_sensor_feedback(v, n)] \in Entry
      BY <1>0, ScoreType DEF FileTypes, Entry
    <3>2. \A i \in Slots : \A v, n :
            [feedback[i] EXCEPT !.sensor = get_sensor_feedback(v, n)].id = feedback[i].id
      BY <1>0 DEF FileTypes, Entry
    <3> QED BY <1>0, <1>4, <3>1, <3>2 DEF score_values, FileTypes
  <2>3. FileTypes'
    BY <1>0, <2>1, <2>2 DEF FileTypes
  <2>4. handler.at = "idle" /\ Distinct(feedback_length)
    BY <2>1 DEF FileInv, Locked
  <2>5. Distinct(feedback_length)'
    <3>1. \A i \in 0 .. feedback_length - 1 : i \in Slots
      BY <1>0, FeedbackWindowAssumption, SMT DEF FileTypes, Lengths, Slots
    <3> QED BY <2>1, <2>2, <2>4, <3>1 DEF Distinct
  <2> QED BY <2>1, <2>3, <2>4, <2>5 DEF FileInv, Locked, Filing
<1>5. CASE clear_length
  <2>1. /\ UNCHANGED <<handler, feedback_active, inbox>> /\ feedback_length' = 0
        /\ feedback' = [i \in Slots |-> NoEntry] /\ task \notin Opened /\ task' \notin Opened
    BY <1>5 DEF clear_length, TaskGoes, Opened
  <2>2. NoEntry \in Entry /\ 0 \in Lengths
    BY FeedbackWindowAssumption, SMT DEF NoEntry, Entry, Lengths
  <2>3. FileTypes' /\ Distinct(0)'
    BY <1>0, <2>1, <2>2, SMT DEF FileTypes, Distinct
  <2>4. handler.at = "idle"
    BY <2>1 DEF FileInv, Locked
  <2> QED BY <2>1, <2>3, <2>4 DEF FileInv, Locked, Filing
<1> QED BY <1>1, <1>2, <1>3, <1>4, <1>5 DEF Task

\* The clock and the window's start are whole seconds.
LEMMA ClocksStep == Clocks /\ [Next]_vars => Clocks'
<1> SUFFICES ASSUME Clocks, [Next]_vars PROVE Clocks'
  OBVIOUS
<1> USE DEF Clocks
<1>1. CASE Task
  <2>1. CASE request_reputation_val
    BY <2>1, SMT DEF request_reputation_val
  <2>2. CASE open_window \/ reset_length \/ set_window_start \/ close_window
    BY <2>2 DEF open_window, reset_length, set_window_start, close_window
  <2>3. CASE score_values \/ clear_length
    BY <2>3 DEF score_values, clear_length
  <2>4. CASE atlas_reputation_feedback \/ wake
    BY <2>4 DEF atlas_reputation_feedback, wake, repInfo
  <2> QED BY <1>1, <2>1, <2>2, <2>3, <2>4 DEF Task
<1>2. CASE Callback
  BY <1>2 DEF Callback, handle_data, set_sensor_val, set_identity, set_sensor_score,
              set_time_score, load_length, store_length, Files, repInfo
<1>3. CASE Tick
  BY <1>3, SMT DEF Tick, repInfo
<1>4. ASSUME NEW p \in Publishers, publish_task(p) \/ handle_publish_req(p) PROVE Clocks'
  BY <1>4 DEF publish_task, handle_publish_req, repInfo
<1>5. CASE UNCHANGED vars
  BY <1>5 DEF vars, repInfo
<1> QED BY <1>1, <1>2, <1>3, <1>4, <1>5 DEF Next

\* What the publishers send joins the values on their way.
LEMMA PublisherInbox ==
  ASSUME inbox \in Seq(Values), NEW p \in Publishers, publish_task(p) \/ handle_publish_req(p)
  PROVE  inbox' \in Seq(Values)
<1>1. \A v \in Readings : [id |-> p, val |-> v] \in Values
  BY DEF Values
<1>2. CASE publish_feature_value(p)
  BY <1>1, <1>2, SMT DEF publish_feature_value
<1> QED BY <1>2 DEF publish_task, handle_publish_req

\* Every step keeps the array in order.
LEMMA FileStep == FileInv /\ Clocks /\ [Next]_vars => FileInv'
<1> SUFFICES ASSUME FileInv, Clocks, [Next]_vars PROVE FileInv'
  OBVIOUS
<1>1. CASE Callback
  BY <1>1, FileBegins, FileFiles, FileLength DEF Callback
<1>2. ASSUME UNCHANGED <<handler, feedback, feedback_length, feedback_active, task>>,
             inbox' \in Seq(Values)
      PROVE  FileInv'
  BY <1>2, FileKept DEF FileInv
<1>3. inbox \in Seq(Values)
  BY DEF FileInv, FileTypes
<1>4. CASE Tick
  BY <1>2, <1>3, <1>4 DEF Tick, repInfo
<1>5. ASSUME NEW p \in Publishers, publish_task(p) \/ handle_publish_req(p) PROVE FileInv'
  BY <1>2, <1>3, <1>5, PublisherInbox DEF publish_task, handle_publish_req, repInfo
<1>6. CASE UNCHANGED vars
  BY <1>2, <1>3, <1>6 DEF vars, repInfo
<1> QED BY <1>1, <1>4, <1>5, <1>6, FileTask DEF Next

\* The array is empty at first.
LEMMA FileInit == Init => FileInv /\ Clocks
<1> SUFFICES ASSUME Init PROVE FileInv /\ Clocks
  OBVIOUS
<1>1. NoEntry \in Entry /\ 0 \in Lengths /\ QueryRate \in Nat
  BY FeedbackWindowAssumption, SMT DEF NoEntry, Entry, Lengths
<1>2. FileTypes /\ Clocks
  BY <1>1, SMT DEF Init, FileTypes, Idle, Clocks
<1>3. Distinct(feedback_length)
  BY SMT DEF Init, Distinct
<1> QED BY <1>2, <1>3 DEF Init, FileInv, Idle, Locked, Filing, Opened

\* The inductive invariant holds in every reachable state.
THEOREM FileInvHolds == Spec => [](FileInv /\ Clocks)
BY FileInit, FileStep, ClocksStep, PTL DEF Spec

\* What is filed is distinct at every step of the callback.
LEMMA FileImplies == FileInv => OneEntryEach
<1> SUFFICES ASSUME FileInv PROVE OneEntryEach
  OBVIOUS
<1>1. feedback_length \in Int /\ handler.at \in {"idle", "store"} \cup Filing
  BY FeedbackWindowAssumption, SMT DEF FileInv, FileTypes, Lengths
<1>2. handler.at = "store" => handler.index \in Int
  BY SMT DEF FileInv, Slots
<1>3. Distinct(feedback_length)
  BY <1>1, <1>2, DistinctPrefix, SMT DEF FileInv, Filing
<1> QED BY <1>3 DEF OneEntryEach, Distinct

\* "keep only the first entry" (atlas_data_plane.c): no identity has two
\* entries, wherever the reset of the length falls between the steps of
\* handle_data, for any publishers and values.
THEOREM OneEntryEachHolds == Spec => []OneEntryEach
BY FileInvHolds, FileImplies, PTL

\* handle_data files only within the array, which has room for the
\* publishers: the guard, which compares the length with the size by >, is
\* never what keeps it there.
THEOREM FiledWithinArray ==
  Spec => [](handler.at \in {"value", "identity", "sensor", "time"} => feedback_length \in Slots)
<1>1. FileInv => (handler.at \in {"value", "identity", "sensor", "time"}
                    => feedback_length \in Slots)
  BY DEF FileInv, Filing
<1> QED BY <1>1, FileInvHolds, PTL

\* After the window is closed the callback is outside, and files nothing.
LEMMA SettledStep ==
  ASSUME FileInv, Next, task \in {"score", "send", "clear"}, task' = task
  PROVE  UNCHANGED <<feedback, feedback_length>>
<1>1. ~Locked /\ ~feedback_active
  BY DEF FileInv, Opened
<1>2. CASE Callback
  BY <1>1, <1>2 DEF Callback, handle_data, set_sensor_val, set_identity, set_sensor_score,
                    set_time_score, load_length, store_length, Files, repInfo, Locked
<1>3. CASE Task
  BY <1>3 DEF Task, TaskGoes, request_reputation_val, open_window, reset_length,
              set_window_start, close_window, score_values, atlas_reputation_feedback,
              clear_length, wake
<1>4. CASE Tick \/ \E p \in Publishers : publish_task(p) \/ handle_publish_req(p)
  BY <1>4 DEF Tick, publish_task, handle_publish_req, repInfo
<1> QED BY <1>2, <1>3, <1>4 DEF Next

\* reputation_query_task works on the report without the lock: between the
\* closing of the window and the reset of the length no other step changes
\* an entry or the length.
THEOREM ReportSettledHolds == Spec => ReportSettled
<1>1. FileInv /\ [Next]_vars =>
        [(task \in {"score", "send", "clear"} /\ task' = task)
           => UNCHANGED <<feedback, feedback_length>>]_vars
  BY SettledStep
<1> QED BY <1>1, FileInvHolds, PTL DEF Spec, ReportSettled

-----------------------------------------------------------------------------
(* What was heard in the window is in the report.                          *)

\* A step that leaves the array, the callback and what was heard alone.
LEMMA WholeKept ==
  ASSUME WholeInv, UNCHANGED <<handler, feedback, feedback_length, heard>>,
         task' = "window" => now' - window_start' \in 0 .. WindowSize,
         task' \notin {"window", "score", "send", "clear"} => Whole = {},
         FilingWhole => task' = "window"
  PROVE  WholeInv'
<1>1. Whole' = Whole /\ Locked' = Locked /\ FilingWhole' = FilingWhole
  BY DEF Whole, Locked, FilingWhole
<1>2. \A p : FiledWell(p)' = FiledWell(p)
  BY DEF FiledWell
<1> QED BY <1>1, <1>2 DEF WholeInv

\* A step of the callback that files a part of the value leaves what is filed
\* alone.
LEMMA WholeFiling ==
  ASSUME FileInv, WholeInv, handler.at # "idle", handler'.at # "idle",
         handler'.value = handler.value,
         UNCHANGED <<task, now, window_start, heard, feedback_length>>,
         \A i \in 0 .. feedback_length - 1 : feedback'[i] = feedback[i],
         FilingWhole =>
           /\ handler'.at \in {"identity", "sensor", "time", "load", "store"} =>
                feedback'[feedback_length].val = handler.value.val
           /\ handler'.at \in {"sensor", "time", "load", "store"} =>
                feedback'[feedback_length].id = handler.value.id
           /\ handler'.at \in {"load", "store"} => feedback'[feedback_length].time \in 0 .. 100
           /\ handler'.at = "store" => handler'.index = feedback_length
  PROVE  WholeInv'
<1>1. Whole' = Whole /\ Locked /\ Locked' /\ FilingWhole' = FilingWhole
  BY DEF Whole, Locked, FilingWhole
<1>2. \A p : FiledWell(p) => FiledWell(p)'
  BY DEF FiledWell
<1>3. \A p \in Whole' : (Locked' /\ handler'.value.id = p) \/ FiledWell(p)'
  BY <1>1, <1>2 DEF WholeInv
<1>4. FilingWhole' => task' = "window" /\ heard'[handler'.value.id].val = handler'.value.val
  BY <1>1 DEF WholeInv
<1> QED BY <1>1, <1>3, <1>4 DEF WholeInv

\* The callback begins: it is the first step of a whole value, or no value
\* has been whole.
LEMMA WholeBegins ==
  ASSUME FileInv, WholeInv, handle_data
  PROVE  WholeInv'
<1>1. /\ UNCHANGED <<task, now, window_start, feedback, feedback_active, feedback_length>>
      /\ handler.at = "idle" /\ ~Locked
  BY DEF handle_data, repInfo, Locked
<1>2. CASE UNCHANGED <<handler, heard>>
  BY <1>1, <1>2, WholeKept DEF WholeInv
<1>3. ASSUME NEW v, v = Head(inbox), feedback_active, ~Filed(v.id), inbox # <<>>,
             handler' = [Idle EXCEPT !.at = "value", !.value = v],
             heard' = [heard EXCEPT ![v.id] =
                         [val |-> v.val, taken |-> TRUE, whole |-> task = "window"]]
      PROVE  WholeInv'
  <2>1. v \in Values /\ v.id \in Publishers /\ v.val \in Nat
    <3>1. v \in Values
      BY <1>3, SMT DEF FileInv, FileTypes
    <3> QED BY <3>1, FeedbackWindowAssumption DEF Values
  <2>2. /\ handler'.at = "value" /\ handler'.value = v /\ Locked'
    BY <1>3 DEF Idle, Locked
  <2>3. /\ heard' \in [Publishers -> [val : Nat, taken : BOOLEAN, whole : BOOLEAN]]
        /\ heard'[v.id] = [val |-> v.val, taken |-> TRUE, whole |-> task = "window"]
        /\ \A p \in Publishers : p # v.id => heard'[p] = heard[p]
    BY <1>3, <2>1 DEF WholeInv
  <2>4. \A p \in Whole : p # v.id /\ FiledWell(p)
    <3>1. \A p \in Whole : FiledWell(p)
      BY <1>1 DEF WholeInv
    <3>2. \A p : FiledWell(p) => Filed(p)
      BY DEF FiledWell, Filed
    <3> QED BY <1>3, <3>1, <3>2
  <2>5. \A p \in Whole' : p = v.id \/ p \in Whole
    BY <2>3 DEF Whole
  <2>6. \A p \in Whole' : p = v.id \/ FiledWell(p)'
    <3>1. \A p \in Publishers : p # v.id /\ FiledWell(p) => FiledWell(p)'
      BY <1>1, <2>3 DEF FiledWell
    <3> QED BY <2>4, <2>5, <3>1 DEF Whole
  <2>7. FilingWhole' <=> task = "window"
    <3>1. heard'[handler'.value.id].whole = (task = "window")
      BY <2>2, <2>3, SMT
    <3> QED BY <2>2, <3>1 DEF FilingWhole
  <2>8. task # "window" => Whole' = {}
    <3>1. task # "window" => Whole = {}
      BY <1>3 DEF FileInv, Opened, WholeInv
    <3>2. task # "window" => v.id \notin Whole'
      BY <2>3, SMT DEF Whole
    <3> QED BY <2>5, <3>1, <3>2
  <2>9. /\ (task' \notin {"window", "score", "send", "clear"} => Whole' = {})
        /\ (Locked' /\ ~FilingWhole' => Whole' = {})
    BY <1>1, <2>7, <2>8
  <2>10. FilingWhole' => task' = "window" /\ heard'[handler'.value.id].val = handler'.value.val
    BY <1>1, <2>2, <2>3, <2>7, SMT
  <2>11. task' = "window" => now' - window_start' \in 0 .. WindowSize
    BY <1>1 DEF WholeInv
  <2> QED BY <2>2, <2>3, <2>6, <2>9, <2>10, <2>11 DEF WholeInv
<1> QED BY <1>2, <1>3 DEF handle_data

\* The parts of a value.
LEMMA WholeFiles ==
  ASSUME FileInv, Clocks, WholeInv,
         set_sensor_val \/ set_identity \/ set_sensor_score \/ set_time_score
  PROVE  WholeInv'
<1> DEFINE L == feedback_length
<1>1. L \in Slots /\ L \in Nat /\ FileTypes
  BY SMT DEF set_sensor_val, set_identity, set_sensor_score, set_time_score, Files, FileInv, Filing, Slots
<1>2. /\ UNCHANGED <<task, now, window_start, heard, feedback_length>>
      /\ handler'.value = handler.value
      /\ handler.at # "idle" /\ handler'.at # "idle"
  BY <1>1 DEF set_sensor_val, set_identity, set_sensor_score, set_time_score, Files, FileTypes
<1>3. handler.value.id \in Publishers /\ handler.value.val \in Nat
  <2>1. handler.value \in Values
    BY <1>2 DEF FileInv, Locked
  <2> QED BY <2>1, FeedbackWindowAssumption DEF Values
<1>4. \A i \in 0 .. L - 1 : i \in Slots /\ i # L
  BY <1>1, FeedbackWindowAssumption, SMT DEF Slots
<1>5. feedback[L] \in Entry
  BY <1>1 DEF FileTypes
<1>6. CASE set_sensor_val
  <2>1. /\ handler.at = "value" /\ handler'.at = "identity"
        /\ feedback' = [feedback EXCEPT ![L].val = handler.value.val]
    BY <1>1, <1>6 DEF set_sensor_val, Files, FileTypes
  <2>2. /\ \A i \in 0 .. L - 1 : feedback'[i] = feedback[i]
        /\ feedback'[L].val = handler.value.val
    BY <1>1, <1>4, <1>5, <2>1 DEF FileTypes, Entry
  <2> QED BY <1>2, <2>1, <2>2, WholeFiling
<1>7. CASE set_identity
  <2>1. /\ handler.at = "identity" /\ handler'.at = "sensor"
        /\ feedback' = [feedback EXCEPT ![L].id = handler.value.id]
    BY <1>1, <1>7 DEF set_identity, Files, FileTypes
  <2>2. /\ \A i \in 0 .. L - 1 : feedback'[i] = feedback[i]
        /\ feedback'[L].id = handler.value.id /\ feedback'[L].val = feedback[L].val
    BY <1>1, <1>4, <1>5, <2>1 DEF FileTypes, Entry
  <2>3. FilingWhole => feedback[L].val = handler.value.val
    BY <2>1 DEF WholeInv
  <2> QED BY <1>2, <2>1, <2>2, <2>3, WholeFiling
<1>8. CASE set_sensor_score
  <2>1. PICK x : /\ handler.at = "sensor" /\ handler'.at = "time"
                 /\ feedback' = [feedback EXCEPT ![L].sensor = x]
    BY <1>1, <1>8 DEF set_sensor_score, Files, FileTypes
  <2>2. /\ \A i \in 0 .. L - 1 : feedback'[i] = feedback[i]
        /\ feedback'[L].id = feedback[L].id /\ feedback'[L].val = feedback[L].val
    BY <1>1, <1>4, <1>5, <2>1 DEF FileTypes, Entry
  <2>3. FilingWhole => feedback[L].val = handler.value.val /\ feedback[L].id = handler.value.id
    BY <2>1 DEF WholeInv
  <2> QED BY <1>2, <2>1, <2>2, <2>3, WholeFiling
<1>9. CASE set_time_score
  <2>1. PICK x \in TimeScores : /\ handler.at = "time" /\ handler'.at = "load"
                                /\ feedback' = [feedback EXCEPT ![L].time = x]
    BY <1>1, <1>9 DEF set_time_score, Files, FileTypes
  <2>2. /\ \A i \in 0 .. L - 1 : feedback'[i] = feedback[i]
        /\ feedback'[L].id = feedback[L].id /\ feedback'[L].val = feedback[L].val
        /\ feedback'[L].time = x
    BY <1>1, <1>4, <1>5, <2>1 DEF FileTypes, Entry
  <2>3. FilingWhole => feedback[L].val = handler.value.val /\ feedback[L].id = handler.value.id
    BY <2>1 DEF WholeInv
  <2>4. FilingWhole => x \in 0 .. 100
    BY TimeScoreType DEF WholeInv, Clocks
  <2> QED BY <1>2, <2>1, <2>2, <2>3, <2>4, WholeFiling
<1> QED BY <1>6, <1>7, <1>8, <1>9

\* The value counts as filed: the one index is the length.
LEMMA WholeLength ==
  ASSUME FileInv, WholeInv, load_length \/ store_length
  PROVE  WholeInv'
<1>0. FileTypes /\ feedback_length \in Nat
  BY SMT DEF FileInv, FileTypes, Lengths
<1>1. CASE load_length
  <2>1. /\ handler'.at = "store" /\ handler'.index = feedback_length
        /\ handler'.value = handler.value /\ handler.at = "load"
        /\ UNCHANGED <<task, now, window_start, heard, feedback_length, feedback>>
    BY <1>0, <1>1 DEF load_length, FileTypes, repInfo
  <2>2. FilingWhole => /\ feedback[feedback_length].val = handler.value.val
                       /\ feedback[feedback_length].id = handler.value.id
                       /\ feedback[feedback_length].time \in 0 .. 100
    BY <2>1 DEF WholeInv
  <2> QED BY <2>1, <2>2, WholeFiling
<1>2. CASE store_length
  <2>1. /\ handler' = Idle /\ feedback_length' = handler.index + 1 /\ handler.at = "store"
        /\ UNCHANGED <<task, now, window_start, heard, feedback>>
    BY <1>2 DEF store_length
  <2>2. Whole' = Whole /\ Locked /\ ~Locked' /\ ~FilingWhole'
    BY <2>1 DEF Whole, Locked, FilingWhole, Idle
  <2>3. CASE Whole = {}
    BY <2>1, <2>2, <2>3 DEF WholeInv
  <2>4. CASE FilingWhole
    <3>1. /\ feedback_length' = feedback_length + 1
          /\ feedback[feedback_length].val = handler.value.val
          /\ heard[handler.value.id].val = handler.value.val
          /\ feedback[feedback_length].id = handler.value.id
          /\ feedback[feedback_length].time \in 0 .. 100
      BY <2>1, <2>4 DEF WholeInv
    <3>2. \A p : FiledWell(p) => FiledWell(p)'
      BY <1>0, <2>1, <3>1, SMT DEF FiledWell
    <3>3. ASSUME NEW p, p = handler.value.id PROVE FiledWell(p)'
      <4>1. feedback_length \in 0 .. feedback_length' - 1
        BY <1>0, <3>1, SMT
      <4> QED BY <2>1, <3>1, <3>3, <4>1 DEF FiledWell
    <3>4. \A p \in Whole' : FiledWell(p)'
      BY <2>2, <3>2, <3>3 DEF WholeInv
    <3> QED BY <2>1, <2>2, <3>4 DEF WholeInv
  <2> QED BY <2>2, <2>3, <2>4 DEF WholeInv
<1> QED BY <1>1, <1>2

\* reputation_query_task: at the window's start nothing is whole, and when it
\* is closed everything is filed.
LEMMA WholeTask ==
  ASSUME FileInv, Clocks, WholeInv, Task
  PROVE  WholeInv'
<1>0. FileTypes
  BY DEF FileInv
<1>1. ASSUME UNCHANGED <<handler, feedback, feedback_length, heard>>,
             task \notin {"window", "score", "send", "clear"},
             task' = "window" => window_start' = now'
      PROVE  WholeInv'
  <2>1. Whole = {} /\ ~FilingWhole
    BY <1>1 DEF WholeInv
  <2>2. task' = "window" => now' - window_start' \in 0 .. WindowSize
    <3>1. now' \in Int
      BY ClocksStep DEF Clocks, Next
    <3>2. \A n \in Int : n - n = 0
      BY SMT
    <3>3. 0 \in 0 .. WindowSize
      BY FeedbackWindowAssumption, SMT
    <3> QED BY <1>1, <3>1, <3>2, <3>3
  <2> QED BY <1>1, <2>1, <2>2, WholeKept
<1>2. CASE request_reputation_val \/ open_window \/ set_window_start \/ wake
  <2>1. UNCHANGED <<handler, feedback, feedback_length, heard>>
    BY <1>2 DEF request_reputation_val, open_window, set_window_start, wake, repInfo
  <2>2. task \notin {"window", "score", "send", "clear"}
    BY <1>2 DEF request_reputation_val, open_window, set_window_start, wake, TaskGoes
  <2>3. task' = "window" => window_start' = now'
    BY <1>2 DEF request_reputation_val, open_window, set_window_start, wake, TaskGoes
  <2> QED BY <1>1, <2>1, <2>2, <2>3
<1>3. CASE reset_length
  <2>1. /\ UNCHANGED <<handler, feedback, heard>> /\ task = "reset" /\ task' = "start"
    BY <1>3 DEF reset_length, TaskGoes
  <2>2. Whole' = {} /\ ~FilingWhole'
    BY <2>1 DEF WholeInv, Whole, FilingWhole, Locked
  <2> QED BY <2>1, <2>2 DEF WholeInv
<1>4. CASE close_window \/ atlas_reputation_feedback
  <2>1. /\ UNCHANGED <<handler, feedback, feedback_length, heard>>
        /\ task \in {"window", "send"} /\ task' \in {"score", "clear"}
    BY <1>4 DEF close_window, atlas_reputation_feedback, TaskGoes, repInfo
  <2>2. ~Locked
    BY <1>4 DEF close_window, atlas_reputation_feedback, TaskGoes, FileInv, Opened
  <2> QED BY <2>1, <2>2, WholeKept DEF FilingWhole
<1>5. CASE score_values
  <2>1. /\ UNCHANGED <<handler, feedback_length, heard>> /\ task = "score" /\ task' = "send"
    BY <1>5 DEF score_values, TaskGoes
  <2>2. \A i \in Slots : /\ feedback'[i].id = feedback[i].id /\ feedback'[i].val = feedback[i].val
                         /\ feedback'[i].time = feedback[i].time
    <3>1. \A x : \A i \in Slots :
            LET e == [feedback[i] EXCEPT !.sensor = x]
            IN  e.id = feedback[i].id /\ e.val = feedback[i].val /\ e.time = feedback[i].time
      BY <1>0 DEF FileTypes, Entry
    <3> QED BY <1>5, <3>1 DEF score_values
  <2>3. ~Locked /\ ~Locked' /\ Whole' = Whole
    BY <2>1 DEF FileInv, Opened, Locked, Whole
  <2>4. \A p : FiledWell(p) => FiledWell(p)'
    <3>1. \A i \in 0 .. feedback_length - 1 : i \in Slots
      BY <1>0, FeedbackWindowAssumption, SMT DEF FileTypes, Lengths, Slots
    <3> QED BY <2>1, <2>2, <3>1 DEF FiledWell
  <2> QED BY <2>1, <2>3, <2>4 DEF WholeInv, FilingWhole
<1>6. CASE clear_length
  <2>1. /\ UNCHANGED handler /\ heard' = [p \in Publishers |-> NotHeard]
        /\ task = "clear" /\ task' = "sleep"
    BY <1>6 DEF clear_length, TaskGoes
  <2>2. ~Locked /\ ~Locked'
    BY <2>1 DEF FileInv, Opened, Locked
  <2>3. Whole' = {}
    BY <2>1 DEF Whole, NotHeard
  <2>4. heard' \in [Publishers -> [val : Nat, taken : BOOLEAN, whole : BOOLEAN]]
    BY <2>1 DEF NotHeard
  <2> QED BY <2>1, <2>2, <2>3, <2>4 DEF WholeInv, FilingWhole
<1> QED BY <1>2, <1>3, <1>4, <1>5, <1>6 DEF Task

\* Every step keeps what is whole filed.
LEMMA WholeStep == FileInv /\ Clocks /\ WholeInv /\ [Next]_vars => WholeInv'
<1> SUFFICES ASSUME FileInv, Clocks, WholeInv, [Next]_vars PROVE WholeInv'
  OBVIOUS
<1>1. CASE Callback
  BY <1>1, WholeBegins, WholeFiles, WholeLength DEF Callback
<1>2. ASSUME UNCHANGED <<handler, feedback, feedback_length, heard, task>>,
             task = "window" => now' - window_start' \in 0 .. WindowSize
      PROVE  WholeInv'
  BY <1>2, WholeKept DEF WholeInv
<1>3. CASE Tick
  <2>1. task = "window" => now' - window_start' \in 0 .. WindowSize
    BY <1>3, FeedbackWindowAssumption, SMT DEF Tick, repInfo, WholeInv, Clocks
  <2> QED BY <1>2, <1>3, <2>1 DEF Tick, repInfo
<1>4. ASSUME NEW p \in Publishers, publish_task(p) \/ handle_publish_req(p) PROVE WholeInv'
  BY <1>2, <1>4 DEF publish_task, handle_publish_req, repInfo, WholeInv
<1>5. CASE UNCHANGED vars
  BY <1>2, <1>5 DEF vars, repInfo, WholeInv
<1> QED BY <1>1, <1>3, <1>4, <1>5, WholeTask DEF Next

\* Nothing has been heard at first.
LEMMA WholeInit == Init => WholeInv
<1> SUFFICES ASSUME Init PROVE WholeInv
  OBVIOUS
<1>1. Whole = {} /\ ~Locked /\ ~FilingWhole
  BY DEF Init, Whole, NotHeard, Locked, FilingWhole, Idle
<1>2. heard \in [Publishers -> [val : Nat, taken : BOOLEAN, whole : BOOLEAN]]
  BY DEF Init, NotHeard
<1> QED BY <1>1, <1>2 DEF Init, WholeInv

\* After the window the callback is outside: what is whole is filed.
LEMMA WholeImplies == FileInv /\ WholeInv => WholeIsFiled
<1> SUFFICES ASSUME FileInv, WholeInv, task \in {"score", "send", "clear"}, NEW p \in Whole
             PROVE  FiledWell(p)
  BY DEF WholeIsFiled, FiledWell
<1>1. ~Locked
  BY DEF FileInv, Opened
<1> QED BY <1>1 DEF WholeInv

\* A value whose handling began after the window's start is in the report
\* with the value that was published and a response time score within range
\* (handle_data and reputation_query_task): the race at the start of the
\* window reaches no later value, for any publishers, values and periods.
THEOREM WholeIsFiledHolds == Spec => []WholeIsFiled
BY FileInvHolds, WholeInit, WholeStep, WholeImplies, PTL DEF Spec
=============================================================================
