---------------------------- MODULE SystemFeedback ----------------------------
(***************************************************************************)
(* What a device object keeps for the system reputation, and the three     *)
(* feedback elements that sample it: the time it was registered, its       *)
(* keep-alives and the share of its packets the firewall let through.      *)
(*                                                                         *)
(* Time is counted in keep-alive intervals.                                *)
(***************************************************************************)
EXTENDS Integers, Sequences

CONSTANTS
  Sample,            \* keep-alive intervals in a sample (3 in the code)
  KeepAliveCounter   \* ATLAS_KEEP_ALIVE_COUNTER (4 in the code)
ASSUME SampleAssumption == Sample \in Nat \ {0} /\ KeepAliveCounter \in Nat \ {0}

(* Feedback is measured in Scale-ths: a number every sample, and every     *)
(* pair of packets, divides.                                               *)
FeedbackScale == 2 * Sample

(* Packets are what the firewall counted for the device, from its rules'   *)
(* statistics, which outlive the process.                                  *)
NoPackets == [passed |-> 0, dropped |-> 0]

NewDevice == [registered |-> FALSE, age |-> 0, interval |-> 0, kaCtr |-> 0, kaPkts |-> 0,
              prevInterval |-> 0, prevKaPkts |-> 0, prevPackets |-> NoPackets]

registerNow(s) == [s EXCEPT !.registered = TRUE, !.age = 0, !.kaCtr = KeepAliveCounter]
keepAliveNow(s) == [s EXCEPT !.kaCtr = KeepAliveCounter, !.kaPkts = @ + 1]

(* One keep-alive interval of a device, and the alarm at its end.          *)
Older(s) == IF s.registered THEN [s EXCEPT !.age = @ + 1] ELSE s

keepAliveExpired(s) ==
  IF ~s.registered \/ s.kaCtr = 0 THEN s
  ELSE IF s.kaCtr = 1
       THEN [s EXCEPT !.kaCtr = 0, !.registered = FALSE, !.interval = @ + s.age, !.age = 0]
       ELSE [s EXCEPT !.kaCtr = @ - 1]

getRegInterval(s) == IF s.registered THEN s.interval + s.age ELSE s.interval

RegistrationFeedback(s) == ((getRegInterval(s) - s.prevInterval) * FeedbackScale) \div Sample
KeepaliveFeedback(s) == ((s.kaPkts - s.prevKaPkts) * FeedbackScale) \div Sample

(* ATLAS_PACKETS_DEFAULT_FEEDBACK is an int initialised with 0.4.          *)
PacketsDefaultFeedback == 0

Since(count, before) == IF count >= before THEN count - before ELSE count
PacketsSince(s, tx) == [passed |-> Since(tx.passed, s.prevPackets.passed),
                        dropped |-> Since(tx.dropped, s.prevPackets.dropped)]

PacketsFeedback(s, tx) ==
  LET d == PacketsSince(s, tx)
  IN  IF d.passed + d.dropped = 0 THEN PacketsDefaultFeedback
      ELSE (d.passed * FeedbackScale) \div (d.passed + d.dropped)

(* The feedback of a sample, and the device after it was taken.            *)
FeedbackMatrix(s, tx) ==
  << [type |-> "REGISTER_TIME", val |-> RegistrationFeedback(s)],
     [type |-> "KEEPALIVE_PACKETS", val |-> KeepaliveFeedback(s)],
     [type |-> "VALID_PACKETS", val |-> PacketsFeedback(s, tx)] >>

Sampled(s, tx) ==
  LET d == PacketsSince(s, tx)
  IN  [s EXCEPT !.prevInterval = getRegInterval(s), !.prevKaPkts = s.kaPkts,
                !.prevPackets = IF d.passed + d.dropped = 0 THEN @ ELSE tx]
=============================================================================
