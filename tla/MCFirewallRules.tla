--------------------------- MODULE MCFirewallRules ---------------------------
(* Instances of FirewallRules for TLC.                                     *)
EXTENDS FirewallRules

CONSTANTS d1, d2

Strict == [qos |-> 0, ppm |-> 1, maxlen |-> 1]
Loose  == [qos |-> 1, ppm |-> 2, maxlen |-> 1]
OnePolicy == {Loose}
TwoPolicies == {Strict, Loose}

(* A packet between the clients, and one from a publisher without a policy *)
(* that a strict rule drops for its quality of service.                    *)
TwoPackets == {[src |-> d1, dst |-> d2, qos |-> 0, len |-> 1],
               [src |-> "anonymous", dst |-> d1, qos |-> 1, len |-> 1]}

(* The same for one client.                                                *)
SelfPackets == {[src |-> d1, dst |-> d1, qos |-> 0, len |-> 1],
                [src |-> "anonymous", dst |-> d1, qos |-> 1, len |-> 1]}

(* Memory that was zero, and memory that was not.                          *)
Garbage == {[policy |-> Strict, window |-> 0, drop |-> 0, pass |-> 0],
            [policy |-> Loose, window |-> 3, drop |-> 1, pass |-> 1]}
=============================================================================
