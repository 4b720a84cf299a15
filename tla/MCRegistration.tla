---------------------------- MODULE MCRegistration ----------------------------
(* Instances of Registration for TLC.                                      *)
EXTENDS Registration

CONSTANTS d1

(* Two policies that differ in the packet rate only.                       *)
Slow == [qos |-> 1, ppm |-> 1, maxlen |-> 1]
Fast == [qos |-> 1, ppm |-> 2, maxlen |-> 1]
OnePolicy == {Slow}
TwoPolicies == {Slow, Fast}
=============================================================================
