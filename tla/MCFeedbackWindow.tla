--------------------------- MODULE MCFeedbackWindow ---------------------------
(* Two publishers and two readings two degrees apart, a window of two      *)
(* seconds in a query cycle of three, and two values on their way.  A      *)
(* negative double becomes a score within range or one out of it.          *)
EXTENDS FeedbackWindow, TLC

CONSTANTS p1, p2

MCPublishers == {p1, p2}
MCUndefined == {0, 65535}
Alike == Permutations(MCPublishers)
=============================================================================
