-------------------------- MODULE MCClientScheduler --------------------------
(* Four descriptors: two requests take all of them, and one request and an *)
(* alarm leave too few for another, so that setting an alarm and sending a *)
(* request fail as well as succeed.                                        *)
EXTENDS ClientScheduler
=============================================================================
