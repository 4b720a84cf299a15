--------------------------- MODULE MCCloudServices ---------------------------
(* Two web threads, one task, two commands, one stop, one deleted gateway. *)
EXTENDS CloudServices
=============================================================================
