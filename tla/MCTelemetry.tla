----------------------------- MODULE MCTelemetry -----------------------------
(* Instances of Telemetry for TLC.                                         *)
EXTENDS Telemetry

CONSTANTS hostname, procs, load1, load15

(* A feature without an alert, and the one with both alerts.               *)
NameAndProcs == <<hostname, procs>>
NameAndProcsKind == (hostname :> "hostname") @@ (procs :> "procs")
NameAndProcsPushes == (hostname :> 1) @@ (procs :> 2)
NameAndProcsOccurs == {<<hostname, hostname>>, <<procs, procs>>}

(* The path of load1 is a prefix of the path of load15.                    *)
Loads == <<load1, load15>>
LoadsKind == (load1 :> "load") @@ (load15 :> "load")
LoadsPushes == (load1 :> 2) @@ (load15 :> 2)
LoadsOccurs == {<<load1, load1>>, <<load15, load15>>, <<load15, load1>>}
=============================================================================
