----------------------------- MODULE MCTelemetry -----------------------------
(* Small instances of the telemetry client with its server. *)
EXTENDS TelemetryClient

Rep(n, k, s, P, r) == [node |-> n, kind |-> k, swarm |-> s, peers |-> P, round |-> r]

\* Another node that moves between swarms, and a third that needs its room
MCOthers == {Rep("n2", "heartbeat", "s1", {"n1"}, 0),
             Rep("n2", "node.started", "s2", {}, 0),
             Rep("n3", "model_received", "s1", {"n2"}, 1)}
=============================================================================
