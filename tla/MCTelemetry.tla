----------------------------- MODULE MCTelemetry -----------------------------
(* Two objects that share a source and one that does not.                  *)
EXTENDS Telemetry

MCDegradeRatio == <<1, 4>>
MCCriticalRatio == <<1, 2>>
=============================================================================
