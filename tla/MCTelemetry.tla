----------------------------- MODULE MCTelemetry -----------------------------
(* Instances of Telemetry for TLC. *)
EXTENDS Telemetry, TLC

CONSTANTS a1, a2, q1, q2, p1, p2

OneAlarm == {a1}
TwoAlarms == {a1, a2}
OneRequest == {q1}
TwoRequests == {q1, q2}
TwoProcesses == {p1, p2}

=============================================================================
