----------------------------- MODULE MCSchedules -----------------------------
(* Instances of Schedules for TLC. *)
EXTENDS Schedules, TLC

CONSTANTS s1, p1, p2, x1, x2, u1, u2

OneSchedule == {s1}
TwoProcesses == {p1, p2}
TwoExecutions == {x1, x2}
TwoRequests == {u1, u2}

Symmetry == Permutations(Processes) \cup Permutations(Executions)
              \cup Permutations(Requests)

=============================================================================
