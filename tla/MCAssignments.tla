--------------------------- MODULE MCAssignments ---------------------------
(* Instances of Assignments for TLC. *)
EXTENDS Assignments, TLC

CONSTANTS w1, w2, w3, c1, c2, d1, d2, d3, u1, u2

OneWorker == {w1}
TwoWorkers == {w1, w2}
ThreeWorkers == {w1, w2, w3}
OneCustomer == {c1}
TwoCustomers == {c1, c2}
OneDevice == {d1}
TwoDevices == {d1, d2}
ThreeDevices == {d1, d2, d3}
OneUser == {u1}
TwoUsers == {u1, u2}

AllOfOne == [u \in Users |-> c1]
OneEach == (u1 :> c1 @@ u2 :> c2)

UpToTwo == {1, 2}
JustOne == {1}

AssignmentRequests == {"assign", "unassign", "assignUser", "unassignUser",
                       "create"}

\* At once only the requests that count the devices of customers; users and
\* updates of a customer come where requests come one at a time.
AllWhenSerial == [one \in BOOLEAN |->
  IF one THEN RequestKinds ELSE {"assign", "unassign", "create"}]
OnlyAtOnce == [one \in BOOLEAN |-> IF one THEN {} ELSE AssignmentRequests]

Symmetry == Permutations(Devices) \cup Permutations(Workers)

=============================================================================
