-------------------------------- MODULE MCEdge --------------------------------
(* Instances of Edge for TLC. *)
EXTENDS EdgeMailbox, TLC

CONSTANTS e1, e2, d1, d2, c1, c2, h1, h2

OneEdge == {e1}
TwoEdges == {e1, e2}
OneDevice == {d1}
TwoDevices == {d1, d2}
OneCommand == {c1}
TwoCommands == {c1, c2}
TwoHandlers == {h1, h2}

=============================================================================
