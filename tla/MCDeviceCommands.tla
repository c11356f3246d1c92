-------------------------- MODULE MCDeviceCommands --------------------------
(* Instances of DeviceCommands for TLC. *)
EXTENDS CommandOutlook, TLC

CONSTANTS c1, c2, p1, p2

OneCommand == {c1}
TwoCommands == {c1, c2}
OneConsumer == {p1}
TwoConsumers == {p1, p2}

=============================================================================
