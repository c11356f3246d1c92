---------------------------- MODULE CommandLife ----------------------------
(***************************************************************************)
(* What is promised to whoever sends a command, with messages, timers and  *)
(* processes left out.  A command that is accepted has one chance to reach *)
(* the device.  Telling the device uses a chance up, and so does giving    *)
(* up; attempts and waiting do not.  A chance may get lost, and only a     *)
(* mishap that counts as an excuse gives another one.                      *)
(*                                                                         *)
(* DeviceCommands implements this.  The answers of cancelCommand and of a  *)
(* retry are written without another look at the row: Withdraw and Retry   *)
(* may overwrite any status.                                               *)
(***************************************************************************)
EXTENDS Naturals

CONSTANTS Commands, None

VARIABLES
  status,   \* what the user is shown, None before the command exists
  later,    \* commands for a later time
  ripe,     \* those of them whose time has come
  chances,  \* how often each command may still reach the device
  told,     \* how often the device was told
  excused   \* how often a repetition was to be expected

lvars == <<status, later, ripe, chances, told, excused>>

Init ==
  /\ status = [c \in Commands |-> None]
  /\ later = {} /\ ripe = {}
  /\ chances = [c \in Commands |-> 0]
  /\ told = [c \in Commands |-> 0]
  /\ excused = [c \in Commands |-> 0]

Show(c, new) == status' = [status EXCEPT ![c] = new]

UseUp(c) == chances' = [chances EXCEPT ![c] = @ - 1]

\* Something may be done about c now.
Open(c) ==
  /\ status[c] # None /\ chances[c] > 0
  /\ c \in later => c \in ripe

Accept(c) ==
  /\ status[c] = None
  /\ \/ Show(c, "PENDING") /\ UNCHANGED later
     \/ Show(c, "SCHEDULED") /\ later' = later \cup {c}
  /\ chances' = [chances EXCEPT ![c] = 1]
  /\ UNCHANGED <<ripe, told, excused>>

Ripen(c) ==
  /\ c \in later \ ripe
  /\ ripe' = ripe \cup {c}
  /\ UNCHANGED <<status, later, chances, told, excused>>

Withdraw(c) ==
  /\ status[c] # None /\ Show(c, "CANCELLED")
  /\ UNCHANGED <<later, ripe, chances, told, excused>>

Attempt(c) ==
  /\ Open(c) /\ Show(c, "SENDING")
  /\ UNCHANGED <<later, ripe, chances, told, excused>>

\* The device is not told before the user has seen that it will be.
Tell(c) ==
  /\ Open(c) /\ status[c] \notin {"PENDING", "SCHEDULED"}
  /\ told' = [told EXCEPT ![c] = @ + 1] /\ UseUp(c)
  /\ UNCHANGED <<status, later, ripe, excused>>

Confirm(c) ==
  /\ told[c] > 0 /\ Show(c, "DELIVERED")
  /\ UNCHANGED <<later, ripe, chances, told, excused>>

Retry(c) ==
  /\ status[c] # None /\ Show(c, "RETRYING")
  /\ UNCHANGED <<later, ripe, chances, told, excused>>

GiveUp(c) ==
  /\ Open(c) /\ Show(c, "FAILED") /\ UseUp(c)
  /\ UNCHANGED <<later, ripe, told, excused>>

\* Chances get lost, or somebody cannot tell what has been done already and
\* will do it again.
Mishap ==
  /\ chances' \in [Commands -> Nat] /\ excused' \in [Commands -> Nat]
  /\ \A c \in Commands :
       /\ excused[c] <= excused'[c]
       /\ chances'[c] + excused[c] <= chances[c] + excused'[c]
  /\ UNCHANGED <<status, later, ripe, told>>

Next ==
  \/ \E c \in Commands :
       \/ Accept(c) \/ Ripen(c) \/ Withdraw(c) \/ Attempt(c) \/ Tell(c)
       \/ Confirm(c) \/ Retry(c) \/ GiveUp(c)
  \/ Mishap

Spec == Init /\ [][Next]_lvars

=============================================================================
