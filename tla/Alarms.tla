------------------------------- MODULE Alarms -------------------------------
(***************************************************************************)
(* The alarms of one device, AlarmsService: requests of users and what the *)
(* telemetry consumer does with an alarm.  Every operation reads the row,  *)
(* changes the copy and saves all its columns, so it undoes whatever was   *)
(* saved since the copy was read, a removal included.  A row and a copy    *)
(* are the same record, and a save is stale when copy and row differ.      *)
(***************************************************************************)
EXTENDS Naturals

CONSTANTS
  Alarms,        \* alarm rules
  AutoClear,     \* those with autoClear
  AlarmRequests, \* requests of users at a time
  None

ASSUME AlarmConstants == AutoClear \subseteq Alarms

VARIABLES
  alarm,      \* table alarms
  alarmEdit,  \* requests under way: what they are and the copy they read
  announced,  \* history: alarm.triggered events since the alarm was raised
  unsure      \* history: alarms raised by a stale save, or by a process that
              \* died before it emitted the event

alarmVars == <<alarm, alarmEdit, announced, unsure>>

AlarmStatuses == {"INACTIVE", "ACTIVE", "ACKNOWLEDGED", "CLEARED", "RESOLVED"}

\* triggered: triggerCount > 0.
AlarmRows == [status : AlarmStatuses, triggered : BOOLEAN, enabled : BOOLEAN,
              removed : BOOLEAN]

AlarmOps == {"update", "acknowledge", "clear", "resolve", "enable", "disable",
             "remove"}

AlarmEdits == [op : AlarmOps, id : Alarms, copy : AlarmRows]

ASSUME NoneIsNoEdit == None \notin AlarmEdits

\* create() of an alarm, switched on or not.
Created(on) == [status |-> "INACTIVE", triggered |-> FALSE, enabled |-> on,
                removed |-> FALSE]

AlarmsInit ==
  /\ alarm \in [Alarms -> {Created(TRUE), Created(FALSE)}]
  /\ alarmEdit = [q \in AlarmRequests |-> None]
  /\ announced = [a \in Alarms |-> 0]
  /\ unsure = {}

\* findOne leaves out what softRemove has marked.
Listed(a) == ~alarm[a].removed

\* save() of a copy that was changed to new; emits: with alarm.triggered.
SaveAlarm(a, copy, new, emits) ==
  /\ alarm' = [alarm EXCEPT ![a] = new]
  /\ announced' = [announced EXCEPT ![a] =
       IF new.status # "ACTIVE" THEN 0 ELSE @ + (IF emits THEN 1 ELSE 0)]
  /\ unsure' = IF new.status = "ACTIVE" /\ copy # alarm[a] THEN unsure \cup {a}
               ELSE IF new.status = "ACTIVE" THEN unsure ELSE unsure \ {a}

-----------------------------------------------------------------------------
(* Requests of users.                                                      *)

Acknowledge(row) ==
  IF row.status = "ACTIVE" THEN [row EXCEPT !.status = "ACKNOWLEDGED"] ELSE row

Clear(row) ==
  IF row.status # "RESOLVED" THEN [row EXCEPT !.status = "CLEARED"] ELSE row

Resolve(row) == [row EXCEPT !.status = "RESOLVED"]

\* Which requests get past their checks.
Allowed(op, row) ==
  CASE op = "acknowledge" -> row.status = "ACTIVE"
    [] op = "clear"       -> row.status \in {"ACTIVE", "ACKNOWLEDGED"}
    [] OTHER              -> TRUE

\* The copy after the request; update may change other columns only.
Edited(op, row) ==
  CASE op = "acknowledge" -> Acknowledge(row)
    [] op = "clear"       -> Clear(row)
    [] op = "resolve"     -> Resolve(row)
    [] op = "enable"      -> [row EXCEPT !.enabled = TRUE]
    [] op = "disable"     -> [row EXCEPT !.enabled = FALSE]
    [] OTHER              -> row

AlarmRead(q) ==
  /\ alarmEdit[q] = None
  /\ \E a \in Alarms, op \in AlarmOps :
       /\ Listed(a) /\ Allowed(op, alarm[a])
       /\ alarmEdit' = [alarmEdit EXCEPT ![q] =
                          [op |-> op, id |-> a, copy |-> alarm[a]]]
  /\ UNCHANGED <<alarm, announced, unsure>>

\* softRemove writes deletedAt only, all others the whole copy.
AlarmSave(q) ==
  /\ alarmEdit[q] # None
  /\ LET e == alarmEdit[q] IN
       \/ /\ e.op = "remove"
          /\ alarm' = [alarm EXCEPT ![e.id].removed = TRUE]
          /\ UNCHANGED <<announced, unsure>>
       \/ /\ e.op # "remove"
          /\ SaveAlarm(e.id, e.copy, Edited(e.op, e.copy), FALSE)
  /\ alarmEdit' = [alarmEdit EXCEPT ![q] = None]

-----------------------------------------------------------------------------
(* What telemetry does, with a copy from one query for all alarms.         *)

Trigger(row) == [row EXCEPT !.status = "ACTIVE", !.triggered = TRUE]

\* Mutant: the status is not looked at.
WasAlreadyActiveOnce(row) == row.triggered

WasAlreadyActive(row) == row.status = "ACTIVE" /\ row.triggered

TriggerAlarm(a, copy) ==
  SaveAlarm(a, copy, Trigger(copy), ~WasAlreadyActive(copy))

\* The process dies between the save and the event.
TriggerAlarmUnheard(a, copy) ==
  /\ ~WasAlreadyActive(copy)
  /\ alarm' = [alarm EXCEPT ![a] = Trigger(copy)]
  /\ unsure' = unsure \cup {a}
  /\ UNCHANGED announced

AutoClears(a, copy) == a \in AutoClear /\ copy.status = "ACTIVE"

AutoClearAlarm(a, copy) == SaveAlarm(a, copy, Clear(copy), FALSE)

-----------------------------------------------------------------------------

AlarmsTypeOK ==
  /\ alarm \in [Alarms -> AlarmRows]
  /\ alarmEdit \in [AlarmRequests -> AlarmEdits \cup {None}]
  /\ announced \in [Alarms -> Nat]
  /\ unsure \subseteq Alarms

\* Users are told once of every alarm that is raised, neither never nor at
\* each value that meets the condition, although the decision is taken on a
\* copy, redeliveries repeat values and other requests save the row meanwhile.
\* Exempt are alarms raised by a stale save or by a process that died before
\* the event: those stay unannounced until they are cleared.
AnnouncedOnce == \A a \in Alarms :
  a \notin unsure =>
    announced[a] = (IF alarm[a].status = "ACTIVE" THEN 1 ELSE 0)

=============================================================================
