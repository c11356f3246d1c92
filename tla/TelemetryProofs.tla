--------------------------- MODULE TelemetryProofs ---------------------------
(***************************************************************************)
(* Proofs about Telemetry and Alarms, for any alarms, requests, processes  *)
(* and bounds: the type invariant, that a committed message is settled,    *)
(* and that an alarm that is raised is announced once.                     *)
(***************************************************************************)
EXTENDS Telemetry, TLAPS

USE AlarmConstants, NoneIsNoEdit, NoneIsNoMessage, TelemetryNumbers

-----------------------------------------------------------------------------
(* Rows, copies and messages.                                              *)

LEMMA CopyTypes ==
  ASSUME NEW f \in Copies, NEW a \in DOMAIN f
  PROVE  a \in Alarms /\ f[a] \in AlarmRows
  BY DEF Copies

LEMMA FewerCopies ==
  ASSUME NEW f \in Copies, NEW S
  PROVE  /\ Restrict(f, DOMAIN f \ S) \in Copies
         /\ DOMAIN Restrict(f, DOMAIN f \ S) = DOMAIN f \ S
         /\ \A a \in DOMAIN f \ S : Restrict(f, DOMAIN f \ S)[a] = f[a]
  <1>1. PICK D \in SUBSET Alarms : f \in [D -> AlarmRows]
    BY DEF Copies
  <1>2. Restrict(f, DOMAIN f \ S) \in [D \ S -> AlarmRows]
    BY <1>1 DEF Restrict
  <1>3. D \ S \in SUBSET Alarms
    OBVIOUS
  <1> QED  BY <1>1, <1>2, <1>3 DEF Copies, Restrict

LEMMA NoCopiesTypes == NoCopies \in Copies /\ DOMAIN NoCopies = {}
  <1>1. NoCopies \in [{} -> AlarmRows]
    BY DEF NoCopies
  <1>2. {} \in SUBSET Alarms
    OBVIOUS
  <1> QED  BY <1>1, <1>2 DEF Copies, NoCopies

LEMMA RowTypes ==
  ASSUME NEW row \in AlarmRows
  PROVE  /\ Trigger(row) \in AlarmRows /\ Clear(row) \in AlarmRows
         /\ Acknowledge(row) \in AlarmRows /\ Resolve(row) \in AlarmRows
         /\ \A op \in AlarmOps : Edited(op, row) \in AlarmRows
         /\ WasAlreadyActive(row) \in BOOLEAN
  BY DEF AlarmRows, AlarmStatuses, Trigger, Clear, Acknowledge, Resolve, Edited,
         AlarmOps, WasAlreadyActive

LEMMA RemovalTypes ==
  ASSUME NEW table \in [Alarms -> AlarmRows], NEW a \in Alarms
  PROVE  [table EXCEPT ![a].removed = TRUE] \in [Alarms -> AlarmRows]
  <1> DEFINE row == table[a]
             new == [row EXCEPT !.removed = TRUE]
  <1>1. row \in AlarmRows
    OBVIOUS
  <1> HIDE DEF row
  <1>2. new \in AlarmRows
    BY <1>1 DEF AlarmRows
  <1> HIDE DEF new
  <1>3. [table EXCEPT ![a] = new] \in [Alarms -> AlarmRows]
    BY <1>2
  <1>4. [table EXCEPT ![a].removed = TRUE] = [table EXCEPT ![a] = new]
    BY DEF new, row
  <1> QED  BY <1>3, <1>4

LEMMA RemovalKeeps ==
  ASSUME NEW table \in [Alarms -> AlarmRows], NEW a \in Alarms
  PROVE  \A b \in Alarms :
           /\ [table EXCEPT ![a].removed = TRUE][b].status = table[b].status
           /\ [table EXCEPT ![a].removed = TRUE][b].triggered = table[b].triggered
  BY DEF AlarmRows

LEMMA EditTypes ==
  ASSUME TypeOK, NEW q \in AlarmRequests, alarmEdit[q] # None
  PROVE  /\ alarmEdit[q] \in AlarmEdits /\ alarmEdit[q].op \in AlarmOps
         /\ alarmEdit[q].id \in Alarms /\ alarmEdit[q].copy \in AlarmRows
  BY DEF TypeOK, AlarmsTypeOK, AlarmEdits

LEMMA HeldTypes ==
  ASSUME TypeOK, NEW p \in Processes, held[p] # None
  PROVE  held[p] \in Messages /\ held[p].id \in 1..MaxUplinks
  BY DEF TypeOK, Messages

-----------------------------------------------------------------------------
(* What one save does to the table and to the histories.                   *)

LEMMA SaveTypes ==
  ASSUME AlarmsTypeOK, NEW a \in Alarms, NEW copy, NEW new \in AlarmRows,
         NEW emits \in BOOLEAN, SaveAlarm(a, copy, new, emits)
  PROVE  /\ alarm' \in [Alarms -> AlarmRows]
         /\ announced' \in [Alarms -> Nat]
         /\ unsure' \subseteq Alarms
  <1>1. announced' \in [Alarms -> Nat]
    BY DEF AlarmsTypeOK, SaveAlarm
  <1> QED  BY <1>1 DEF AlarmsTypeOK, SaveAlarm

\* A save of a fresh copy keeps the count when it emits exactly if it raises.
LEMMA SaveAnnounces ==
  ASSUME AlarmsTypeOK, AnnouncedOnce,
         NEW a \in Alarms, NEW copy, NEW new \in AlarmRows,
         NEW emits \in BOOLEAN, SaveAlarm(a, copy, new, emits),
         copy = alarm[a] /\ new.status = "ACTIVE" =>
           (emits <=> alarm[a].status # "ACTIVE")
  PROVE  AnnouncedOnce'
  <1> SUFFICES ASSUME NEW b \in Alarms, b \notin unsure'
               PROVE  announced'[b] = IF alarm'[b].status = "ACTIVE" THEN 1 ELSE 0
    BY DEF AnnouncedOnce
  <1>1. CASE b # a
    <2>1. alarm'[b] = alarm[b] /\ announced'[b] = announced[b] /\ b \notin unsure
      BY <1>1 DEF AlarmsTypeOK, SaveAlarm
    <2> QED  BY <2>1 DEF AnnouncedOnce
  <1>2. CASE b = a
    <2>1. /\ alarm'[a] = new
          /\ announced'[a] = IF new.status # "ACTIVE" THEN 0
                             ELSE announced[a] + (IF emits THEN 1 ELSE 0)
      BY DEF AlarmsTypeOK, SaveAlarm
    <2>2. CASE new.status # "ACTIVE"
      BY <1>2, <2>1, <2>2
    <2>3. CASE new.status = "ACTIVE"
      <3>1. copy = alarm[a] /\ a \notin unsure
        BY <1>2, <2>3 DEF SaveAlarm
      <3>2. announced[a] = IF alarm[a].status = "ACTIVE" THEN 1 ELSE 0
        BY <3>1 DEF AnnouncedOnce
      <3> QED  BY <1>2, <2>1, <2>3, <3>1, <3>2
    <2> QED  BY <2>2, <2>3
  <1> QED  BY <1>1, <1>2

-----------------------------------------------------------------------------
(* The inductive invariant of the way of a message.                        *)

\* What a handler holds is in the table.
HeldAreStored == \A p \in Processes :
  held[p] # None => held[p].id \in stored

\* What has been fetched is settled, or its handler is at it.
FetchedIsSettled == \A m \in 1..(next - 1) :
  Settled(m) \/ (held[owner] # None /\ held[owner].id = m)

-----------------------------------------------------------------------------
(* The type invariant.                                                     *)

LEMMA TypesInit == Init => TypeOK
  <1> SUFFICES ASSUME Init PROVE TypeOK
    OBVIOUS
  <1>1. AlarmsTypeOK
    <2>1. Created(TRUE) \in AlarmRows /\ Created(FALSE) \in AlarmRows
      BY DEF Created, AlarmRows, AlarmStatuses
    <2>2. alarm \in [Alarms -> AlarmRows]
      BY <2>1 DEF Init, AlarmsInit
    <2> QED  BY <2>2 DEF Init, AlarmsInit, AlarmsTypeOK
  <1>2. copies \in [Processes -> Copies] /\ \A p \in Processes : DOMAIN copies[p] = {}
    BY NoCopiesTypes DEF Init
  <1>3. owner \in Processes
    BY DEF Init
  <1>4. raw \in Seq(Messages) /\ Len(raw) = 0
    BY DEF Init
  <1> QED  BY <1>1, <1>2, <1>3, <1>4 DEF Init, TypeOK

LEMMA PublishTypes ==
  ASSUME TypeOK, Publish
  PROVE  TypeOK'
  <1>1. PICK S \in SUBSET Alarms :
          raw' = Append(raw, [id |-> Len(raw) + 1, meets |-> S])
    BY DEF Publish
  <1>2. [id |-> Len(raw) + 1, meets |-> S] \in Messages
    BY DEF Publish, TypeOK, Messages
  <1>3. /\ raw' \in Seq(Messages) /\ Len(raw') = Len(raw) + 1
        /\ \A i \in 1..Len(raw') : raw'[i].id = i
    <2>1. raw \in Seq(Messages) /\ Len(raw) \in Nat
      BY DEF TypeOK
    <2>2. raw' \in Seq(Messages) /\ Len(raw') = Len(raw) + 1
      BY <1>1, <1>2, <2>1
    <2>3. ASSUME NEW i \in 1..Len(raw') PROVE raw'[i].id = i
      <3>1. CASE i = Len(raw) + 1
        BY <1>1, <1>2, <2>1, <3>1
      <3>2. CASE i \in 1..Len(raw)
        BY <1>1, <1>2, <2>1, <3>2 DEF TypeOK
      <3> QED  BY <2>1, <2>2, <3>1, <3>2
    <2> QED  BY <2>2, <2>3
  <1>4. Len(raw) \in Nat /\ Len(raw') <= MaxUplinks
    BY <1>3 DEF Publish, TypeOK
  <1>5. AlarmsTypeOK'
    BY DEF Publish, TypeOK, AlarmsTypeOK, alarmVars
  <1> QED
    BY <1>3, <1>4, <1>5 DEF Publish, TypeOK, alarmVars, faultVars, outputVars

LEMMA StoreTypes ==
  ASSUME TypeOK, NEW p \in Processes, StoreTelemetry(p)
  PROVE  TypeOK'
  <1>1. /\ next \in 1..Len(raw) /\ Len(raw) \in Nat /\ raw[next] \in Messages
        /\ raw[next].id = next
    BY DEF StoreTelemetry, TypeOK
  <1>2. AlarmsTypeOK'
    BY DEF StoreTelemetry, TypeOK, AlarmsTypeOK, alarmVars
  <1>3. Restrict(alarm, Checked) \in Copies
    <2>1. Checked \in SUBSET Alarms
      BY DEF Checked
    <2>2. Restrict(alarm, Checked) \in [Checked -> AlarmRows]
      BY <2>1 DEF Restrict, TypeOK, AlarmsTypeOK
    <2> QED  BY <2>1, <2>2 DEF Copies
  <1>4. /\ failures' \in 0..MaxFailures
        /\ stored' \cup validated' \cup dead' \cup lost' \subseteq 1..Len(raw)
    BY <1>1 DEF StoreTelemetry, TypeOK, MayFail, SendToInvalid
  <1>5. /\ held' \in [Processes -> Messages \cup {None}]
        /\ copies' \in [Processes -> Copies]
        /\ \A r \in Processes : held'[r] = None => DOMAIN copies'[r] = {}
    <2>1. CASE held' = [held EXCEPT ![p] = raw[next]]
               /\ copies' \in {copies, [copies EXCEPT ![p] = Restrict(alarm, Checked)]}
      BY <1>1, <1>3, <2>1 DEF TypeOK
    <2>2. CASE UNCHANGED <<held, copies>>
      BY <2>2 DEF TypeOK
    <2> QED  BY <2>1, <2>2 DEF StoreTelemetry
  <1>6. next' \in 1..(Len(raw) + 1) /\ committed \in 0..(next' - 1)
    BY <1>1 DEF StoreTelemetry, TypeOK
  <1> QED  BY <1>2, <1>4, <1>5, <1>6 DEF StoreTelemetry, TypeOK

LEMMA FinishTypes ==
  ASSUME TypeOK, NEW p \in Processes, Finish(p)
  PROVE  /\ held' \in [Processes -> Messages \cup {None}]
         /\ copies' \in [Processes -> Copies]
         /\ \A r \in Processes : held'[r] = None => DOMAIN copies'[r] = {}
  BY NoCopiesTypes DEF Finish, TypeOK

LEMMA CheckTypes ==
  ASSUME TypeOK, NEW p \in Processes, CheckAlarm(p)
  PROVE  TypeOK'
  <1>1. PICK a \in ToSave(p) :
          \/ /\ \/ TriggerAlarm(a, copies[p][a])
                \/ AutoClearAlarm(a, copies[p][a])
             /\ copies' = [copies EXCEPT ![p] = Restrict(@, DOMAIN @ \ {a})]
             /\ UNCHANGED failures
          \/ /\ MayFail
             /\ copies' = [copies EXCEPT ![p] = NoCopies]
             /\ UNCHANGED <<alarm, announced, unsure>>
    BY DEF CheckAlarm
  <1>2. copies[p] \in Copies /\ a \in DOMAIN copies[p]
    BY DEF TypeOK, ToSave
  <1>3. a \in Alarms /\ copies[p][a] \in AlarmRows
    BY <1>2, CopyTypes
  <1>4. /\ alarm' \in [Alarms -> AlarmRows]
        /\ announced' \in [Alarms -> Nat]
        /\ unsure' \subseteq Alarms
    <2>1. CASE TriggerAlarm(a, copies[p][a])
      BY <1>3, <2>1, RowTypes, SaveTypes DEF TriggerAlarm, TypeOK, WasAlreadyActive
    <2>2. CASE AutoClearAlarm(a, copies[p][a])
      BY <1>3, <2>2, RowTypes, SaveTypes DEF AutoClearAlarm, TypeOK
    <2>3. CASE UNCHANGED <<alarm, announced, unsure>>
      BY <2>3 DEF TypeOK, AlarmsTypeOK
    <2> QED  BY <1>1, <2>1, <2>2, <2>3
  <1>5. AlarmsTypeOK'
    BY <1>4 DEF CheckAlarm, TypeOK, AlarmsTypeOK
  <1>6. failures' \in 0..MaxFailures
    BY <1>1 DEF TypeOK, MayFail
  <1>7. /\ copies' \in [Processes -> Copies]
        /\ \A r \in Processes : held[r] = None => DOMAIN copies'[r] = {}
    <2>1. PICK f \in Copies : copies' = [copies EXCEPT ![p] = f]
      BY <1>1, <1>2, FewerCopies, NoCopiesTypes
    <2> QED  BY <2>1 DEF TypeOK, CheckAlarm
  <1> QED  BY <1>5, <1>6, <1>7 DEF CheckAlarm, TypeOK, topicVars, outputVars

LEMMA ForwardTypes ==
  ASSUME TypeOK, HeldAreStored, NEW p \in Processes, Forward(p)
  PROVE  TypeOK'
  <1>1. held[p].id \in 1..Len(raw)
    BY DEF Forward, HeldAreStored, TypeOK
  <1>2. /\ failures' \in 0..MaxFailures
        /\ stored' \cup validated' \cup dead' \cup lost' \subseteq 1..Len(raw)
    BY <1>1 DEF Forward, TypeOK, SendToInvalid, MayFail
  <1>3. AlarmsTypeOK'
    BY DEF Forward, TypeOK, AlarmsTypeOK, alarmVars
  <1>4. Finish(p)
    BY DEF Forward
  <1> QED  BY <1>2, <1>3, <1>4, FinishTypes DEF Forward, TypeOK, topicVars

LEMMA CommitTypes ==
  ASSUME TypeOK, Commit
  PROVE  TypeOK'
  <1>1. AlarmsTypeOK'
    BY DEF Commit, TypeOK, AlarmsTypeOK, alarmVars
  <1> QED  BY <1>1 DEF Commit, TypeOK, faultVars, outputVars

LEMMA AssignTypes ==
  ASSUME TypeOK, NEW p \in Processes, Assign(p)
  PROVE  /\ owner' \in Processes /\ next' \in 1..(Len(raw') + 1)
         /\ committed' \in 0..(next' - 1)
         /\ redeliveries' \in 0..MaxRedeliveries
  BY DEF Assign, TypeOK

LEMMA RebalanceTypes ==
  ASSUME TypeOK, Rebalance
  PROVE  TypeOK'
  <1>1. PICK p \in Processes : Assign(p)
    BY DEF Rebalance
  <1>2. AlarmsTypeOK'
    BY DEF Rebalance, TypeOK, AlarmsTypeOK, alarmVars
  <1> QED
    BY <1>1, <1>2, AssignTypes DEF Rebalance, Assign, TypeOK, outputVars

LEMMA CrashTypes ==
  ASSUME TypeOK, Crash
  PROVE  TypeOK'
  <1>1. PICK p \in Processes : Assign(p)
    BY DEF Crash
  <1>2. owner \in Processes /\ Finish(owner)
    BY DEF Crash, TypeOK
  <1>3. /\ alarm' \in [Alarms -> AlarmRows]
        /\ announced' \in [Alarms -> Nat]
        /\ unsure' \subseteq Alarms
    <2>1. CASE UNCHANGED <<alarm, announced, unsure>>
      BY <2>1 DEF TypeOK, AlarmsTypeOK
    <2>2. ASSUME NEW a \in ToSave(owner),
                 TriggerAlarmUnheard(a, copies[owner][a])
          PROVE  /\ alarm' \in [Alarms -> AlarmRows]
                 /\ announced' \in [Alarms -> Nat]
                 /\ unsure' \subseteq Alarms
      <3>1. copies[owner] \in Copies /\ a \in DOMAIN copies[owner]
        BY <1>2 DEF TypeOK, ToSave
      <3>2. a \in Alarms /\ copies[owner][a] \in AlarmRows
        BY <3>1, CopyTypes
      <3> QED
        BY <2>2, <3>2, RowTypes DEF TriggerAlarmUnheard, TypeOK, AlarmsTypeOK
    <2> QED  BY <2>1, <2>2 DEF Crash
  <1>4. AlarmsTypeOK'
    BY <1>3 DEF Crash, TypeOK, AlarmsTypeOK
  <1> QED
    BY <1>1, <1>2, <1>4, AssignTypes, FinishTypes
    DEF Assign, TypeOK, outputVars

LEMMA UserTypes ==
  ASSUME TypeOK, UserStep
  PROVE  TypeOK'
  <1>1. PICK q \in AlarmRequests :
          \/ /\ requests < MaxRequests /\ requests' = requests + 1
             /\ AlarmRead(q)
          \/ AlarmSave(q) /\ UNCHANGED requests
    BY DEF UserStep
  <1>2. AlarmsTypeOK'
    <2>1. CASE AlarmRead(q)
      <3>1. PICK a \in Alarms, op \in AlarmOps :
              alarmEdit' = [alarmEdit EXCEPT ![q] =
                              [op |-> op, id |-> a, copy |-> alarm[a]]]
        BY <2>1 DEF AlarmRead
      <3>2. [op |-> op, id |-> a, copy |-> alarm[a]] \in AlarmEdits
        BY DEF AlarmEdits, TypeOK, AlarmsTypeOK
      <3> QED  BY <2>1, <3>1, <3>2 DEF AlarmRead, TypeOK, AlarmsTypeOK
    <2>2. CASE AlarmSave(q)
      <3> DEFINE e == alarmEdit[q]
      <3>1. /\ e # None /\ e.op \in AlarmOps /\ e.id \in Alarms
            /\ e.copy \in AlarmRows
        BY <2>2, EditTypes DEF AlarmSave
      <3>2. alarmEdit' \in [AlarmRequests -> AlarmEdits \cup {None}]
        BY <2>2 DEF AlarmSave, TypeOK, AlarmsTypeOK
      <3>3. CASE SaveAlarm(e.id, e.copy, Edited(e.op, e.copy), FALSE)
        BY <3>1, <3>2, <3>3, RowTypes, SaveTypes DEF TypeOK, AlarmsTypeOK
      <3>4. CASE /\ alarm' = [alarm EXCEPT ![e.id].removed = TRUE]
                 /\ UNCHANGED <<announced, unsure>>
        <4>1. alarm' \in [Alarms -> AlarmRows]
          BY <3>1, <3>4, RemovalTypes DEF TypeOK, AlarmsTypeOK
        <4> QED  BY <3>2, <3>4, <4>1 DEF TypeOK, AlarmsTypeOK
      <3> QED  BY <2>2, <3>3, <3>4 DEF AlarmSave
    <2> QED  BY <1>1, <2>1, <2>2
  <1>3. requests' \in 0..MaxRequests
    BY <1>1 DEF TypeOK
  <1> QED  BY <1>2, <1>3 DEF UserStep, TypeOK, topicVars, outputVars

LEMMA NextTypes ==
  ASSUME TypeOK, HeldAreStored, Next
  PROVE  TypeOK'
  BY PublishTypes, UserTypes, CommitTypes, RebalanceTypes, CrashTypes, StoreTypes,
     CheckTypes, ForwardTypes DEF Next, Handle

\* Stuttering.
LEMMA TypesStay ==
  ASSUME TypeOK, UNCHANGED vars
  PROVE  TypeOK'
  BY DEF TypeOK, AlarmsTypeOK, vars, alarmVars

-----------------------------------------------------------------------------
(* Messages that are committed are settled.                                *)

MessageInv == HeldAreStored /\ FetchedIsSettled /\ CommittedIsSettled

LEMMA MessageInit == Init => MessageInv
  BY DEF Init, MessageInv, HeldAreStored, FetchedIsSettled, CommittedIsSettled

\* Whatever does not touch the messages.
LEMMA MessagesStay ==
  ASSUME MessageInv, UNCHANGED <<owner, next, committed, held>>,
         UNCHANGED <<stored, validated, dead, lost>>
  PROVE  MessageInv'
  BY DEF MessageInv, HeldAreStored, FetchedIsSettled, CommittedIsSettled, Settled

\* A message that is settled stays so.
LEMMA SettledStays ==
  ASSUME stored \subseteq stored', validated \subseteq validated',
         dead \subseteq dead', lost \subseteq lost', NEW m, Settled(m)
  PROVE  Settled(m)'
  BY DEF Settled

LEMMA StoreMessages ==
  ASSUME TypeOK, MessageInv, NEW p \in Processes, StoreTelemetry(p)
  PROVE  MessageInv'
  <1>1. /\ next \in 1..Len(raw) /\ Len(raw) \in Nat /\ raw[next].id = next
        /\ raw[next] \in Messages
        /\ p = owner /\ owner' = owner /\ held[p] = None
        /\ next' = next + 1 /\ committed' = committed /\ validated' = validated
    BY DEF StoreTelemetry, TypeOK
  <1>2. /\ stored \subseteq stored' /\ validated \subseteq validated'
        /\ dead \subseteq dead' /\ lost \subseteq lost'
    BY DEF StoreTelemetry, SendToInvalid
  <1>3. \/ held' = [held EXCEPT ![p] = raw[next]] /\ next \in stored'
        \/ held' = held /\ next \in dead' \cup lost'
    BY <1>1 DEF StoreTelemetry, SendToInvalid
  <1>4. HeldAreStored'
    BY <1>1, <1>2, <1>3 DEF MessageInv, HeldAreStored, TypeOK
  <1>5. FetchedIsSettled'
    <2> SUFFICES ASSUME NEW m \in 1..(next' - 1)
                 PROVE  Settled(m)' \/ (held'[owner] # None /\ held'[owner].id = m)
      BY <1>1 DEF FetchedIsSettled
    <2>1. CASE m \in 1..(next - 1)
      BY <1>1, <1>2, <2>1, SettledStays DEF MessageInv, FetchedIsSettled
    <2>2. CASE m = next
      BY <1>1, <1>3, <2>2 DEF TypeOK, Settled
    <2> QED  BY <1>1, <2>1, <2>2
  <1>6. CommittedIsSettled'
    BY <1>1, <1>2, SettledStays DEF MessageInv, CommittedIsSettled
  <1> QED  BY <1>4, <1>5, <1>6 DEF MessageInv

LEMMA ForwardMessages ==
  ASSUME TypeOK, MessageInv, NEW p \in Processes, Forward(p)
  PROVE  MessageInv'
  <1>1. /\ UNCHANGED <<owner, next, committed, stored>>
        /\ held[p] # None /\ held[p].id \in stored
        /\ held' = [held EXCEPT ![p] = None]
    BY DEF Forward, topicVars, Finish, MessageInv, HeldAreStored
  <1>2. validated \subseteq validated' /\ dead \subseteq dead' /\ lost \subseteq lost'
    BY DEF Forward, SendToInvalid
  <1>3. held[p].id \in (stored' \cap validated') \cup dead' \cup lost'
    BY <1>1 DEF Forward, SendToInvalid
  <1>4. HeldAreStored'
    BY <1>1 DEF MessageInv, HeldAreStored, TypeOK
  <1>5. FetchedIsSettled'
    <2> SUFFICES ASSUME NEW m \in 1..(next - 1)
                 PROVE  Settled(m)' \/ (held'[owner] # None /\ held'[owner].id = m)
      BY <1>1 DEF FetchedIsSettled
    <2>1. CASE Settled(m)
      BY <1>1, <1>2, <2>1, SettledStays
    <2>2. CASE held[owner] # None /\ held[owner].id = m
      BY <1>1, <1>3, <2>2 DEF TypeOK, Settled
    <2> QED  BY <2>1, <2>2 DEF MessageInv, FetchedIsSettled
  <1>6. CommittedIsSettled'
    BY <1>1, <1>2, SettledStays DEF MessageInv, CommittedIsSettled
  <1> QED  BY <1>4, <1>5, <1>6 DEF MessageInv

LEMMA CommitMessages ==
  ASSUME TypeOK, MessageInv, Commit
  PROVE  MessageInv'
  <1>1. \A m \in 1..(next - 1) : Settled(m)
    BY DEF Commit, MessageInv, FetchedIsSettled
  <1>2. /\ committed' = next - 1
        /\ UNCHANGED <<owner, next, held, stored, validated, dead, lost>>
    BY DEF Commit, outputVars
  <1> QED
    BY <1>1, <1>2
    DEF MessageInv, HeldAreStored, FetchedIsSettled, CommittedIsSettled, Settled

\* The new owner starts behind what is committed, and that is settled.
LEMMA AssignMessages ==
  ASSUME TypeOK, MessageInv, NEW p \in Processes, Assign(p),
         \A r \in Processes : held'[r] \in {held[r], None}
  PROVE  MessageInv'
  <1>1. /\ next' = committed + 1 /\ committed' = committed /\ committed \in Nat
        /\ UNCHANGED <<stored, validated, dead, lost>>
    BY DEF Assign, outputVars, TypeOK
  <1>2. HeldAreStored'
    BY <1>1 DEF MessageInv, HeldAreStored
  <1>3. \A m : Settled(m) => Settled(m)'
    BY <1>1 DEF Settled
  <1> QED
    BY <1>1, <1>2, <1>3 DEF MessageInv, FetchedIsSettled, CommittedIsSettled

LEMMA MessageStep ==
  ASSUME TypeOK, MessageInv, Next
  PROVE  MessageInv'
  <1>1. CASE Publish \/ UserStep
    BY <1>1, MessagesStay DEF Publish, UserStep, topicVars, outputVars
  <1>2. CASE Commit
    BY <1>2, CommitMessages
  <1>3. CASE Rebalance
    BY <1>3, AssignMessages DEF Rebalance
  <1>4. CASE Crash
    <2>1. \A r \in Processes : held'[r] \in {held[r], None}
      BY <1>4 DEF Crash, Finish, TypeOK
    <2> QED  BY <1>4, <2>1, AssignMessages DEF Crash
  <1>5. ASSUME NEW p \in Processes, Handle(p) PROVE MessageInv'
    <2>1. CASE StoreTelemetry(p)
      BY <2>1, StoreMessages
    <2>2. CASE CheckAlarm(p)
      BY <2>2, MessagesStay DEF CheckAlarm, topicVars, outputVars
    <2>3. CASE Forward(p)
      BY <2>3, ForwardMessages
    <2> QED  BY <1>5, <2>1, <2>2, <2>3 DEF Handle
  <1> QED  BY <1>1, <1>2, <1>3, <1>4, <1>5 DEF Next

-----------------------------------------------------------------------------
(* An alarm that is raised is announced once.                              *)

\* An alarm that is on has been triggered; so says every copy, too.
ActiveWasTriggered(row) == row.status = "ACTIVE" => row.triggered

RowsInv ==
  /\ \A a \in Alarms : ActiveWasTriggered(alarm[a])
  /\ \A q \in AlarmRequests :
       alarmEdit[q] # None => ActiveWasTriggered(alarmEdit[q].copy)
  /\ \A p \in Processes : \A a \in DOMAIN copies[p] :
       ActiveWasTriggered(copies[p][a])

AlarmInv == RowsInv /\ AnnouncedOnce

LEMMA AlarmInit == Init => AlarmInv
  <1> SUFFICES ASSUME Init PROVE AlarmInv
    OBVIOUS
  <1>1. \A a \in Alarms : alarm[a].status = "INACTIVE"
    <2>1. alarm \in [Alarms -> {Created(TRUE), Created(FALSE)}]
      BY DEF Init, AlarmsInit
    <2>2. /\ Created(TRUE).status = "INACTIVE"
          /\ Created(FALSE).status = "INACTIVE"
      BY DEF Created
    <2> QED  BY <2>1, <2>2
  <1>2. AnnouncedOnce
    BY <1>1 DEF Init, AlarmsInit, AnnouncedOnce
  <1>3. RowsInv
    BY <1>1, NoCopiesTypes
    DEF Init, AlarmsInit, RowsInv, ActiveWasTriggered
  <1> QED  BY <1>2, <1>3 DEF AlarmInv

\* Edits turn no alarm on.
LEMMA EditsRaiseNothing ==
  ASSUME NEW row \in AlarmRows, ActiveWasTriggered(row), NEW op \in AlarmOps
  PROVE  /\ ActiveWasTriggered(Edited(op, row))
         /\ Edited(op, row).status = "ACTIVE" => row.status = "ACTIVE"
  BY DEF AlarmRows, ActiveWasTriggered, Edited, Acknowledge, Clear, Resolve, AlarmOps

LEMMA HandlersWrite ==
  ASSUME NEW row \in AlarmRows
  PROVE  /\ Trigger(row).status = "ACTIVE" /\ Trigger(row).triggered
         /\ Clear(row).status = "ACTIVE" => row.status = "RESOLVED"
  BY DEF AlarmRows, Trigger, Clear

LEMMA CheckAnnounces ==
  ASSUME TypeOK, AlarmInv, NEW p \in Processes, CheckAlarm(p)
  PROVE  AlarmInv'
  <1>1. PICK a \in ToSave(p) :
          \/ /\ \/ TriggerAlarm(a, copies[p][a])
                \/ AutoClears(a, copies[p][a]) /\ AutoClearAlarm(a, copies[p][a])
             /\ copies' = [copies EXCEPT ![p] = Restrict(@, DOMAIN @ \ {a})]
          \/ /\ copies' = [copies EXCEPT ![p] = NoCopies]
             /\ UNCHANGED <<alarm, announced, unsure>>
    BY DEF CheckAlarm, ToSave
  <1>2. copies[p] \in Copies /\ a \in DOMAIN copies[p]
    BY DEF TypeOK, ToSave
  <1>3. PICK copy \in AlarmRows : copy = copies[p][a]
    BY <1>2, CopyTypes
  <1>4. a \in Alarms /\ ActiveWasTriggered(copy)
    BY <1>2, <1>3, CopyTypes DEF AlarmInv, RowsInv
  <1>5. \A r \in Processes : \A b \in DOMAIN copies'[r] :
          ActiveWasTriggered(copies'[r][b])
    <2> DEFINE rest == Restrict(copies[p], DOMAIN copies[p] \ {a})
    <2>1. \A b \in DOMAIN rest :
            b \in DOMAIN copies[p] /\ rest[b] = copies[p][b]
      BY DEF Restrict
    <2>2. CASE copies' = [copies EXCEPT ![p] = rest]
      <3> HIDE DEF rest
      <3>1. \A r \in Processes :
              copies'[r] = IF r = p THEN rest ELSE copies[r]
        BY <2>2 DEF TypeOK
      <3>2. \A b \in DOMAIN rest : ActiveWasTriggered(rest[b])
        BY <2>1 DEF AlarmInv, RowsInv
      <3> QED  BY <3>1, <3>2 DEF AlarmInv, RowsInv
    <2>3. CASE copies' = [copies EXCEPT ![p] = NoCopies]
      BY <2>3, NoCopiesTypes DEF AlarmInv, RowsInv, TypeOK
    <2> QED  BY <1>1, <2>2, <2>3
  <1>6. CASE TriggerAlarm(a, copies[p][a])
    <2>1. SaveAlarm(a, copy, Trigger(copy), ~WasAlreadyActive(copy))
      BY <1>3, <1>6 DEF TriggerAlarm
    <2>2. copy = alarm[a] =>
            (~WasAlreadyActive(copy) <=> alarm[a].status # "ACTIVE")
      BY <1>4 DEF ActiveWasTriggered, WasAlreadyActive
    <2>3. AnnouncedOnce'
      BY <1>4, <2>1, <2>2, RowTypes, SaveAnnounces DEF TypeOK, AlarmInv, WasAlreadyActive
    <2>4. \A b \in Alarms : ActiveWasTriggered(alarm'[b])
      BY <1>4, <2>1, HandlersWrite
      DEF SaveAlarm, AlarmInv, RowsInv, TypeOK, AlarmsTypeOK, ActiveWasTriggered
    <2> QED  BY <1>5, <2>3, <2>4 DEF AlarmInv, RowsInv, CheckAlarm
  <1>7. CASE AutoClears(a, copies[p][a]) /\ AutoClearAlarm(a, copies[p][a])
    <2>1. SaveAlarm(a, copy, Clear(copy), FALSE) /\ copy.status = "ACTIVE"
      BY <1>3, <1>7 DEF AutoClearAlarm, AutoClears
    <2>2. Clear(copy).status # "ACTIVE"
      BY <2>1, HandlersWrite
    <2>3. AnnouncedOnce'
      BY <1>4, <2>1, <2>2, RowTypes, SaveAnnounces DEF TypeOK, AlarmInv
    <2>4. \A b \in Alarms : ActiveWasTriggered(alarm'[b])
      BY <1>4, <2>1, <2>2
      DEF SaveAlarm, AlarmInv, RowsInv, TypeOK, AlarmsTypeOK, ActiveWasTriggered
    <2> QED  BY <1>5, <2>3, <2>4 DEF AlarmInv, RowsInv, CheckAlarm
  <1>8. CASE UNCHANGED <<alarm, announced, unsure>>
    BY <1>5, <1>8 DEF AlarmInv, RowsInv, AnnouncedOnce, CheckAlarm
  <1> QED  BY <1>1, <1>6, <1>7, <1>8

LEMMA StoreAnnounces ==
  ASSUME TypeOK, AlarmInv, NEW p \in Processes, StoreTelemetry(p)
  PROVE  AlarmInv'
  <1>1. UNCHANGED <<alarm, alarmEdit, announced, unsure>>
    BY DEF StoreTelemetry, alarmVars
  <1>2. copies' \in {copies, [copies EXCEPT ![p] = Restrict(alarm, Checked)]}
    BY DEF StoreTelemetry
  <1>3. \A a \in DOMAIN Restrict(alarm, Checked) :
          a \in Alarms /\ Restrict(alarm, Checked)[a] = alarm[a]
    BY DEF Restrict, Checked
  <1>4. \A r \in Processes : \A a \in DOMAIN copies'[r] :
          ActiveWasTriggered(copies'[r][a])
    BY <1>2, <1>3 DEF AlarmInv, RowsInv, TypeOK
  <1> QED  BY <1>1, <1>4 DEF AlarmInv, RowsInv, AnnouncedOnce

\* A handler that is done or dead has no copies.
LEMMA FinishedCopies ==
  ASSUME TypeOK, AlarmInv, NEW p \in Processes, Finish(p)
  PROVE  \A r \in Processes : \A a \in DOMAIN copies'[r] :
           ActiveWasTriggered(copies'[r][a])
  BY NoCopiesTypes DEF Finish, TypeOK, AlarmInv, RowsInv

LEMMA CrashAnnounces ==
  ASSUME TypeOK, AlarmInv, Crash
  PROVE  AlarmInv'
  <1>1. owner \in Processes /\ Finish(owner) /\ alarmEdit' = alarmEdit
    BY DEF Crash, TypeOK
  <1>2. CASE UNCHANGED <<alarm, announced, unsure>>
    BY <1>1, <1>2, FinishedCopies DEF AlarmInv, RowsInv, AnnouncedOnce
  <1>3. ASSUME NEW a \in ToSave(owner),
               TriggerAlarmUnheard(a, copies[owner][a])
        PROVE  AlarmInv'
    <2>1. copies[owner] \in Copies /\ a \in DOMAIN copies[owner]
      BY <1>1 DEF TypeOK, ToSave
    <2>2. PICK copy \in AlarmRows : copy = copies[owner][a]
      BY <2>1, CopyTypes
    <2>3. /\ alarm' = [alarm EXCEPT ![a] = Trigger(copy)]
          /\ unsure' = unsure \cup {a} /\ announced' = announced
      BY <1>3, <2>2 DEF TriggerAlarmUnheard
    <2>4. \A b \in Alarms : ActiveWasTriggered(alarm'[b])
      BY <2>3, HandlersWrite
      DEF AlarmInv, RowsInv, TypeOK, AlarmsTypeOK, ActiveWasTriggered
    <2>5. AnnouncedOnce'
      BY <2>3 DEF AlarmInv, AnnouncedOnce, TypeOK, AlarmsTypeOK
    <2> QED  BY <1>1, <2>4, <2>5, FinishedCopies DEF AlarmInv, RowsInv
  <1> QED  BY <1>2, <1>3 DEF Crash

LEMMA UserAnnounces ==
  ASSUME TypeOK, AlarmInv, UserStep
  PROVE  AlarmInv'
  <1>1. PICK q \in AlarmRequests : AlarmRead(q) \/ AlarmSave(q)
    BY DEF UserStep
  <1>2. copies' = copies
    BY DEF UserStep
  <1>3. CASE AlarmRead(q)
    <2>1. PICK a \in Alarms, op \in AlarmOps :
            alarmEdit' = [alarmEdit EXCEPT ![q] =
                            [op |-> op, id |-> a, copy |-> alarm[a]]]
      BY <1>3 DEF AlarmRead
    <2>2. \A r \in AlarmRequests :
            alarmEdit'[r] # None => ActiveWasTriggered(alarmEdit'[r].copy)
      BY <2>1 DEF AlarmInv, RowsInv, TypeOK, AlarmsTypeOK
    <2> QED
      BY <1>2, <1>3, <2>2 DEF AlarmRead, AlarmInv, RowsInv, AnnouncedOnce
  <1>4. CASE AlarmSave(q)
    <2>1. PICK a \in Alarms, op \in AlarmOps, copy \in AlarmRows :
            a = alarmEdit[q].id /\ op = alarmEdit[q].op /\ copy = alarmEdit[q].copy
      BY <1>4, EditTypes DEF AlarmSave
    <2>2. ActiveWasTriggered(copy)
      BY <1>4, <2>1 DEF AlarmSave, AlarmInv, RowsInv
    <2>3. \A r \in AlarmRequests :
            alarmEdit'[r] # None => ActiveWasTriggered(alarmEdit'[r].copy)
      BY <1>4 DEF AlarmSave, AlarmInv, RowsInv, TypeOK, AlarmsTypeOK
    <2>4. CASE SaveAlarm(a, copy, Edited(op, copy), FALSE)
      <3>1. copy = alarm[a] /\ Edited(op, copy).status = "ACTIVE" =>
              alarm[a].status = "ACTIVE"
        BY <2>2, EditsRaiseNothing
      <3>2. AnnouncedOnce'
        BY <2>4, <3>1, RowTypes, SaveAnnounces DEF TypeOK, AlarmInv
      <3>3. \A b \in Alarms : ActiveWasTriggered(alarm'[b])
        BY <2>2, <2>4, EditsRaiseNothing
        DEF SaveAlarm, AlarmInv, RowsInv, TypeOK, AlarmsTypeOK
      <3> QED  BY <1>2, <2>3, <3>2, <3>3 DEF AlarmInv, RowsInv
    <2>5. CASE /\ alarm' = [alarm EXCEPT ![a].removed = TRUE]
               /\ UNCHANGED <<announced, unsure>>
      <3>1. \A b \in Alarms : /\ alarm'[b].status = alarm[b].status
                              /\ alarm'[b].triggered = alarm[b].triggered
        BY <2>5, RemovalKeeps DEF TypeOK, AlarmsTypeOK
      <3> QED
        BY <1>2, <2>3, <2>5, <3>1
        DEF AlarmInv, RowsInv, AnnouncedOnce, ActiveWasTriggered
    <2> QED  BY <1>4, <2>1, <2>4, <2>5 DEF AlarmSave
  <1> QED  BY <1>1, <1>3, <1>4

LEMMA AlarmStep ==
  ASSUME TypeOK, AlarmInv, Next
  PROVE  AlarmInv'
  <1>1. CASE Publish \/ Commit \/ Rebalance
    BY <1>1 DEF Publish, Commit, Rebalance, alarmVars, AlarmInv, RowsInv, AnnouncedOnce
  <1>2. ASSUME NEW p \in Processes, Forward(p) PROVE AlarmInv'
    BY <1>2, FinishedCopies DEF Forward, alarmVars, AlarmInv, RowsInv, AnnouncedOnce
  <1> QED
    BY <1>1, <1>2, UserAnnounces, CrashAnnounces, StoreAnnounces, CheckAnnounces
    DEF Next, Handle

-----------------------------------------------------------------------------

IInv == TypeOK /\ MessageInv /\ AlarmInv

\* The inductive invariant holds: every handler's message is stored, every
\* fetched message is settled or in the owner's hands, and rows and copies
\* that are ACTIVE have been triggered.
THEOREM Invariant == Spec => []IInv
  <1>1. Init => IInv
    BY TypesInit, MessageInit, AlarmInit DEF IInv
  <1>2. IInv /\ [Next]_vars => IInv'
    <2>1. ASSUME IInv, Next PROVE IInv'
      BY <2>1, NextTypes, MessageStep, AlarmStep DEF IInv, MessageInv
    <2>2. ASSUME IInv, UNCHANGED vars PROVE IInv'
      <3>1. MessageInv'
        BY <2>2, MessagesStay DEF IInv, vars
      <3>2. AlarmInv'
        BY <2>2 DEF IInv, AlarmInv, RowsInv, AnnouncedOnce, vars, alarmVars
      <3> QED  BY <2>2, <3>1, <3>2, TypesStay DEF IInv
    <2> QED  BY <2>1, <2>2
  <1> QED  BY <1>1, <1>2, PTL DEF Spec

\* Rows, copies, messages and counters keep their types, whatever processes
\* and users do.
THEOREM TypeCorrect == Spec => []TypeOK
  <1>1. IInv => TypeOK
    BY DEF IInv
  <1> QED  BY <1>1, Invariant, PTL

\* Kafka is told that a message is done only when it is stored and forwarded,
\* or kept as invalid, or that has failed.
THEOREM CommittedAreSettled == Spec => []CommittedIsSettled
  <1>1. IInv => CommittedIsSettled
    BY DEF IInv, MessageInv
  <1> QED  BY <1>1, Invariant, PTL

\* What is not settled is still on the topic for the process that has it, or in
\* the hands of that process, whoever crashed or lost the topic before.
THEOREM NoneIsForgotten ==
  Spec => [](\A m \in 1..Len(raw) :
               \/ Settled(m) \/ m >= next
               \/ held[owner] # None /\ held[owner].id = m)
  <1>1. IInv => \A m \in 1..Len(raw) :
                  \/ Settled(m) \/ m >= next
                  \/ held[owner] # None /\ held[owner].id = m
    <2> SUFFICES ASSUME IInv, NEW m \in 1..Len(raw), ~(m >= next)
                 PROVE  \/ Settled(m)
                        \/ held[owner] # None /\ held[owner].id = m
      OBVIOUS
    <2>1. m \in 1..(next - 1)
      BY DEF IInv, TypeOK
    <2> QED  BY <2>1 DEF IInv, MessageInv, FetchedIsSettled
  <1> QED  BY <1>1, Invariant, PTL

\* An alarm that is on was announced once since it was raised, unless a stale
\* save or a crash raised it.
THEOREM AnnouncementsAreSingle == Spec => []AnnouncedOnce
  <1>1. IInv => AnnouncedOnce
    BY DEF IInv, AlarmInv
  <1> QED  BY <1>1, Invariant, PTL

=============================================================================
