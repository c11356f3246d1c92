------------------------------ MODULE Telemetry ------------------------------
(***************************************************************************)
(* The way of one device's telemetry: the listener publishes it on topic   *)
(* telemetry.device.raw; TelemetryConsumer stores it, checks the alarms,   *)
(* runs the automations (module Automations, they touch nothing of this)   *)
(* and forwards it to telemetry.device.validated.  What fails goes to      *)
(* telemetry.device.invalid.                                               *)
(*                                                                         *)
(* Messages are keyed by the device, so the topic is one sequence here,    *)
(* read by one process of the group at a time.  KafkaJS commits offsets    *)
(* after the handler; when a process dies, or outlasts its session, what   *)
(* it has not committed is read again, while its handler may go on.        *)
(*                                                                         *)
(* Every await that others can notice is a step; the code after it up to   *)
(* the next one is part of it.                                             *)
(***************************************************************************)
EXTENDS Alarms, Sequences, Functions

CONSTANTS
  Processes,       \* server processes
  MaxUplinks,      \* bound: messages of the device
  MaxFailures,     \* bound: calls to PostgreSQL or Kafka that fail
  MaxRedeliveries, \* bound: crashes and rebalances
  MaxRequests      \* bound: requests of users

ASSUME TelemetryNumbers ==
  /\ Processes # {}
  /\ MaxUplinks \in Nat /\ MaxFailures \in Nat /\ MaxRedeliveries \in Nat
  /\ MaxRequests \in Nat

\* A message: meets are the alarms whose condition its values meet.
Messages == [id : 1..MaxUplinks, meets : SUBSET Alarms]

ASSUME NoneIsNoMessage == None \notin Messages

VARIABLES
  raw,       \* topic telemetry.device.raw
  owner,     \* the process to which the group has given it
  next,      \* the index it fetches next
  committed, \* the last index whose offset is committed
  held,      \* the message of each process, None when it is idle
  copies,    \* the alarms its handler has read and not dealt with
  failures, redeliveries, requests,
  stored,    \* table telemetry: the messages of which there are rows
  validated, \* topic telemetry.device.validated
  dead,      \* topic telemetry.device.invalid
  lost       \* history: messages that could not be sent there either

vars == <<alarmVars, raw, owner, next, committed, held, copies, failures,
          redeliveries, requests, stored, validated, dead, lost>>

topicVars  == <<raw, owner, next, committed>>
faultVars  == <<failures, redeliveries, requests>>
outputVars == <<stored, validated, dead, lost>>

\* What a handler has read.
Copies == UNION {[S -> AlarmRows] : S \in SUBSET Alarms}

NoCopies == [a \in {} |-> None]

Init ==
  /\ AlarmsInit
  /\ raw = <<>>
  /\ owner = CHOOSE p \in Processes : TRUE      \* any, they are alike
  /\ next = 1 /\ committed = 0
  /\ held = [p \in Processes |-> None]
  /\ copies = [p \in Processes |-> NoCopies]
  /\ failures = 0 /\ redeliveries = 0 /\ requests = 0
  /\ stored = {} /\ validated = {} /\ dead = {} /\ lost = {}

MayFail == failures < MaxFailures /\ failures' = failures + 1

\* handleMessage resolves, whatever happened in it.
Finish(p) ==
  /\ held' = [held EXCEPT ![p] = None]
  /\ copies' = [copies EXCEPT ![p] = NoCopies]

\* The listener has decoded an uplink.
Publish ==
  /\ Len(raw) < MaxUplinks
  /\ \E S \in SUBSET Alarms :
       raw' = Append(raw, [id |-> Len(raw) + 1, meets |-> S])
  /\ UNCHANGED <<alarmVars, owner, next, committed, held, copies, faultVars,
                 outputVars>>

-----------------------------------------------------------------------------
(* TelemetryConsumer of process p.                                         *)

\* Mutant: the failure is logged and that is all.
SendToInvalidLogged(m) == MayFail /\ UNCHANGED <<dead, lost>>

\* The catch of handleMessage; its own send may fail too.
SendToInvalid(m) ==
  \/ /\ MayFail
     /\ dead' = dead \cup {m.id} /\ UNCHANGED lost
  \/ /\ failures + 2 <= MaxFailures /\ failures' = failures + 2
     /\ lost' = lost \cup {m.id} /\ UNCHANGED dead

Checked == {a \in Alarms : Listed(a) /\ alarm[a].enabled}

\* The next message is fetched, its row stored and, as nobody looks at it in
\* between, all enabled alarms of the device read in one query.  When that
\* fails the alarms are skipped.
StoreTelemetry(p) ==
  /\ owner = p /\ held[p] = None /\ next <= Len(raw)
  /\ next' = next + 1
  /\ \/ /\ stored' = stored \cup {raw[next].id}
        /\ held' = [held EXCEPT ![p] = raw[next]]
        /\ \/ /\ copies' = [copies EXCEPT ![p] = Restrict(alarm, Checked)]
              /\ UNCHANGED failures
           \/ MayFail /\ UNCHANGED copies
        /\ UNCHANGED <<dead, lost>>
     \/ SendToInvalid(raw[next]) /\ UNCHANGED <<stored, held, copies>>
  /\ UNCHANGED <<alarmVars, raw, owner, committed, redeliveries, requests,
                 validated>>

\* The alarms that checkAlarmConditionsBatch has still to save.
ToSave(p) == {a \in DOMAIN copies[p] : \/ a \in held[p].meets
                                       \/ AutoClears(a, copies[p][a])}

\* One turn of the loop.  A failure leaves the loop, the other alarms behind.
CheckAlarm(p) ==
  /\ held[p] # None
  /\ \E a \in ToSave(p) :
       \/ /\ \/ a \in held[p].meets /\ TriggerAlarm(a, copies[p][a])
             \/ a \notin held[p].meets /\ AutoClearAlarm(a, copies[p][a])
          /\ copies' = [copies EXCEPT ![p] = Restrict(@, DOMAIN @ \ {a})]
          /\ UNCHANGED failures
       \/ /\ MayFail
          /\ copies' = [copies EXCEPT ![p] = NoCopies]
          /\ UNCHANGED <<alarm, announced, unsure>>
  /\ UNCHANGED <<alarmEdit, topicVars, held, redeliveries, requests,
                 outputVars>>

\* To telemetry.device.validated and then to rules.input, which nobody reads.
Forward(p) ==
  /\ held[p] # None /\ ToSave(p) = {}
  /\ \/ /\ validated' = validated \cup {held[p].id}
        /\ \/ UNCHANGED <<failures, dead, lost>>
           \/ SendToInvalid(held[p])
     \/ SendToInvalid(held[p]) /\ UNCHANGED validated
  /\ Finish(p)
  /\ UNCHANGED <<alarmVars, topicVars, redeliveries, requests, stored>>

-----------------------------------------------------------------------------
(* KafkaJS and the process.                                                *)

\* Mutant: the offset of a message is committed when it is fetched.
CommitFetched ==
  /\ committed < next - 1 /\ committed' = next - 1
  /\ UNCHANGED <<alarmVars, raw, owner, next, held, copies, faultVars,
                 outputVars>>

Commit ==
  /\ held[owner] = None
  /\ committed < next - 1 /\ committed' = next - 1
  /\ UNCHANGED <<alarmVars, raw, owner, next, held, copies, faultVars,
                 outputVars>>

\* The group gives the topic to process p, which reads on after the last
\* committed offset.
Assign(p) ==
  /\ redeliveries < MaxRedeliveries /\ redeliveries' = redeliveries + 1
  /\ owner' = p
  /\ next' = committed + 1
  /\ UNCHANGED <<raw, committed, failures, requests, outputVars>>

\* A handler outlasts the session timeout; it goes on all the same.
Rebalance ==
  /\ held[owner] # None
  /\ \E p \in Processes : held[p] = None /\ Assign(p)
  /\ UNCHANGED <<alarmVars, held, copies>>

\* The process that has the topic dies and is started again.
Crash ==
  /\ \E p \in Processes : (held[p] = None \/ p = owner) /\ Assign(p)
  /\ Finish(owner)
  /\ UNCHANGED alarmEdit
  /\ \/ UNCHANGED <<alarm, announced, unsure>>
     \/ /\ held[owner] # None
        /\ \E a \in ToSave(owner) \cap held[owner].meets :
             TriggerAlarmUnheard(a, copies[owner][a])

-----------------------------------------------------------------------------

UserStep ==
  /\ \E q \in AlarmRequests :
       \/ /\ requests < MaxRequests /\ requests' = requests + 1
          /\ AlarmRead(q)
       \/ AlarmSave(q) /\ UNCHANGED requests
  /\ UNCHANGED <<topicVars, held, copies, failures, redeliveries, outputVars>>

Handle(p) == StoreTelemetry(p) \/ CheckAlarm(p) \/ Forward(p)

Next ==
  \/ Publish \/ UserStep \/ Commit \/ Rebalance \/ Crash
  \/ \E p \in Processes : Handle(p)

Spec == Init /\ [][Next]_vars

\* A process fetches what there is for it and its handler goes on.  Nothing
\* is assumed of the device, of users, of commits and of failures.
FairSpec == Spec /\ \A p \in Processes : WF_vars(Handle(p))

-----------------------------------------------------------------------------
(* Properties.                                                             *)

\* Rows, topics and handlers keep their types; an idle handler holds no copy.
TypeOK ==
  /\ AlarmsTypeOK
  /\ raw \in Seq(Messages) /\ Len(raw) <= MaxUplinks
  /\ \A i \in 1..Len(raw) : raw[i].id = i
  /\ owner \in Processes
  /\ next \in 1..(Len(raw) + 1) /\ committed \in 0..(next - 1)
  /\ held \in [Processes -> Messages \cup {None}]
  /\ copies \in [Processes -> Copies]
  /\ \A p \in Processes : held[p] = None => DOMAIN copies[p] = {}
  /\ failures \in 0..MaxFailures /\ redeliveries \in 0..MaxRedeliveries
  /\ requests \in 0..MaxRequests
  /\ stored \cup validated \cup dead \cup lost \subseteq 1..Len(raw)

\* What has become of a message: it is stored and forwarded, or kept on the
\* topic for invalid telemetry, or lost, since that failed too.
Settled(m) == m \in (stored \cap validated) \cup dead \cup lost

\* A message whose offset is committed, which Kafka never gives out again, is
\* settled: crashes, rebalances and failing calls lose none, but the call that
\* sends a message that failed to the topic for invalid telemetry.
CommittedIsSettled == \A m \in 1..committed : Settled(m)

\* Every message of the device is settled in the end.
UplinksSettle == \A m \in 1..MaxUplinks : m <= Len(raw) ~> Settled(m)

=============================================================================
