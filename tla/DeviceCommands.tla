--------------------------- MODULE DeviceCommands ---------------------------
(***************************************************************************)
(* Commands for one device: DeviceCommandsService writes a row and a Kafka *)
(* message, DeviceCommandsConsumer in each server process takes messages,  *)
(* publishes the command over MQTT and keeps the row's status.             *)
(*                                                                         *)
(* KafkaJS hands a process one message at a time and commits the offsets   *)
(* of handled messages afterwards, so a process that dies, or loses its    *)
(* partitions while a handler runs, leaves messages to be taken again.     *)
(* Messages have no key and no order.  Timers live in the process.         *)
(*                                                                         *)
(* Every await is a step; the code after it up to the next is part of it.  *)
(***************************************************************************)
EXTENDS Naturals, FiniteSets, Bags

CONSTANTS
  Commands,        \* commands that users may send
  Consumers,       \* server processes
  Retries,         \* attempts per message: 3 in the code
  MaxFailures,     \* bound: calls to PostgreSQL, Kafka or MQTT that fail
  MaxRedeliveries, \* bound: crashes and rebalances
  None

ASSUME CommandNumbers ==
  /\ Retries \in Nat \ {0} /\ MaxFailures \in Nat /\ MaxRedeliveries \in Nat

Statuses == {"PENDING", "SCHEDULED", "SENDING", "RETRYING", "DELIVERED",
             "FAILED", "CANCELLED"}

ASSUME NoRowIsNoStatus == None \notin Statuses

\* A message; timed says that scheduledFor is set in it.
Messages == [id : Commands, retries : 1..Retries, timed : BOOLEAN]

\* A setTimeout: the message it sends, and whether it waits for scheduledFor.
Timers == [msg : Messages, waits : BOOLEAN]

VARIABLES
  row,       \* table device_commands: the status, None when there is no row
  scheduled, \* commands with a scheduledFor, at most 24 days ahead
  due,       \* those of them whose time has come
  gone,      \* the device has been removed
  creating,  \* createCommand has saved the row and not sent the message
  cancelling,\* cancelCommand has read a row it may cancel
  topic,     \* device.commands and device.commands.retry, as a bag
  pc, held,  \* where handleMessage stands in each process, and its message
  handled,   \* messages handled in each process, their offsets uncommitted
  fenced,    \* processes whose message was given to another one meanwhile
  timers,    \* timers of each process
  failures, redeliveries,
  sent,      \* history: how often the command was published to the device
  excused,   \* history: how often a repetition of it was to be expected
  dropped    \* history: commands whose work was lost by a failure

cvars == <<row, scheduled, due, gone, creating, cancelling, topic, pc, held,
           handled, fenced, timers, failures, redeliveries, sent, excused,
           dropped>>

userVars     == <<scheduled, due, gone, creating, cancelling>>
consumerVars == <<pc, held, handled, fenced>>

Init ==
  /\ row = [c \in Commands |-> None]
  /\ scheduled = {} /\ due = {} /\ gone = FALSE
  /\ creating = {} /\ cancelling = {}
  /\ topic = EmptyBag
  /\ pc = [p \in Consumers |-> "idle"]
  /\ held = [p \in Consumers |-> None]
  /\ handled = [p \in Consumers |-> EmptyBag]
  /\ fenced = {}
  /\ timers = [p \in Consumers |-> EmptyBag]
  /\ failures = 0 /\ redeliveries = 0
  /\ sent = [c \in Commands |-> 0]
  /\ excused = [c \in Commands |-> 0]
  /\ dropped = {}

MayFail == failures < MaxFailures /\ failures' = failures + 1

SetStatus(c, status) == row' = [row EXCEPT ![c] = status]

-----------------------------------------------------------------------------
(* Requests of users, and the clock.                                       *)

CreateSave(c) ==
  /\ row[c] = None /\ ~gone
  /\ \/ SetStatus(c, "PENDING") /\ UNCHANGED scheduled
     \/ SetStatus(c, "SCHEDULED") /\ scheduled' = scheduled \cup {c}
  /\ creating' = creating \cup {c}
  /\ UNCHANGED <<due, gone, cancelling, topic, consumerVars, timers, failures,
                 redeliveries, sent, excused, dropped>>

CreateSend(c) ==
  /\ c \in creating
  /\ creating' = creating \ {c}
  /\ \/ /\ topic' = topic (+) SetToBag({[id |-> c, retries |-> Retries,
                                         timed |-> c \in scheduled]})
        /\ UNCHANGED <<failures, dropped>>
     \/ /\ MayFail
        /\ dropped' = dropped \cup {c}
        /\ UNCHANGED topic
  /\ UNCHANGED <<row, scheduled, due, gone, cancelling, consumerVars, timers,
                 redeliveries, sent, excused>>

CanCancel(c) == row[c] \in {"PENDING", "SCHEDULED"}

CancelRead(c) ==
  /\ CanCancel(c)
  /\ cancelling' = cancelling \cup {c}
  /\ UNCHANGED <<row, scheduled, due, gone, creating, topic, consumerVars, timers,
                 failures, redeliveries, sent, excused, dropped>>

CancelSave(c) ==
  /\ c \in cancelling
  /\ cancelling' = cancelling \ {c}
  /\ SetStatus(c, "CANCELLED")
  /\ UNCHANGED <<scheduled, due, gone, creating, topic, consumerVars, timers,
                 failures, redeliveries, sent, excused, dropped>>

RemoveDevice ==
  /\ ~gone /\ gone' = TRUE
  /\ UNCHANGED <<row, scheduled, due, creating, cancelling, topic, consumerVars,
                 timers, failures, redeliveries, sent, excused, dropped>>

PassTime(c) ==
  /\ c \in scheduled \ due
  /\ due' = due \cup {c}
  /\ UNCHANGED <<row, scheduled, gone, creating, cancelling, topic, consumerVars,
                 timers, failures, redeliveries, sent, excused, dropped>>

-----------------------------------------------------------------------------
(* The consumer of process p.                                              *)

SetTimer(p, m, waits) ==
  timers' = [timers EXCEPT ![p] = @ (+) SetToBag({[msg |-> m,
                                                   waits |-> waits]})]

\* handleMessage resolves, whatever happened in it.  The message needs no
\* remembering when nothing is given out again any more.
Resolve(p, m) ==
  /\ pc' = [pc EXCEPT ![p] = "idle"]
  /\ held' = [held EXCEPT ![p] = None]
  /\ handled' = IF p \in fenced \/ redeliveries = MaxRedeliveries THEN handled
                ELSE [handled EXCEPT ![p] = @ (+) SetToBag({m})]
  /\ fenced' = fenced \ {p}

GoTo(p, label) ==
  /\ pc' = [pc EXCEPT ![p] = label]
  /\ UNCHANGED <<held, handled, fenced>>

Early(m) == m.timed /\ m.id \notin due

\* Mutant: scheduleCommand without the return that follows it.
TakeNoReturn(p) ==
  /\ pc[p] = "idle"
  /\ \E m \in BagToSet(topic) :
       /\ topic' = topic (-) SetToBag({m})
       /\ IF Early(m) THEN SetTimer(p, [m EXCEPT !.timed = FALSE], TRUE)
          ELSE UNCHANGED timers
       /\ pc' = [pc EXCEPT ![p] = "findDevice"]
       /\ held' = [held EXCEPT ![p] = m]
  /\ UNCHANGED <<row, userVars, handled, fenced, failures, redeliveries, sent,
                 excused, dropped>>

Take(p) ==
  /\ pc[p] = "idle"
  /\ \E m \in BagToSet(topic) :
       /\ topic' = topic (-) SetToBag({m})
       /\ \/ /\ Early(m)                              \* scheduleCommand
             /\ SetTimer(p, [m EXCEPT !.timed = FALSE], TRUE)
             /\ Resolve(p, m)
          \/ /\ ~Early(m)
             /\ pc' = [pc EXCEPT ![p] = "findDevice"]
             /\ held' = [held EXCEPT ![p] = m]
             /\ UNCHANGED <<handled, fenced, timers>>
  /\ UNCHANGED <<row, userVars, failures, redeliveries, sent, excused,
                 dropped>>

FindDevice(p) ==
  /\ pc[p] = "findDevice"
  /\ \/ /\ GoTo(p, IF gone THEN "failed" ELSE "sending")
        /\ UNCHANGED <<failures, dropped>>
     \/ /\ MayFail
        /\ dropped' = dropped \cup {held[p].id}
        /\ Resolve(p, held[p])
  /\ UNCHANGED <<row, userVars, topic, timers, redeliveries, sent, excused>>

\* Mutant: without the else, FAILED is written although a retry is set.
HandleCommandFailureNoElse(p) ==
  /\ IF held[p].retries > 1
     THEN SetTimer(p, [held[p] EXCEPT !.retries = @ - 1], FALSE)
     ELSE UNCHANGED timers
  /\ GoTo(p, "failed")

\* Mutant: the status says RETRYING and no timer is set.
HandleCommandFailureNoTimer(p) ==
  /\ GoTo(p, IF held[p].retries > 1 THEN "retrying" ELSE "failed")
  /\ UNCHANGED timers

\* The catch of processCommand, up to its update of the status.
HandleCommandFailure(p) ==
  \/ /\ held[p].retries > 1
     /\ SetTimer(p, [held[p] EXCEPT !.retries = @ - 1], FALSE)
     /\ GoTo(p, "retrying")
  \/ /\ held[p].retries = 1
     /\ GoTo(p, "failed")
     /\ UNCHANGED timers

MarkSending(p) ==
  /\ pc[p] = "sending"
  /\ \/ /\ SetStatus(held[p].id, "SENDING")
        /\ GoTo(p, "publish")
        /\ UNCHANGED <<timers, failures>>
     \/ /\ MayFail
        /\ HandleCommandFailure(p)
        /\ UNCHANGED row
  /\ UNCHANGED <<userVars, topic, redeliveries, sent, excused, dropped>>

\* Without the device, its devEUI, its codec or a connection nothing is sent.
Publish(p) ==
  /\ pc[p] = "publish"
  /\ \/ /\ ~gone
        /\ sent' = [sent EXCEPT ![held[p].id] = @ + 1]
        /\ GoTo(p, "delivered")
        /\ UNCHANGED <<timers, failures>>
     \/ /\ (gone /\ UNCHANGED failures) \/ (~gone /\ MayFail)
        /\ HandleCommandFailure(p)
        /\ UNCHANGED sent
  /\ UNCHANGED <<row, userVars, topic, redeliveries, excused, dropped>>

\* Mutant: a command whose DELIVERED cannot be stored is marked as failed.
MarkDeliveredOrFailed(p) ==
  /\ pc[p] = "delivered"
  /\ \/ /\ SetStatus(held[p].id, "DELIVERED")
        /\ Resolve(p, held[p])
        /\ UNCHANGED failures
     \/ /\ MayFail
        /\ GoTo(p, "failed")
        /\ UNCHANGED row
  /\ UNCHANGED <<userVars, topic, timers, redeliveries, sent, excused, dropped>>

\* Mutant: the retry stands in a finally instead of the catch.
MarkDeliveredFinally(p) ==
  /\ pc[p] = "delivered"
  /\ SetStatus(held[p].id, "DELIVERED")
  /\ HandleCommandFailure(p)
  /\ UNCHANGED <<userVars, topic, failures, redeliveries, sent, excused, dropped>>

MarkDelivered(p) ==
  /\ pc[p] = "delivered"
  /\ \/ /\ SetStatus(held[p].id, "DELIVERED")
        /\ Resolve(p, held[p])
        /\ UNCHANGED <<timers, failures, excused>>
     \/ /\ MayFail
        /\ HandleCommandFailure(p)
        /\ excused' = [excused EXCEPT ![held[p].id] = @ + 1]
        /\ UNCHANGED row
  /\ UNCHANGED <<userVars, topic, redeliveries, sent, dropped>>

\* The timer that HandleCommandFailure set may have fired by now.
MarkRetrying(p) ==
  /\ pc[p] = "retrying"
  /\ \/ /\ SetStatus(held[p].id, "RETRYING")
        /\ dropped' = dropped \cup
             ({held[p].id} \ {t.msg.id : t \in BagToSet(timers[p])})
        /\ UNCHANGED failures
     \/ MayFail /\ UNCHANGED <<row, dropped>>
  /\ Resolve(p, held[p])
  /\ UNCHANGED <<userVars, topic, timers, redeliveries, sent, excused>>

MarkFailed(p) ==
  /\ pc[p] = "failed"
  /\ \/ /\ SetStatus(held[p].id, "FAILED")
        /\ UNCHANGED <<failures, dropped>>
     \/ /\ MayFail
        /\ dropped' = dropped \cup {held[p].id}
        /\ UNCHANGED row
  /\ Resolve(p, held[p])
  /\ UNCHANGED <<userVars, topic, timers, redeliveries, sent, excused>>

TimerFires(p) ==
  /\ \E t \in BagToSet(timers[p]) :
       /\ t.waits => t.msg.id \in due
       /\ timers' = [timers EXCEPT ![p] = @ (-) SetToBag({t})]
       /\ topic' = topic (+) SetToBag({t.msg})
  /\ UNCHANGED <<row, userVars, consumerVars, failures, redeliveries, sent,
                 excused, dropped>>

-----------------------------------------------------------------------------
(* KafkaJS and the process.                                                *)

Commit(p) ==
  /\ pc[p] = "idle" /\ handled[p] # EmptyBag
  /\ handled' = [handled EXCEPT ![p] = EmptyBag]
  /\ UNCHANGED <<row, userVars, topic, pc, held, fenced, timers, failures,
                 redeliveries, sent, excused, dropped>>

\* Mutant: the offset of a message is committed when its handler begins.
UncommittedAfterTake(p) == handled[p]

Uncommitted(p) ==
  handled[p] (+) (IF pc[p] = "idle" \/ p \in fenced THEN EmptyBag
                  ELSE SetToBag({held[p]}))

\* The copies of messages of c that a bag holds, numbered to tell them apart.
Numbered(c, bag) ==
  UNION {{<<m, i>> : i \in 1..bag[m]} : m \in {n \in BagToSet(bag) : n.id = c}}

CopiesOf(c, bag) == Cardinality(Numbered(c, bag))

\* The group gives the messages of p to whoever asks next.
Redeliver(p) ==
  /\ redeliveries < MaxRedeliveries
  /\ redeliveries' = redeliveries + 1
  /\ topic' = topic (+) Uncommitted(p)
  /\ excused' = [c \in Commands |-> excused[c] + CopiesOf(c, Uncommitted(p))]
  /\ handled' = [q \in Consumers |->
       IF q = p \/ redeliveries' = MaxRedeliveries THEN EmptyBag
       ELSE handled[q]]

\* A handler outlasts the session timeout; it goes on all the same.
Rebalance(p) ==
  /\ pc[p] # "idle" /\ p \notin fenced
  /\ Redeliver(p)
  /\ fenced' = fenced \cup {p}
  /\ UNCHANGED <<row, userVars, pc, held, timers, failures, sent, dropped>>

\* The process dies and is started again, with the timers gone.  The send of
\* a timer has no catch: when it fails, Node ends the process too.
Crash(p) ==
  /\ Redeliver(p)
  /\ pc' = [pc EXCEPT ![p] = "idle"]
  /\ held' = [held EXCEPT ![p] = None]
  /\ fenced' = fenced \ {p}
  /\ timers' = [timers EXCEPT ![p] = EmptyBag]
  /\ dropped' = dropped \cup {t.msg.id : t \in BagToSet(timers[p])}
                      \cup {held[q].id : q \in {p} \cap fenced}
  /\ UNCHANGED <<row, userVars, failures, sent>>

-----------------------------------------------------------------------------

UserStep ==
  \/ \E c \in Commands : CreateSave(c) \/ CancelRead(c) \/ CancelSave(c)
  \/ RemoveDevice

Handle(p) ==
  \/ Take(p) \/ FindDevice(p) \/ MarkSending(p) \/ Publish(p)
  \/ MarkDelivered(p) \/ MarkRetrying(p) \/ MarkFailed(p)

ServerStep ==
  \/ \E c \in Commands : CreateSend(c) \/ PassTime(c)
  \/ \E p \in Consumers : Handle(p) \/ TimerFires(p)

GroupStep == \E p \in Consumers : Commit(p) \/ Rebalance(p) \/ Crash(p)

Next == UserStep \/ ServerStep \/ GroupStep

Spec == Init /\ [][Next]_cvars

\* While a handler can go on, a message be fetched, a timer fire or the time
\* of a command come, something of that happens.  Nothing is assumed of users,
\* of failures, or of which of two processes is the faster.
Fairness == WF_cvars(ServerStep)

FairSpec == Spec /\ Fairness

-----------------------------------------------------------------------------
(* Properties.                                                             *)

IsBagOver(b, S) == IsABag(b) /\ BagToSet(b) \subseteq S

\* Rows, messages, timers and handlers keep their types: in particular every
\* message on the topic still has an attempt left, for processCommand counts
\* attempts down and never looks at what it was given.
TypeOK ==
  /\ row \in [Commands -> Statuses \cup {None}]
  /\ scheduled \subseteq Commands /\ due \subseteq scheduled /\ gone \in BOOLEAN
  /\ creating \subseteq Commands /\ cancelling \subseteq Commands
  /\ IsBagOver(topic, Messages)
  /\ pc \in [Consumers -> {"idle", "findDevice", "sending", "publish",
                           "delivered", "retrying", "failed"}]
  /\ held \in [Consumers -> Messages \cup {None}]
  /\ DOMAIN handled = Consumers /\ DOMAIN timers = Consumers
  /\ \A p \in Consumers : /\ pc[p] # "idle" => held[p] \in Messages
                          /\ IsBagOver(handled[p], Messages)
                          /\ IsBagOver(timers[p], Timers)
  /\ fenced \subseteq {p \in Consumers : pc[p] # "idle"}
  /\ failures \in 0..MaxFailures /\ redeliveries \in 0..MaxRedeliveries
  /\ sent \in [Commands -> Nat] /\ excused \in [Commands -> Nat]
  /\ dropped \subseteq Commands

\* A command reaches the device once, and once more for each time Kafka gave
\* its message out again or the update to DELIVERED failed after publishing.
\* Retries, timers and several processes add nothing to that.
DuplicatesExcused == \A c \in Commands : sent[c] <= 1 + excused[c]

\* What the row says of the device is true: without such a repetition, FAILED
\* means that the device was never told, and once it was told the row no
\* longer says that the command waits.
StatusTellsTruth == \A c \in Commands :
  /\ row[c] = "DELIVERED" => sent[c] > 0
  /\ excused[c] = 0 /\ sent[c] > 0 =>
       row[c] \notin {None, "PENDING", "SCHEDULED", "FAILED"}

\* A command for later is not sent before its time, however often its message
\* and its timer are lost, repeated and retried.
ScheduledNotEarly == \A c \in Commands :
  c \in scheduled /\ sent[c] > 0 => c \in due

Settled(c) == row[c] \in {"DELIVERED", "FAILED", "CANCELLED"}

\* Something will still be done for c by the processes as they stand.  A handler
\* at "retrying" has set its timer, or has none to set.
UnderWay(c) ==
  \/ c \in creating
  \/ \E m \in BagToSet(topic) : m.id = c
  \/ \E p \in Consumers :
       \/ pc[p] \notin {"idle", "retrying"} /\ held[p].id = c
       \/ \E t \in BagToSet(timers[p]) : t.msg.id = c

\* No command is forgotten: while its row has no end, its request, a message, a
\* timer or a handler holds it, in whatever order commits, crashes, rebalances
\* and the two ends of a retry come, unless it was lost at one of the five
\* places that CommandsSettle names.
NoneForgotten == \A c \in Commands :
  row[c] # None => Settled(c) \/ c \in dropped \/ UnderWay(c)

\* Every command comes to an end, and its row says so, unless it was lost at
\* one of five places: the send of createCommand fails, or the search for the
\* device, or the update to FAILED; the process dies with the command's timer
\* or with a message that another process has dealt with; or RETRYING is
\* written after the retry it announces.
CommandsSettle == \A c \in Commands :
  row[c] # None ~> (Settled(c) \/ c \in dropped)

=============================================================================
