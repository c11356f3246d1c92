# Verification of the Smart Life IoT backend

TLA+ models of the parts of this NestJS backend whose correctness depends on
the order in which things happen: what two requests, two server processes, a
message queue and a failure between two awaits can do to the rows they share.
Each model is translated from the code; `PROJECT.json` names the lines every
definition stands for, and lists runs, mutants, hazards and theorems.

Paths below are relative to `src/src/modules/` unless they start with `src/`.

1. [The system](#1-the-system)
2. [Conventions of the models](#2-conventions-of-the-models)
3. [The modules](#3-the-modules)
4. [The runs](#4-the-runs)
5. [The proofs](#5-the-proofs)
6. [What the code does that its comments do not say](#6-what-the-code-does-that-its-comments-do-not-say)
7. [What could come next](#7-what-could-come-next)
8. [What is not modelled](#8-what-is-not-modelled)

## 1. The system

One server process (more can run side by side: nothing in the code elects a
leader) answers HTTP requests, consumes Kafka topics, holds an MQTT
connection, and runs cron jobs. State is kept in PostgreSQL through TypeORM,
in Redis, in Kafka topics, and in the memory of the process (timers, cron jobs,
caches).

| Component | State it keeps | Operations | Talks to | Hard because | Correct when |
|---|---|---|---|---|---|
| Payments (`payments/`) | `payments` rows | create intent, verify (browser redirect and webhook), refund, retry | Moyasar by HTTP, subscriptions in one transaction | the same payment is verified twice; money moves outside the transaction | money taken is applied or flagged; REFUNDED means refunded |
| Subscriptions (`subscriptions/`) | one `subscriptions` row per tenant | create, upgrade/renew after payment, schedule and cancel a downgrade, nightly job, cancel | payments, users, tenants | entities are read outside a lock and saved later, column by column | paid plans are paid for; payments never lower a plan; downgrades go down while no save is overtaken |
| Assignments (`assignments/`) | `customer_*` and `user_*` tables, counters on customer, user limit and subscription | assign and unassign a resource to a customer or user | subscriptions, customers | a cascade on a second connection inside a transaction, quota gates before the insert | counters equal rows, but for named races; users stay within their customer; requests return |
| Sessions (`auth/`) | `refresh_tokens`, `token_blacklist`, one Redis key per user, the `users` row | login, refresh, logout, logout everywhere, forgotten/reset/changed password | Redis, mail | read, change and write back of the key and of the user, no transaction | a session lists its own tokens; an ended session is over; the newest password counts |
| Device commands (`device-commands/`, `gateway/`) | `device_commands` rows, two Kafka topics, timers | create, cancel, consume, schedule, retry | Kafka, MQTT, devices | at-least-once delivery, retries in memory, several consumers | no repetition without a cause; the status is true; every command ends |
| Telemetry (`telemetry/`, `protocols/`, `lib/mqtt`) | `telemetry` rows, four topics | uplink, store, forward | alarms, automations, WebSocket | redelivery; two consumers for the same message | one row and one evaluation per message |
| Alarms (`alarms/`) | `alarms` rows | trigger, acknowledge, clear, resolve | notifications | user and telemetry change one row from stale copies | an acknowledged or resolved alarm stays so until it triggers anew |
| Automations (`automation/`) | `automations` rows and logs | evaluate, act, record | MQTT, notifications | evaluated from two places at once; cooldown on a stale copy | at most one run per cooldown; a disabled one stays off |
| Schedules (`schedules/`) | `schedules` rows, cron jobs in memory | register, tick, execute, toggle | devices by events | jobs are set from a copy of the row, in the memory of one of several processes | enabled rows have a job; a disabled one stays off; counts are in the log |
| Notifications (`notifications/`) | `notifications` rows | create, send now, minute job, read marks | mail, SMS, push | overlapping runs of the job; stale saves over read marks | sent at most once per success |
| Edge (`edge/`) | `edges`, `edge_commands` | heartbeat, offline job, dispatch, poll, acknowledge | agent by HTTP | a response that is lost after the update | a command is offered until acknowledged |
| Two-factor (`two-factor/`) | one row per user | enable, code, backup code, disable | sessions, mail | attempts and backup codes are read-modify-write | a backup code works once |
| Device codecs (`devices/codecs/`) | none; one class per device model | `encode`, `decode`, `getCapabilities` | gateway, listener, user interface | an answer of a wrong length makes `decode()` read the middle of a block as a head | answers cost no readings; what is offered is accepted |
| Devices, customers, users, tenants, roles, ... | rows | create, read, update, delete | counters of the above | mostly not; where they write shared rows they are in the modules above | |

How they interact: HTTP handlers call services directly; services share rows
(the subscription row is written by payments, assignments and devices; the
customer row by customers and assignments; the user row by everything in
`auth/`); `EventEmitter2` events fan out in the process (alarm → notification);
Kafka carries telemetry and commands between handlers and consumers; MQTT
leads to the devices.

Device codecs turn commands into bytes and bytes into readings inside these
paths: the gateway calls `encode()` before it publishes a downlink, the listener
calls `decode()` on each uplink before it publishes the telemetry. A codec is a
pure function, but the two directions of one codec are written hundreds of
lines apart and must agree on the length of every block.

`PROJECT.json` "hazards" lists, line by line, what can go wrong here that a
test would hardly reach. Those with properties are covered by the runs below;
the few others say why they are not.

## 2. Conventions of the models

* **A step is what runs between two awaits.** Node runs JavaScript without
  preemption, so code between two awaits is atomic and every await is a point
  where any other handler, of this process or another one, may run. A handler
  is an element of `Workers` with a program counter `pc[w]` named after the
  await it stands at, and `loc[w]` holds the entities it has read.
* **`repository.save(entity)` is a SELECT and an UPDATE.** TypeORM reads the
  row again, compares, and a few awaits later updates the columns in which the
  entity differed from it: what was changed before the SELECT is put back, what
  is changed after it survives in the other columns. A property that is
  `undefined` is skipped (it does not become NULL). `Billing` and `Schedules`,
  whose properties relate two columns of a row or a row to what the handler does
  after the save, model both statements, with the set of columns (`Differing`,
  `Written`) carried from one to the other. An entity whose SELECT was made
  under the row's lock, or inserted, is written in one step.
* **Elsewhere both statements are one step**, which then writes the whole copy:
  the customer in `Assignments`, the user in `AuthSessions`, alarms,
  automations and edge instances. A row that changes between the two statements
  is in these models as a stale save of the whole copy; a row mixed of two
  copies is not. `AnnouncedOnce` and `CooldownKept` exempt rows that stale saves
  have touched, the counters of an overwritten customer are exempt from those of
  `Assignments`, and the other properties of these modules do not read the rows
  that are saved so (tokens, sessions and edge commands are written by INSERT,
  by single UPDATE statements or by SET), except that `CountCoversDevices`
  speaks of one request at a time, and `SilentGoesOffline` and `CommandsAnswered` of what
  jobs and polls repeat.
* **Transactions.** `dataSource.transaction` and query runners take the row
  locks of PostgreSQL; a statement that needs a row of another transaction
  waits. No lock or statement timeout is configured in
  `src/src/database/data-source.ts`, and a wait that leaves the database
  through the process is invisible to its deadlock detection.
* **Stale saves are modelled, and what they break is not a property.** Many
  rows here are read, awaited over and saved whole. A property that such a save
  would break at once says nothing new; the histories `torn`, `loose`, `unsure`,
  `adrift`, `late`, `overwritten` and `doubled` record that it happened, and the
  properties say what holds apart from that, and name it in their comments. An
  interleaving that a property exempts in this way is not covered by it; its
  hazard in `PROJECT.json` then has a note that says so. `AnnouncedOnce`,
  `CooldownKept` and `OffStaysOff` exempt overlapping handlers altogether,
  `UserWithinCustomer`, `EndedStaysEnded` and `CountCoversDevices` speak of one
  request at a time.
* **Failures.** A statement, an HTTP call or the process may fail at an await,
  where the code handles it or a run says so (`Fail`, `VerifyError`, `Abort`,
  `MayFail`, `Crash`).
* **Histories.** Variables and their parts that the declarations mark as
  history record what happened so that properties can speak of it; no guard of
  an action reads them, with one bound noted at its definition.
* **One request at a time.** `serial` in `Assignments`, `AuthSessions` and
  `Edge` is chosen in the initial state: such behaviours let one request end
  before the next begins, and nothing fails in those of `Assignments` and
  `Edge`. Properties that hold of sequences only are stated under it, in the
  same run as the concurrent ones.
* **Mutants** stand before the definition they change and are marked as such;
  `PROJECT.json` "mutants" names the property that notices each.

## 3. The modules

| Subsystem | Specification | Abstract specification | Proofs | For TLC |
|---|---|---|---|---|
| Payments and subscriptions | `Billing` | `Entitlement`, mapped in `BillingEntitlement` | `BillingInv`, `BillingProofs` | `MCBilling` |
| Assignments and quotas | `Assignments` | | `AssignmentsProofs` | `MCAssignments` |
| Sessions and passwords | `AuthSessions` | | `AuthSessionsProofs` | `MCAuthSessions` |
| Device commands | `DeviceCommands` | `CommandLife`, mapped in `CommandOutlook` | `CommandProofs` | `MCDeviceCommands` |
| Telemetry and alarms | `Alarms`, `Telemetry` (composes it with the topic) | | `TelemetryProofs` | `MCTelemetry` |
| Automations | `Automations` | | `AutomationsProofs` | `MCAutomations` |
| Schedules | `Schedules` | | `SchedulesProofs` | `MCSchedules` |
| Edge instances | `Edge` | `Mailbox`, mapped in `EdgeMailbox` | `EdgeProofs` | `MCEdge` |
| Device codecs | `CodecBlocks`, `CodecsAM` `EM` `VS` `WS` `WT` `UC` `TS`, `DeviceCodec` | | `CommandProofs` | `MCDeviceCodec` |

### Billing, Entitlement

One tenant: its subscription row `sub`, the payments `pay`, Moyasar's own view
`invoice`, and the row locks. A payment goes through `IntentStart`,
`IntentReuse`/`IntentNoReuse`, `IntentPost` and `IntentSave`
(createPaymentIntent); `VerifyRead` (the row before the request), `VerifyGet`
(Moyasar's answer), `VerifyFail`, or the transaction `VerifySave`,
`VerifyFind` (the subscription read without the lock decides between upgrade
and renewal), `UpgradeAfterPayment`/`RenewAfterPayment` (under the lock),
`VerifyCommit`, and `VerifyRollback` with `VerifyFlag` when anything throws;
`Refund*`, `Retry*`. The subscription's own operations are `Create*`,
`ScheduleDowngrade`, `CancelScheduledDowngrade`, `ProcessScheduledDowngrades`
(cron) and `Cancel*`; the three in the middle end in `SubSave`, the SELECT of
`save()`, which notes the columns in which the copy differs, and `SubUpdate`,
which waits for the row's lock and writes those. Payments are saved by
`SavePayment` and `PayUpdate` (`VerifySave` and `VerifyUpdate` in the
transaction) in the same way. The metadata are one column, compared as a whole,
so an UPDATE may write the scheduled downgrade although it did not differ.
The history `torn` says that a row changed between the two statements and now
has the plan and the downgrade of different copies.
`PayInvoice`, `ExpireInvoice` and `Tick` are the world outside; `Abort` is a
process that dies or a connection that is lost.

Abstracted: amounts (a plan's price tells it), Moyasar's formats, e-mails,
invoices as PDF, user counts and feature lists. `MaxTime` bounds the clock.

`Entitlement` says the same without handlers, copies and locks: a tenant
begins, is charged, purchases with a charge, and is amended within what was
charged for, plan and announced downgrade each for itself. The refinement
mapping of `BillingEntitlement` takes status, plan and scheduled downgrade from
the committed row, `charged` from Moyasar's invoices and `used` from the history
of applied payments.

### Assignments

One tenant's devices, customers and users: the tables `custDev` and `userDev`,
the counters `subUsage`, `custUsage`, `userUsage`, the allocations, and the
row locks. `Assign*`, `AssignUser*`, `UnassignUser*` and `Unassign*` follow
`assignment.service.ts` statement by statement; `UnassignDelete` is the
cascade that goes through the repository instead of the transaction's manager,
so on another connection. A removal deletes by the row's id: of two that
found the same row the second waits for the first's lock, deletes nothing and
still counts down (`DeleteRow`, `gone`). `CreateDevice`, `RemoveDevice` and
`UpdateCustomer` are the other writers of these rows; `RemoveDevice` removes the
device and neither its assignments nor their counts. `Triggers` says whether
`src/assignment-safety-triggers.sql` is installed. The histories `overwritten`
and `reallocated` hold the customers whose counter an update wrote back, or
whose allocation it changed: `UpdateSave` saves the whole row it has read.
`doubled` holds those that were counted down for a row another handler had
deleted.

Abstracted: the five resource types run through the same code over separate
tables; one is followed. The locks one statement needs on several rows are
taken in one step.

### AuthSessions

One user: the row (password number, reset link), `issued`/`revoked` tokens,
the blacklist, and the one Redis key. `Login*`, `Refresh*`, `Logout*`,
`RequestPasswordReset*`, `ResetPassword*` and `ChangePassword*` end in the
shared tails `CreateSession`, `IssueToken`, `SessionGet`/`SessionSet`
(`addRefreshTokenToSession`: read, check, write back), `CleanupFind`/
`CleanupUpdate` and `DeleteSession`.

Abstracted: OAuth and two-factor logins end in the same
`generateAuthResponse`; access tokens are named by the refresh token of the
same response; the index from session to user, the extension of the key's
time to live and the expiry job of the blacklist are left out.

### DeviceCommands

One device's commands: rows, the two topics as one bag of messages without
order (messages have no key and the topics several partitions), and for each
process the message its handler holds, the messages it has handled without
committing their offsets, and its timers. `CreateSave` and `CreateSend` are
the two halves of createCommand, `CancelRead` and `CancelSave` of
cancelCommand. `Take` (with scheduleCommand), `FindDevice`, `MarkSending`,
`Publish`, `MarkDelivered`, `HandleCommandFailure`, `MarkRetrying` and
`MarkFailed` are the consumer. `TimerFires` sends what a `setTimeout` holds.
`Commit`, `Rebalance` and `Crash` are KafkaJS and the process: a rebalance
hands a message to another process while the handler goes on.

Abstracted: encodings per protocol (see `DeviceCodec`); priority and timeout
(stored, never read); the statuses QUEUED and COMPLETED, which no code sets.
Commands are scheduled at most 24 days ahead: beyond 2^31-1 ms Node's timer
fires at once (section 6).

`CommandLife` is what the sender is promised, without messages, timers and
processes. An accepted command has one chance to reach the device; to tell the
device uses a chance up, and so does FAILED. Attempts and RETRYING do not, and
may happen at any time. Chances may get lost (`Mishap`), and a new one comes
only with something to excuse it: a message given out again, or an update to
DELIVERED that failed. `CommandOutlook` maps status, schedule and publications
directly; the chances of a command are the places from which it may still be
published (`Chances`): the request that creates it, copies of its message,
timers, and handlers before the gateway.

### Alarms, Telemetry

`Alarms` has the rows of one device's alarms, the requests of users
(`AlarmRead` with the check of the request, `AlarmSave` of the whole copy) and
the two effects of telemetry, `TriggerAlarm` and `AutoClearAlarm`, which save a
copy as well. `announced` counts `alarm.triggered` events since the alarm was
raised. `Telemetry` puts them under the consumer: the topic is one sequence,
since messages are keyed by the device; `StoreTelemetry` fetches a message,
stores it and reads all enabled alarms in one query; `CheckAlarm` is one turn
of `checkAlarmConditionsBatch`; `Forward` sends to the validated topic;
`SendToInvalid` is the catch, whose own send may fail. `Commit`, `Rebalance`
and `Crash` are the consumer group: after the last two the topic is read again
from the committed offset, and after a rebalance the old handler goes on.

Abstracted: what a condition compares (a message meets the conditions of an
arbitrary set of alarms, so every comparison is covered); the columns of a
telemetry row; the live broadcast. Automations run in the same handler and are
a module of their own, since they touch nothing of this one.

### Automations

The automations that watch one device. A handler (`TelemetryConsumer` or
`AutomationConsumer` of any process) reads those that are on
(`ProcessTelemetry`), executes one after the other (`ExecuteAction`, which may
take ten seconds) and saves the copy with the execution (`RecordRun`), or with
the error twice (`RecordFailure`, `RecordFailureAgain`). Users edit, switch,
toggle, remove and "execute" through `RuleRead` and `RuleSave`. The clock
ticks at the pace of a cooldown: `recent` says that the last execution a row
or a copy knows of is not a cooldown ago, and `CooldownPasses` ages them all.

Abstracted: the condition (an arbitrary set is met), active hours and days,
what the action does. Debounce, retries and the daily maximum are stored and
never read by the code, so there is nothing to model.

### Schedules

Rows that users edit, the cron jobs in the memory of each process, and
executions with their log rows. A request finds the row (`Create`, `Ask`),
saves its copy in two statements (`SaveSelect`, `SaveUpdate`) or removes it
(`Remove`), and then sets the job of its process from the copy, whatever the
row has become (`RescheduleJob`); the first three may fail (`RequestFails`). An
execution is begun by a job (`HandleTick`, `CheckTick`) or a user
(`ExecuteManually`) and goes through `CreateLog`, `Dispatch`, `FinaliseLog`,
`PersistSelect` and `PersistUpdate`. `Restart` is a process with onModuleInit.
A job may fire at any time.

An expression is `plain` or `extended`: cron-parser, which computes `nextRun`,
takes both, and CronJob throws on the second kind, which registerJob catches and
logs. Such a row is on without a job. `adrift` is the history of the schedules
that may have lost their job in one of the ways section 6 lists; it forgets a
schedule when its job is set again.

### Edge

Instances, their devices and commands. Users create commands, edit, remove,
rotate the token and move devices (`Update*`, `Remove`, `RegenerateToken*`,
`AssignDevice`, `UnassignDevice`, `DispatchCommand`); the agent beats, polls
and reports (`Heartbeat*`, `GetPendingCommands`, `MarkDelivered`, `Respond`,
`AckCommand`); the job marks silent instances (`DetectOffline*`); `Die` and a
lost response are the failures. The agent is external: it reports each result
until the report is taken.

`Mailbox` is what happens to commands, without instances, polls and handlers:
a command is left, marked, sent in one response that arrives or gets lost, and
reported by the agent. What is exempt is in one set: the commands that were
fetched twice while they were pending. `EdgeMailbox` maps the status of the row,
the agents' lists and the histories; a poll that has read commands and not
marked them yet is hidden.

### Codecs

`CodecBlocks` explains the notation: a payload is a sequence of blocks, a block
begins with a head (channel and type), and only the head tells how long its
body is. `CodecsAM` to `CodecsTS` hold, for each Milesight model of the
repository (some 130, named after their classes), how far each branch of
`decode()` moves its index, the blocks each command of `encode()` may become,
the commands `getCapabilities()` offers, and the channels `decode()` reads
answers on. `DeviceCodec` is the protocol they take part in: a user sends a
command (`Encode`, `Refuse`), the device answers by sending the blocks back
with readings before and after (`Answer`), reports readings alone (`Report`)
or sends a type of newer firmware (`Announce`), and `decode()` goes through
the uplink (`ReadBlock`, `StopAtUnknown`, `WrapRaw`, `GoAstray`).

Abstracted: the values in the bodies. Which answers a device gives on which
channel is external, taken from the channels `decode()` has branches for; a
channel that takes answers of every type takes those of every command.
Where a length depends on the body (a sub-command, a count) the head carries a
selector. Commands that repeat a block repeat it up to `MaxCopies` times.

The sets in `MCDeviceCodec` name the places where the directions do not agree
today: `KnownDisagreements` (an answer of another length than `decode()` moves
over), `KnownRefused` (offered, refused by `encode()`), `KnownSilent` (accepted
with parameters that give an empty downlink) and `KnownBrittle` (an unknown
type throws, and the whole uplink is kept undecoded). Everything else is
checked, so the lists are complete: a codec that is changed and no longer
agrees fails the run until it is mended or named.

## 4. The runs

Deadlock is not checked where clients may be silent, invoices done and bounds
used up: such a system stops. That nothing waits forever is stated by
`HandlersReturn`, `CommandsSettle`, `UplinksSettle`, `SilentGoesOffline` and
`CommandsAnswered`. A codec never stops, so `codecs` checks for deadlock.

| Run | Instance | Shows |
|---|---|---|
| `billing_pay` | 2 handlers, 2 payments, 2 plans; intent, verify, refund, retry | `PaidOrFlagged`: no interleaving of verifications, rollbacks and aborts leaves a SUCCEEDED payment that neither changed the subscription nor is marked for review. `RefundWasMade`. `PaymentNeverLowersPlan` and `AppliedAsPaid`: the decision on a stale plan is harmless, because it is checked again under the lock. `NoLockCycle`: no handlers wait for each other in a circle |
| `billing_plan` | 2 handlers, 1 payment, 2 plans, 1 month; every plan operation and the nightly job; fair | `EntitlementWasPaid`, `DowngradeIsLower`: the stale saves can undo and repeat, column by column, but an ACTIVE paid plan still rests on a paid invoice; a downgrade still points down unless a save was overtaken between its two statements. `HandlersReturn`: payment row before subscription row, always, so the locks form no cycle. `ImplementsEntitlement`: every step is one of `Entitlement`, or none |
| `billing_once` | as `billing_pay`, 1 plan | violated: `PaymentAppliedOnce` (finding) |
| `assign` | 2 handlers, 2 customers, 1 user, 3 devices; all seven requests one at a time, or assign, unassign and create at once with failing statements | `CountersExact`: at every moment, over all races and failures, a customer's counter is its number of rows until a row was unassigned twice or an update wrote an old counter back; requests one at a time leave the users' exact too. `UserWithinCustomer` over long sequences; `NeverOvercounted`: a doubled unassignment never leaves a counter above the rows; `OvershootBounded`: two handlers at the gate let in at most one too many |
| `assign_deadlock` | 2 handlers, 1 device, triggers installed, fair | violated: `HandlersReturn` (finding) |
| `auth` | 2 handlers, 3 tokens, 2 session ids; all seven requests one at a time, or login, refresh and logout everywhere at once, with handlers dying | `SessionListsItsOwn`: over all races a session lists only tokens of its own. `UnrevokedBounded`: what a race leaves unrevoked is bounded. `EndedStaysEnded` for requests in sequence |
| `commands_race` | 1 command, 2 processes, 2 attempts, 2 failing calls, 1 crash or rebalance, fair | `DuplicatesExcused`: no repetition without a redelivery or a retry. `StatusTellsTruth`, `ScheduledNotEarly`. `NoneForgotten`: while its row has no end, somebody holds the command, or it was lost at one of five named places. `CommandsSettle`. `ImplementsCommandLife`: every step is one of `CommandLife`, or none |
| `telemetry` | 1 alarm, 2 processes, 2 uplinks, 2 failing calls, 1 crash or rebalance, 1 request of a user, fair | `CommittedIsSettled`: what Kafka never gives out again is stored and forwarded, or kept as invalid, or was lost because the send to the topic for invalid telemetry failed as well. `UplinksSettle`. `AnnouncedOnce`: an alarm that is raised is announced once, neither never nor at each value, over redeliveries and failing calls; handlers that overlap on it are exempt |
| `automations` | 1 automation with cooldown, 2 handlers, 4 deliveries, 3 failures, 1 crash, 1 cooldown passes, 2 requests | `CooldownKept`: once in a cooldown, over redeliveries and failing saves, unless handlers overlapped |
| `schedules` | 1 schedule, 2 processes, 2 ticks or executions, 2 requests, 1 failure, 1 restart | `CountWithinHistory`: executions may be lost from the counter and never invented. `EnabledHasJob`: a row that is on has a job somewhere, unless the code has set it adrift. `OffStaysOff`: what is switched off while nothing else runs stays off, in the processes that still have its job as well |
| `edge` | 2 instances, 1 device, 1 command, 2 handlers, 2 requests, 1 failure, fair | `AnswerStands`, `HandedOutOnce`: a reported result stands and a command is handed out once, unless two polls overlapped. `CountCoversDevices` for sequences. `SilentGoesOffline`, `CommandsAnswered`. `ImplementsMailbox`: every step is one of `Mailbox`, or none |
| `codecs` | every Milesight codec, every command, up to 2 repetitions of a block | `ReadingsSurvive`: an answer never costs the readings of its uplink. `OfferedAccepted`, `AcceptedSaysSomething`, `UnknownKeepsEarlier` |

A module's `TypeOK` is an invariant of its run or, for billing, sessions,
commands, telemetry, codecs (`CodecTypeOK`), automations, schedules and edge
instances, a theorem.

**Why the bounds are enough.** The races are between two parties over one
row: two handlers show them. Two payments for different plans make a stale
decision possible; two customers tell one's counter from the other's; three
devices exceed an allocation of one by more than the one that
`OvershootBounded` allows. Requests of users of a customer never write what
the properties of customers' counters read, and updates of a customer at
once with the others multiply the states tenfold, so `assign` has both in
sequence only; the proofs of these properties (section 5) cover every
interleaving of all seven kinds. `Keep` is 1 instead of 5 in the session run, so that three
tokens overflow it. Commands do not share state, so one command shows what any
of them can do; two attempts give a first and a last one (the code has three),
and two failures reach the last. One repeated delivery is enough to have two
copies of a message in two processes. In `telemetry` two uplinks give an alarm
time to be raised, changed by the user and raised again, and two failures reach
the catch whose own send fails; alarms do not read each other. In
`automations` four deliveries are two values from two consumers, and three
failures are the action's and both saves'. In `billing_plan` one month
is enough for a downgrade to become due; later months repeat it. In `schedules` two
executions and two requests are what can overlap on a row, each in its own
process; one restart or failure falls into any of their steps. `MaxBeats` and `MaxTicks` of `edge` are
one silence and one return. `MaxCount`, `MaxTime`, `MaxPassword`,
`MaxFailures`, `MaxRedeliveries` and the other constants called bound in the
modules cap what the code leaves unbounded. Symmetry is used in runs without
liveness only.

**Fairness.** Billing and assignments: strong fairness of each handler's next
step. Node resumes every handler whose await has resolved, and PostgreSQL
grants a row lock to its waiters in turn, so a handler that is runnable again
and again does run. Commands: weak fairness of the server's steps taken
together; no process is assumed to be faster than another. Telemetry: weak
fairness of each process's handler; KafkaJS fetches as long as there is
something and nothing else disables a handler. Edge: weak fairness of a handler
that has begun, strong fairness of the minute job and of the agent's polls and
reports, which are repeated for ever and need a free handler or a token that is
accepted. Nothing is assumed of users, of Moyasar, of clocks and heartbeats,
of commits, or of failures.

## 5. The proofs

TLC shows the properties on the instances above; TLAPS proves those below for
every number of handlers, processes, users and rows and for every bound.
Assumptions on the constants are the named ones of the modules: bounds are
natural numbers, `None` is none of the values it stands in for, the tenant's
id is no user's id (both are UUIDs), offers are pairs of a plan and a period,
and there are finitely many handlers.

None of the properties is inductive, because a handler may hold a copy that is
about to break it. Every proof therefore strengthens it by what a handler may
rely on at each await.

* `BillingInv!IndInv`: a payment copy may be stale in its status but
  not in what was bought, and is of a paid invoice within
  processSuccessfulPayment (`PayCopyOK`); what an UPDATE is about to write is
  one of three things (`MaySave`), none of which takes the mark for review from
  a payment that needs it. Of a subscription copy that will be saved each
  column is paid for by itself, since each may be written without the other,
  and while nothing is `torn` its downgrade points below its plan
  (`SoundCopy`); between the lock and the commit the row it was read from has
  not changed (`SubCopyOK`). An invoice belongs to one payment (`InvoicesOK`);
  only an ACTIVE row is scheduled for a downgrade (`RowOK`).
* `BillingProofs`: `TypeCorrect`, `Invariant` (IndInv is kept), and from it
  `MoneyIsAccountedFor`, `EntitlementsArePaid`, `DowngradesStayLower`,
  `RefundsAreReal`, `NeverLowered` and `AppliedAsBought`. The frame lemmas
  `PayCopyStays`, `SubCopyStays` and `LocalStep` say what one handler's step
  leaves of the others' copies, so that each action is argued about its own
  handler only. That "a paid invoice stays paid or refunded" (`PaidForStays`)
  is why a stale subscription copy is harmless to `EntitlementWasPaid`. A
  renewal compares prices, not plans; `PriceTellsPlan` closes the gap.
  `LocksEndInOrder`: a lock belongs to an open transaction of a handler on its
  own payment, and the subscription's is taken last (`LocksInOrder`), so a
  handler's wait ends after two others; this is the safety behind
  `HandlersReturn`, and fairness adds only that a lock is handed on.
  And `Refinement`: `Billing` implements `Entitlement`. The step simulation
  rests on `IndInv`: since each column of a copy is paid for by itself, an
  UPDATE of any of them is an `Amend` (`SubUpdateAmends`), torn or not. One
  lemma per kind of step of `Entitlement`, and a stutter for all others.
* `AssignmentsProofs`: `TypeCorrect`; `CustomersAreNotOvercounted`,
  `OvershootIsBounded` and the part of `CountersAreExact` about customers for
  any number of handlers at once, whatever fails; its part about users and
  `UsersStayWithinCustomers` for requests in sequence. The counter of a
  customer changes in the transaction that changes its rows (`ExactInv`): a
  handler that deletes the row it found holds that row's lock, so the row is
  there until the commit (`LocksInv`), and whoever finds it gone is `doubled`
  when it counts. `FiniteInv` makes the rows countable. `OvershootInv` counts the
  handlers between the gate and the save (`Passed`): each of them has a place
  already. `SerialInv` lists what the one handler that runs has read and nobody
  has changed since (`StillTrue`), and that a user's counter is its rows plus
  the ones the cascade has deleted and not yet counted (`Uncounted`).
* `AuthSessionsProofs`: `TypeCorrect`, `SessionsListTheirOwn`, `EndedForGood`,
  `LeftoversAreBounded`. `OwnInv`: a handler behind the insertion of a token
  knows whose it is, and a copy of the key lists as truthfully as the key.
  `EndedInv` is about sequences: nobody changes the key a handler will write
  back. `LeftoversAreBounded` looks at the newest token whose handler did not
  die: it still has to read, or holds, every token with `Keep` unrevoked ones
  after it (`Excess`), whatever other handlers issue or revoke meanwhile; two
  lemmas of finite sets of numbers, `LeastOf` and `GreatestOf`, are proved by
  the well-founded order of the library.
* `TelemetryProofs`: `TypeCorrect`, `CommittedAreSettled`, `NoneIsForgotten` (the
  safety half of `UplinksSettle`), `AnnouncementsAreSingle`.
  `FetchedIsSettled` says that what was fetched is settled or in the hands of
  the topic's owner, so that the commit of an idle owner is safe and a
  rebalance, which takes the message out of the owner's hands, starts behind
  what is committed. `RowsInv` says that no row and no copy is ACTIVE without
  having been triggered; a save of a fresh copy then emits exactly when it
  raises (`SaveAnnounces`).
* `AutomationsProofs`: `TypeCorrect`, `Invariant`, `CooldownIsKept`. The
  invariant relates the row to the handler that has executed it: the execution
  is in the row, or in the copy of the one handler that is about to save it.
* `SchedulesProofs`: `TypeCorrect`, `CountsAreLogged`, `JobsAreThere`,
  `OffIsOff`, and `DispatchesAreLogged`, which needs the cardinality of the
  executions between log row and event. For the counts, every copy and every
  row has a counter within the finished executions, so a row mixed of the two
  has. `JobsAreThere` goes by the steps that can turn a row on, take a job away
  or end a request (`RequestJobStep`, `JobStep`): each leaves a job, a request
  before its rescheduleJob, or a schedule `adrift`.
* `EdgeProofs`: `TypeCorrect`, `Invariant`, `AnswersStand`, `HandedOnce`,
  `CountsCoverDevices`. The invariant counts a command once over pending row,
  poll, response and agent. For the counts of devices, `CountInv` says of the
  one handler that runs that it still recounts the instance, or has counted
  what the table holds. `NoneIsMislaid` is the safety half of
  `CommandsAnswered`: a command without an answer is offered, in a response,
  with the agent, or lost; it needs only that nothing but its own end takes a
  handler out of a response (`RespondersStay`). `MailboxRefinement`: `Edge` implements `Mailbox`. It
  needs that a command nobody has marked is at most in a query's result, that
  one in anybody's hands was not lost before, and that it stays with its
  instance, overlapping polls or not (`MailInv`); each step of `Mailbox` then
  has one lemma. `MailboxKeepsItsWord` concludes `AnswerStands` and
  `HandedOutOnce` from `Mailbox` alone, and what no run asks: a result is only
  covered, and a command only both lost and handed out, when two polls had
  fetched it while it was pending.
* `CommandProofs`, on commands: `TypeCorrect`, `DuplicatesAreExcused`,
  `StatusIsTrue`, `ScheduledIsNotEarly`, `NoneIsForgotten`, for any number of
  commands, processes, attempts, failures and redeliveries. The invariant is a sum, `Load`: a
  command is under way in one place at a time, and the creation, each copy of
  its message, each timer and each handler that may still publish it count 1,
  as does each publication. Every step moves a 1 from one place to the next or
  drops it; only what is excused adds one (`LoadStep`, `Counted`). Bags and
  timers are counted as sets of numbered copies. A command without a row is
  nowhere (`WithRow`), which is why the first 1 is the only one; whatever is
  under way for a scheduled command keeps its time with it, or the time has
  come (`Punctual`). FAILED is written by the handler that holds the last 1,
  so nothing is left to contradict it (`Told`). Where messages may go is one
  lemma for any three sets of messages and timers that the code's steps stay
  in (`StepWithin`). `NoneForgotten` is inductive as it stands, given the
  types: it does not count a handler that is about to write RETRYING, for its
  timer may have fired and the command be settled by another process, and a
  crash hands on what the process held unless it was fenced. It is the safety
  half of `CommandsSettle`: fairness only has to move what is under way.
  `LifeRefinement`: `DeviceCommands` implements `CommandLife`. `Load` less the
  publications is the `Chances` of the mapping, so `LoadStep` already says how
  many a step may add; what remains is which handler's 1 goes where, one case
  per place of a handler (`HandlerSimulates`), and that all other steps are a
  `Mishap` or a stutter. `LifeKeepsItsWord` closes the circle: from
  `CommandLife` alone, with an invariant of four lines (`LifeInv`), follow
  `DuplicatesExcused`, `StatusTellsTruth` and `ScheduledNotEarly`, so the
  abstract specification says all that those three do, and why.
* `CommandProofs`, on codecs: for any set of codecs, `AnswersAreRead` under
  `Agreement` (the tables of `encode()` and `decode()` give each answer the
  same length, with the exceptions) and `UnknownIsSkipped` under `Calm` (no
  branch throws). The theorems reduce a property of whole uplinks to one of
  tables; that the repository's codecs agree is what the run `codecs` checks.

Only model-checked: liveness (`HandlersReturn`, `CommandsSettle`,
`UplinksSettle`, `SilentGoesOffline`, `CommandsAnswered`; fairness and ENABLED
are beyond the prover), and `OfferedAccepted` and `AcceptedSaysSomething`, which
only look up the tables of the given codecs. Every other property of a passing
run is a theorem.

## 6. What the code does that its comments do not say

Findings (each with a violating run):

* `payments/payments.service.ts:325` tests the status of a copy read before
  the request to Moyasar; the redirect and the webhook both pass, and the
  second extends the period (`billing_once`).
* `assignments/assignment.service.ts:306` deletes through the repository
  inside a transaction; with unassignResourceFromUser the two wait for each
  other and PostgreSQL sees no cycle (`assign_deadlock`).

Observations met while modelling, kept out of the runs because one or two
requests in sequence show them, or because a run above shows the same cause.

Billing:

* `subscriptions/subscriptions.service.ts:709`: scheduleDowngrade and the job
  save an entity over an upgrade that was paid meanwhile.
* `:709` once more: such a save may SELECT the row before the nightly job commits
  the free plan and UPDATE only the metadata after it. The row then has
  the free plan and a downgrade to starter, and when that is due the job
  raises the plan, though never above what was once paid for
  (`EntitlementWasPaid`).
* `:602`: a renewal moves nextBillingDate and not the date of a scheduled
  downgrade, which then falls inside the paid period.
* `:788`: cancel() calls create(), which refuses while the row is ACTIVE, so
  it always fails.
* `payments/payments.service.ts:663`: retrySubscriptionUpdate passes a user id
  as tenant id and never repairs anything.

Assignments, devices, customers:

* `assignments/assignment.service.ts:118`, `:312`, `:204`: two assignments
  pass the gate at once; a doubled unassignment decrements twice; a user's
  assignment can outlive the customer's.
* A deleted device keeps its rows in `customer_devices` and `user_devices` and
  its place in both counters, although
  `customers/entities/customer-user-limit.entity.ts:71` says
  "Decremented when a resource is unassigned or deleted". `CountersExact`
  compares counters with rows, and so does not contradict the code here.
* `assignments/assignment.service.ts:306`: what the cascade has deleted on its
  own connection stays deleted when the transaction rolls back, and the users'
  counters stay as they were.
* `devices/devices.service.ts:106` and the assignment both count a device in
  the subscription's usage, and remove() never counts it out.
* `customers/customers.service.ts:348` writes back stale usage counters;
  `:546` compares each allocation with what the tenant has left and never with
  the other allocations, whose sum may exceed the plan.
* `devices/devices.service.ts` update() leaves `metadata.codecId` as it was
  when the model changes, or drops it with the metadata it replaces; the
  gateway then encodes with its default codec (`gateway/gateway.service.ts:93`).

Sessions:

* `auth/auth.service.ts:533` saves the user read before the password check and
  restores the old hash over a reset.
* `auth/session/session.service.ts:96`: `addRefreshTokenToSession` writes back
  a session that a login or logout ended in between; `EndedStaysEnded` holds
  for requests in sequence only.
* `auth/auth.service.ts:1113`, `:847`: the reset and invitation tokens are set
  to `undefined`, which save() skips, so the links stay usable.

Commands and gateway:

* `device-commands/device-commands.consumer.ts:82` never looks at the status,
  so a cancelled command is sent.
* `:108`, `:129`: timers are lost with the process while the offsets are
  committed; RETRYING may overwrite the outcome of the retry; a command
  scheduled more than 24.8 days ahead is sent at once because the delay does
  not fit the timer.
* `gateway/gateway.service.ts:120` converts what a codec returns from hex to
  base64 on its ChirpStack branch. The Milesight codecs return base64 already
  (`devices/codecs/milesight/ws/ws558.codec.ts:385`), as the branch at `:93`
  takes it to be.

Telemetry, alarms, automations:

* An acknowledged alarm goes back to ACTIVE at the next value that meets its
  condition and is announced again; it is never cleared automatically while
  ACKNOWLEDGED; a RESOLVED one triggers again.
* `AlarmConsumer` is never instantiated, and nothing reads `rules.input`.
* Without a cooldown every telemetry value runs the actions twice, once from
  the raw and once from the validated topic.
* `automation/automation.processor.ts:147` saves the copy read before the
  action, which switches on again what a user switched off meanwhile;
  executeManually records an execution and executes nothing.

Schedules, edge:

* Nobody listens to the `schedule.*.requested` events; a tick never updates
  `nextRun`.
* An enabled schedule may have no job until it is edited or a process starts
  (`adrift`), in four ways. The save at the end of an execution switches on
  again or restores what was switched off or removed meanwhile
  (`schedules/schedule-cron.service.ts:154`). An edit whose save was overtaken
  by a toggle takes the job away by its old copy
  (`schedules/schedule.service.ts:127`). A tick whose row was missing
  unregisters the job of one that has come back. remove() unregisters
  before the row is removed, which may fail.
* `schedules/schedule-cron.service.ts:88` catches what CronJob throws: an
  expression that only cron-parser takes (L, #) is saved as enabled, gets
  no job, and nobody is told.
* `edge/edge.service.ts:344` overwrites `edgeId` before `:351` counts the old
  instance, so the new one is counted twice; unassignDevice sets `edgeId` to
  `undefined`, which save() skips; a poll or report without a token passes
  (`:422`, `:460`), because findOne ignores a condition that is `undefined`
  (`Edge` has agents that send one); stale saves can bring back an old token; a
  command whose response was lost is never offered again; a late UPDATE of a
  second poll can set EXECUTED back to DELIVERED.

Codecs: the sets named in section 3. Among `KnownDisagreements` are
`set_rule_config`, `query_rule_config`, `query_all_rule_config` and
`set_time_zone` of the WS50x-CN switches:
`devices/codecs/milesight/ws/ws503cn.codec.ts:253` reads an answer of any type on
the channels f8 and f9, some with another length than the answer has. The capabilities are described as
"Commands this device accepts (downlink)"
(`src/src/common/interfaces/device-capability.interface.ts:19`), which
`KnownRefused` contradicts.

## 7. What could come next

* An abstract counter with a gate, which `Assignments` with one handler
  implements.
* Two-factor rows beside `AuthSessions` (a backup code works once),
  notifications (overlapping runs of the minute job), and the devices' offline
  job, which has the shape of the one in `Edge`.
* Removal of customers in `Assignments`.

## 8. What is not modelled

`PROJECT.json` "components" gives every part with its reason. In short:

* Codecs: gs524n, uc300-cellular and the generic MQTT JSON codec have no
  downlink or a framing of their own; of WT301 and WT302 only `encode()` and the
  offer are modelled, since `decode()` reads one frame per uplink. Classes that
  `codec.module.ts` does not register (WT201, UC11xx and a few base classes)
  are modelled as if they were, because others extend them.
* Notifications and two-factor authentication keep one row each with one
  status; their races are listed under the hazards.
* Dashboards, widgets, floor plans, images, analytics, audit and monitoring
  append or present; file parsers are pure functions of bytes.
* Roles, permissions, attributes, assets, profiles, sharing and templates edit
  one row at a time; guards and interceptors are static rules, except the
  quota guard, which is in `Assignments`.
* Registration, invitations, OAuth linking and e-mail verification touch other
  rows than those of `AuthSessions` or end in its shared tails.
* The rule engine's topic `rules.input` has no consumer in the code; node
  scripts are pure functions of a message.
* Seeds, configuration and deployment are data.
