------------------------------ MODULE Schedules ------------------------------
(***************************************************************************)
(* Schedules: rows that users edit through SchedulesService, cron jobs in  *)
(* the memory of each server process (ScheduleCronService), and executions *)
(* with their log rows (ScheduleExecutorService).                          *)
(*                                                                         *)
(* Edits and executions work on a copy of the row, which they save at the  *)
(* end: repository.save() SELECTs the row again and, a step later, UPDATEs *)
(* the columns in which the copy differed from it then.  The job is set    *)
(* from the copy.  A job's clock is external: it may fire at any time.     *)
(*                                                                         *)
(* Every await that others can notice is a step; the code after it up to   *)
(* the next one is part of it.                                             *)
(***************************************************************************)
EXTENDS Naturals, FiniteSets

CONSTANTS
  Schedules,
  Processes,   \* server processes
  Executions,  \* ticks and executions at a time
  Requests,    \* requests of users at a time
  MaxRuns,     \* bound: ticks and executions in all
  MaxRequests, \* bound: requests of users in all
  MaxFailures, \* bound: calls to PostgreSQL that fail
  MaxCrashes,  \* bound: restarts of a process
  None

ASSUME ScheduleConstants ==
  /\ IsFiniteSet(Executions)
  /\ MaxRuns \in Nat /\ MaxRequests \in Nat
  /\ MaxFailures \in Nat /\ MaxCrashes \in Nat

\* Cron expressions: cron-parser, which calculateNextRun asks, accepts both
\* kinds; CronJob throws on the extended one (L, #).
Expressions == {"plain", "extended"}

Rows == [enabled : BOOLEAN, removed : BOOLEAN, expression : Expressions,
         executionCount : Nat]
Columns == {"enabled", "removed", "expression", "executionCount"}

Stages == {"check", "log", "dispatch", "finalise", "save", "update"}
ExecutionRecords == [at : Stages, p : Processes, s : Schedules,
                     copy : Rows \cup {None}, cols : SUBSET Columns]

RequestStages == {"select", "update", "job", "remove"}
RequestRecords == [at : RequestStages, p : Processes, s : Schedules,
                   copy : Rows, cols : SUBSET Columns]

ASSUME NoneIsNoRecord == None \notin Rows \cup RequestRecords

VARIABLES
  row,        \* table schedules, None before create
  jobs,       \* the jobs of each process
  exec,       \* ticks and executions under way
  request,    \* requests of users under way
  logged,     \* table schedule_execution_logs: rows of a schedule
  finished,   \* those of them with finishedAt
  runs, requests, failures, crashes,
  dispatched, \* history: calls of dispatch() for a schedule
  adrift,     \* history: schedules that may have lost their job
  off         \* history: schedules switched off while nothing else went on

vars == <<row, jobs, exec, request, logged, finished, runs, requests, failures,
          crashes, dispatched, adrift, off>>

logVars   == <<logged, finished, dispatched>>
boundVars == <<runs, requests, failures, crashes>>

Init ==
  /\ row = [s \in Schedules |-> None]
  /\ jobs = [p \in Processes |-> {}]
  /\ exec = [x \in Executions |-> None]
  /\ request = [u \in Requests |-> None]
  /\ logged = [s \in Schedules |-> 0]
  /\ finished = [s \in Schedules |-> 0]
  /\ runs = 0 /\ requests = 0 /\ failures = 0 /\ crashes = 0
  /\ dispatched = [s \in Schedules |-> 0]
  /\ adrift = {} /\ off = {}

MayFail == failures < MaxFailures /\ failures' = failures + 1

Listed(s) == row[s] # None /\ ~row[s].removed
Live(s) == Listed(s) /\ row[s].enabled

\* CronJob takes the expression of a row that is on.
Registers(row0) == row0.enabled /\ row0.expression = "plain"
Runnable(s) == Listed(s) /\ Registers(row[s])

\* The two halves of repository.save().
Differing(row0, copy) == {c \in Columns : row0[c] # copy[c]}
Written(row0, copy, cols) ==
  [c \in Columns |-> IF c \in cols THEN copy[c] ELSE row0[c]]

\* registerJob, rescheduleJob and unregisterJob.
SetJob(p, s, on) ==
  jobs' = [jobs EXCEPT ![p] = IF on THEN @ \cup {s} ELSE @ \ {s}]

-----------------------------------------------------------------------------
(* Requests of users, served by process p.                                 *)

MayAsk == requests < MaxRequests /\ requests' = requests + 1

Create(u, p, s) ==
  /\ request[u] = None /\ row[s] = None
  /\ \E on \in BOOLEAN, e \in Expressions :
       LET new == [enabled |-> on, removed |-> FALSE, expression |-> e,
                   executionCount |-> 0] IN
       /\ row' = [row EXCEPT ![s] = new]
       /\ request' = [request EXCEPT ![u] =
                        [at |-> "job", p |-> p, s |-> s, copy |-> new,
                         cols |-> {}]]
  /\ UNCHANGED <<jobs, exec, logVars, boundVars, adrift, off>>

\* findOne of update, toggle and remove.  The first two then edit the copy;
\* remove takes the job away at once.
Ask(u, p, s) ==
  /\ request[u] = None /\ Listed(s) /\ MayAsk
  /\ \/ /\ \E on \in BOOLEAN, e \in Expressions :
             request' = [request EXCEPT ![u] =
               [at |-> "select", p |-> p, s |-> s, cols |-> {},
                copy |-> [row[s] EXCEPT !.enabled = on, !.expression = e]]]
        /\ UNCHANGED <<jobs, adrift>>
     \/ /\ request' = [request EXCEPT ![u] =
             [at |-> "remove", p |-> p, s |-> s, cols |-> {}, copy |-> row[s]]]
        /\ SetJob(p, s, FALSE)
        /\ adrift' = adrift \cup {s}
  /\ off' = off \ {s}
  /\ UNCHANGED <<row, exec, logVars, runs, failures, crashes>>

SaveSelect(u) ==
  /\ request[u] # None /\ request[u].at = "select"
  /\ request' = [request EXCEPT ![u].at = "update",
       ![u].cols = Differing(row[request[u].s], request[u].copy)]
  /\ UNCHANGED <<row, jobs, exec, logVars, boundVars, adrift, off>>

SaveUpdate(u) ==
  /\ request[u] # None /\ request[u].at = "update"
  /\ row' = [row EXCEPT ![request[u].s] =
               Written(@, request[u].copy, request[u].cols)]
  /\ request' = [request EXCEPT ![u].at = "job", ![u].cols = {}]
  /\ UNCHANGED <<jobs, exec, logVars, boundVars, adrift, off>>

\* Nothing else of schedule s is under way.
Alone(u, s) ==
  /\ \A v \in Requests \ {u} : request[v] # None => request[v].s # s
  /\ \A x \in Executions : exec[x] # None => exec[x].s # s

\* Mutant: rescheduleJob registers first and unregisters then.
JobsInWrongOrder(u) == [jobs EXCEPT ![request[u].p] = @ \ {request[u].s}]

\* The jobs of the process after rescheduleJob: what CronJob throws is
\* caught, and the row stays on without a job.
JobsFromCopy(u) ==
  [jobs EXCEPT ![request[u].p] =
     IF Registers(request[u].copy) THEN @ \cup {request[u].s}
                                   ELSE @ \ {request[u].s}]

\* The job follows the copy, whatever has become of the row.
RescheduleJob(u) ==
  /\ request[u] # None /\ request[u].at = "job"
  /\ LET s == request[u].s
         copy == request[u].copy IN
       /\ jobs' = JobsFromCopy(u)
       /\ adrift' = CASE Registers(copy) -> adrift \ {s}
                      [] ~Registers(copy) /\ Runnable(s) -> adrift \cup {s}
                      [] OTHER -> adrift
       /\ off' = IF Alone(u, s) /\ ~Live(s) THEN off \cup {s} ELSE off
  /\ request' = [request EXCEPT ![u] = None]
  /\ UNCHANGED <<row, exec, logVars, boundVars>>

Remove(u) ==
  /\ request[u] # None /\ request[u].at = "remove"
  /\ row' = [row EXCEPT ![request[u].s].removed = TRUE]
  /\ off' = IF Alone(u, request[u].s) THEN off \cup {request[u].s} ELSE off
  /\ request' = [request EXCEPT ![u] = None]
  /\ UNCHANGED <<jobs, exec, logVars, boundVars, adrift>>

\* SELECT, UPDATE or softRemove throws: the user gets a 500.
RequestFails(u) ==
  /\ request[u] # None /\ request[u].at # "job" /\ MayFail
  /\ request' = [request EXCEPT ![u] = None]
  /\ UNCHANGED <<row, jobs, exec, logVars, runs, requests, crashes, adrift, off>>

-----------------------------------------------------------------------------
(* Executions.                                                             *)

Begin(x, stage, p, s) ==
  /\ exec[x] = None
  /\ exec' = [exec EXCEPT ![x] =
                [at |-> stage, p |-> p, s |-> s, cols |-> {},
                 copy |-> IF Listed(s) THEN row[s] ELSE None]]

MayRun == runs < MaxRuns /\ runs' = runs + 1

\* The job fires and fetches the schedule.
HandleTick(x, p, s) ==
  /\ s \in jobs[p] /\ MayRun
  /\ Begin(x, "check", p, s)
  /\ UNCHANGED <<row, jobs, request, logVars, requests, failures, crashes,
                 adrift, off>>

\* execute() of SchedulesService, enabled or not.
ExecuteManually(x, p, s) ==
  /\ Listed(s) /\ MayAsk /\ MayRun
  /\ Begin(x, "log", p, s)
  /\ off' = off \ {s}
  /\ UNCHANGED <<row, jobs, request, logVars, failures, crashes, adrift>>

GoTo(x, stage) == exec' = [exec EXCEPT ![x].at = stage]
End(x) == exec' = [exec EXCEPT ![x] = None]

\* Whatever throws ends the execution: caught by the tick, answered by 500.
Abort(x) == MayFail /\ End(x)

\* Mutant: the job trusts that it would have been unregistered.
TrustJob(copy) == TRUE

MayTick(copy) == copy.enabled

\* A row that is gone takes the job with it, one that is off does nothing.
CheckTick(x) ==
  /\ exec[x] # None /\ exec[x].at = "check"
  /\ LET s == exec[x].s
         copy == exec[x].copy IN
       \/ /\ copy = None
          /\ SetJob(exec[x].p, s, FALSE)
          /\ adrift' = IF Runnable(s) THEN adrift \cup {s} ELSE adrift
          /\ End(x)
       \/ /\ copy # None /\ MayTick(copy)
          /\ GoTo(x, "log")
          /\ UNCHANGED <<jobs, adrift>>
       \/ /\ copy # None /\ ~MayTick(copy)
          /\ End(x)
          /\ UNCHANGED <<jobs, adrift>>
  /\ UNCHANGED <<row, request, logVars, boundVars, off>>

\* "Create the log row immediately so we have a record even on crash."
CreateLog(x) ==
  /\ exec[x] # None /\ exec[x].at = "log"
  /\ \/ /\ logged' = [logged EXCEPT ![exec[x].s] = @ + 1]
        /\ GoTo(x, "dispatch")
        /\ UNCHANGED failures
     \/ Abort(x) /\ UNCHANGED logged
  /\ UNCHANGED <<row, jobs, request, finished, runs, requests, crashes,
                 dispatched, adrift, off>>

\* dispatch() of the schedule's type, whether it emits its event or throws.
Dispatch(x) ==
  /\ exec[x] # None /\ exec[x].at = "dispatch"
  /\ dispatched' = [dispatched EXCEPT ![exec[x].s] = @ + 1]
  /\ GoTo(x, "finalise")
  /\ UNCHANGED <<row, jobs, request, logged, finished, boundVars, adrift, off>>

\* Mutant: the execution is recorded in the copy when it is dispatched too.
RecordTwice(row0) == [row0 EXCEPT !.executionCount = @ + 2]

RecordExecution(row0) == [row0 EXCEPT !.executionCount = @ + 1]

FinaliseLog(x) ==
  /\ exec[x] # None /\ exec[x].at = "finalise"
  /\ \/ /\ finished' = [finished EXCEPT ![exec[x].s] = @ + 1]
        /\ exec' = [exec EXCEPT ![x].at = "save",
                                ![x].copy = RecordExecution(@)]
        /\ UNCHANGED failures
     \/ Abort(x) /\ UNCHANGED finished
  /\ UNCHANGED <<row, jobs, request, logged, runs, requests, crashes,
                 dispatched, adrift, off>>

\* "Persist the recordExecution() changes": save's SELECT.
PersistSelect(x) ==
  /\ exec[x] # None /\ exec[x].at = "save"
  /\ \/ /\ exec' = [exec EXCEPT ![x].at = "update",
              ![x].cols = Differing(row[exec[x].s], exec[x].copy)]
        /\ UNCHANGED failures
     \/ Abort(x)
  /\ UNCHANGED <<row, jobs, request, logVars, runs, requests, crashes, adrift,
                 off>>

\* Its UPDATE, which switches on again or restores, without a job, what was
\* switched off or removed before the SELECT.
PersistUpdate(x) ==
  /\ exec[x] # None /\ exec[x].at = "update"
  /\ LET s == exec[x].s
         new == Written(row[s], exec[x].copy, exec[x].cols) IN
       \/ /\ row' = [row EXCEPT ![s] = new]
          /\ adrift' = IF ~new.removed /\ Registers(new) /\ ~Runnable(s)
                       THEN adrift \cup {s} ELSE adrift
          /\ End(x)
          /\ UNCHANGED failures
       \/ Abort(x) /\ UNCHANGED <<row, adrift>>
  /\ UNCHANGED <<jobs, request, logVars, runs, requests, crashes, off>>

-----------------------------------------------------------------------------

\* Process p dies and starts again: onModuleInit registers what is enabled.
Restart(p) ==
  /\ crashes < MaxCrashes /\ crashes' = crashes + 1
  /\ exec' = [x \in Executions |->
       IF exec[x] # None /\ exec[x].p = p THEN None ELSE exec[x]]
  /\ request' = [u \in Requests |->
       IF request[u] # None /\ request[u].p = p THEN None ELSE request[u]]
  /\ jobs' = [jobs EXCEPT ![p] = {s \in Schedules : Runnable(s)}]
  /\ adrift' = adrift \ {s \in Schedules : Runnable(s)}
  /\ UNCHANGED <<row, logVars, runs, requests, failures, off>>

Serve(u) ==
  \/ SaveSelect(u) \/ SaveUpdate(u) \/ RescheduleJob(u)
  \/ Remove(u) \/ RequestFails(u)

Execute(x) ==
  \/ CheckTick(x) \/ CreateLog(x) \/ Dispatch(x) \/ FinaliseLog(x)
  \/ PersistSelect(x) \/ PersistUpdate(x)

Next ==
  \/ \E p \in Processes :
       \/ Restart(p)
       \/ \E s \in Schedules :
            \/ \E u \in Requests : Create(u, p, s) \/ Ask(u, p, s)
            \/ \E x \in Executions :
                 HandleTick(x, p, s) \/ ExecuteManually(x, p, s)
  \/ \E u \in Requests : Serve(u)
  \/ \E x \in Executions : Execute(x)

Spec == Init /\ [][Next]_vars

-----------------------------------------------------------------------------
(* Properties.                                                             *)

\* Rows, jobs, executions and requests keep their types.
TypeOK ==
  /\ row \in [Schedules -> Rows \cup {None}]
  /\ jobs \in [Processes -> SUBSET Schedules]
  /\ exec \in [Executions -> ExecutionRecords \cup {None}]
  /\ request \in [Requests -> RequestRecords \cup {None}]
  /\ logged \in [Schedules -> Nat] /\ finished \in [Schedules -> Nat]
  /\ runs \in 0..MaxRuns /\ requests \in 0..MaxRequests
  /\ failures \in 0..MaxFailures /\ crashes \in 0..MaxCrashes
  /\ dispatched \in [Schedules -> Nat]
  /\ adrift \subseteq Schedules /\ off \subseteq Schedules

\* "So we have a record even on crash": whatever was dispatched has a row in
\* the log of its own, finished or not, over failures, crashes and overlaps.
DispatchesLogged == \A s \in Schedules :
  dispatched[s] + Cardinality({x \in Executions :
                    exec[x] # None /\ exec[x].s = s /\ exec[x].at = "dispatch"})
    <= logged[s]

\* The counter that getHistory reports beside the log never exceeds what the
\* log shows as finished: overlapping executions and edits, which save copies
\* with old counters, may lose executions and never invent any.
CountWithinHistory == \A s \in Schedules :
  row[s] # None => row[s].executionCount <= finished[s]

\* A schedule that is on, with an expression that CronJob takes, has a job in
\* some process or a request about to set it, whichever process served the
\* requests and however edits overlap and processes restart.  Adrift are those
\* that the code leaves without one until they are edited or a process starts:
\* an execution's save has switched them on again, a request or a tick has
\* dropped the job by a copy that the row had outrun, or their removal has not
\* gone through.
EnabledHasJob == \A s \in Schedules \ adrift :
  Runnable(s) =>
    \/ \E p \in Processes : s \in jobs[p]
    \/ \E u \in Requests :
         request[u] # None /\ request[u].s = s /\ request[u].at = "job"

\* A schedule that was switched off or removed while nothing else of it was
\* under way stays so and no process's job gets past its check, over ticks,
\* failures and restarts, until a user asks for something.
OffStaysOff == \A s \in off :
  ~Live(s) /\ \A x \in Executions :
                exec[x] # None /\ exec[x].s = s => exec[x].at = "check"

=============================================================================
