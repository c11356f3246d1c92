----------------------------- MODULE Automations -----------------------------
(***************************************************************************)
(* The automations that watch one device: AutomationService for users and  *)
(* AutomationProcessor for telemetry.  As with alarms, everybody saves the *)
(* whole copy that was read before, the processor even after an action     *)
(* that may have taken ten seconds.                                        *)
(*                                                                         *)
(* The clock ticks at the pace of the cooldown: recent says that the last  *)
(* execution a row or a copy knows of is not a cooldown ago.  Active hours *)
(* and days are left out; of what the code never reads (debounce, retries, *)
(* executions per day) there is nothing to model.                          *)
(***************************************************************************)
EXTENDS Naturals, Functions

CONSTANTS
  Rules,         \* automations
  Cooling,       \* those with a cooldown
  Handlers,      \* TelemetryConsumer and AutomationConsumer of each process
  RuleRequests,  \* requests of users at a time
  MaxDeliveries, \* bound: messages given to handlers
  MaxFailures,   \* bound: calls to PostgreSQL or actions that fail
  MaxCrashes,    \* bound: handlers that end with their process
  MaxTicks,      \* bound: cooldowns that pass
  MaxRequests,   \* bound: requests of users
  None

ASSUME RuleConstants ==
  /\ Cooling \subseteq Rules /\ None \notin Rules
  /\ MaxDeliveries \in Nat /\ MaxFailures \in Nat /\ MaxCrashes \in Nat
  /\ MaxTicks \in Nat /\ MaxRequests \in Nat

VARIABLES
  rule,     \* table automations
  edit,     \* requests under way: what they are and the copy they read
  pc,       \* where the handler of a message stands
  copies,   \* the automations it has read and not dealt with
  cur,      \* the one whose action it has taken up
  deliveries, failures, crashes, ticks, requests,
  runs,     \* history: actions executed within the running cooldown
  loose     \* history: automations whose cooldown is not known to be kept

vars == <<rule, edit, pc, copies, cur, deliveries, failures, crashes, ticks,
          requests, runs, loose>>

handlerVars == <<pc, copies, cur>>
boundVars   == <<deliveries, failures, crashes, ticks, requests>>

RuleStatuses == {"ACTIVE", "INACTIVE", "ERROR"}

RuleRows == [enabled : BOOLEAN, status : RuleStatuses, recent : BOOLEAN,
             removed : BOOLEAN]

RuleOps == {"update", "switchOn", "switchOff", "toggle", "executeManually",
            "remove"}

RuleEdits == [op : RuleOps, id : Rules, copy : RuleRows]

\* What a handler has read.
Copies == UNION {[S -> RuleRows] : S \in SUBSET Rules}

NoCopies == [r \in {} |-> None]

Switched(row, on) ==
  [row EXCEPT !.enabled = on, !.status = IF on THEN "ACTIVE" ELSE "INACTIVE"]

\* create() of an automation, switched on or not.
NewRule(on) ==
  Switched([enabled |-> on, status |-> "INACTIVE", recent |-> FALSE,
            removed |-> FALSE], on)

Init ==
  /\ rule \in [Rules -> {NewRule(TRUE), NewRule(FALSE)}]
  /\ edit = [q \in RuleRequests |-> None]
  /\ pc = [h \in Handlers |-> "idle"]
  /\ copies = [h \in Handlers |-> NoCopies]
  /\ cur = [h \in Handlers |-> None]
  /\ deliveries = 0 /\ failures = 0 /\ crashes = 0 /\ ticks = 0 /\ requests = 0
  /\ runs = [r \in Rules |-> 0]
  /\ loose = {}

\* save() of a copy that was changed to new.
SaveRule(r, copy, new) ==
  /\ rule' = [rule EXCEPT ![r] = new]
  /\ loose' = IF copy # rule[r] THEN loose \cup {r} ELSE loose

-----------------------------------------------------------------------------
(* Requests of users.                                                      *)

\* executeManually records an execution and executes nothing.
EditedRule(op, row) ==
  CASE op = "switchOn"        -> Switched(row, TRUE)
    [] op = "switchOff"       -> Switched(row, FALSE)
    [] op = "toggle"          -> Switched(row, ~row.enabled)
    [] op = "executeManually" -> [row EXCEPT !.recent = TRUE]
    [] OTHER                  -> row

RuleRead(q) ==
  /\ edit[q] = None
  /\ requests < MaxRequests /\ requests' = requests + 1
  /\ \E r \in Rules, op \in RuleOps :
       /\ ~rule[r].removed
       /\ op = "executeManually" => rule[r].enabled
       /\ edit' = [edit EXCEPT ![q] =
                         [op |-> op, id |-> r, copy |-> rule[r]]]
  /\ UNCHANGED <<rule, handlerVars, deliveries, failures, crashes, ticks, runs,
                 loose>>

RuleSave(q) ==
  /\ edit[q] # None
  /\ LET e == edit[q] IN
       \/ /\ e.op = "remove"
          /\ rule' = [rule EXCEPT ![e.id].removed = TRUE]
          /\ UNCHANGED loose
       \/ /\ e.op # "remove"
          /\ SaveRule(e.id, e.copy, EditedRule(e.op, e.copy))
  /\ edit' = [edit EXCEPT ![q] = None]
  /\ UNCHANGED <<handlerVars, boundVars, runs>>

-----------------------------------------------------------------------------
(* processTelemetry in handler h.                                          *)

MayFail == failures < MaxFailures /\ failures' = failures + 1

GoTo(h, label) == pc' = [pc EXCEPT ![h] = label]

\* The query of processTelemetry.
Watching == {r \in Rules : /\ ~rule[r].removed
                           /\ rule[r].enabled /\ rule[r].status # "ERROR"}

\* A message of the device whose values meet the conditions in S; the same
\* values come at least twice, from raw and from validated.  What is read is
\* tried in turn; whose condition is not met would be skipped.  When the query
\* fails the handler is done.
ProcessTelemetry(h) ==
  /\ pc[h] = "idle"
  /\ deliveries < MaxDeliveries /\ deliveries' = deliveries + 1
  /\ \E S \in SUBSET Rules :
       copies' = [copies EXCEPT ![h] = Restrict(rule, Watching \cap S)]
  /\ GoTo(h, "rules")
  /\ UNCHANGED <<rule, edit, cur, failures, crashes, ticks, requests, runs,
                 loose>>

\* Mutant: without the cooldown.
CanExecuteAlways(r, row) == row.enabled /\ row.status # "ERROR"

CanExecute(r, row) ==
  /\ row.enabled /\ row.status # "ERROR"
  /\ ~(r \in Cooling /\ row.recent)

RecordExecution(row) == [row EXCEPT !.recent = TRUE, !.status = "ACTIVE"]

RecordError(row) == [row EXCEPT !.status = "ERROR"]

Runnable(h) == {r \in DOMAIN copies[h] : CanExecute(r, copies[h][r])}

\* Another handler has carried out the action and not recorded it.
BusyWith(r, h) == \E k \in Handlers \ {h} : cur[k] = r

\* executeAction, up to the answer of the device, the webhook or the mail.
ExecuteAction(h) ==
  /\ pc[h] = "rules"
  /\ \E r \in Runnable(h) :
       /\ cur' = [cur EXCEPT ![h] = r]
       /\ \/ /\ runs' = [runs EXCEPT ![r] = @ + 1]
             /\ loose' = IF BusyWith(r, h) \/ copies[h][r] # rule[r]
                         THEN loose \cup {r} ELSE loose
             /\ GoTo(h, "record")
             /\ UNCHANGED failures
          \/ /\ MayFail
             /\ GoTo(h, "error")
             /\ UNCHANGED <<runs, loose>>
  /\ UNCHANGED <<rule, edit, copies, deliveries, crashes, ticks, requests>>

\* The loop goes on with the other automations.
NextRule(h) ==
  /\ GoTo(h, "rules")
  /\ copies' = [copies EXCEPT ![h] = Restrict(@, DOMAIN @ \ {cur[h]})]
  /\ cur' = [cur EXCEPT ![h] = None]

\* A catch goes on with the copy as it was changed.
Catch(h, new, label) ==
  /\ GoTo(h, label)
  /\ copies' = [copies EXCEPT ![h][cur[h]] = new]
  /\ UNCHANGED cur

RecordRun(h) ==
  /\ pc[h] = "record"
  /\ LET copy == copies[h][cur[h]]
         new  == RecordExecution(copy) IN
       \/ SaveRule(cur[h], copy, new) /\ NextRule(h) /\ UNCHANGED failures
       \/ MayFail /\ Catch(h, new, "error") /\ UNCHANGED <<rule, loose>>
  /\ UNCHANGED <<edit, deliveries, crashes, ticks, requests, runs>>

\* The catch of executeAction, which throws on, whether it could save or not.
RecordFailure(h) ==
  /\ pc[h] = "error"
  /\ LET copy == copies[h][cur[h]]
         new  == RecordError(copy) IN
       /\ \/ SaveRule(cur[h], copy, new) /\ UNCHANGED failures
          \/ MayFail /\ UNCHANGED <<rule, loose>>
       /\ Catch(h, new, "again")
  /\ UNCHANGED <<edit, deliveries, crashes, ticks, requests, runs>>

\* The catch of processTelemetry, which saves the same once more.  When that
\* fails the loop is left, the other automations behind.
RecordFailureAgain(h) ==
  /\ pc[h] = "again"
  /\ LET copy == copies[h][cur[h]] IN
       \/ SaveRule(cur[h], copy, copy) /\ NextRule(h) /\ UNCHANGED failures
       \/ /\ MayFail
          /\ loose' = loose \cup {cur[h]}
          /\ cur' = [cur EXCEPT ![h] = None]
          /\ copies' = [copies EXCEPT ![h] = NoCopies]
          /\ GoTo(h, "rules")
          /\ UNCHANGED rule
  /\ UNCHANGED <<edit, deliveries, crashes, ticks, requests, runs>>

\* The loop has ended: what is left may not execute now.
Done(h) ==
  /\ pc[h] = "rules" /\ Runnable(h) = {}
  /\ GoTo(h, "idle")
  /\ copies' = [copies EXCEPT ![h] = NoCopies]
  /\ UNCHANGED <<rule, edit, cur, boundVars, runs, loose>>

Die(h) ==
  /\ pc[h] # "idle"
  /\ crashes < MaxCrashes /\ crashes' = crashes + 1
  /\ GoTo(h, "idle")
  /\ copies' = [copies EXCEPT ![h] = NoCopies]
  /\ cur' = [cur EXCEPT ![h] = None]
  /\ loose' = loose \cup ({cur[h]} \ {None})
  /\ UNCHANGED <<rule, edit, deliveries, failures, ticks, requests, runs>>

Aged(row) == [row EXCEPT !.recent = FALSE]

\* Every execution recorded so far is now a cooldown ago.
CooldownPasses ==
  /\ ticks < MaxTicks /\ ticks' = ticks + 1
  /\ rule' = [r \in Rules |-> Aged(rule[r])]
  /\ edit' = [q \in RuleRequests |->
       IF edit[q] = None THEN None ELSE [edit[q] EXCEPT !.copy = Aged(@)]]
  /\ copies' = [h \in Handlers |->
       [r \in DOMAIN copies[h] |-> Aged(copies[h][r])]]
  /\ runs' = [r \in Rules |-> 0]
  /\ loose' = {}
  /\ UNCHANGED <<pc, cur, deliveries, failures, crashes, requests>>

-----------------------------------------------------------------------------

Handle(h) ==
  \/ ExecuteAction(h) \/ RecordRun(h) \/ RecordFailure(h)
  \/ RecordFailureAgain(h) \/ Done(h)

Next ==
  \/ \E q \in RuleRequests : RuleRead(q) \/ RuleSave(q)
  \/ \E h \in Handlers : ProcessTelemetry(h) \/ Handle(h) \/ Die(h)
  \/ CooldownPasses

Spec == Init /\ [][Next]_vars

-----------------------------------------------------------------------------
(* Properties.                                                             *)

\* Rows and handlers keep their types: above all a handler that has taken up
\* an action holds the copy it will save.
TypeOK ==
  /\ rule \in [Rules -> RuleRows]
  /\ edit \in [RuleRequests -> RuleEdits \cup {None}]
  /\ pc \in [Handlers -> {"idle", "rules", "record", "error", "again"}]
  /\ cur \in [Handlers -> Rules \cup {None}]
  /\ copies \in [Handlers -> Copies]
  /\ \A h \in Handlers :
       /\ pc[h] = "idle" => DOMAIN copies[h] = {}
       /\ pc[h] \in {"idle", "rules"} => cur[h] = None
       /\ pc[h] \in {"record", "error", "again"} => cur[h] \in DOMAIN copies[h]
  /\ deliveries \in 0..MaxDeliveries /\ failures \in 0..MaxFailures
  /\ crashes \in 0..MaxCrashes /\ ticks \in 0..MaxTicks
  /\ requests \in 0..MaxRequests
  /\ runs \in [Rules -> Nat]
  /\ loose \subseteq Rules

\* "Don't trigger again for 5 minutes": an action is executed once in a
\* cooldown, although the telemetry consumer and the automation consumer both
\* run the automations for the same values and redeliveries repeat them.
\* Exempt is an automation of which two handlers overlapped, or whose row was
\* set back by a stale save, or whose execution could not be recorded.
CooldownKept == \A r \in Cooling : runs[r] <= 1 \/ r \in loose

=============================================================================
