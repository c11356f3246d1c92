--------------------------- MODULE SchedulesProofs ---------------------------
(***************************************************************************)
(* Proofs about Schedules, for any schedules, processes, requests and      *)
(* bounds: the type invariant and the four safety properties.              *)
(***************************************************************************)
EXTENDS Schedules, FiniteSetTheorems, TLAPS

USE ScheduleConstants, NoneIsNoRecord

-----------------------------------------------------------------------------
(* Rows, and the records that None is the absence of.                      *)

\* An UPDATE of some columns: each is the copy's or the row's.
LEMMA WrittenRow ==
  ASSUME NEW row0 \in Rows, NEW copy \in Rows, NEW cols
  PROVE  /\ Written(row0, copy, cols) \in Rows
         /\ Written(row0, copy, cols).executionCount
              \in {row0.executionCount, copy.executionCount}
  <1> DEFINE pick(c) == IF c \in cols THEN copy[c] ELSE row0[c]
  <1>1. Written(row0, copy, cols) =
          [enabled |-> pick("enabled"), removed |-> pick("removed"),
           expression |-> pick("expression"),
           executionCount |-> pick("executionCount")]
    BY DEF Written, Columns
  <1> QED
    BY <1>1 DEF Rows

LEMMA DifferingType == \A row0, copy : Differing(row0, copy) \in SUBSET Columns
  BY DEF Differing

LEMMA RequestTypes ==
  ASSUME TypeOK, NEW u \in Requests, request[u] # None
  PROVE  /\ request[u] \in RequestRecords
         /\ request[u].p \in Processes /\ request[u].s \in Schedules
         /\ request[u].copy \in Rows
  BY DEF TypeOK, RequestRecords

LEMMA ExecutionTypes ==
  ASSUME TypeOK, NEW x \in Executions, exec[x] # None
  PROVE  /\ exec[x] \in ExecutionRecords
         /\ exec[x].s \in Schedules /\ exec[x].copy \in Rows \cup {None}
         /\ exec[x].p \in Processes /\ exec[x].at \in Stages
  BY DEF TypeOK, ExecutionRecords

LEMMA ListedTypes ==
  ASSUME TypeOK, NEW s \in Schedules, Listed(s)
  PROVE  row[s] \in Rows
  BY DEF TypeOK, Listed

-----------------------------------------------------------------------------
(* The type invariant, with the rows that requests and executions have     *)
(* found.                                                                  *)

\* Rows are not deleted: what a request or an execution has read is still in
\* the table, and an execution past its check has read something.
FoundRowsStay ==
  /\ \A u \in Requests : request[u] # None => row[request[u].s] # None
  /\ \A x \in Executions : exec[x] # None =>
       /\ exec[x].copy = None => exec[x].at = "check"
       /\ exec[x].copy # None => row[exec[x].s] # None

Types == TypeOK /\ FoundRowsStay

LEMMA TypesInit == Init => Types
  BY DEF Init, Types, TypeOK, FoundRowsStay

\* What a request and an execution past its check work on.
LEMMA FoundRequest ==
  ASSUME Types, NEW u \in Requests, request[u] # None
  PROVE  /\ request[u].s \in Schedules
         /\ row[request[u].s] \in Rows /\ request[u].copy \in Rows
  BY RequestTypes DEF Types, TypeOK, FoundRowsStay

LEMMA FoundExecution ==
  ASSUME Types, NEW x \in Executions, exec[x] # None, exec[x].at # "check"
  PROVE  /\ exec[x].s \in Schedules
         /\ row[exec[x].s] \in Rows /\ exec[x].copy \in Rows
  BY ExecutionTypes DEF Types, TypeOK, FoundRowsStay

\* No step puts anything but a row in the table, and what is read then is
\* there.
LEMMA TypesKept ==
  ASSUME Types, TypeOK',
         \A s \in Schedules : row'[s] = row[s] \/ row'[s] \in Rows,
         \A u \in Requests :
           \/ request'[u] = request[u] \/ request'[u] = None
           \/ row'[request'[u].s] # None,
         \A x \in Executions :
           \/ exec'[x] = exec[x] \/ exec'[x] = None
           \/ exec'[x].copy # None /\ row'[exec'[x].s] # None
           \/ exec'[x].copy = None /\ exec'[x].at = "check"
  PROVE  Types'
  <1> TypeOK
    BY DEF Types
  <1>1. \A s \in Schedules : row[s] # None => row'[s] # None
    OBVIOUS
  <1>2. ASSUME NEW u \in Requests, request'[u] # None
        PROVE  row'[request'[u].s] # None
    <2>1. CASE request'[u] = request[u]
      BY <1>1, <1>2, <2>1, RequestTypes DEF Types, FoundRowsStay
    <2> QED  BY <1>2, <2>1
  <1>3. ASSUME NEW x \in Executions, exec'[x] # None
        PROVE  /\ exec'[x].copy = None => exec'[x].at = "check"
               /\ exec'[x].copy # None => row'[exec'[x].s] # None
    <2>1. CASE exec'[x] = exec[x]
      BY <1>1, <1>3, <2>1, ExecutionTypes DEF Types, FoundRowsStay
    <2> QED  BY <1>3, <2>1
  <1> QED  BY <1>2, <1>3 DEF Types, FoundRowsStay

\* Opening a request keeps the types.
LEMMA OpenTypesStep ==
  ASSUME Types, NEW u \in Requests, NEW p \in Processes, NEW s \in Schedules,
         Create(u, p, s) \/ Ask(u, p, s)
  PROVE  Types'
  <1> TypeOK
    BY DEF Types
  <1>1. CASE Create(u, p, s)
    <2>1. PICK new \in Rows :
            /\ row' = [row EXCEPT ![s] = new]
            /\ request' = [request EXCEPT ![u] =
                             [at |-> "job", p |-> p, s |-> s, copy |-> new,
                              cols |-> {}]]
      BY <1>1 DEF Create, Rows
    <2>2. [at |-> "job", p |-> p, s |-> s, copy |-> new, cols |-> {}]
            \in RequestRecords
      BY DEF RequestRecords, RequestStages
    <2>3. /\ row' \in [Schedules -> Rows \cup {None}] /\ row'[s] # None
          /\ \A t \in Schedules : row'[t] = row[t] \/ row'[t] \in Rows
      BY <2>1 DEF TypeOK
    <2>4. request' \in [Requests -> RequestRecords \cup {None}]
      BY <2>1, <2>2 DEF TypeOK
    <2>5. TypeOK'
      BY <1>1, <2>3, <2>4 DEF Create, TypeOK, logVars, boundVars
    <2>6. \A v \in Requests : request'[v] = request[v] \/ request'[v].s = s
      BY <2>1 DEF TypeOK
    <2>7. exec' = exec
      BY <1>1 DEF Create
    <2> QED  BY <2>3, <2>5, <2>6, <2>7, TypesKept
  <1>2. CASE Ask(u, p, s)
    <2>1. row[s] \in Rows /\ row' = row /\ exec' = exec
      BY <1>2, ListedTypes DEF Ask
    <2>2. PICK at \in RequestStages, copy \in Rows :
            request' = [request EXCEPT ![u] =
              [at |-> at, p |-> p, s |-> s, cols |-> {}, copy |-> copy]]
      <3>1. CASE \E on \in BOOLEAN, e \in Expressions :
                   request' = [request EXCEPT ![u] =
                     [at |-> "select", p |-> p, s |-> s, cols |-> {},
                      copy |-> [row[s] EXCEPT !.enabled = on, !.expression = e]]]
        <4>1. PICK on \in BOOLEAN, e \in Expressions :
                request' = [request EXCEPT ![u] =
                  [at |-> "select", p |-> p, s |-> s, cols |-> {},
                   copy |-> [row[s] EXCEPT !.enabled = on, !.expression = e]]]
          BY <3>1
        <4>2. [row[s] EXCEPT !.enabled = on, !.expression = e] \in Rows
          BY <2>1 DEF Rows
        <4> QED  BY <4>1, <4>2 DEF RequestStages
      <3>2. CASE request' = [request EXCEPT ![u] =
              [at |-> "remove", p |-> p, s |-> s, cols |-> {}, copy |-> row[s]]]
        BY <2>1, <3>2 DEF RequestStages
      <3> QED  BY <1>2, <3>1, <3>2 DEF Ask
    <2>3. [at |-> at, p |-> p, s |-> s, cols |-> {}, copy |-> copy]
            \in RequestRecords
      BY DEF RequestRecords
    <2>4. request' \in [Requests -> RequestRecords \cup {None}]
      BY <2>2, <2>3 DEF TypeOK
    <2>5. /\ jobs' \in [Processes -> SUBSET Schedules]
          /\ adrift' \subseteq Schedules /\ off' \subseteq Schedules
      <3>1. /\ \/ jobs' = jobs /\ adrift' = adrift
               \/ SetJob(p, s, FALSE) /\ adrift' = adrift \cup {s}
            /\ off' = off \ {s}
        BY <1>2, Zenon DEF Ask
      <3> QED  BY <3>1 DEF SetJob, TypeOK
    <2>6. requests' \in 0..MaxRequests
      <3>1. MayAsk
        BY <1>2, Zenon DEF Ask
      <3> QED  BY <3>1 DEF MayAsk, TypeOK
    <2>7. TypeOK'
      BY <1>2, <2>1, <2>4, <2>5, <2>6 DEF Ask, TypeOK, logVars
    <2>8. \A v \in Requests : request'[v] = request[v] \/ request'[v].s = s
      BY <2>2 DEF TypeOK
    <2> QED  BY <2>1, <2>7, <2>8, TypesKept
  <1> QED  BY <1>1, <1>2

\* The rest of a request keeps the types.
LEMMA ServeTypesStep ==
  ASSUME Types, NEW u \in Requests, Serve(u)
  PROVE  Types'
  <1> TypeOK
    BY DEF Types
  <1>1. CASE SaveSelect(u)
    <2>1. /\ request[u] # None /\ row' = row /\ exec' = exec
          /\ request' = [request EXCEPT ![u].at = "update",
               ![u].cols = Differing(row[request[u].s], request[u].copy)]
      BY <1>1 DEF SaveSelect
    <2>2. PICK cols \in SUBSET Columns :
            request' = [request EXCEPT ![u] =
                          [request[u] EXCEPT !.at = "update", !.cols = cols]]
      <3>1. Differing(row[request[u].s], request[u].copy) \in SUBSET Columns
        BY DifferingType
      <3> QED  BY <2>1, <3>1
    <2>3. /\ [request[u] EXCEPT !.at = "update", !.cols = cols] \in RequestRecords
          /\ [request[u] EXCEPT !.at = "update", !.cols = cols].s = request[u].s
      BY <2>1, RequestTypes DEF RequestRecords, RequestStages
    <2>4. TypeOK'
      BY <1>1, <2>2, <2>3 DEF SaveSelect, TypeOK, logVars, boundVars
    <2>5. \A v \in Requests : request'[v] = request[v]
                              \/ request'[v].s = request[u].s
      BY <2>2, <2>3 DEF TypeOK
    <2>6. row'[request[u].s] # None
      BY <2>1, FoundRequest
    <2> QED  BY <2>1, <2>4, <2>5, <2>6, TypesKept
  <1>2. CASE SaveUpdate(u)
    <2>1. /\ request[u] # None /\ exec' = exec
          /\ row' = [row EXCEPT ![request[u].s] =
               Written(row[request[u].s], request[u].copy, request[u].cols)]
          /\ request' = [request EXCEPT ![u] =
               [request[u] EXCEPT !.at = "job", !.cols = {}]]
      BY <1>2 DEF SaveUpdate
    <2>2. /\ [request[u] EXCEPT !.at = "job", !.cols = {}] \in RequestRecords
          /\ [request[u] EXCEPT !.at = "job", !.cols = {}].s = request[u].s
      BY <2>1, RequestTypes DEF RequestRecords, RequestStages
    <2>3. /\ request[u].s \in Schedules
          /\ Written(row[request[u].s], request[u].copy, request[u].cols) \in Rows
      BY <2>1, FoundRequest, WrittenRow
    <2>4. /\ row' \in [Schedules -> Rows \cup {None}]
          /\ row'[request[u].s] # None
          /\ \A t \in Schedules : row'[t] = row[t] \/ row'[t] \in Rows
      BY <2>1, <2>3 DEF TypeOK
    <2>5. TypeOK'
      BY <1>2, <2>1, <2>2, <2>4 DEF SaveUpdate, TypeOK, logVars, boundVars
    <2>6. \A v \in Requests : request'[v] = request[v]
                              \/ request'[v].s = request[u].s
      BY <2>1, <2>2 DEF TypeOK
    <2> QED  BY <2>1, <2>4, <2>5, <2>6, TypesKept
  <1>3. ASSUME request' = [request EXCEPT ![u] = None], exec' = exec, TypeOK',
               \A t \in Schedules : row'[t] = row[t] \/ row'[t] \in Rows
        PROVE  Types'
    <2>1. \A v \in Requests : request'[v] = request[v] \/ request'[v] = None
      BY <1>3 DEF TypeOK
    <2> QED  BY <1>3, <2>1, TypesKept
  <1>4. CASE RescheduleJob(u)
    <2>1. /\ request[u] # None /\ row' = row /\ exec' = exec
          /\ request' = [request EXCEPT ![u] = None]
      BY <1>4 DEF RescheduleJob
    <2>2. request[u].s \in Schedules /\ request[u].p \in Processes
      BY <2>1, RequestTypes
    <2>3. jobs' \in [Processes -> SUBSET Schedules]
      BY <1>4, <2>2 DEF RescheduleJob, JobsFromCopy, TypeOK
    <2>4. adrift' \subseteq Schedules /\ off' \subseteq Schedules
      BY <1>4, <2>2 DEF RescheduleJob, TypeOK
    <2>5. TypeOK'
      BY <1>4, <2>1, <2>3, <2>4 DEF RescheduleJob, TypeOK, logVars, boundVars
    <2> QED  BY <1>3, <2>1, <2>5
  <1>5. CASE Remove(u)
    <2>1. /\ request[u] # None /\ exec' = exec
          /\ row' = [row EXCEPT ![request[u].s] =
                       [row[request[u].s] EXCEPT !.removed = TRUE]]
          /\ request' = [request EXCEPT ![u] = None]
      BY <1>5 DEF Remove
    <2>2. request[u].s \in Schedules /\ row[request[u].s] \in Rows
      BY <2>1, FoundRequest
    <2>3. [row[request[u].s] EXCEPT !.removed = TRUE] \in Rows
      BY <2>2 DEF Rows
    <2>4. /\ row' \in [Schedules -> Rows \cup {None}]
          /\ \A t \in Schedules : row'[t] = row[t] \/ row'[t] \in Rows
      BY <2>1, <2>3 DEF TypeOK
    <2>5. off' \subseteq Schedules
      BY <1>5, <2>2 DEF Remove, TypeOK
    <2>6. TypeOK'
      BY <1>5, <2>1, <2>4, <2>5 DEF Remove, TypeOK, logVars, boundVars
    <2> QED  BY <1>3, <2>1, <2>4, <2>6
  <1>6. CASE RequestFails(u)
    <2>1. /\ row' = row /\ exec' = exec
          /\ request' = [request EXCEPT ![u] = None]
      BY <1>6 DEF RequestFails
    <2>2. TypeOK'
      BY <1>6, <2>1 DEF RequestFails, MayFail, TypeOK, logVars
    <2> QED  BY <1>3, <2>1, <2>2
  <1> QED  BY <1>1, <1>2, <1>4, <1>5, <1>6 DEF Serve

\* Starting an execution keeps the types.
LEMMA BeginTypesStep ==
  ASSUME Types, NEW x \in Executions, NEW p \in Processes, NEW s \in Schedules,
         HandleTick(x, p, s) \/ ExecuteManually(x, p, s)
  PROVE  Types'
  <1> TypeOK
    BY DEF Types
  <1>1. PICK stage \in {"check", "log"} :
          /\ Begin(x, stage, p, s)
          /\ stage = "log" => Listed(s)
    BY DEF HandleTick, ExecuteManually
  <1>2. PICK copy \in Rows \cup {None} :
          /\ exec' = [exec EXCEPT ![x] = [at |-> stage, p |-> p, s |-> s,
                                          cols |-> {}, copy |-> copy]]
          /\ copy # None => row[s] # None
          /\ copy = None => stage = "check"
    <2>1. CASE Listed(s)
      BY <1>1, <2>1, ListedTypes DEF Begin, Listed
    <2>2. CASE ~Listed(s)
      BY <1>1, <2>2 DEF Begin
    <2> QED  BY <2>1, <2>2
  <1>3. [at |-> stage, p |-> p, s |-> s, cols |-> {}, copy |-> copy]
          \in ExecutionRecords
    BY DEF ExecutionRecords, Stages
  <1>4. exec' \in [Executions -> ExecutionRecords \cup {None}]
    BY <1>2, <1>3 DEF TypeOK
  <1>5. row' = row /\ request' = request
    BY DEF HandleTick, ExecuteManually
  <1>6. /\ runs' \in 0..MaxRuns /\ requests' \in 0..MaxRequests
        /\ off' \subseteq Schedules
    BY DEF HandleTick, ExecuteManually, MayAsk, MayRun, TypeOK, boundVars
  <1>7. TypeOK'
    BY <1>4, <1>5, <1>6
       DEF HandleTick, ExecuteManually, TypeOK, logVars, boundVars
  <1>8. \A y \in Executions :
          \/ exec'[y] = exec[y]
          \/ exec'[y].copy # None /\ row'[exec'[y].s] # None
          \/ exec'[y].copy = None /\ exec'[y].at = "check"
    BY <1>2, <1>5 DEF TypeOK
  <1> QED  BY <1>5, <1>7, <1>8, TypesKept

\* What a step of an execution makes of it.
Continues(x, new) ==
  /\ exec[x].copy \in Rows /\ new.s = exec[x].s
  /\ exec[x].at = "check" => MayTick(exec[x].copy)
  /\ new.copy \in {exec[x].copy, RecordExecution(exec[x].copy)}

LEMMA ExecutionStep ==
  ASSUME Types, NEW x \in Executions, Execute(x)
  PROVE  /\ exec[x] # None /\ request' = request /\ off' = off
         /\ \E new \in ExecutionRecords \cup {None} :
              /\ exec' = [exec EXCEPT ![x] = new]
              /\ new = None \/ Continues(x, new)
  <1> TypeOK
    BY DEF Types
  <1>0. /\ exec[x] # None /\ exec[x] \in ExecutionRecords
        /\ exec[x].at = "check" \/ exec[x].copy \in Rows
        /\ request' = request /\ off' = off
    BY ExecutionTypes, FoundExecution
       DEF Execute, CheckTick, CreateLog, Dispatch, FinaliseLog, PersistSelect,
           PersistUpdate
  <1>1. ASSUME End(x) \/ Abort(x)
        PROVE  \E new \in ExecutionRecords \cup {None} :
                 /\ exec' = [exec EXCEPT ![x] = new]
                 /\ new = None \/ Continues(x, new)
    BY <1>1 DEF End, Abort
  <1>2. ASSUME NEW stage \in Stages, GoTo(x, stage), exec[x].copy \in Rows,
               exec[x].at = "check" => MayTick(exec[x].copy)
        PROVE  \E new \in ExecutionRecords \cup {None} :
                 /\ exec' = [exec EXCEPT ![x] = new]
                 /\ new = None \/ Continues(x, new)
    <2>1. /\ [exec[x] EXCEPT !.at = stage] \in ExecutionRecords
          /\ [exec[x] EXCEPT !.at = stage].s = exec[x].s
          /\ [exec[x] EXCEPT !.at = stage].copy = exec[x].copy
      BY <1>0 DEF ExecutionRecords
    <2> QED  BY <1>2, <2>1 DEF GoTo, Continues
  <1>3. CASE CheckTick(x)
    <2>1. \/ End(x)
          \/ GoTo(x, "log") /\ exec[x].copy # None /\ MayTick(exec[x].copy)
      BY <1>3 DEF CheckTick
    <2>2. exec[x].copy # None => exec[x].copy \in Rows
      BY <1>0, ExecutionTypes
    <2> QED  BY <1>0, <1>1, <1>2, <2>1, <2>2 DEF Stages
  <1>4. CASE CreateLog(x)
    BY <1>0, <1>1, <1>2, <1>4 DEF CreateLog, Stages
  <1>5. CASE Dispatch(x)
    BY <1>0, <1>1, <1>2, <1>5 DEF Dispatch, Stages
  <1>6. CASE FinaliseLog(x)
    <2>1. exec[x].at = "finalise" /\ exec[x].copy \in Rows
      BY <1>0, <1>6 DEF FinaliseLog
    <2>2. PICK new : new = [exec[x] EXCEPT !.at = "save",
                                           !.copy = RecordExecution(exec[x].copy)]
      OBVIOUS
    <2>3. RecordExecution(exec[x].copy) \in Rows
      BY <2>1 DEF RecordExecution, Rows
    <2>4. /\ new \in ExecutionRecords /\ new.s = exec[x].s
          /\ new.copy = RecordExecution(exec[x].copy)
      BY <1>0, <2>2, <2>3 DEF ExecutionRecords, Stages
    <2>5. exec' = [exec EXCEPT ![x] = new] \/ Abort(x)
      BY <1>6, <2>2 DEF FinaliseLog
    <2> QED  BY <1>0, <1>1, <2>1, <2>4, <2>5 DEF Continues
  <1>7. CASE PersistSelect(x)
    <2>1. exec[x].at = "save" /\ exec[x].copy \in Rows
      BY <1>0, <1>7 DEF PersistSelect
    <2>2. PICK cols \in SUBSET Columns :
            cols = Differing(row[exec[x].s], exec[x].copy)
      BY DifferingType
    <2>3. PICK new : new = [exec[x] EXCEPT !.at = "update", !.cols = cols]
      OBVIOUS
    <2>4. /\ new \in ExecutionRecords /\ new.s = exec[x].s
          /\ new.copy = exec[x].copy
      BY <1>0, <2>3 DEF ExecutionRecords, Stages
    <2>5. exec' = [exec EXCEPT ![x] = new] \/ Abort(x)
      BY <1>7, <2>2, <2>3 DEF PersistSelect
    <2> QED  BY <1>0, <1>1, <2>1, <2>4, <2>5 DEF Continues
  <1>8. CASE PersistUpdate(x)
    BY <1>1, <1>8 DEF PersistUpdate
  <1> QED  BY <1>0, <1>3, <1>4, <1>5, <1>6, <1>7, <1>8 DEF Execute

\* Executions keep the types.
LEMMA ExecutionTypesStep ==
  ASSUME Types, NEW x \in Executions, Execute(x)
  PROVE  Types'
  <1> TypeOK
    BY DEF Types
  <1>1. PICK new \in ExecutionRecords \cup {None} :
          /\ exec' = [exec EXCEPT ![x] = new]
          /\ new = None \/ Continues(x, new)
    BY ExecutionStep
  <1>2. /\ exec[x] # None /\ exec[x].s \in Schedules /\ exec[x].p \in Processes
        /\ request' = request /\ off' = off
    BY ExecutionStep, ExecutionTypes
  <1>3. exec' \in [Executions -> ExecutionRecords \cup {None}]
    BY <1>1 DEF TypeOK
  <1>4. \/ /\ row' = row /\ adrift' \subseteq Schedules
        \/ /\ exec[x].at = "update" /\ new = None
           /\ row' = [row EXCEPT ![exec[x].s] =
                Written(row[exec[x].s], exec[x].copy, exec[x].cols)]
           /\ adrift' \subseteq Schedules
    <2>1. CASE CheckTick(x) \/ CreateLog(x) \/ Dispatch(x) \/ FinaliseLog(x)
               \/ PersistSelect(x)
      BY <1>2, <2>1 DEF CheckTick, CreateLog, Dispatch, FinaliseLog,
                        PersistSelect, TypeOK
    <2>2. CASE PersistUpdate(x)
      <3>1. exec'[x] = None
        BY <2>2 DEF PersistUpdate, End, Abort, TypeOK
      <3>2. new = None
        BY <1>1, <3>1 DEF TypeOK
      <3>3. adrift' \subseteq Schedules
        BY <1>2, <2>2 DEF PersistUpdate, TypeOK
      <3> QED  BY <2>2, <3>2, <3>3 DEF PersistUpdate
    <2> QED  BY <2>1, <2>2 DEF Execute
  <1>5. /\ row' \in [Schedules -> Rows \cup {None}]
        /\ \A t \in Schedules : row'[t] = row[t] \/ row'[t] \in Rows
    <2>1. exec[x].at = "update" =>
            Written(row[exec[x].s], exec[x].copy, exec[x].cols) \in Rows
      BY <1>2, FoundExecution, WrittenRow
    <2> QED  BY <1>4, <2>1 DEF TypeOK
  <1>6. /\ jobs' \in [Processes -> SUBSET Schedules]
        /\ logged' \in [Schedules -> Nat] /\ finished' \in [Schedules -> Nat]
        /\ dispatched' \in [Schedules -> Nat]
    <2>1. /\ jobs' = jobs \/ SetJob(exec[x].p, exec[x].s, FALSE)
          /\ \/ logged' = logged
             \/ logged' = [logged EXCEPT ![exec[x].s] = @ + 1]
          /\ \/ finished' = finished
             \/ finished' = [finished EXCEPT ![exec[x].s] = @ + 1]
          /\ \/ dispatched' = dispatched
             \/ dispatched' = [dispatched EXCEPT ![exec[x].s] = @ + 1]
      BY DEF Execute, CheckTick, CreateLog, Dispatch, FinaliseLog,
             PersistSelect, PersistUpdate, logVars
    <2> QED  BY <1>2, <2>1 DEF SetJob, TypeOK
  <1>7. /\ runs' \in 0..MaxRuns /\ requests' \in 0..MaxRequests
        /\ failures' \in 0..MaxFailures /\ crashes' \in 0..MaxCrashes
    <2>1. /\ failures' = failures \/ MayFail
          /\ runs' = runs /\ requests' = requests /\ crashes' = crashes
      BY DEF Execute, CheckTick, CreateLog, Dispatch, FinaliseLog,
             PersistSelect, PersistUpdate, Abort, boundVars
    <2> QED  BY <2>1 DEF MayFail, TypeOK
  <1>8. TypeOK'
    BY <1>2, <1>3, <1>4, <1>5, <1>6, <1>7 DEF TypeOK
  <1>9. new # None => new.copy # None /\ row'[new.s] # None
    <2>1. CASE Continues(x, new)
      <3>1. row[exec[x].s] # None
        BY <1>2, <2>1 DEF Continues, Types, FoundRowsStay
      <3>2. new.copy \in Rows
        BY <2>1 DEF Continues, RecordExecution, Rows
      <3> QED  BY <1>2, <1>5, <2>1, <3>1, <3>2 DEF Continues
    <2> QED  BY <1>1, <2>1
  <1> QED
    <2>1. \A y \in Executions :
            \/ exec'[y] = exec[y] \/ exec'[y] = None
            \/ exec'[y].copy # None /\ row'[exec'[y].s] # None
      BY <1>1, <1>9 DEF TypeOK
    <2> QED  BY <1>2, <1>5, <1>8, <2>1, TypesKept

\* A restart keeps the types.
LEMMA RestartTypesStep ==
  ASSUME Types, NEW p \in Processes, Restart(p)
  PROVE  Types'
  <1>1. TypeOK'
    BY DEF Types, Restart, TypeOK, logVars
  <1>2. /\ row' = row
        /\ \A u \in Requests : request'[u] = request[u] \/ request'[u] = None
        /\ \A x \in Executions : exec'[x] = exec[x] \/ exec'[x] = None
    BY DEF Restart
  <1> QED  BY <1>1, <1>2, TypesKept

LEMMA TypesStep == Types /\ [Next]_vars => Types'
  <1>1. ASSUME Types, UNCHANGED vars PROVE Types'
    BY <1>1 DEF vars, Types, TypeOK, FoundRowsStay
  <1> QED
    BY <1>1, OpenTypesStep, ServeTypesStep, BeginTypesStep, ExecutionTypesStep,
       RestartTypesStep DEF Next

\* Rows, jobs, executions and requests keep their types, for any number of
\* them.
THEOREM TypeCorrect == Spec => []TypeOK
  <1>1. Types => TypeOK
    BY DEF Types
  <1> QED  BY <1>1, TypesInit, TypesStep, PTL DEF Spec

-----------------------------------------------------------------------------
(* The counter and the log.                                                *)

\* No copy of a row, in the table or on its way back to it, counts more
\* executions than the log shows as finished.
CopiesWithinHistory ==
  /\ \A s \in Schedules : row[s] # None => row[s].executionCount <= finished[s]
  /\ \A u \in Requests : request[u] # None =>
       request[u].copy.executionCount <= finished[request[u].s]
  /\ \A x \in Executions : exec[x] # None /\ exec[x].copy # None =>
       exec[x].copy.executionCount <= finished[exec[x].s]

\* Requests carry counters over from what they have read.
LEMMA RequestHistoryStep ==
  ASSUME Types, CopiesWithinHistory,
         \E u \in Requests :
           \/ Serve(u)
           \/ \E p \in Processes, s \in Schedules : Create(u, p, s) \/ Ask(u, p, s)
  PROVE  CopiesWithinHistory'
  <1> TypeOK
    BY DEF Types
  <1>0. exec' = exec /\ finished' = finished
    BY DEF Serve, SaveSelect, SaveUpdate, RescheduleJob, Remove, RequestFails,
           Create, Ask, logVars
  <1>1. ASSUME NEW u \in Requests, NEW p \in Processes, NEW s \in Schedules,
               Create(u, p, s)
        PROVE  CopiesWithinHistory'
    <2>0. PICK on, e, new :
            /\ new = [enabled |-> on, removed |-> FALSE, expression |-> e,
                      executionCount |-> 0]
            /\ row' = [row EXCEPT ![s] = new]
            /\ request' = [request EXCEPT ![u] =
                             [at |-> "job", p |-> p, s |-> s, copy |-> new,
                              cols |-> {}]]
      BY <1>1, Zenon DEF Create
    <2>1. new.executionCount = 0
      BY <2>0
    <2>2. 0 <= finished[s]
      BY DEF TypeOK
    <2> QED  BY <1>0, <2>0, <2>1, <2>2 DEF CopiesWithinHistory, TypeOK
  <1>2. ASSUME NEW u \in Requests, NEW p \in Processes, NEW s \in Schedules,
               Ask(u, p, s)
        PROVE  CopiesWithinHistory'
    <2>1. row[s] \in Rows /\ row' = row
      BY <1>2, ListedTypes DEF Ask
    <2>2. \A on \in BOOLEAN, e \in Expressions :
            [row[s] EXCEPT !.enabled = on, !.expression = e].executionCount
              = row[s].executionCount
      BY <2>1 DEF Rows
    <2>3. PICK at, copy :
            /\ request' = [request EXCEPT ![u] =
                 [at |-> at, p |-> p, s |-> s, cols |-> {}, copy |-> copy]]
            /\ copy.executionCount = row[s].executionCount
      <3>1. CASE \E on \in BOOLEAN, e \in Expressions :
                   request' = [request EXCEPT ![u] =
                     [at |-> "select", p |-> p, s |-> s, cols |-> {},
                      copy |-> [row[s] EXCEPT !.enabled = on, !.expression = e]]]
        <4>1. PICK on \in BOOLEAN, e \in Expressions :
                request' = [request EXCEPT ![u] =
                  [at |-> "select", p |-> p, s |-> s, cols |-> {},
                   copy |-> [row[s] EXCEPT !.enabled = on, !.expression = e]]]
          BY <3>1
        <4>2. [row[s] EXCEPT !.enabled = on, !.expression = e].executionCount
                = row[s].executionCount
          BY <2>2
        <4> QED  BY <4>1, <4>2, Zenon
      <3>2. CASE request' = [request EXCEPT ![u] =
              [at |-> "remove", p |-> p, s |-> s, cols |-> {}, copy |-> row[s]]]
        BY <3>2, Zenon
      <3> QED  BY <1>2, <3>1, <3>2, Zenon DEF Ask
    <2>4. row[s].executionCount <= finished[s]
      BY <2>1 DEF CopiesWithinHistory
    <2> QED  BY <1>0, <2>1, <2>3, <2>4 DEF CopiesWithinHistory, TypeOK
  <1>3. ASSUME NEW u \in Requests, SaveSelect(u) PROVE CopiesWithinHistory'
    <2>1. PICK cols : 
            request' = [request EXCEPT ![u] =
                          [request[u] EXCEPT !.at = "update", !.cols = cols]]
      BY <1>3 DEF SaveSelect
    <2>2. request[u] # None /\ request[u] \in RequestRecords /\ row' = row
      BY <1>3, RequestTypes DEF SaveSelect
    <2>3. \A v \in Requests : request'[v] # None =>
            /\ request[v] # None /\ request'[v].s = request[v].s
            /\ request'[v].copy = request[v].copy
      BY <2>1, <2>2 DEF TypeOK, RequestRecords
    <2> QED  BY <1>0, <2>2, <2>3 DEF CopiesWithinHistory
  <1>4. ASSUME NEW u \in Requests, SaveUpdate(u) PROVE CopiesWithinHistory'
    <2>1. /\ request[u] # None /\ request[u] \in RequestRecords
          /\ request[u].s \in Schedules
          /\ row[request[u].s] \in Rows /\ request[u].copy \in Rows
      BY <1>4, RequestTypes, FoundRequest DEF SaveUpdate
    <2>2. PICK new \in Rows :
            /\ new = Written(row[request[u].s], request[u].copy, request[u].cols)
            /\ new.executionCount \in {row[request[u].s].executionCount,
                                       request[u].copy.executionCount}
      BY <2>1, WrittenRow
    <2>3. /\ row' = [row EXCEPT ![request[u].s] = new]
          /\ request' = [request EXCEPT ![u] =
               [request[u] EXCEPT !.at = "job", !.cols = {}]]
      BY <1>4, <2>2 DEF SaveUpdate
    <2>4. new.executionCount <= finished[request[u].s]
      BY <2>1, <2>2 DEF CopiesWithinHistory
    <2>5. \A v \in Requests : request'[v] # None =>
            /\ request[v] # None /\ request'[v].s = request[v].s
            /\ request'[v].copy = request[v].copy
      BY <2>1, <2>3 DEF TypeOK, RequestRecords
    <2>6. \A t \in Schedules : row'[t] # None =>
            row'[t].executionCount <= finished[t]
      BY <2>1, <2>3, <2>4 DEF CopiesWithinHistory, TypeOK
    <2> QED  BY <1>0, <2>5, <2>6 DEF CopiesWithinHistory
  <1>5. ASSUME NEW u \in Requests, Remove(u) PROVE CopiesWithinHistory'
    <2>1. request[u].s \in Schedules /\ row[request[u].s] \in Rows
      BY <1>5, FoundRequest DEF Remove
    <2>2. [row[request[u].s] EXCEPT !.removed = TRUE].executionCount
            = row[request[u].s].executionCount
      BY <2>1 DEF Rows
    <2>3. /\ row' = [row EXCEPT ![request[u].s] =
                       [row[request[u].s] EXCEPT !.removed = TRUE]]
          /\ request' = [request EXCEPT ![u] = None]
      BY <1>5 DEF Remove
    <2>4. \A s \in Schedules : row'[s] # None =>
            row[s] # None /\ row'[s].executionCount = row[s].executionCount
      BY <2>1, <2>2, <2>3 DEF TypeOK
    <2> QED  BY <1>0, <2>3, <2>4 DEF CopiesWithinHistory, TypeOK
  <1>6. ASSUME NEW u \in Requests, RescheduleJob(u) \/ RequestFails(u)
        PROVE  CopiesWithinHistory'
    <2>1. row' = row /\ request' = [request EXCEPT ![u] = None]
      BY <1>6 DEF RescheduleJob, RequestFails
    <2> QED  BY <1>0, <2>1 DEF CopiesWithinHistory, TypeOK
  <1> QED  BY <1>1, <1>2, <1>3, <1>4, <1>5, <1>6 DEF Serve

\* Executions add one to their copy when one more is finished.
LEMMA ExecutionHistoryStep ==
  ASSUME Types, CopiesWithinHistory, NEW x \in Executions, Execute(x)
  PROVE  CopiesWithinHistory'
  <1> TypeOK
    BY DEF Types
  <1>1. ASSUME FinaliseLog(x),
               /\ finished' = [finished EXCEPT ![exec[x].s] = @ + 1]
               /\ exec' = [exec EXCEPT ![x] =
                    [exec[x] EXCEPT !.at = "save",
                                    !.copy = RecordExecution(exec[x].copy)]]
        PROVE  CopiesWithinHistory'
    <2>0. row' = row /\ request' = request
      BY <1>1 DEF FinaliseLog
    <2>1. /\ exec[x] \in ExecutionRecords /\ exec[x].s \in Schedules
          /\ exec[x].copy \in Rows /\ exec[x] # None
      BY <1>1, ExecutionTypes, FoundExecution DEF FinaliseLog
    <2>2. /\ \A s \in Schedules : finished[s] \in Nat /\ finished'[s] \in Nat
                                  /\ finished[s] <= finished'[s]
          /\ finished'[exec[x].s] = finished[exec[x].s] + 1
      BY <1>1, <2>1 DEF TypeOK
    <2>3. \A y \in Executions \ {x} : exec'[y] = exec[y]
      BY <1>1 DEF TypeOK
    <2>4. exec'[x].s = exec[x].s /\ exec'[x].copy = RecordExecution(exec[x].copy)
      BY <1>1, <2>1 DEF TypeOK, ExecutionRecords
    <2>5. exec'[x].copy.executionCount = exec[x].copy.executionCount + 1
      BY <2>1, <2>4 DEF RecordExecution, Rows
    <2>6. /\ exec[x].copy.executionCount \in Nat
          /\ exec[x].copy.executionCount <= finished[exec[x].s]
      BY <2>1 DEF CopiesWithinHistory, Rows
    <2>7. ASSUME NEW s \in Schedules, row[s] # None
          PROVE  row[s].executionCount <= finished'[s]
      <3>1. row[s].executionCount \in Nat
        BY <2>7 DEF TypeOK, Rows
      <3> QED  BY <2>2, <2>7, <3>1 DEF CopiesWithinHistory
    <2>8. ASSUME NEW u \in Requests, request[u] # None
          PROVE  request[u].copy.executionCount <= finished'[request[u].s]
      <3>1. request[u].copy.executionCount \in Nat /\ request[u].s \in Schedules
        BY <2>8, RequestTypes DEF Rows
      <3> QED  BY <2>2, <2>8, <3>1 DEF CopiesWithinHistory
    <2>9. ASSUME NEW y \in Executions, exec'[y] # None, exec'[y].copy # None
          PROVE  exec'[y].copy.executionCount <= finished'[exec'[y].s]
      <3>1. CASE y = x
        <4>1. exec'[x].copy.executionCount <= finished'[exec[x].s]
          BY <2>1, <2>2, <2>5, <2>6
        <4> QED  BY <2>4, <3>1, <4>1
      <3>2. CASE y # x
        <4>1. exec'[y] = exec[y]
          BY <2>3, <3>2
        <4>2. exec[y].copy.executionCount \in Nat /\ exec[y].s \in Schedules
          BY <2>9, <4>1, ExecutionTypes DEF Rows
        <4>3. exec[y].copy.executionCount <= finished[exec[y].s]
          BY <2>9, <4>1 DEF CopiesWithinHistory
        <4> QED  BY <2>2, <4>1, <4>2, <4>3
      <3> QED  BY <3>1, <3>2
    <2> QED  BY <2>0, <2>7, <2>8, <2>9 DEF CopiesWithinHistory
  <1>2. ASSUME row' = row, request' = request, finished' = finished,
               \A y \in Executions : exec'[y] # None =>
                 /\ exec[y] # None /\ exec'[y].s = exec[y].s
                 /\ exec'[y].copy = exec[y].copy
        PROVE  CopiesWithinHistory'
    BY <1>2 DEF CopiesWithinHistory
  <1>3. /\ exec[x] # None /\ exec[x] \in ExecutionRecords /\ request' = request
    BY ExecutionStep, ExecutionTypes
  <1>4. ASSUME NEW stage, GoTo(x, stage) \/ End(x) \/ Abort(x)
        PROVE  \A y \in Executions : exec'[y] # None =>
                 /\ exec[y] # None /\ exec'[y].s = exec[y].s
                 /\ exec'[y].copy = exec[y].copy
    BY <1>3, <1>4 DEF GoTo, End, Abort, TypeOK, ExecutionRecords
  <1>5. CASE CheckTick(x) \/ CreateLog(x) \/ Dispatch(x)
    <2>1. PICK stage : GoTo(x, stage) \/ End(x) \/ Abort(x)
      BY <1>5 DEF CheckTick, CreateLog, Dispatch
    <2>2. row' = row /\ finished' = finished
      BY <1>5 DEF CheckTick, CreateLog, Dispatch, logVars
    <2> QED  BY <1>2, <1>3, <1>4, <2>1, <2>2
  <1>6. CASE FinaliseLog(x)
    <2>1. CASE Abort(x) /\ finished' = finished
      <3>1. row' = row
        BY <1>6 DEF FinaliseLog
      <3> QED  BY <1>2, <1>3, <1>4, <2>1, <3>1
    <2> QED  BY <1>1, <1>6, <2>1 DEF FinaliseLog
  <1>7. CASE PersistSelect(x)
    <2>1. row' = row /\ finished' = finished
      BY <1>7 DEF PersistSelect, logVars
    <2>2. CASE Abort(x)
      BY <1>2, <1>3, <1>4, <2>1, <2>2
    <2>3. CASE ~Abort(x)
      <3>1. PICK cols :
              exec' = [exec EXCEPT ![x] =
                         [exec[x] EXCEPT !.at = "update", !.cols = cols]]
        BY <1>7, <2>3 DEF PersistSelect
      <3>2. \A y \in Executions : exec'[y] # None =>
              /\ exec[y] # None /\ exec'[y].s = exec[y].s
              /\ exec'[y].copy = exec[y].copy
        BY <1>3, <3>1 DEF TypeOK, ExecutionRecords
      <3> QED  BY <1>2, <1>3, <2>1, <3>2
    <2> QED  BY <2>2, <2>3
  <1>8. CASE PersistUpdate(x)
    <2>1. /\ exec[x].s \in Schedules
          /\ row[exec[x].s] \in Rows /\ exec[x].copy \in Rows
      BY <1>8, FoundExecution DEF PersistUpdate
    <2>2. PICK new \in Rows :
            /\ new = Written(row[exec[x].s], exec[x].copy, exec[x].cols)
            /\ new.executionCount \in {row[exec[x].s].executionCount,
                                       exec[x].copy.executionCount}
      BY <2>1, WrittenRow
    <2>3. /\ row' = row \/ row' = [row EXCEPT ![exec[x].s] = new]
          /\ exec' = [exec EXCEPT ![x] = None] /\ finished' = finished
      BY <1>8, <2>2 DEF PersistUpdate, Abort, End, logVars
    <2>4. new.executionCount <= finished[exec[x].s]
      BY <1>3, <2>1, <2>2 DEF CopiesWithinHistory
    <2>5. \A t \in Schedules : row'[t] # None =>
            row'[t].executionCount <= finished[t]
      BY <2>1, <2>3, <2>4 DEF CopiesWithinHistory, TypeOK
    <2> QED  BY <1>3, <2>3, <2>5 DEF CopiesWithinHistory, TypeOK
  <1> QED  BY <1>5, <1>6, <1>7, <1>8 DEF Execute

LEMMA HistoryStep ==
  ASSUME Types, CopiesWithinHistory, [Next]_vars
  PROVE  CopiesWithinHistory'
  <1> TypeOK
    BY DEF Types
  <1>1. CASE UNCHANGED vars
    BY <1>1 DEF vars, CopiesWithinHistory
  <1>2. ASSUME NEW x \in Executions, NEW p \in Processes, NEW s \in Schedules,
               HandleTick(x, p, s) \/ ExecuteManually(x, p, s)
        PROVE  CopiesWithinHistory'
    <2>1. row' = row /\ request' = request /\ finished' = finished
      BY <1>2 DEF HandleTick, ExecuteManually, logVars
    <2>2. PICK stage, copy :
            /\ exec' = [exec EXCEPT ![x] = [at |-> stage, p |-> p, s |-> s,
                                            cols |-> {}, copy |-> copy]]
            /\ copy # None => row[s] # None /\ copy = row[s]
      BY <1>2, Zenon DEF HandleTick, ExecuteManually, Begin, Listed
    <2> QED  BY <2>1, <2>2 DEF CopiesWithinHistory, TypeOK
  <1>3. ASSUME NEW p \in Processes, Restart(p) PROVE CopiesWithinHistory'
    <2>1. /\ row' = row /\ finished' = finished
          /\ \A u \in Requests : request'[u] \in {None, request[u]}
          /\ \A x \in Executions : exec'[x] \in {None, exec[x]}
      BY <1>3 DEF Restart, logVars
    <2> QED  BY <2>1 DEF CopiesWithinHistory
  <1> QED  BY <1>1, <1>2, <1>3, RequestHistoryStep, ExecutionHistoryStep DEF Next

\* The counter of a schedule never exceeds what its log shows as finished,
\* however executions, edits and crashes overlap.
THEOREM CountsAreLogged == Spec => []CountWithinHistory
  <1>1. Init => CopiesWithinHistory
    BY DEF Init, CopiesWithinHistory
  <1>2. Types /\ CopiesWithinHistory /\ [Next]_vars => CopiesWithinHistory'
    BY HistoryStep
  <1>3. CopiesWithinHistory => CountWithinHistory
    BY DEF CopiesWithinHistory, CountWithinHistory
  <1> QED  BY <1>1, <1>2, <1>3, TypesInit, TypesStep, PTL DEF Spec

-----------------------------------------------------------------------------
(* Jobs.                                                                   *)

\* Request v is about to set the job of schedule s.
Pending(v, s) ==
  request[v] # None /\ request[v].s = s /\ request[v].at = "job"

HasJob(s) ==
  \/ \E p \in Processes : s \in jobs[p]
  \/ \E v \in Requests : Pending(v, s)

\* A schedule has its job after the step, or it had and keeps it.
LEMMA JobsKept ==
  ASSUME EnabledHasJob,
         \A s \in Schedules : Runnable(s)' /\ s \notin adrift' =>
           \/ HasJob(s)'
           \/ /\ Runnable(s) /\ s \notin adrift
              /\ \A p \in Processes : s \in jobs[p] => s \in jobs'[p]
              /\ \A v \in Requests : Pending(v, s) => Pending(v, s)'
  PROVE  EnabledHasJob'
  <1>1. ASSUME NEW s \in Schedules, Runnable(s)', s \notin adrift'
        PROVE  HasJob(s)'
    <2>1. ASSUME Runnable(s), s \notin adrift,
                 \A p \in Processes : s \in jobs[p] => s \in jobs'[p],
                 \A v \in Requests : Pending(v, s) => Pending(v, s)'
          PROVE  HasJob(s)'
      <3>1. HasJob(s)
        BY <2>1 DEF EnabledHasJob, HasJob, Pending
      <3> QED  BY <2>1, <3>1 DEF HasJob
    <2> QED  BY <1>1, <2>1
  <1> QED  BY <1>1 DEF EnabledHasJob, HasJob, Pending

\* The steps of requests.
LEMMA RequestJobStep ==
  ASSUME Types, EnabledHasJob,
         \E u \in Requests :
           \/ Serve(u)
           \/ \E p \in Processes, s \in Schedules : Create(u, p, s) \/ Ask(u, p, s)
  PROVE  EnabledHasJob'
  <1> TypeOK
    BY DEF Types
  <1>1. ASSUME NEW u \in Requests, NEW p \in Processes, NEW s \in Schedules,
               Create(u, p, s)
        PROVE  EnabledHasJob'
    <2>1. PICK new \in Rows :
            /\ row' = [row EXCEPT ![s] = new]
            /\ request' = [request EXCEPT ![u] =
                             [at |-> "job", p |-> p, s |-> s, copy |-> new,
                              cols |-> {}]]
      BY <1>1 DEF Create, Rows
    <2>2. jobs' = jobs /\ adrift' = adrift /\ request[u] = None
      BY <1>1 DEF Create
    <2>3. [at |-> "job", p |-> p, s |-> s, copy |-> new, cols |-> {}]
            \in RequestRecords
      BY DEF RequestRecords, RequestStages
    <2>4. Pending(u, s)'
      BY <2>1, <2>3 DEF Pending, TypeOK
    <2>5. \A t \in Schedules \ {s} : row'[t] = row[t]
      BY <2>1 DEF TypeOK
    <2>6. \A v \in Requests, t \in Schedules \ {s} :
            Pending(v, t) => Pending(v, t)'
      BY <2>1, <2>2 DEF Pending, TypeOK
    <2> QED  BY <2>2, <2>4, <2>5, <2>6, JobsKept DEF HasJob, Runnable, Listed
  <1>2. ASSUME NEW u \in Requests, NEW p \in Processes, NEW s \in Schedules,
               Ask(u, p, s)
        PROVE  EnabledHasJob'
    <2>1. /\ row' = row /\ request[u] = None
          /\ \/ jobs' = jobs /\ adrift' = adrift
             \/ /\ jobs' = [jobs EXCEPT ![p] = @ \ {s}]
                /\ adrift' = adrift \cup {s}
      BY <1>2 DEF Ask, SetJob
    <2>2. \A v \in Requests \ {u} : request'[v] = request[v]
      BY <1>2 DEF Ask, TypeOK
    <2>3. \A v \in Requests, t \in Schedules : Pending(v, t) => Pending(v, t)'
      BY <2>1, <2>2 DEF Pending
    <2>4. \A t \in Schedules : t \notin adrift' =>
            /\ t \notin adrift
            /\ \A q \in Processes : t \in jobs[q] => t \in jobs'[q]
      BY <2>1 DEF TypeOK
    <2> QED  BY <2>1, <2>3, <2>4, JobsKept DEF Runnable, Listed
  <1>3. ASSUME NEW u \in Requests, SaveSelect(u) PROVE EnabledHasJob'
    <2>1. /\ row' = row /\ jobs' = jobs /\ adrift' = adrift
          /\ request[u].at = "select"
          /\ \A v \in Requests \ {u} : request'[v] = request[v]
      BY <1>3 DEF SaveSelect, TypeOK
    <2>2. \A v \in Requests, t \in Schedules : Pending(v, t) => Pending(v, t)'
      BY <2>1 DEF Pending
    <2> QED  BY <2>1, <2>2, JobsKept DEF Runnable, Listed
  <1>4. ASSUME NEW u \in Requests, SaveUpdate(u) PROVE EnabledHasJob'
    <2>1. PICK s \in Schedules : s = request[u].s
      BY <1>4, RequestTypes DEF SaveUpdate
    <2>2. /\ request[u] \in RequestRecords /\ request[u].at = "update"
          /\ jobs' = jobs /\ adrift' = adrift
          /\ request' = [request EXCEPT ![u] =
               [request[u] EXCEPT !.at = "job", !.cols = {}]]
      BY <1>4, RequestTypes DEF SaveUpdate
    <2>3. PICK new : /\ new = [request[u] EXCEPT !.at = "job", !.cols = {}]
                     /\ request' = [request EXCEPT ![u] = new]
      BY <2>2
    <2>4. new \in RequestRecords /\ new.s = s /\ new.at = "job"
      BY <2>1, <2>2, <2>3 DEF RequestRecords, RequestStages
    <2>5. Pending(u, s)'
      BY <2>3, <2>4 DEF Pending, TypeOK
    <2>6. \A t \in Schedules \ {s} : row'[t] = row[t]
      BY <1>4, <2>1 DEF SaveUpdate, TypeOK
    <2>7. \A v \in Requests, t \in Schedules : Pending(v, t) => Pending(v, t)'
      BY <2>2, <2>3 DEF Pending, TypeOK
    <2> QED  BY <2>2, <2>5, <2>6, <2>7, JobsKept DEF HasJob, Runnable, Listed
  <1>5. ASSUME NEW u \in Requests, RescheduleJob(u) PROVE EnabledHasJob'
    <2>1. PICK s \in Schedules, p \in Processes, copy \in Rows :
            s = request[u].s /\ p = request[u].p /\ copy = request[u].copy
      BY <1>5, RequestTypes DEF RescheduleJob
    <2>2. /\ jobs' = [jobs EXCEPT ![p] = IF Registers(copy) THEN @ \cup {s}
                                                           ELSE @ \ {s}]
          /\ adrift' = CASE Registers(copy) -> adrift \ {s}
                         [] ~Registers(copy) /\ Runnable(s) -> adrift \cup {s}
                         [] OTHER -> adrift
          /\ row' = row
          /\ \A v \in Requests \ {u} : request'[v] = request[v]
      BY <1>5, <2>1 DEF RescheduleJob, JobsFromCopy, TypeOK
    <2>3. \A t \in Schedules \ {s} :
            /\ t \in adrift <=> t \in adrift'
            /\ \A q \in Processes : t \in jobs[q] => t \in jobs'[q]
      BY <2>2 DEF TypeOK
    <2>4. \A v \in Requests, t \in Schedules \ {s} :
            Pending(v, t) => Pending(v, t)'
      BY <2>1, <2>2 DEF Pending
    <2>5. CASE Registers(copy)
      <3>1. s \in jobs'[p]
        BY <2>2, <2>5 DEF TypeOK
      <3> QED
        BY <2>2, <2>3, <2>4, <3>1, JobsKept DEF HasJob, Runnable, Listed
    <2>6. CASE ~Registers(copy)
      <3>1. Runnable(s) => s \in adrift'
        BY <2>2, <2>6
      <3> QED  BY <2>2, <2>3, <2>4, <3>1, JobsKept DEF Runnable, Listed
    <2> QED  BY <2>5, <2>6
  <1>6. ASSUME NEW u \in Requests, Remove(u) PROVE EnabledHasJob'
    <2>1. request[u].s \in Schedules /\ row[request[u].s] \in Rows
      BY <1>6, FoundRequest DEF Remove
    <2>2. [row[request[u].s] EXCEPT !.removed = TRUE].removed
      BY <2>1 DEF Rows
    <2>3. /\ row' = [row EXCEPT ![request[u].s] =
                       [row[request[u].s] EXCEPT !.removed = TRUE]]
          /\ jobs' = jobs /\ adrift' = adrift /\ request[u].at = "remove"
          /\ \A v \in Requests \ {u} : request'[v] = request[v]
      BY <1>6 DEF Remove, TypeOK
    <2>4. \A t \in Schedules : row'[t] = row[t] \/ row'[t].removed
      BY <2>1, <2>2, <2>3 DEF TypeOK
    <2>5. \A v \in Requests, t \in Schedules : Pending(v, t) => Pending(v, t)'
      BY <2>3 DEF Pending
    <2> QED  BY <2>3, <2>4, <2>5, JobsKept DEF Runnable, Listed
  <1>7. ASSUME NEW u \in Requests, RequestFails(u) PROVE EnabledHasJob'
    <2>1. /\ row' = row /\ jobs' = jobs /\ adrift' = adrift
          /\ request[u].at # "job"
          /\ \A v \in Requests \ {u} : request'[v] = request[v]
      BY <1>7 DEF RequestFails, TypeOK
    <2>2. \A v \in Requests, t \in Schedules : Pending(v, t) => Pending(v, t)'
      BY <2>1 DEF Pending
    <2> QED  BY <2>1, <2>2, JobsKept DEF Runnable, Listed
  <1> QED  BY <1>1, <1>2, <1>3, <1>4, <1>5, <1>6, <1>7 DEF Serve

LEMMA JobStep ==
  ASSUME Types, EnabledHasJob, [Next]_vars
  PROVE  EnabledHasJob'
  <1> TypeOK
    BY DEF Types
  <1>1. CASE UNCHANGED vars
    BY <1>1 DEF vars, EnabledHasJob, Runnable, Listed
  <1>2. ASSUME request' = request, row' = row, adrift' = adrift, jobs' = jobs
        PROVE  EnabledHasJob'
    BY <1>2 DEF EnabledHasJob, Runnable, Listed
  <1>3. ASSUME NEW x \in Executions, NEW p \in Processes, NEW s \in Schedules,
               HandleTick(x, p, s) \/ ExecuteManually(x, p, s)
        PROVE  EnabledHasJob'
    BY <1>2, <1>3 DEF HandleTick, ExecuteManually
  <1>4. ASSUME NEW x \in Executions, CheckTick(x) PROVE EnabledHasJob'
    <2>1. PICK s \in Schedules, p \in Processes : s = exec[x].s /\ p = exec[x].p
      BY <1>4, ExecutionTypes DEF CheckTick
    <2>2. /\ row' = row /\ request' = request
          /\ \/ jobs' = jobs /\ adrift' = adrift
             \/ /\ jobs' = [jobs EXCEPT ![p] = @ \ {s}]
                /\ adrift' = IF Runnable(s) THEN adrift \cup {s} ELSE adrift
      BY <1>4, <2>1 DEF CheckTick, SetJob
    <2>3. \A t \in Schedules : Runnable(t) /\ t \notin adrift' =>
            /\ t \notin adrift
            /\ \A q \in Processes : t \in jobs[q] => t \in jobs'[q]
      BY <2>2 DEF TypeOK
    <2>4. \A v \in Requests, t \in Schedules : Pending(v, t) => Pending(v, t)'
      BY <2>2 DEF Pending
    <2>5. \A t \in Schedules : Runnable(t)' <=> Runnable(t)
      BY <2>2 DEF Runnable, Listed
    <2> QED  BY <2>3, <2>4, <2>5, JobsKept
  <1>5. ASSUME NEW x \in Executions,
               \/ CreateLog(x) \/ Dispatch(x) \/ FinaliseLog(x)
               \/ PersistSelect(x)
        PROVE  EnabledHasJob'
    BY <1>2, <1>5 DEF CreateLog, Dispatch, FinaliseLog, PersistSelect
  <1>6. ASSUME NEW x \in Executions, PersistUpdate(x) PROVE EnabledHasJob'
    <2>1. PICK s \in Schedules : s = exec[x].s
      BY <1>6, ExecutionTypes DEF PersistUpdate
    <2>2. PICK new : new = Written(row[s], exec[x].copy, exec[x].cols)
      OBVIOUS
    <2>3. /\ jobs' = jobs /\ request' = request
          /\ \/ /\ row' = [row EXCEPT ![s] = new]
                /\ adrift' = IF ~new.removed /\ Registers(new) /\ ~Runnable(s)
                             THEN adrift \cup {s} ELSE adrift
             \/ row' = row /\ adrift' = adrift
      BY <1>6, <2>1, <2>2 DEF PersistUpdate
    <2>4. CASE row' = row /\ adrift' = adrift
      BY <1>2, <2>3, <2>4
    <2>5. CASE /\ row' = [row EXCEPT ![s] = new]
               /\ adrift' = IF ~new.removed /\ Registers(new) /\ ~Runnable(s)
                            THEN adrift \cup {s} ELSE adrift
      <3>1. row'[s] = new /\ \A t \in Schedules \ {s} : row'[t] = row[t]
        BY <2>5 DEF TypeOK
      <3>2. \A t \in Schedules : t \notin adrift' => t \notin adrift
        BY <2>5
      <3>3. Runnable(s)' /\ s \notin adrift' => Runnable(s)
        BY <2>5, <3>1 DEF Runnable, Listed
      <3>4. \A t \in Schedules \ {s} : Runnable(t)' => Runnable(t)
        BY <3>1 DEF Runnable, Listed
      <3>5. \A v \in Requests, t \in Schedules : Pending(v, t) => Pending(v, t)'
        BY <2>3 DEF Pending
      <3> QED  BY <2>3, <3>2, <3>3, <3>4, <3>5, JobsKept
    <2> QED  BY <2>3, <2>4, <2>5
  <1>7. ASSUME NEW p \in Processes, Restart(p) PROVE EnabledHasJob'
    <2>1. /\ row' = row
          /\ jobs' = [jobs EXCEPT ![p] = {s \in Schedules : Runnable(s)}]
      BY <1>7 DEF Restart
    <2>2. \A s \in Schedules : Runnable(s) => s \in jobs'[p]
      BY <2>1 DEF TypeOK
    <2>3. \A s \in Schedules : Runnable(s)' <=> Runnable(s)
      BY <2>1 DEF Runnable, Listed
    <2> QED  BY <2>2, <2>3, JobsKept DEF HasJob
  <1> QED  BY <1>1, <1>3, <1>4, <1>5, <1>6, <1>7, RequestJobStep
           DEF Next, Execute

\* A schedule that is on has a job in some process, or a request about to set
\* it, for any number of processes, edits and restarts, but for those adrift.
THEOREM JobsAreThere == Spec => []EnabledHasJob
  <1>1. Init => EnabledHasJob
    BY DEF Init, EnabledHasJob, Runnable, Listed
  <1>2. Types /\ EnabledHasJob /\ [Next]_vars => EnabledHasJob'
    BY JobStep
  <1> QED  BY <1>1, <1>2, TypesInit, TypesStep, PTL DEF Spec

-----------------------------------------------------------------------------
(* Switched off.                                                           *)

\* What is off has a row, is under nobody's hands, and ticks of it have read
\* that it is off.
Quiet(s) ==
  /\ row[s] # None /\ ~Live(s)
  /\ \A v \in Requests : request[v] # None => request[v].s # s
  /\ \A x \in Executions : exec[x] # None /\ exec[x].s = s =>
       /\ exec[x].at = "check"
       /\ exec[x].copy # None => ~exec[x].copy.enabled

AllQuiet == \A s \in off : Quiet(s)

LEMMA QuietStep ==
  ASSUME Types, AllQuiet, [Next]_vars
  PROVE  AllQuiet'
  <1> TypeOK
    BY DEF Types
  <1>0. off \subseteq Schedules
    BY DEF TypeOK
  <1>1. CASE UNCHANGED vars
    BY <1>1 DEF vars, AllQuiet, Quiet, Live, Listed
  <1>2. ASSUME NEW u \in Requests, NEW s \in Schedules,
               exec' = exec, off' \subseteq off, s \notin off',
               \A v \in Requests : request'[v] = request[v]
                                   \/ request'[v] = None \/ request'[v].s = s,
               \A t \in Schedules \ {s} : row'[t] = row[t]
        PROVE  AllQuiet'
    BY <1>0, <1>2 DEF AllQuiet, Quiet, Live, Listed
  <1>3. ASSUME NEW u \in Requests, NEW p \in Processes, NEW s \in Schedules,
               Create(u, p, s)
        PROVE  AllQuiet'
    <2>1. PICK new :
            /\ row' = [row EXCEPT ![s] = new]
            /\ request' = [request EXCEPT ![u] =
                             [at |-> "job", p |-> p, s |-> s, copy |-> new,
                              cols |-> {}]]
      BY <1>3, Zenon DEF Create
    <2>2. /\ row[s] = None /\ off' = off /\ exec' = exec
          /\ \A t \in Schedules \ {s} : row'[t] = row[t]
          /\ \A v \in Requests : request'[v] = request[v] \/ request'[v].s = s
      BY <1>3, <2>1 DEF Create, TypeOK
    <2>3. s \notin off
      BY <2>2 DEF AllQuiet, Quiet
    <2> QED  BY <1>2, <2>2, <2>3
  <1>4. ASSUME NEW u \in Requests, NEW p \in Processes, NEW s \in Schedules,
               Ask(u, p, s)
        PROVE  AllQuiet'
    <2>1. PICK at, copy :
            request' = [request EXCEPT ![u] =
              [at |-> at, p |-> p, s |-> s, cols |-> {}, copy |-> copy]]
      BY <1>4, Zenon DEF Ask
    <2>2. /\ off' = off \ {s} /\ row' = row /\ exec' = exec
          /\ \A v \in Requests : request'[v] = request[v] \/ request'[v].s = s
      BY <1>4, <2>1 DEF Ask, TypeOK
    <2> QED  BY <1>2, <2>2
  <1>5. ASSUME NEW u \in Requests, request[u] # None
        PROVE  request[u].s \in Schedules /\ request[u].s \notin off
    BY <1>5, RequestTypes DEF AllQuiet, Quiet
  <1>6. ASSUME NEW u \in Requests, SaveSelect(u) \/ SaveUpdate(u)
        PROVE  AllQuiet'
    <2>1. PICK s \in Schedules : s = request[u].s /\ s \notin off
      BY <1>5, <1>6 DEF SaveSelect, SaveUpdate
    <2>2. request[u] \in RequestRecords
      BY <1>6, RequestTypes DEF SaveSelect, SaveUpdate
    <2>3. \E at, cols : request' = [request EXCEPT ![u] =
                           [request[u] EXCEPT !.at = at, !.cols = cols]]
      <3>1. SaveSelect(u) =>
              request' = [request EXCEPT ![u] =
                [request[u] EXCEPT !.at = "update",
                   !.cols = Differing(row[request[u].s], request[u].copy)]]
        BY DEF SaveSelect
      <3>2. SaveUpdate(u) =>
              request' = [request EXCEPT ![u] =
                [request[u] EXCEPT !.at = "job", !.cols = {}]]
        BY DEF SaveUpdate
      <3> QED  BY <1>6, <3>1, <3>2, Zenon
    <2>4. \A v \in Requests : request'[v] = request[v] \/ request'[v].s = s
      BY <2>1, <2>2, <2>3 DEF TypeOK, RequestRecords
    <2>5. /\ off' = off /\ exec' = exec
          /\ \A t \in Schedules \ {s} : row'[t] = row[t]
      BY <1>6, <2>1 DEF SaveSelect, SaveUpdate, TypeOK
    <2> QED  BY <1>2, <2>1, <2>4, <2>5
  <1>7. ASSUME NEW u \in Requests, NEW s \in Schedules,
               request[u] # None, request[u].s = s,
               request' = [request EXCEPT ![u] = None], exec' = exec,
               \A t \in Schedules \ {s} : row'[t] = row[t],
               \/ off' = off
               \/ /\ off' = off \cup {s} /\ Alone(u, s)
                  /\ row'[s] # None /\ ~Live(s)'
        PROVE  AllQuiet'
    <2>1. s \notin off
      BY <1>5, <1>7
    <2>2. \A v \in Requests \ {u} : request'[v] = request[v]
      BY <1>7 DEF TypeOK
    <2>3. request'[u] = None
      BY <1>7 DEF TypeOK
    <2>4. \A t \in off : Quiet(t)'
      BY <1>0, <1>7, <2>1, <2>2, <2>3 DEF AllQuiet, Quiet, Live, Listed
    <2>5. ASSUME Alone(u, s), row'[s] # None, ~Live(s)'
          PROVE  Quiet(s)'
      BY <1>7, <2>2, <2>3, <2>5 DEF Alone, Quiet
    <2> QED  BY <1>7, <2>4, <2>5 DEF AllQuiet
  <1>8. ASSUME NEW u \in Requests, RescheduleJob(u) PROVE AllQuiet'
    <2>1. PICK s \in Schedules : s = request[u].s /\ request[u] # None
      BY <1>5, <1>8 DEF RescheduleJob
    <2>2. /\ row' = row /\ request' = [request EXCEPT ![u] = None]
          /\ exec' = exec
          /\ off' = IF Alone(u, s) /\ ~Live(s) THEN off \cup {s} ELSE off
      BY <1>8, <2>1 DEF RescheduleJob
    <2>3. row[s] # None /\ (~Live(s) => ~Live(s)')
      BY <2>1, <2>2 DEF Types, FoundRowsStay, Live, Listed
    <2> QED  BY <1>7, <2>1, <2>2, <2>3
  <1>9. ASSUME NEW u \in Requests, Remove(u) PROVE AllQuiet'
    <2>1. PICK s \in Schedules : s = request[u].s /\ request[u] # None
      BY <1>5, <1>9 DEF Remove
    <2>2. row[s] \in Rows
      BY <2>1, FoundRequest
    <2>3. /\ [row[s] EXCEPT !.removed = TRUE] \in Rows
          /\ [row[s] EXCEPT !.removed = TRUE].removed
      BY <2>2 DEF Rows
    <2>4. /\ row' = [row EXCEPT ![s] = [row[s] EXCEPT !.removed = TRUE]]
          /\ request' = [request EXCEPT ![u] = None] /\ exec' = exec
          /\ off' = IF Alone(u, s) THEN off \cup {s} ELSE off
      BY <1>9, <2>1 DEF Remove
    <2>5. /\ row'[s] = [row[s] EXCEPT !.removed = TRUE]
          /\ \A t \in Schedules \ {s} : row'[t] = row[t]
      BY <2>4 DEF TypeOK
    <2>6. row'[s] # None /\ ~Live(s)'
      BY <2>3, <2>5 DEF Live, Listed
    <2> QED  BY <1>7, <2>1, <2>4, <2>5, <2>6
  <1>10. ASSUME NEW u \in Requests, RequestFails(u) PROVE AllQuiet'
    <2>1. /\ request[u] # None /\ row' = row /\ exec' = exec /\ off' = off
          /\ request' = [request EXCEPT ![u] = None]
      BY <1>10 DEF RequestFails
    <2> QED  BY <1>5, <1>7, <2>1
  <1>11. ASSUME NEW x \in Executions, NEW p \in Processes, NEW s \in Schedules,
                HandleTick(x, p, s) \/ ExecuteManually(x, p, s)
         PROVE  AllQuiet'
    <2>1. /\ row' = row /\ request' = request /\ off' \subseteq off
          /\ s \in off' => Begin(x, "check", p, s)
          /\ \E stage \in Stages : Begin(x, stage, p, s)
      BY <1>11 DEF HandleTick, ExecuteManually, Stages
    <2>2. \A y \in Executions : exec'[y] = exec[y] \/ exec'[y].s = s
      BY <2>1 DEF Begin, TypeOK
    <2>3. \A y \in Executions : s \in off' /\ exec'[y] # exec[y] =>
            /\ exec'[y].at = "check"
            /\ exec'[y].copy = IF Listed(s) THEN row[s] ELSE None
      BY <2>1 DEF Begin, TypeOK
    <2>4. s \in off' => ~Live(s)
      BY <2>1 DEF AllQuiet, Quiet
    <2>5. \A t \in off' : Quiet(t)
      BY <2>1 DEF AllQuiet
    <2>6. ASSUME NEW t \in off', NEW y \in Executions,
                 exec'[y] # None, exec'[y].s = t
          PROVE  /\ exec'[y].at = "check"
                 /\ exec'[y].copy # None => ~exec'[y].copy.enabled
      <3>1. CASE exec'[y] = exec[y]
        BY <2>5, <2>6, <3>1 DEF Quiet
      <3>2. CASE exec'[y] # exec[y]
        <4>1. t = s
          BY <2>2, <2>6, <3>2
        <4> QED  BY <2>3, <2>4, <3>2, <4>1 DEF Live
      <3> QED  BY <3>1, <3>2
    <2>7. ASSUME NEW t \in off' PROVE Quiet(t)'
      BY <2>1, <2>5, <2>6, <2>7 DEF Quiet, Live, Listed
    <2> QED  BY <2>7 DEF AllQuiet
  <1>12. ASSUME NEW x \in Executions, Execute(x) PROVE AllQuiet'
    <2>1. PICK new \in ExecutionRecords \cup {None} :
            /\ exec' = [exec EXCEPT ![x] = new]
            /\ new = None \/ Continues(x, new)
      BY <1>12, ExecutionStep
    <2>2. /\ exec[x] # None /\ exec[x].s \in Schedules
          /\ request' = request /\ off' = off
      BY <1>12, ExecutionStep, ExecutionTypes
    <2>3. exec[x].s \in off => new = None /\ exec[x].at = "check"
      BY <2>1, <2>2 DEF AllQuiet, Quiet, Continues, MayTick, Rows
    <2>4. \A y \in Executions :
            \/ exec'[y] = exec[y] \/ exec'[y] = None \/ exec'[y].s \notin off
      BY <2>1, <2>3 DEF TypeOK, Continues
    <2>5. \A s \in Schedules : row'[s] = row[s] \/ s = exec[x].s
      BY <1>12, <2>2 DEF Execute, CheckTick, CreateLog, Dispatch, FinaliseLog,
                         PersistSelect, PersistUpdate, TypeOK
    <2>6. exec[x].s \in off => row' = row
      BY <1>12, <2>3 DEF Execute, CheckTick, CreateLog, Dispatch, FinaliseLog,
                         PersistSelect, PersistUpdate
    <2>7. \A s \in off : row'[s] = row[s]
      BY <1>0, <2>5, <2>6
    <2> QED  BY <2>2, <2>4, <2>7 DEF AllQuiet, Quiet, Live, Listed
  <1>13. ASSUME NEW p \in Processes, Restart(p) PROVE AllQuiet'
    <2>1. /\ row' = row /\ off' = off
          /\ \A u \in Requests : request'[u] \in {None, request[u]}
          /\ \A x \in Executions : exec'[x] \in {None, exec[x]}
      BY <1>13 DEF Restart
    <2> QED  BY <2>1 DEF AllQuiet, Quiet, Live, Listed
  <1> QED  BY <1>1, <1>3, <1>4, <1>6, <1>8, <1>9, <1>10, <1>11, <1>12, <1>13
           DEF Next, Serve

\* What was switched off or removed in peace stays so until a user asks for
\* something, for any number of processes and jobs left over in them.
THEOREM OffIsOff == Spec => []OffStaysOff
  <1>1. Init => AllQuiet
    BY DEF Init, AllQuiet
  <1>2. Types /\ AllQuiet /\ [Next]_vars => AllQuiet'
    BY QuietStep
  <1>3. AllQuiet => OffStaysOff
    BY DEF AllQuiet, Quiet, OffStaysOff
  <1> QED  BY <1>1, <1>2, <1>3, TypesInit, TypesStep, PTL DEF Spec

-----------------------------------------------------------------------------
(* The log.                                                                *)

\* Executions of s whose row is in the log and whose event is to come.
Dispatching(s) ==
  {x \in Executions : exec[x] # None /\ exec[x].s = s /\ exec[x].at = "dispatch"}

LEMMA DispatchingFinite ==
  ASSUME NEW s
  PROVE  /\ IsFiniteSet(Dispatching(s)) /\ Cardinality(Dispatching(s)) \in Nat
         /\ IsFiniteSet(Dispatching(s)') /\ Cardinality(Dispatching(s))' \in Nat
  <1>1. /\ Dispatching(s) \in SUBSET Executions
        /\ Dispatching(s)' \in SUBSET Executions
    BY DEF Dispatching
  <1>2. IsFiniteSet(Dispatching(s)) /\ IsFiniteSet(Dispatching(s)')
    BY <1>1, FS_Subset
  <1> QED  BY <1>2, FS_CardinalityType

\* Fewer dispatching executions and the same counters.
LEMMA FewerDispatching ==
  ASSUME TypeOK, DispatchesLogged, logged' = logged, dispatched' = dispatched,
         \A s \in Schedules : Dispatching(s)' \subseteq Dispatching(s)
  PROVE  DispatchesLogged'
  <1>1. ASSUME NEW s \in Schedules
        PROVE  dispatched'[s] + Cardinality(Dispatching(s)') <= logged'[s]
    <2>1. Cardinality(Dispatching(s)') <= Cardinality(Dispatching(s))
      BY DispatchingFinite, FS_Subset
    <2>2. dispatched[s] + Cardinality(Dispatching(s)) <= logged[s]
      BY DEF DispatchesLogged, Dispatching
    <2>3. dispatched[s] \in Nat /\ logged[s] \in Nat
      BY DEF TypeOK
    <2> QED  BY <2>1, <2>2, <2>3, DispatchingFinite
  <1> QED  BY <1>1 DEF DispatchesLogged, Dispatching

LEMMA LogStep ==
  ASSUME Types, DispatchesLogged, [Next]_vars
  PROVE  DispatchesLogged'
  <1> TypeOK
    BY DEF Types
  <1>1. CASE /\ logged' = logged /\ dispatched' = dispatched
             /\ \A x \in Executions :
                  exec'[x] = exec[x] \/ exec'[x] = None \/ exec'[x].at # "dispatch"
    <2>1. \A s \in Schedules : Dispatching(s)' \subseteq Dispatching(s)
      BY <1>1 DEF Dispatching
    <2> QED  BY <1>1, <2>1, FewerDispatching
  <1>2. CASE UNCHANGED vars
    BY <1>1, <1>2 DEF vars
  <1>3. ASSUME NEW p \in Processes, Restart(p) PROVE DispatchesLogged'
    BY <1>1, <1>3 DEF Restart, logVars
  <1>4. ASSUME NEW u \in Requests, NEW p \in Processes, NEW s \in Schedules,
               Create(u, p, s) \/ Ask(u, p, s)
        PROVE  DispatchesLogged'
    BY <1>1, <1>4 DEF Create, Ask, logVars
  <1>5. ASSUME NEW u \in Requests, Serve(u) PROVE DispatchesLogged'
    BY <1>1, <1>5 DEF Serve, SaveSelect, SaveUpdate, RescheduleJob, Remove,
                      RequestFails, logVars
  <1>6. ASSUME NEW x \in Executions, NEW p \in Processes, NEW s \in Schedules,
               HandleTick(x, p, s) \/ ExecuteManually(x, p, s)
        PROVE  DispatchesLogged'
    <2>1. /\ logged' = logged /\ dispatched' = dispatched
          /\ \E stage \in {"check", "log"} : Begin(x, stage, p, s)
      BY <1>6 DEF HandleTick, ExecuteManually, logVars
    <2>2. \A y \in Executions : exec'[y] = exec[y] \/ exec'[y].at # "dispatch"
      BY <2>1 DEF Begin, TypeOK
    <2> QED  BY <1>1, <2>1, <2>2
  <1>7. ASSUME NEW x \in Executions,
               \/ CheckTick(x) \/ FinaliseLog(x)
               \/ PersistSelect(x) \/ PersistUpdate(x)
        PROVE  DispatchesLogged'
    <2>1. exec[x] \in ExecutionRecords
      BY <1>7, ExecutionTypes
         DEF CheckTick, FinaliseLog, PersistSelect, PersistUpdate
    <2>2. \/ exec' = [exec EXCEPT ![x] = None]
          \/ \E stage \in {"log", "save", "update"} :
               exec' = [exec EXCEPT ![x].at = stage]
          \/ exec' = [exec EXCEPT ![x].at = "save",
                                  ![x].copy = RecordExecution(@)]
          \/ exec' = [exec EXCEPT ![x].at = "update",
               ![x].cols = Differing(row[exec[x].s], exec[x].copy)]
      BY <1>7 DEF CheckTick, FinaliseLog, PersistSelect, PersistUpdate, GoTo,
                  Abort, End
    <2>3. logged' = logged /\ dispatched' = dispatched
      BY <1>7 DEF CheckTick, FinaliseLog, PersistSelect, PersistUpdate, logVars
    <2>4. \A y \in Executions :
            exec'[y] = exec[y] \/ exec'[y] = None \/ exec'[y].at # "dispatch"
      BY <2>1, <2>2 DEF TypeOK, ExecutionRecords
    <2> QED  BY <1>1, <2>3, <2>4
  <1>8. ASSUME NEW x \in Executions, CreateLog(x) PROVE DispatchesLogged'
    <2>1. /\ exec[x] \in ExecutionRecords /\ exec[x].s \in Schedules
          /\ exec[x].at = "log" /\ dispatched' = dispatched
      BY <1>8, ExecutionTypes DEF CreateLog
    <2>2. CASE logged' = logged /\ End(x)
      BY <1>1, <2>1, <2>2 DEF End, TypeOK
    <2>3. CASE /\ logged' = [logged EXCEPT ![exec[x].s] = @ + 1]
               /\ GoTo(x, "dispatch")
      <3>1. ASSUME NEW s \in Schedules
            PROVE  dispatched'[s] + Cardinality(Dispatching(s)') <= logged'[s]
        <4>1. /\ dispatched[s] \in Nat /\ logged[s] \in Nat
              /\ dispatched[s] + Cardinality(Dispatching(s)) <= logged[s]
          BY DEF TypeOK, DispatchesLogged, Dispatching
        <4>2. CASE s = exec[x].s
          <5>1. Dispatching(s)' \in SUBSET (Dispatching(s) \cup {x})
            BY <2>1, <2>3, <4>2 DEF Dispatching, GoTo, TypeOK, ExecutionRecords
          <5>2. Cardinality(Dispatching(s)') <= Cardinality(Dispatching(s)) + 1
            <6>1. /\ IsFiniteSet(Dispatching(s) \cup {x})
                  /\ Cardinality(Dispatching(s) \cup {x})
                       \in {Cardinality(Dispatching(s)),
                            Cardinality(Dispatching(s)) + 1}
              BY DispatchingFinite, FS_AddElement
            <6>2. Cardinality(Dispatching(s)')
                    <= Cardinality(Dispatching(s) \cup {x})
              BY <5>1, <6>1, FS_Subset
            <6> QED  BY <6>1, <6>2, DispatchingFinite
          <5>3. logged'[s] = logged[s] + 1
            BY <2>3, <4>2 DEF TypeOK
          <5> QED  BY <2>1, <4>1, <5>2, <5>3, DispatchingFinite
        <4>3. CASE s # exec[x].s
          <5>1. Dispatching(s)' = Dispatching(s)
            BY <2>1, <2>3, <4>3 DEF Dispatching, GoTo, TypeOK, ExecutionRecords
          <5>2. logged'[s] = logged[s]
            BY <2>3, <4>3 DEF TypeOK
          <5> QED  BY <2>1, <4>1, <5>1, <5>2
        <4> QED  BY <4>2, <4>3
      <3> QED  BY <3>1 DEF DispatchesLogged, Dispatching
    <2> QED  BY <1>8, <2>2, <2>3 DEF CreateLog, Abort
  <1>9. ASSUME NEW x \in Executions, Dispatch(x) PROVE DispatchesLogged'
    <2>1. /\ exec[x] \in ExecutionRecords /\ exec[x].s \in Schedules
          /\ exec[x] # None /\ exec[x].at = "dispatch" /\ logged' = logged
          /\ GoTo(x, "finalise")
          /\ dispatched' = [dispatched EXCEPT ![exec[x].s] = @ + 1]
      BY <1>9, ExecutionTypes DEF Dispatch
    <2>2. ASSUME NEW s \in Schedules
          PROVE  dispatched'[s] + Cardinality(Dispatching(s)') <= logged'[s]
      <3>1. /\ dispatched[s] \in Nat /\ logged[s] \in Nat
            /\ dispatched[s] + Cardinality(Dispatching(s)) <= logged[s]
        BY DEF TypeOK, DispatchesLogged, Dispatching
      <3>2. CASE s = exec[x].s
        <4>1. x \in Dispatching(s) /\ Dispatching(s)' = Dispatching(s) \ {x}
          BY <2>1, <3>2 DEF Dispatching, GoTo, TypeOK, ExecutionRecords
        <4>2. Cardinality(Dispatching(s)') = Cardinality(Dispatching(s)) - 1
          BY <4>1, DispatchingFinite, FS_RemoveElement
        <4>3. dispatched'[s] = dispatched[s] + 1
          BY <2>1, <3>2 DEF TypeOK
        <4> QED  BY <2>1, <3>1, <4>2, <4>3, DispatchingFinite
      <3>3. CASE s # exec[x].s
        <4>1. Dispatching(s)' = Dispatching(s)
          BY <2>1, <3>3 DEF Dispatching, GoTo, TypeOK, ExecutionRecords
        <4>2. dispatched'[s] = dispatched[s]
          BY <2>1, <3>3 DEF TypeOK
        <4> QED  BY <2>1, <3>1, <4>1, <4>2
      <3> QED  BY <3>2, <3>3
    <2> QED  BY <2>2 DEF DispatchesLogged, Dispatching
  <1> QED  BY <1>2, <1>3, <1>4, <1>5, <1>6, <1>7, <1>8, <1>9 DEF Next, Execute

\* Whatever was dispatched has a row in the log, for any number of
\* executions, failures and crashes.
THEOREM DispatchesAreLogged == Spec => []DispatchesLogged
  <1>1. Init => DispatchesLogged
    <2> SUFFICES ASSUME Init PROVE DispatchesLogged
      OBVIOUS
    <2>1. \A s \in Schedules : Dispatching(s) = {}
      BY DEF Init, Dispatching
    <2>2. \A s \in Schedules : dispatched[s] = 0 /\ logged[s] = 0
      BY DEF Init
    <2>3. ASSUME NEW s \in Schedules
          PROVE  dispatched[s] + Cardinality(Dispatching(s)) <= logged[s]
      <3>1. Cardinality(Dispatching(s)) = 0
        BY <2>1, FS_EmptySet
      <3> QED  BY <2>2, <3>1
    <2> QED  BY <2>3 DEF DispatchesLogged, Dispatching
  <1>2. Types /\ DispatchesLogged /\ [Next]_vars => DispatchesLogged'
    BY LogStep
  <1> QED  BY <1>1, <1>2, TypesInit, TypesStep, PTL DEF Spec

=============================================================================
