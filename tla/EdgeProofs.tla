----------------------------- MODULE EdgeProofs -----------------------------
(***************************************************************************)
(* Proofs about Edge, for any instances, devices, commands, handlers and   *)
(* bounds: the type invariant, that a reported result stands, that a       *)
(* command is handed out once, that an instance counts its devices, and    *)
(* that Edge implements Mailbox.                                           *)
(***************************************************************************)
EXTENDS EdgeMailbox, FiniteSetTheorems, TLAPS

USE EdgeConstants, EdgeNone

\* What handler h has read and will still mark or put into a response.
Waiting(h) ==
  IF At(h, "deliver") \/ At(h, "respond") THEN work[h].cmds ELSE {}

Dispatched == {c \in Commands : command[c] # None}

RowStages == {"update", "regenerate", "beat", "offline"}

Types ==
  /\ TypeOK
  /\ \A h \in Handlers :
       /\ work[h] # None /\ work[h].at \in RowStages => work[h].copy \in EdgeRows
       /\ Waiting(h) \subseteq Dispatched
  /\ \A e \in Edges : todo[e] \subseteq Dispatched
  /\ \A c \in Commands : command[c] = None => answer[c] = None /\ handed[c] = 0

-----------------------------------------------------------------------------
(* The type invariant.                                                     *)

LEMMA TypesInit == Init => Types
  BY DEF Init, Types, TypeOK, Created, EdgeRows, Waiting, At, Results

LEMMA NewWorkType ==
  ASSUME NEW stage \in Stages, NEW e \in Edges
  PROVE  /\ NewWork(stage, e) \in Work
         /\ NewWork(stage, e).at = stage /\ NewWork(stage, e).cmds = {}
  BY DEF NewWork, Work

LEMMA WorkTypes ==
  ASSUME Types, NEW h \in Handlers, work[h] # None
  PROVE  /\ work[h] \in Work /\ work[h].e \in Edges /\ work[h].n \in Nat
         /\ work[h].cmds \subseteq Commands
         /\ work[h].at \in RowStages => work[h].copy \in EdgeRows
  BY DEF Types, TypeOK, Work

\* A handler begins, goes on or ends and no command is concerned.
LEMMA HandlerTypes ==
  ASSUME Types, NEW h \in Handlers, NEW new, Go(h, new), TypeOK',
         UNCHANGED <<command, answer, handed, todo>>,
         \/ new = None
         \/ /\ new.at \in Stages \ {"deliver", "respond"}
            /\ new.at \in RowStages => new.copy \in EdgeRows
  PROVE  Types'
  <1>1. /\ work'[h] = new
        /\ \A k \in Handlers \ {h} : work'[k] = work[k]
    BY DEF Go, Types, TypeOK
  <1>2. ASSUME NEW k \in Handlers
        PROVE  /\ work'[k] # None /\ work'[k].at \in RowStages =>
                    work'[k].copy \in EdgeRows
               /\ Waiting(k)' \subseteq Dispatched
    BY <1>1 DEF Types, Waiting, At
  <1>3. Dispatched' = Dispatched
    BY DEF Dispatched
  <1> QED  BY <1>2, <1>3 DEF Types

\* Handlers that read a row, and save what they make of it.
LEMMA RowTypesStep ==
  ASSUME Types, UNCHANGED serial,
         \/ \E h \in Handlers, e \in Edges :
              \/ Update(h, e) \/ Remove(h, e) \/ RegenerateToken(h, e)
              \/ Heartbeat(h, e)
         \/ \E h \in Handlers :
              \/ UpdateSave(h) \/ RegenerateTokenSave(h) \/ HeartbeatSave(h)
              \/ DetectOfflineEdges(h) \/ DetectOfflineSave(h)
  PROVE  Types'
  <1> TypeOK
    BY DEF Types
  <1>1. ASSUME NEW h \in Handlers, NEW e \in Edges, NEW stage \in RowStages,
               Reads(h, stage, e), UNCHANGED <<edge, device, command, agentVars,
                                               historyVars>>,
               requests' \in 0..MaxRequests, beats' \in 0..MaxBeats,
               UNCHANGED <<ticks, failures>>
        PROVE  Types'
    <2> DEFINE new == [NewWork(stage, e) EXCEPT !.copy = edge[e]]
    <2>1. new \in Work /\ new.at = stage /\ new.copy = edge[e]
      BY DEF NewWork, Work, RowStages, Stages, TypeOK
    <2>2. Go(h, new) /\ edge[e] \in EdgeRows
      BY <1>1 DEF Reads, TypeOK
    <2> HIDE DEF new
    <2>3. work' \in [Handlers -> Work \cup {None}]
      BY <2>1, <2>2 DEF Go, TypeOK
    <2>4. TypeOK'
      BY <1>1, <2>3 DEF TypeOK, agentVars, historyVars
    <2> QED
      BY <1>1, <2>1, <2>2, <2>4, HandlerTypes
         DEF RowStages, Stages, agentVars, historyVars
  <1>2. ASSUME NEW h \in Handlers, NEW new \in EdgeRows, work[h] # None,
               Saves(h, new), UNCHANGED <<device, command, boundVars,
                                          historyVars, todo>>,
               token' \in [Edges -> Nat]
        PROVE  Types'
    <2>1. /\ work[h].e \in Edges /\ Go(h, None)
          /\ edge' = [edge EXCEPT ![work[h].e] = new]
      BY <1>2, WorkTypes DEF Saves, End
    <2>2. TypeOK'
      BY <1>2, <2>1 DEF TypeOK, Go, boundVars, historyVars
    <2> QED  BY <1>2, <2>1, <2>2, HandlerTypes DEF historyVars
  <1>3. ASSUME NEW h \in Handlers, NEW e \in Edges,
               Update(h, e) \/ RegenerateToken(h, e)
        PROVE  Types'
    BY <1>1, <1>3 DEF Update, RegenerateToken, RowStages, Ask, TypeOK
  <1>4. ASSUME NEW h \in Handlers, NEW e \in Edges, Heartbeat(h, e)
        PROVE  Types'
    BY <1>1, <1>4 DEF Heartbeat, RowStages, TypeOK
  <1>5. ASSUME NEW h \in Handlers, DetectOfflineEdges(h) PROVE Types'
    <2>1. PICK e \in Edges : Reads(h, "offline", e)
      BY <1>5 DEF DetectOfflineEdges
    <2>2. /\ UNCHANGED <<edge, device, command, agentVars, historyVars>>
          /\ UNCHANGED <<requests, beats, ticks, failures>>
      BY <1>5 DEF DetectOfflineEdges, boundVars
    <2>3. requests' \in 0..MaxRequests /\ beats' \in 0..MaxBeats
      BY <2>2 DEF TypeOK
    <2>4. UNCHANGED <<ticks, failures>>
      BY <2>2
    <2>5. "offline" \in RowStages
      BY DEF RowStages
    <2> QED  BY <1>1, <2>1, <2>2, <2>3, <2>4, <2>5
  <1>6. ASSUME NEW h \in Handlers, NEW e \in Edges, Remove(h, e) PROVE Types'
    <2>1. [edge[e] EXCEPT !.removed = TRUE] \in EdgeRows
      <3>1. edge[e] \in EdgeRows
        BY DEF TypeOK
      <3> QED  BY <3>1 DEF EdgeRows
    <2>2. edge' \in [Edges -> EdgeRows] /\ requests' \in 0..MaxRequests
      BY <1>6, <2>1 DEF Remove, Ask, TypeOK
    <2> QED
      BY <1>6, <2>2 DEF Remove, Types, TypeOK, Waiting, At, Dispatched,
                        agentVars, historyVars
  <1>7. ASSUME NEW h \in Handlers, UpdateSave(h) PROVE Types'
    <2>1. work[h] # None /\ work[h].copy \in EdgeRows
      BY <1>7, WorkTypes DEF UpdateSave, At, RowStages
    <2> QED  BY <1>2, <1>7, <2>1 DEF UpdateSave, agentVars, TypeOK
  <1>8. ASSUME NEW h \in Handlers, RegenerateTokenSave(h) PROVE Types'
    <2>1. /\ work[h] # None /\ work[h].copy \in EdgeRows /\ work[h].e \in Edges
      BY <1>8, WorkTypes DEF RegenerateTokenSave, At, RowStages
    <2>2. token' \in [Edges -> Nat]
      BY <1>8, <2>1 DEF RegenerateTokenSave, TypeOK
    <2>3. [work[h].copy EXCEPT !.token = token'[work[h].e]] \in EdgeRows
      BY <2>1, <2>2 DEF EdgeRows
    <2> QED  BY <1>2, <1>8, <2>1, <2>2, <2>3 DEF RegenerateTokenSave
  <1>9. ASSUME NEW h \in Handlers, HeartbeatSave(h) PROVE Types'
    <2>1. /\ work[h] # None
          /\ [work[h].copy EXCEPT !.status = "ONLINE", !.seen = "fresh"]
               \in EdgeRows
      BY <1>9, WorkTypes DEF HeartbeatSave, At, RowStages, EdgeRows
    <2> QED  BY <1>2, <1>9, <2>1 DEF HeartbeatSave, agentVars, TypeOK
  <1>10. ASSUME NEW h \in Handlers, DetectOfflineSave(h) PROVE Types'
    <2>1. /\ work[h] # None
          /\ [work[h].copy EXCEPT !.status = "OFFLINE"] \in EdgeRows
      BY <1>10, WorkTypes DEF DetectOfflineSave, At, RowStages, EdgeRows
    <2> QED  BY <1>2, <1>10, <2>1 DEF DetectOfflineSave, agentVars, TypeOK
  <1> QED  BY <1>3, <1>4, <1>5, <1>6, <1>7, <1>8, <1>9, <1>10

\* Time and devices.
LEMMA DeviceTypesStep ==
  ASSUME Types, UNCHANGED serial,
         \/ TimePasses
         \/ \E h \in Handlers, e \in Edges, d \in Devices :
              AssignDevice(h, e, d) \/ UnassignDevice(h, e, d)
         \/ \E h \in Handlers : CountDevices(h) \/ SyncDeviceCount(h)
  PROVE  Types'
  <1> TypeOK
    BY DEF Types
  <1>1. CASE TimePasses
    <2>1. \A row \in EdgeRows : Older(row) \in EdgeRows
      BY DEF Older, EdgeRows
    <2>2. edge' \in [Edges -> EdgeRows] /\ ticks' \in 0..MaxTicks
      BY <1>1, <2>1 DEF TimePasses, TypeOK
    <2>3. ASSUME NEW h \in Handlers
          PROVE  \/ work'[h] = work[h]
                 \/ /\ work'[h] \in Work /\ work[h] # None
                    /\ work'[h].at = work[h].at /\ work'[h].cmds = work[h].cmds
                    /\ work'[h].copy \in EdgeRows
      <3>1. CASE work[h] = None \/ work[h].copy = None
        BY <1>1, <3>1 DEF TimePasses
      <3>2. CASE work[h] # None /\ work[h].copy # None
        <4>1. work'[h] = [work[h] EXCEPT !.copy = Older(work[h].copy)]
          BY <1>1, <3>2 DEF TimePasses
        <4>2. work[h] \in Work /\ work[h].copy \in EdgeRows
          BY <3>2, WorkTypes DEF Work
        <4>3. Older(work[h].copy) \in EdgeRows
          BY <2>1, <4>2
        <4> QED  BY <3>2, <4>1, <4>2, <4>3 DEF Work
      <3> QED  BY <3>1, <3>2
    <2>4. work' \in [Handlers -> Work \cup {None}]
      BY <1>1, <2>3 DEF TimePasses, TypeOK
    <2>5. UNCHANGED <<device, command, token, todo, requests, beats, failures,
                      answer, handed, late, doubled, lost, serial>>
      BY <1>1 DEF TimePasses, agentVars, historyVars
    <2>6. TypeOK'
      BY <2>2, <2>4, <2>5 DEF TypeOK
    <2>7. ASSUME NEW h \in Handlers
          PROVE  /\ work'[h] # None /\ work'[h].at \in RowStages =>
                      work'[h].copy \in EdgeRows
                 /\ Waiting(h)' \subseteq Waiting(h)
      BY <2>3 DEF Types, Waiting, At
    <2>8. Dispatched' = Dispatched
      BY <2>5 DEF Dispatched
    <2> QED  BY <2>5, <2>6, <2>7, <2>8 DEF Types
  <1>2. ASSUME NEW h \in Handlers, NEW e \in Edges, NEW d \in Devices,
               AssignDevice(h, e, d) \/ UnassignDevice(h, e, d)
        PROVE  Types'
    <2>1. PICK left \in 0..1 :
            Go(h, [NewWork("count", e) EXCEPT !.left = left])
      <3>1. NewWork("count", e) = [NewWork("count", e) EXCEPT !.left = 0]
        BY DEF NewWork
      <3> QED  BY <1>2, <3>1 DEF AssignDevice, UnassignDevice
    <2> DEFINE new == [NewWork("count", e) EXCEPT !.left = left]
    <2>2. new \in Work /\ new.at = "count"
      BY DEF NewWork, Work, Stages
    <2>3. Go(h, new)
      BY <2>1
    <2> HIDE DEF new
    <2>4. /\ UNCHANGED <<edge, command, token, todo, beats, ticks, failures,
                         answer, handed, late, doubled, lost>>
          /\ requests' \in 0..MaxRequests
          /\ device' \in [Devices -> Edges \cup {None}]
      BY <1>2 DEF AssignDevice, UnassignDevice, Ask, TypeOK, agentVars,
                  historyVars
    <2>5. TypeOK'
      BY <2>2, <2>3, <2>4 DEF Go, TypeOK
    <2> QED  BY <2>2, <2>3, <2>4, <2>5, HandlerTypes DEF RowStages, Stages
  <1>3. ASSUME NEW h \in Handlers, CountDevices(h) PROVE Types'
    <2>1. work[h] \in Work /\ work[h] # None /\ work[h].e \in Edges
      BY <1>3, WorkTypes DEF CountDevices, At
    <2>2. Cardinality(DevicesOf(work[h].e)) \in Nat
      <3>1. DevicesOf(work[h].e) \in SUBSET Devices
        BY DEF DevicesOf
      <3> QED  BY <3>1, FS_Subset, FS_CardinalityType
    <2> DEFINE new == [work[h] EXCEPT !.at = "sync",
                                     !.n = Cardinality(DevicesOf(work[h].e))]
    <2>3. new \in Work /\ new.at = "sync"
      BY <2>1, <2>2 DEF Work, Stages
    <2>4. Go(h, new)
      BY <1>3 DEF CountDevices
    <2> HIDE DEF new
    <2>5. TypeOK' /\ UNCHANGED <<command, answer, handed, todo>>
      BY <1>3, <2>3, <2>4 DEF CountDevices, Go, TypeOK, agentVars, boundVars,
                              historyVars
    <2> QED  BY <2>3, <2>4, <2>5, HandlerTypes DEF RowStages, Stages
  <1>4. ASSUME NEW h \in Handlers, SyncDeviceCount(h) PROVE Types'
    <2>1. /\ work[h] \in Work /\ work[h] # None /\ work[h].e \in Edges
          /\ work[h].n \in Nat
      BY <1>4, WorkTypes DEF SyncDeviceCount, At
    <2>2. [edge[work[h].e] EXCEPT !.deviceCount = work[h].n] \in EdgeRows
      <3>1. edge[work[h].e] \in EdgeRows
        BY <2>1 DEF TypeOK
      <3> QED  BY <2>1, <3>1 DEF EdgeRows
    <2>3. edge' \in [Edges -> EdgeRows]
      BY <1>4, <2>1, <2>2 DEF SyncDeviceCount, TypeOK
    <2>4. UNCHANGED <<device, command, token, todo, requests, beats, ticks,
                      failures, answer, handed, late, doubled, lost>>
      BY <1>4 DEF SyncDeviceCount, agentVars, boundVars, historyVars
    <2>5. CASE work[h].left = 0
      <3>1. Go(h, None)
        BY <1>4, <2>5 DEF SyncDeviceCount, End
      <3>2. TypeOK'
        BY <2>3, <2>4, <3>1 DEF Go, TypeOK
      <3> QED  BY <2>4, <3>1, <3>2, HandlerTypes
    <2>6. CASE work[h].left # 0
      <3> DEFINE new == [work[h] EXCEPT !.at = "count", !.left = @ - 1]
      <3>1. new \in Work /\ new.at = "count"
        <4>1. work[h].left - 1 \in 0..1
          BY <2>1, <2>6 DEF Work
        <4> QED  BY <2>1, <4>1 DEF Work, Stages
      <3>2. Go(h, new)
        BY <1>4, <2>6 DEF SyncDeviceCount
      <3> HIDE DEF new
      <3>3. TypeOK'
        BY <2>3, <2>4, <3>1, <3>2 DEF Go, TypeOK
      <3> QED  BY <2>4, <3>1, <3>2, <3>3, HandlerTypes DEF RowStages, Stages
    <2> QED  BY <2>5, <2>6
  <1> QED  BY <1>1, <1>2, <1>3, <1>4

-----------------------------------------------------------------------------
(* What the commands go through.                                           *)

LEMMA CommandTypesStep ==
  ASSUME Types, UNCHANGED serial,
         \/ \E h \in Handlers, e \in Edges :
              \/ \E c \in Commands : DispatchCommand(h, e, c)
              \/ GetPendingCommands(h, e)
         \/ \E h \in Handlers : MarkDelivered(h) \/ Respond(h) \/ Die(h)
         \/ \E e \in Edges, c \in Commands : AckCommand(e, c)
  PROVE  Types'
  <1> TypeOK
    BY DEF Types
  <1>1. ASSUME NEW h \in Handlers, NEW e \in Edges, NEW c \in Commands,
               DispatchCommand(h, e, c)
        PROVE  Types'
    <2>1. [e |-> e, status |-> "PENDING"] \in CommandRows
      BY DEF CommandRows, CommandStatuses
    <2>2. /\ command' = [command EXCEPT ![c] = [e |-> e, status |-> "PENDING"]]
          /\ UNCHANGED <<edge, device, work, token, todo, beats, ticks, failures,
                         answer, handed, late, doubled, lost>>
          /\ requests' \in 0..MaxRequests
      BY <1>1 DEF DispatchCommand, Ask, agentVars, historyVars, TypeOK
    <2>3. TypeOK'
      BY <2>1, <2>2 DEF TypeOK
    <2>4. \A b \in Commands : command[b] # None => command'[b] # None
      BY <2>1, <2>2 DEF TypeOK
    <2>5. Dispatched \subseteq Dispatched'
      BY <2>4 DEF Dispatched
    <2>6. \A k \in Handlers : Waiting(k)' = Waiting(k)
      BY <2>2 DEF Waiting, At
    <2>7. \A b \in Commands : command'[b] = None => command[b] = None
      BY <2>4
    <2> QED  BY <2>2, <2>3, <2>5, <2>6, <2>7 DEF Types
  <1>2. ASSUME NEW h \in Handlers, NEW e \in Edges, GetPendingCommands(h, e)
        PROVE  Types'
    <2> DEFINE new == [NewWork("deliver", e) EXCEPT !.cmds = Pending(e)]
    <2>1. Pending(e) \subseteq Dispatched
      BY DEF Pending, Dispatched
    <2>2. /\ new \in Work /\ new.at = "deliver" /\ new.cmds = Pending(e)
      BY DEF NewWork, Work, Stages, Pending
    <2>3. /\ work' = [work EXCEPT ![h] = new]
          /\ UNCHANGED <<edge, device, command, token, todo, requests, beats,
                         ticks, failures, answer, handed, late, lost>>
          /\ doubled' = doubled \cup (Pending(e) \cap Held)
      BY <1>2 DEF GetPendingCommands, Go, agentVars, boundVars
    <2> HIDE DEF new
    <2>4. TypeOK'
      BY <2>2, <2>3 DEF TypeOK, Pending
    <2>5. /\ work'[h] = new
          /\ \A k \in Handlers \ {h} : work'[k] = work[k]
      BY <2>3 DEF TypeOK
    <2>6. Dispatched' = Dispatched
      BY <2>3 DEF Dispatched
    <2>7. ASSUME NEW k \in Handlers
          PROVE  /\ work'[k] # None /\ work'[k].at \in RowStages =>
                      work'[k].copy \in EdgeRows
                 /\ Waiting(k)' \subseteq Dispatched
      <3>1. CASE k = h
        BY <2>1, <2>2, <2>5, <3>1 DEF Waiting, At, RowStages
      <3>2. CASE k # h
        BY <2>5, <3>2 DEF Types, Waiting, At
      <3> QED  BY <3>1, <3>2
    <2> QED  BY <2>3, <2>4, <2>6, <2>7 DEF Types
  <1>3. ASSUME NEW h \in Handlers, MarkDelivered(h) PROVE Types'
    <2>1. work[h] \in Work /\ work[h] # None /\ work[h].at = "deliver"
      BY <1>3, WorkTypes DEF MarkDelivered, At
    <2>2. work[h].cmds \subseteq Dispatched
      BY <2>1 DEF Types, Waiting, At
    <2> DEFINE new == [work[h] EXCEPT !.at = "respond"]
    <2>3. new \in Work /\ new.at = "respond" /\ new.cmds = work[h].cmds
      BY <2>1 DEF Work, Stages
    <2>4. /\ work' = [work EXCEPT ![h] = new]
          /\ UNCHANGED <<edge, device, token, todo, requests, beats, ticks,
                         failures, answer, handed, late, doubled, lost>>
      BY <1>3 DEF MarkDelivered, Go, agentVars, boundVars, historyVars
    <2> HIDE DEF new
    <2>5. ASSUME NEW c \in Commands
          PROVE  /\ command'[c] \in CommandRows \cup {None}
                 /\ command'[c] = None <=> command[c] = None
      <3>1. CASE c \in work[h].cmds
        <4>1. command[c] \in CommandRows
          BY <2>2, <3>1 DEF Dispatched, TypeOK
        <4>2. command'[c] = [command[c] EXCEPT !.status = "DELIVERED"]
          BY <1>3, <3>1 DEF MarkDelivered
        <4>3. command'[c] \in CommandRows
          BY <4>1, <4>2 DEF CommandRows, CommandStatuses
        <4> QED  BY <4>1, <4>3
      <3>2. CASE c \notin work[h].cmds
        BY <1>3, <3>2 DEF MarkDelivered, TypeOK
      <3> QED  BY <3>1, <3>2
    <2>6. command' \in [Commands -> CommandRows \cup {None}]
      BY <1>3, <2>5 DEF MarkDelivered
    <2>7. TypeOK'
      BY <2>3, <2>4, <2>6 DEF TypeOK
    <2>8. Dispatched' = Dispatched
      BY <2>5 DEF Dispatched
    <2>9. /\ work'[h] = new
          /\ \A k \in Handlers \ {h} : work'[k] = work[k]
      BY <2>4 DEF TypeOK
    <2>10. ASSUME NEW k \in Handlers
           PROVE  /\ work'[k] # None /\ work'[k].at \in RowStages =>
                       work'[k].copy \in EdgeRows
                  /\ Waiting(k)' \subseteq Dispatched
      <3>1. CASE k = h
        BY <2>2, <2>3, <2>9, <3>1 DEF Waiting, At, RowStages
      <3>2. CASE k # h
        BY <2>9, <3>2 DEF Types, Waiting, At
      <3> QED  BY <3>1, <3>2
    <2> QED  BY <2>4, <2>5, <2>7, <2>8, <2>10 DEF Types
  <1>4. ASSUME NEW h \in Handlers, Respond(h) PROVE Types'
    <2>1. /\ work[h] # None /\ work[h].at = "respond" /\ work[h].e \in Edges
          /\ work[h].cmds \subseteq Commands
      BY <1>4, WorkTypes DEF Respond, At
    <2>2. work[h].cmds \subseteq Dispatched
      BY <2>1 DEF Types, Waiting, At
    <2>3. /\ work' = [work EXCEPT ![h] = None]
          /\ UNCHANGED <<edge, device, command, token, requests, beats, ticks,
                         answer, late, doubled>>
      BY <1>4 DEF Respond, End, Go
    <2>4. /\ todo' \in [Edges -> SUBSET Commands]
          /\ handed' \in [Commands -> Nat]
          /\ failures' \in 0..MaxFailures /\ lost' \subseteq Commands
      BY <1>4, <2>1 DEF Respond, MayFail, TypeOK
    <2>5. \A e \in Edges : todo'[e] \subseteq Dispatched
      BY <1>4, <2>1, <2>2 DEF Respond, Types, TypeOK
    <2>6. \A c \in Commands : command[c] = None => handed'[c] = 0
      <3>1. \A c \in Commands : command[c] = None =>
              c \notin work[h].cmds /\ handed[c] = 0
        BY <2>2 DEF Dispatched, Types
      <3> QED  BY <1>4, <3>1 DEF Respond
    <2>7. TypeOK'
      BY <2>3, <2>4 DEF TypeOK
    <2>8. Dispatched' = Dispatched
      BY <2>3 DEF Dispatched
    <2>9. \A k \in Handlers : work'[k] = None \/ work'[k] = work[k]
      BY <2>3 DEF TypeOK
    <2>10. \A k \in Handlers :
             /\ work'[k] # None /\ work'[k].at \in RowStages =>
                  work'[k].copy \in EdgeRows
             /\ Waiting(k)' \subseteq Dispatched
      BY <2>9 DEF Types, Waiting, At
    <2> QED  BY <2>3, <2>5, <2>6, <2>7, <2>8, <2>10 DEF Types
  <1>5. ASSUME NEW h \in Handlers, Die(h) PROVE Types'
    <2>1. /\ Go(h, None)
          /\ UNCHANGED <<edge, device, command, token, todo, requests, beats,
                         ticks, answer, handed, late, doubled>>
      BY <1>5 DEF Die, End, agentVars
    <2>2. failures' \in 0..MaxFailures /\ lost' \subseteq Commands
      BY <1>5, WorkTypes DEF Die, MayFail, TypeOK
    <2>3. TypeOK'
      BY <2>1, <2>2 DEF Go, TypeOK
    <2> QED  BY <2>1, <2>3, HandlerTypes
  <1>6. ASSUME NEW e \in Edges, NEW c \in Commands, AckCommand(e, c)
        PROVE  Types'
    <2>1. /\ command[c] \in CommandRows /\ c \in todo[e]
      BY <1>6 DEF AckCommand, Types, TypeOK, Dispatched
    <2>2. PICK result \in Results :
            /\ command' = [command EXCEPT ![c].status = result]
            /\ answer' = [answer EXCEPT ![c] = result]
      BY <1>6 DEF AckCommand
    <2>3. [command[c] EXCEPT !.status = result] \in CommandRows
      BY <2>1 DEF CommandRows, CommandStatuses
    <2>4. /\ command'[c] \in CommandRows
          /\ \A b \in Commands \ {c} : command'[b] = command[b] /\ answer'[b] = answer[b]
      BY <2>2, <2>3 DEF TypeOK
    <2>5. /\ UNCHANGED <<edge, device, work, token, requests, beats, ticks,
                         failures, handed, doubled, lost>>
          /\ todo' = [todo EXCEPT ![e] = @ \ {c}]
          /\ late' \in {late, late \cup {c}}
      BY <1>6 DEF AckCommand, boundVars
    <2>6. TypeOK'
      <3>1. /\ command' \in [Commands -> CommandRows \cup {None}]
            /\ answer' \in [Commands -> Results \cup {None}]
        BY <2>2, <2>3 DEF TypeOK
      <3> QED  BY <2>5, <3>1 DEF TypeOK
    <2>7. Dispatched' = Dispatched
      BY <2>1, <2>4 DEF Dispatched
    <2>8. \A k \in Handlers : Waiting(k)' = Waiting(k)
      BY <2>5 DEF Waiting, At
    <2>9. \A f \in Edges : todo'[f] \subseteq todo[f]
      BY <2>5 DEF TypeOK
    <2>10. \A b \in Commands : command'[b] = None => answer'[b] = None /\ handed'[b] = 0
      BY <2>4, <2>5 DEF Types
    <2> QED  BY <2>5, <2>6, <2>7, <2>8, <2>9, <2>10 DEF Types
  <1> QED  BY <1>1, <1>2, <1>3, <1>4, <1>5, <1>6

LEMMA TypesStep == Types /\ [Next]_vars => Types'
  <1>1. ASSUME Types, UNCHANGED vars PROVE Types'
    BY <1>1 DEF vars, Types, TypeOK, Waiting, At, Dispatched
  <1>2. ASSUME Types, Next PROVE Types'
    BY <1>2, RowTypesStep, DeviceTypesStep, CommandTypesStep
       DEF Next, Continue, UserStep, Poll, Report, Job
  <1> QED  BY <1>1, <1>2

\* Rows, handlers and agents keep their types, for any number of them.
THEOREM TypeCorrect == Spec => []TypeOK
  <1>1. Types => TypeOK
    BY DEF Types
  <1> QED  BY <1>1, TypesInit, TypesStep, PTL DEF Spec

-----------------------------------------------------------------------------
(* Commands in the hands of polls.                                         *)

Open(c) == command[c] # None /\ command[c].status = "PENDING"

\* What the agent has reported is shown, and no poll is about to mark it.
Answered(c) ==
  answer[c] # None /\ c \notin late =>
    command[c].status = answer[c] /\ \A h \in Handlers : c \notin HeldBy(h)

\* One poll at most has c, no response had it yet, and as long as it is
\* offered no poll has got as far as to respond.
InOneHand(c) ==
  /\ handed[c] <= 1
  /\ Open(c) => handed[c] = 0
  /\ \A h \in Handlers : c \in Waiting(h) =>
       /\ handed[c] = 0
       /\ Open(c) => At(h, "deliver")
       /\ \A k \in Handlers : c \in Waiting(k) => k = h

Inv == Types /\ \A c \in Commands : Answered(c) /\ (c \in doubled \/ InOneHand(c))

\* h goes on holding what it holds, or drops it.
Undisturbed(h) ==
  \/ Waiting(h)' = {}
  \/ /\ Waiting(h)' = Waiting(h) /\ HeldBy(h)' = HeldBy(h)
     /\ At(h, "deliver")' = At(h, "deliver") /\ work'[h].e = work[h].e

\* A step that leaves the commands alone.
LEMMA OtherStep ==
  ASSUME Inv, UNCHANGED <<command, answer, handed, late, doubled>>,
         \A h \in Handlers : Undisturbed(h), NEW c \in Commands
  PROVE  Answered(c)' /\ (c \in doubled' \/ InOneHand(c)')
  <1> USE DEF Undisturbed
  <1>1. \A h \in Handlers : HeldBy(h)' \subseteq Waiting(h)'
    BY DEF HeldBy, Waiting
  <1>2. \A h \in Handlers : HeldBy(h)' \subseteq HeldBy(h)
    BY <1>1
  <1>3. Answered(c)'
    BY <1>2 DEF Inv, Answered
  <1>4. Open(c)' = Open(c)
    BY DEF Open
  <1>5. InOneHand(c) => InOneHand(c)'
    BY <1>4 DEF InOneHand
  <1> QED  BY <1>3, <1>5 DEF Inv

\* One handler begins with other things, or ends.
LEMMA HandlerStep ==
  ASSUME Types, NEW h \in Handlers, NEW new, Go(h, new),
         new = None \/ new.at \notin {"deliver", "respond"}
  PROVE  \A k \in Handlers : Undisturbed(k)
  <1>1. work'[h] = new /\ \A k \in Handlers \ {h} : work'[k] = work[k]
    BY DEF Go, Types, TypeOK
  <1>2. Waiting(h)' = {}
    BY <1>1 DEF Waiting, At
  <1>3. \A k \in Handlers \ {h} :
          /\ Waiting(k)' = Waiting(k) /\ HeldBy(k)' = HeldBy(k)
          /\ At(k, "deliver")' = At(k, "deliver") /\ work'[k].e = work[k].e
    BY <1>1 DEF Waiting, HeldBy, At
  <1> QED  BY <1>2, <1>3 DEF Undisturbed

LEMMA CountGoes ==
  ASSUME Types, NEW h \in Handlers, CountDevices(h) \/ SyncDeviceCount(h)
  PROVE  \E new : Go(h, new) /\ (new = None \/ new.at \in {"count", "sync"})
  <1>0. work[h] \in Work
    BY WorkTypes DEF CountDevices, SyncDeviceCount, At
  <1>1. CASE CountDevices(h)
    <2> DEFINE new == [work[h] EXCEPT !.at = "sync",
                         !.n = Cardinality(DevicesOf(work[h].e))]
    <2>1. new.at = "sync"
      BY <1>0 DEF Work
    <2>2. Go(h, new)
      BY <1>1 DEF CountDevices
    <2> QED  BY <2>1, <2>2
  <1>2. CASE SyncDeviceCount(h) /\ work[h].left = 0
    BY <1>2 DEF SyncDeviceCount, End
  <1>3. CASE SyncDeviceCount(h) /\ work[h].left # 0
    <2> DEFINE new == [work[h] EXCEPT !.at = "count", !.left = @ - 1]
    <2>1. new.at = "count"
      BY <1>0 DEF Work
    <2>2. Go(h, new)
      BY <1>3 DEF SyncDeviceCount
    <2> QED  BY <2>1, <2>2
  <1> QED  BY <1>1, <1>2, <1>3

\* The steps that leave the commands alone; a handler that dies may lose some.
LEMMA OtherSteps ==
  ASSUME Types,
         \/ TimePasses
         \/ \E h \in Handlers, e \in Edges :
              \/ Update(h, e) \/ Remove(h, e) \/ RegenerateToken(h, e)
              \/ Heartbeat(h, e)
              \/ \E d \in Devices : AssignDevice(h, e, d) \/ UnassignDevice(h, e, d)
         \/ \E h \in Handlers :
              \/ UpdateSave(h) \/ RegenerateTokenSave(h) \/ HeartbeatSave(h)
              \/ DetectOfflineEdges(h) \/ DetectOfflineSave(h)
              \/ CountDevices(h) \/ SyncDeviceCount(h) \/ Die(h)
  PROVE  /\ UNCHANGED <<command, answer, handed, late, doubled, todo>>
         /\ \A k \in Handlers : Undisturbed(k)
         /\ UNCHANGED lost \/ \E h \in Handlers : Die(h)
  <1> DEFINE Quiet ==
    /\ UNCHANGED <<command, answer, handed, late, doubled, todo>>
    /\ \A k \in Handlers : Undisturbed(k)
    /\ UNCHANGED lost \/ \E h \in Handlers : Die(h)
  <1> HIDE DEF Quiet
  <1>1. ASSUME TimePasses PROVE Quiet
    <2>1. UNCHANGED <<command, answer, handed, late, doubled, todo, lost>>
      BY <1>1 DEF TimePasses, historyVars, agentVars
    <2>2. ASSUME NEW h \in Handlers
          PROVE  \/ Waiting(h)' = {}
                 \/ /\ Waiting(h)' = Waiting(h) /\ HeldBy(h)' = HeldBy(h)
                    /\ At(h, "deliver")' = At(h, "deliver") /\ work'[h].e = work[h].e
      <3>1. CASE work[h] = None \/ work[h].copy = None
        <4>1. work'[h] = work[h]
          BY <1>1, <3>1 DEF TimePasses
        <4> QED  BY <4>1 DEF Waiting, HeldBy, At
      <3>2. CASE work[h] # None /\ work[h].copy # None
        <4>1. work'[h] = [work[h] EXCEPT !.copy = Older(work[h].copy)]
          BY <1>1, <3>2 DEF TimePasses
        <4>2. work[h] \in Work
          BY <3>2, WorkTypes
        <4>3. /\ work'[h].at = work[h].at /\ work'[h].cmds = work[h].cmds
              /\ work'[h].e = work[h].e
          BY <4>1, <4>2 DEF Work
        <4> QED  BY <3>2, <4>3 DEF Waiting, HeldBy, At
      <3> QED  BY <3>1, <3>2
    <2> QED  BY <2>1, <2>2 DEF Quiet, Undisturbed
  <1>2. ASSUME NEW h \in Handlers, NEW e \in Edges,
               Update(h, e) \/ RegenerateToken(h, e) \/ Heartbeat(h, e)
        PROVE  Quiet
    <2>1. UNCHANGED <<command, answer, handed, late, doubled, todo, lost>>
      BY <1>2 DEF Update, RegenerateToken, Heartbeat, historyVars, agentVars
    <2>2. PICK stage \in RowStages : Reads(h, stage, e)
      BY <1>2 DEF Update, RegenerateToken, Heartbeat, RowStages
    <2>3. [NewWork(stage, e) EXCEPT !.copy = edge[e]].at = stage
      BY DEF NewWork
    <2> QED  BY <2>1, <2>2, <2>3, HandlerStep DEF Quiet, Reads, RowStages
  <1>3. ASSUME NEW h \in Handlers, DetectOfflineEdges(h)
        PROVE  Quiet
    <2>1. UNCHANGED <<command, answer, handed, late, doubled, todo, lost>>
      BY <1>3 DEF DetectOfflineEdges, historyVars, agentVars
    <2>2. PICK e \in Edges : Reads(h, "offline", e)
      BY <1>3 DEF DetectOfflineEdges
    <2>3. [NewWork("offline", e) EXCEPT !.copy = edge[e]].at = "offline"
      BY DEF NewWork
    <2> QED  BY <2>1, <2>2, <2>3, HandlerStep DEF Quiet, Reads
  <1>4. ASSUME NEW h \in Handlers, NEW e \in Edges, Remove(h, e)
        PROVE  Quiet
    <2>1. UNCHANGED <<work, command, answer, handed, late, doubled, todo, lost>>
      BY <1>4 DEF Remove, historyVars, agentVars
    <2>2. \A k \in Handlers :
            /\ Waiting(k)' = Waiting(k) /\ HeldBy(k)' = HeldBy(k)
            /\ At(k, "deliver")' = At(k, "deliver") /\ work'[k].e = work[k].e
      BY <2>1 DEF Waiting, HeldBy, At
    <2> QED  BY <2>1, <2>2 DEF Quiet, Undisturbed
  <1>5. ASSUME NEW h \in Handlers, NEW e \in Edges, NEW d \in Devices,
               AssignDevice(h, e, d) \/ UnassignDevice(h, e, d)
        PROVE  Quiet
    <2>1. UNCHANGED <<command, answer, handed, late, doubled, todo, lost>>
      BY <1>5 DEF AssignDevice, UnassignDevice, historyVars, agentVars
    <2>2. PICK new : Go(h, new) /\ new.at = "count"
      BY <1>5 DEF AssignDevice, UnassignDevice, NewWork
    <2> QED  BY <2>1, <2>2, HandlerStep DEF Quiet
  <1>6. ASSUME NEW h \in Handlers,
               \/ UpdateSave(h) \/ RegenerateTokenSave(h) \/ HeartbeatSave(h)
               \/ DetectOfflineSave(h) \/ Die(h)
        PROVE  Quiet
    <2>1. /\ UNCHANGED <<command, answer, handed, late, doubled, todo>>
          /\ Go(h, None) /\ (UNCHANGED lost \/ Die(h))
      BY <1>6 DEF UpdateSave, RegenerateTokenSave, HeartbeatSave,
                  DetectOfflineSave, Die, Saves, End, historyVars, agentVars
    <2> QED  BY <2>1, HandlerStep DEF Quiet
  <1>7. ASSUME NEW h \in Handlers, CountDevices(h) \/ SyncDeviceCount(h)
        PROVE  Quiet
    <2>1. UNCHANGED <<command, answer, handed, late, doubled, todo, lost>>
      BY <1>7 DEF CountDevices, SyncDeviceCount, historyVars, agentVars
    <2>2. PICK new : Go(h, new) /\ (new = None \/ new.at \in {"count", "sync"})
      BY <1>7, CountGoes
    <2> QED  BY <2>1, <2>2, HandlerStep DEF Quiet
  <1>8. Quiet
    BY <1>1, <1>2, <1>3, <1>4, <1>5, <1>6, <1>7
  <1> QED  BY <1>8 DEF Quiet

LEMMA CommandSteps ==
  ASSUME Inv, NEW c \in Commands,
         \/ \E h \in Handlers, e \in Edges :
              \/ \E b \in Commands : DispatchCommand(h, e, b)
              \/ GetPendingCommands(h, e)
         \/ \E h \in Handlers : MarkDelivered(h) \/ Respond(h)
         \/ \E e \in Edges, b \in Commands : AckCommand(e, b)
  PROVE  Answered(c)' /\ (c \in doubled' \/ InOneHand(c)')
  <1> Types /\ TypeOK
    BY DEF Inv, Types
  <1>0. Answered(c) /\ (c \in doubled \/ InOneHand(c))
    BY DEF Inv
  <1>1. ASSUME NEW h \in Handlers, NEW e \in Edges, NEW b \in Commands,
               DispatchCommand(h, e, b)
        PROVE  Answered(c)' /\ (c \in doubled' \/ InOneHand(c)')
    <2>1. /\ UNCHANGED <<work, answer, handed, late, doubled>>
          /\ command[b] = None /\ \A a \in Commands \ {b} : command'[a] = command[a]
      BY <1>1 DEF DispatchCommand, historyVars, TypeOK
    <2>2. \A k \in Handlers :
            /\ Waiting(k)' = Waiting(k) /\ HeldBy(k)' = HeldBy(k)
            /\ At(k, "deliver")' = At(k, "deliver")
      BY <2>1 DEF Waiting, HeldBy, At
    <2>3. CASE c = b
      <3>1. answer[c] = None /\ handed[c] = 0
        BY <2>1, <2>3 DEF Types
      <3>2. \A k \in Handlers : c \notin Waiting(k)
        BY <2>1, <2>3 DEF Types, Dispatched
      <3> QED  BY <2>1, <2>2, <3>1, <3>2 DEF Answered, InOneHand
    <2>4. CASE c # b
      <3>1. command'[c] = command[c]
        BY <2>1, <2>4
      <3> QED  BY <1>0, <2>1, <2>2, <3>1 DEF Answered, InOneHand, Open
    <2> QED  BY <2>3, <2>4
  <1>2. ASSUME NEW h \in Handlers, NEW e \in Edges, GetPendingCommands(h, e)
        PROVE  Answered(c)' /\ (c \in doubled' \/ InOneHand(c)')
    <2>1. /\ UNCHANGED <<command, answer, handed, late>>
          /\ doubled' = doubled \cup (Pending(e) \cap Held)
          /\ work[h] = None
          /\ Go(h, [NewWork("deliver", e) EXCEPT !.cmds = Pending(e)])
      BY <1>2 DEF GetPendingCommands, Idle
    <2>2. /\ work'[h].cmds = Pending(e)
          /\ work'[h].at = "deliver"
          /\ \A k \in Handlers \ {h} : work'[k] = work[k]
      BY <2>1 DEF Go, NewWork, TypeOK
    <2>3. /\ Waiting(h) = {} /\ Waiting(h)' \subseteq Pending(e)
          /\ HeldBy(h)' \subseteq Pending(e)
          /\ Waiting(h)' # {} => At(h, "deliver")'
      BY <2>1, <2>2 DEF Waiting, HeldBy, At
    <2>4. \A k \in Handlers \ {h} :
            /\ Waiting(k)' = Waiting(k) /\ HeldBy(k)' = HeldBy(k)
            /\ At(k, "deliver")' = At(k, "deliver")
      BY <2>2 DEF Waiting, HeldBy, At
    <2>5. c \in Pending(e) => Open(c)
      BY DEF Pending, Open
    <2>6. Answered(c)'
      <3>1. SUFFICES ASSUME answer[c] # None, c \notin late
                     PROVE  /\ command[c].status = answer[c]
                            /\ \A k \in Handlers : c \notin HeldBy(k)'
        BY <2>1 DEF Answered
      <3>2. command[c].status = answer[c] /\ \A k \in Handlers : c \notin HeldBy(k)
        BY <1>0, <3>1 DEF Answered
      <3>3. c \notin Pending(e)
        BY <3>1, <3>2, <2>5 DEF Open, TypeOK, Results
      <3> QED  BY <2>3, <2>4, <3>2, <3>3
    <2>7. ASSUME c \notin doubled' PROVE InOneHand(c)'
      <3>1. InOneHand(c)
        BY <1>0, <2>1, <2>7
      <3>2. Open(c)' = Open(c) /\ handed' = handed
        BY <2>1 DEF Open
      <3>3. CASE c \in Pending(e)
        <4>1. \A k \in Handlers : c \notin HeldBy(k)
          BY <2>1, <2>7, <3>3 DEF Held
        <4>2. \A k \in Handlers : c \notin Waiting(k)
          BY <2>5, <3>1, <3>3, <4>1 DEF InOneHand, HeldBy, Waiting
        <4>3. handed[c] = 0
          BY <2>5, <3>1, <3>3 DEF InOneHand
        <4>4. \A k \in Handlers : c \in Waiting(k)' => k = h /\ At(k, "deliver")'
          BY <2>3, <2>4, <4>2
        <4> QED  BY <3>2, <4>3, <4>4 DEF InOneHand
      <3>4. CASE c \notin Pending(e)
        <4>1. \A k \in Handlers : c \in Waiting(k)' =>
                c \in Waiting(k) /\ At(k, "deliver")' = At(k, "deliver")
          BY <2>3, <2>4, <3>4
        <4> QED  BY <3>1, <3>2, <4>1 DEF InOneHand
      <3> QED  BY <3>3, <3>4
    <2> QED  BY <2>6, <2>7
  <1>3. ASSUME NEW h \in Handlers, MarkDelivered(h)
        PROVE  Answered(c)' /\ (c \in doubled' \/ InOneHand(c)')
    <2>1. /\ UNCHANGED <<answer, handed, late, doubled>>
          /\ At(h, "deliver") /\ work[h] \in Work
          /\ Go(h, [work[h] EXCEPT !.at = "respond"])
          /\ command'[c] = IF c \in work[h].cmds
                           THEN [command[c] EXCEPT !.status = "DELIVERED"]
                           ELSE command[c]
      BY <1>3, WorkTypes DEF MarkDelivered, At, historyVars
    <2>2. /\ work'[h].at = "respond" /\ work'[h].cmds = work[h].cmds
          /\ \A k \in Handlers \ {h} : work'[k] = work[k]
      BY <2>1 DEF Go, TypeOK, Work
    <2>3. /\ HeldBy(h)' = {} /\ HeldBy(h) = work[h].cmds
          /\ Waiting(h) = work[h].cmds /\ Waiting(h)' \subseteq Waiting(h)
      BY <2>1, <2>2 DEF HeldBy, Waiting, At
    <2>4. \A k \in Handlers \ {h} :
            /\ Waiting(k)' = Waiting(k) /\ HeldBy(k)' = HeldBy(k)
            /\ At(k, "deliver")' = At(k, "deliver")
      BY <2>2 DEF Waiting, HeldBy, At
    <2>5. c \in work[h].cmds => ~Open(c)'
      <3>1. c \in work[h].cmds => command[c] \in CommandRows
        BY <2>3 DEF Types, Dispatched, TypeOK
      <3>2. c \in work[h].cmds => command'[c].status = "DELIVERED"
        BY <2>1, <3>1 DEF CommandRows
      <3> QED  BY <3>2 DEF Open
    <2>6. Answered(c)'
      <3>1. SUFFICES ASSUME answer[c] # None, c \notin late
                     PROVE  /\ command'[c].status = answer[c]
                            /\ \A k \in Handlers : c \notin HeldBy(k)'
        BY <2>1 DEF Answered
      <3>2. command[c].status = answer[c] /\ \A k \in Handlers : c \notin HeldBy(k)
        BY <1>0, <3>1 DEF Answered
      <3> QED  BY <2>1, <2>3, <2>4, <3>2
    <2>7. ASSUME InOneHand(c) PROVE InOneHand(c)'
      <3>1. \A k \in Handlers : c \in Waiting(k)' => c \in Waiting(k)
        BY <2>3, <2>4
      <3>2. Open(c)' => c \notin Waiting(h)' /\ Open(c)
        BY <2>1, <2>3, <2>5 DEF Open
      <3>3. \A k \in Handlers : c \in Waiting(k)' =>
              (Open(c)' => At(k, "deliver")')
        BY <2>4, <2>7, <3>1, <3>2 DEF InOneHand
      <3> QED  BY <2>1, <2>7, <3>1, <3>2, <3>3 DEF InOneHand
    <2> QED  BY <1>0, <2>1, <2>6, <2>7
  <1>4. ASSUME NEW h \in Handlers, Respond(h)
        PROVE  Answered(c)' /\ (c \in doubled' \/ InOneHand(c)')
    <2>1. /\ UNCHANGED <<command, answer, late, doubled>> /\ Go(h, None)
          /\ At(h, "respond")
          /\ \/ handed'[c] = handed[c]
             \/ handed'[c] = handed[c] + (IF c \in work[h].cmds THEN 1 ELSE 0)
      BY <1>4 DEF Respond, End
    <2>2. work'[h] = None /\ \A k \in Handlers \ {h} : work'[k] = work[k]
      BY <2>1 DEF Go, TypeOK
    <2>3. /\ Waiting(h)' = {} /\ HeldBy(h)' = {} /\ Waiting(h) = work[h].cmds
          /\ ~At(h, "deliver")
      BY <2>1, <2>2 DEF Waiting, HeldBy, At
    <2>4. \A k \in Handlers \ {h} :
            /\ Waiting(k)' = Waiting(k) /\ HeldBy(k)' = HeldBy(k)
            /\ At(k, "deliver")' = At(k, "deliver")
      BY <2>2 DEF Waiting, HeldBy, At
    <2>5. Answered(c)'
      <3>1. \A k \in Handlers : HeldBy(k)' \subseteq HeldBy(k)
        BY <2>3, <2>4
      <3> QED  BY <1>0, <2>1, <3>1 DEF Answered
    <2>6. ASSUME InOneHand(c) PROVE InOneHand(c)'
      <3>0. Open(c)' = Open(c) /\ handed[c] \in Nat
        BY <2>1 DEF Open, TypeOK
      <3>1. CASE c \in work[h].cmds
        <4>1. handed[c] = 0 /\ ~Open(c)
          BY <2>3, <2>6, <3>1 DEF InOneHand
        <4>2. handed'[c] \in {0, 1}
          BY <2>1, <3>1, <4>1
        <4>3. \A k \in Handlers : c \notin Waiting(k)'
          BY <2>3, <2>4, <2>6, <3>1 DEF InOneHand
        <4> QED  BY <3>0, <4>1, <4>2, <4>3 DEF InOneHand
      <3>2. CASE c \notin work[h].cmds
        <4>1. handed'[c] = handed[c]
          BY <2>1, <3>0, <3>2
        <4>2. \A k \in Handlers : c \in Waiting(k)' =>
                c \in Waiting(k) /\ At(k, "deliver")' = At(k, "deliver")
          BY <2>3, <2>4
        <4> QED  BY <2>6, <3>0, <4>1, <4>2 DEF InOneHand
      <3> QED  BY <3>1, <3>2
    <2> QED  BY <1>0, <2>1, <2>5, <2>6
  <1>5. ASSUME NEW e \in Edges, NEW b \in Commands, AckCommand(e, b)
        PROVE  Answered(c)' /\ (c \in doubled' \/ InOneHand(c)')
    <2>1. PICK result \in Results :
            /\ command' = [command EXCEPT ![b].status = result]
            /\ answer' = [answer EXCEPT ![b] = result]
      BY <1>5 DEF AckCommand
    <2>2. /\ UNCHANGED <<work, handed, doubled>>
          /\ late' = IF b \in Held THEN late \cup {b} ELSE late
          /\ command[b] \in CommandRows
      BY <1>5 DEF AckCommand, Types, TypeOK, Dispatched
    <2>3. /\ command'[b].status = result /\ answer'[b] = result
          /\ \A a \in Commands \ {b} : command'[a] = command[a] /\ answer'[a] = answer[a]
      BY <2>1, <2>2 DEF TypeOK, CommandRows
    <2>4. \A k \in Handlers :
            /\ Waiting(k)' = Waiting(k) /\ HeldBy(k)' = HeldBy(k)
            /\ At(k, "deliver")' = At(k, "deliver")
      BY <2>2 DEF Waiting, HeldBy, At
    <2>5. Open(c)' => Open(c)
      <3>1. c = b => ~Open(c)'
        BY <2>3 DEF Open, Results
      <3>2. c # b => Open(c)' = Open(c)
        BY <2>3 DEF Open
      <3> QED  BY <3>1, <3>2
    <2>6. Answered(c)'
      <3>1. CASE c = b
        BY <2>2, <2>3, <2>4, <3>1 DEF Answered, Held
      <3>2. CASE c # b
        <4>1. c \in late => c \in late'
          BY <2>2
        <4> QED  BY <1>0, <2>3, <2>4, <3>2, <4>1 DEF Answered
      <3> QED  BY <3>1, <3>2
    <2>7. InOneHand(c) => InOneHand(c)'
      BY <2>2, <2>4, <2>5 DEF InOneHand
    <2> QED  BY <1>0, <2>2, <2>6, <2>7
  <1> QED  BY <1>1, <1>2, <1>3, <1>4, <1>5

\* The invariant holds in every state.
THEOREM Invariant == Spec => []Inv
  <1>1. Init => Inv
    <2> SUFFICES ASSUME Init PROVE Inv
      OBVIOUS
    <2>1. \A h \in Handlers : Waiting(h) = {}
      BY DEF Init, Waiting, At
    <2>2. \A c \in Commands : handed[c] = 0 /\ answer[c] = None
      BY DEF Init
    <2>3. \A c \in Commands : Answered(c) /\ InOneHand(c)
      BY <2>1, <2>2 DEF Answered, InOneHand
    <2> QED  BY <2>3, TypesInit DEF Inv
  <1>2. Inv /\ [Next]_vars => Inv'
    <2> SUFFICES ASSUME Inv, [Next]_vars PROVE Inv'
      OBVIOUS
    <2>1. Types'
      BY TypesStep DEF Inv
    <2>2. ASSUME NEW c \in Commands
          PROVE  Answered(c)' /\ (c \in doubled' \/ InOneHand(c)')
      <3>1. CASE UNCHANGED vars
        <4>1. \A h \in Handlers :
                /\ Waiting(h)' = Waiting(h) /\ HeldBy(h)' = HeldBy(h)
                /\ At(h, "deliver")' = At(h, "deliver") /\ work'[h].e = work[h].e
          BY <3>1 DEF vars, Waiting, HeldBy, At
        <4> QED  BY <3>1, <4>1, OtherStep DEF vars, Undisturbed
      <3>2. CASE Next
        <4>1. Types
          BY DEF Inv
        <4> QED
          BY <3>2, <4>1, OtherStep, OtherSteps, CommandSteps
             DEF Next, Continue, UserStep, Poll, Report, Job
      <3> QED  BY <3>1, <3>2
    <2> QED  BY <2>1, <2>2 DEF Inv
  <1> QED  BY <1>1, <1>2, PTL DEF Spec

\* A reported result is shown for good, in any interleaving with polls and
\* lost responses, but for the exception in late.
THEOREM AnswersStand == Spec => []AnswerStands
  <1>1. Inv => AnswerStands
    BY DEF Inv, Answered, AnswerStands
  <1> QED  BY <1>1, Invariant, PTL

\* A command is handed to the agent once, unless two polls overlapped.
THEOREM HandedOnce == Spec => []HandedOutOnce
  <1>1. Inv => HandedOutOnce
    BY DEF Inv, InOneHand, HandedOutOnce
  <1> QED  BY <1>1, Invariant, PTL

-----------------------------------------------------------------------------
(* Where a command is that nobody has answered.                            *)

Responding(h) == IF At(h, "respond") THEN work[h].cmds ELSE {}

\* Offered to the next poll, in a response, with the agent, or done with.
UnderWay(c) ==
  \/ Open(c) \/ answer[c] # None \/ c \in lost
  \/ \E h \in Handlers : c \in Responding(h)
  \/ \E e \in Edges : c \in todo[e]

NoneMislaid == \A c \in Commands : command[c] # None => UnderWay(c)

\* Nothing but its own end keeps a response back.
LEMMA RespondersStay ==
  ASSUME Types, NEW h \in Handlers,
         \/ TimePasses
         \/ \E k \in Handlers, e \in Edges :
              \/ Update(k, e) \/ Remove(k, e) \/ RegenerateToken(k, e)
              \/ Heartbeat(k, e) \/ GetPendingCommands(k, e)
              \/ \E d \in Devices : AssignDevice(k, e, d) \/ UnassignDevice(k, e, d)
         \/ \E k \in Handlers :
              \/ UpdateSave(k) \/ RegenerateTokenSave(k) \/ HeartbeatSave(k)
              \/ DetectOfflineEdges(k) \/ DetectOfflineSave(k)
              \/ CountDevices(k) \/ SyncDeviceCount(k)
              \/ At(k, "deliver") /\ \E new : Go(k, new)
         \/ \E k \in Handlers \ {h} : \E new : Go(k, new)
  PROVE  Responding(h) \subseteq Responding(h)'
  <1> SUFFICES ASSUME At(h, "respond")
               PROVE  At(h, "respond")' /\ work'[h].cmds = work[h].cmds
    BY DEF Responding
  <1> work \in [Handlers -> Work \cup {None}] /\ work[h] # None
    BY DEF Types, TypeOK, At
  <1>1. ASSUME NEW k \in Handlers, NEW new, Go(k, new),
               k # h \/ work[k] = None \/ work[k].at # "respond"
        PROVE  At(h, "respond")' /\ work'[h].cmds = work[h].cmds
    BY <1>1 DEF Go, At
  <1>2. ASSUME TimePasses
        PROVE  At(h, "respond")' /\ work'[h].cmds = work[h].cmds
    <2>1. CASE work[h].copy = None
      BY <1>2, <2>1 DEF TimePasses, At
    <2>2. CASE work[h].copy # None
      <3>1. work'[h] = [work[h] EXCEPT !.copy = Older(work[h].copy)]
        BY <1>2, <2>2 DEF TimePasses
      <3>2. work[h] \in Work
        BY WorkTypes
      <3>3. work'[h].at = work[h].at /\ work'[h].cmds = work[h].cmds
        BY <3>1, <3>2 DEF Work
      <3>4. work'[h] \in Work
        <4>1. Older(work[h].copy) \in EdgeRows
          BY <2>2, <3>2 DEF Older, EdgeRows, Work
        <4> QED  BY <3>1, <3>2, <4>1 DEF Work
      <3> QED  BY <3>3, <3>4 DEF At
    <2> QED  BY <2>1, <2>2
  <1>3. ASSUME NEW k \in Handlers, NEW e \in Edges,
               \/ Update(k, e) \/ RegenerateToken(k, e) \/ Heartbeat(k, e)
               \/ DetectOfflineEdges(k) \/ GetPendingCommands(k, e)
               \/ \E d \in Devices : AssignDevice(k, e, d) \/ UnassignDevice(k, e, d)
        PROVE  At(h, "respond")' /\ work'[h].cmds = work[h].cmds
    <2>1. work[k] = None /\ \E new : Go(k, new)
      BY <1>3, Zenon
         DEF Update, RegenerateToken, Heartbeat, DetectOfflineEdges, AssignDevice,
             UnassignDevice, GetPendingCommands, Reads, Ask, Idle
    <2> QED  BY <1>1, <2>1
  <1>4. ASSUME NEW k \in Handlers, NEW e \in Edges, Remove(k, e)
        PROVE  At(h, "respond")' /\ work'[h].cmds = work[h].cmds
    BY <1>4 DEF Remove, At
  <1>5. ASSUME NEW k \in Handlers,
               \/ UpdateSave(k) \/ RegenerateTokenSave(k) \/ HeartbeatSave(k)
               \/ DetectOfflineSave(k)
        PROVE  At(h, "respond")' /\ work'[h].cmds = work[h].cmds
    <2>1. Go(k, None) /\ work[k].at # "respond"
      BY <1>5 DEF UpdateSave, RegenerateTokenSave, HeartbeatSave,
                  DetectOfflineSave, Saves, End, At
    <2> QED  BY <1>1, <2>1
  <1>6. ASSUME NEW k \in Handlers, CountDevices(k) \/ SyncDeviceCount(k)
        PROVE  At(h, "respond")' /\ work'[h].cmds = work[h].cmds
    <2>1. work[k].at # "respond"
      BY <1>6 DEF CountDevices, SyncDeviceCount, At
    <2> QED  BY <1>1, <1>6, <2>1, CountGoes
  <1>7. ASSUME NEW k \in Handlers, NEW new, Go(k, new),
               At(k, "deliver") \/ k # h
        PROVE  At(h, "respond")' /\ work'[h].cmds = work[h].cmds
    BY <1>1, <1>7 DEF At
  <1>8. ASSUME NEW k \in Handlers, DetectOfflineEdges(k)
        PROVE  At(h, "respond")' /\ work'[h].cmds = work[h].cmds
    BY <1>3, <1>8 DEF DetectOfflineEdges
  <1> QED  BY <1>2, <1>3, <1>4, <1>5, <1>6, <1>7, <1>8

\* Commands that are not concerned stay where they are.
LEMMA UnderWayStays ==
  ASSUME NEW c \in Commands, command[c] # None => UnderWay(c),
         UNCHANGED <<answer, todo>>, command'[c] = command[c],
         lost \subseteq lost',
         \A h \in Handlers : c \in Responding(h) => c \in Responding(h)' \cup lost'
  PROVE  command'[c] # None => UnderWay(c)'
  BY DEF UnderWay, Open

LEMMA NoneMislaidStep == Types /\ NoneMislaid /\ [Next]_vars => NoneMislaid'
  <1> SUFFICES ASSUME Types, NoneMislaid, [Next]_vars PROVE NoneMislaid'
    OBVIOUS
  <1> TypeOK
    BY DEF Types
  <1>0. \A c \in Commands : command[c] # None => UnderWay(c)
    BY DEF NoneMislaid
  <1>1. ASSUME UNCHANGED <<command, answer, todo>>, lost \subseteq lost',
               \A h \in Handlers :
                 Responding(h) \subseteq Responding(h)' \cup lost'
        PROVE  NoneMislaid'
    BY <1>0, <1>1, UnderWayStays DEF NoneMislaid
  <1>2. ASSUME NEW h \in Handlers, NEW e \in Edges, NEW b \in Commands,
               DispatchCommand(h, e, b)
        PROVE  NoneMislaid'
    <2>1. /\ UNCHANGED <<work, answer, todo, lost>>
          /\ command'[b] = [e |-> e, status |-> "PENDING"]
          /\ \A a \in Commands \ {b} : command'[a] = command[a]
      BY <1>2 DEF DispatchCommand, historyVars, agentVars, TypeOK
    <2>2. \A k \in Handlers : Responding(k)' = Responding(k)
      BY <2>1 DEF Responding, At
    <2>3. command'[b] # None => UnderWay(b)'
      BY <2>1 DEF UnderWay, Open
    <2>4. \A c \in Commands \ {b} : command'[c] # None => UnderWay(c)'
      BY <1>0, <2>1, <2>2, UnderWayStays
    <2> QED  BY <2>3, <2>4 DEF NoneMislaid
  <1>3. ASSUME NEW h \in Handlers, MarkDelivered(h) PROVE NoneMislaid'
    <2>1. /\ UNCHANGED <<answer, todo, lost>>
          /\ At(h, "deliver") /\ work[h] \in Work
          /\ Go(h, [work[h] EXCEPT !.at = "respond"])
          /\ \A c \in Commands : c \notin work[h].cmds => command'[c] = command[c]
      BY <1>3, WorkTypes DEF MarkDelivered, At, historyVars, agentVars
    <2>2. \A k \in Handlers : Responding(k) \subseteq Responding(k)'
      BY <2>1, RespondersStay
    <2>3. Responding(h)' = work[h].cmds
      <3>1. [work[h] EXCEPT !.at = "respond"] \in Work
        BY <2>1 DEF Work, Stages
      <3>2. work'[h] # None /\ work'[h].at = "respond"
            /\ work'[h].cmds = work[h].cmds
        BY <2>1, <3>1 DEF Go, TypeOK, Work
      <3> QED  BY <3>2 DEF Responding, At
    <2>4. ASSUME NEW c \in Commands PROVE command'[c] # None => UnderWay(c)'
      <3>1. CASE c \in work[h].cmds
        BY <2>3, <3>1 DEF UnderWay
      <3>2. CASE c \notin work[h].cmds
        BY <1>0, <2>1, <2>2, <3>2, UnderWayStays
      <3> QED  BY <3>1, <3>2
    <2> QED  BY <2>4 DEF NoneMislaid
  <1>4. ASSUME NEW h \in Handlers, Respond(h) PROVE NoneMislaid'
    <2>1. /\ UNCHANGED <<command, answer>> /\ Go(h, None) /\ At(h, "respond")
          /\ work[h].e \in Edges
      BY <1>4, WorkTypes DEF Respond, End, At
    <2>2. \A k \in Handlers \ {h} : Responding(k) \subseteq Responding(k)'
      BY <2>1, RespondersStay
    <2>3. Responding(h) = work[h].cmds
      BY <2>1 DEF Responding
    <2>4. CASE UNCHANGED todo /\ lost' = lost \cup work[h].cmds
      BY <1>1, <2>1, <2>2, <2>3, <2>4
    <2>5. CASE /\ todo' = [todo EXCEPT ![work[h].e] = @ \cup work[h].cmds]
               /\ UNCHANGED lost
      <3>1. /\ \A e \in Edges : todo[e] \subseteq todo'[e]
            /\ work[h].cmds \subseteq todo'[work[h].e]
        BY <2>1, <2>5 DEF TypeOK
      <3>2. ASSUME NEW c \in Commands, command'[c] # None PROVE UnderWay(c)'
        <4>1. UnderWay(c)
          BY <1>0, <2>1, <3>2
        <4> QED
          BY <2>1, <2>2, <2>3, <2>5, <3>1, <4>1 DEF UnderWay, Open
      <3> QED  BY <3>2 DEF NoneMislaid
    <2> QED  BY <1>4, <2>4, <2>5 DEF Respond
  <1>5. ASSUME NEW e \in Edges, NEW b \in Commands, AckCommand(e, b)
        PROVE  NoneMislaid'
    <2>1. PICK result \in Results :
            /\ command' = [command EXCEPT ![b].status = result]
            /\ answer' = [answer EXCEPT ![b] = result]
      BY <1>5 DEF AckCommand
    <2>2. UNCHANGED <<work, lost>> /\ todo' = [todo EXCEPT ![e] = @ \ {b}]
      BY <1>5 DEF AckCommand
    <2>3. /\ answer'[b] = result /\ result # None
          /\ \A a \in Commands \ {b} :
               /\ command'[a] = command[a] /\ answer'[a] = answer[a]
               /\ \A f \in Edges : a \in todo[f] => a \in todo'[f]
      BY <2>1, <2>2 DEF TypeOK, Results, CommandStatuses
    <2>4. \A k \in Handlers : Responding(k)' = Responding(k)
      BY <2>2 DEF Responding, At
    <2>5. ASSUME NEW c \in Commands, command'[c] # None PROVE UnderWay(c)'
      <3>1. CASE c = b
        BY <2>3, <3>1 DEF UnderWay
      <3>2. CASE c # b
        <4>1. UnderWay(c)
          BY <1>0, <2>3, <2>5, <3>2
        <4> QED  BY <2>2, <2>3, <2>4, <3>2, <4>1 DEF UnderWay, Open
      <3> QED  BY <3>1, <3>2
    <2> QED  BY <2>5 DEF NoneMislaid
  <1>6. ASSUME NEW h \in Handlers, Die(h) PROVE NoneMislaid'
    <2>1. /\ UNCHANGED <<command, answer, todo>> /\ Go(h, None)
          /\ lost' = IF At(h, "respond") THEN lost \cup work[h].cmds ELSE lost
      BY <1>6 DEF Die, End, agentVars
    <2>2. \A k \in Handlers \ {h} : Responding(k) \subseteq Responding(k)'
      BY <2>1, RespondersStay
    <2>3. Responding(h) \subseteq lost' /\ lost \subseteq lost'
      BY <2>1 DEF Responding
    <2> QED  BY <1>1, <2>1, <2>2, <2>3
  <1>7. CASE UNCHANGED vars
    BY <1>1, <1>7 DEF vars, agentVars, historyVars, Responding, At
  <1>8. ASSUME NEW h \in Handlers, NEW e \in Edges, GetPendingCommands(h, e)
        PROVE  NoneMislaid'
    <2>1. UNCHANGED <<command, answer, todo, lost>>
      BY <1>8 DEF GetPendingCommands, agentVars
    <2>2. \A k \in Handlers : Responding(k) \subseteq Responding(k)'
      BY <1>8, RespondersStay
    <2> QED  BY <1>1, <2>1, <2>2
  <1>9. ASSUME \/ TimePasses
               \/ \E h \in Handlers, e \in Edges :
                    \/ Update(h, e) \/ Remove(h, e) \/ RegenerateToken(h, e)
                    \/ Heartbeat(h, e)
                    \/ \E d \in Devices :
                         AssignDevice(h, e, d) \/ UnassignDevice(h, e, d)
               \/ \E h \in Handlers :
                    \/ UpdateSave(h) \/ RegenerateTokenSave(h) \/ HeartbeatSave(h)
                    \/ DetectOfflineEdges(h) \/ DetectOfflineSave(h)
                    \/ CountDevices(h) \/ SyncDeviceCount(h)
        PROVE  NoneMislaid' \/ \E h \in Handlers : Die(h)
    <2>1. \A k \in Handlers : Responding(k) \subseteq Responding(k)'
      BY <1>9, RespondersStay
    <2>2. /\ UNCHANGED <<command, answer, todo>>
          /\ UNCHANGED lost \/ \E h \in Handlers : Die(h)
      BY <1>9, OtherSteps
    <2> QED  BY <1>1, <2>1, <2>2
  <1> QED
    BY <1>2, <1>3, <1>4, <1>5, <1>6, <1>7, <1>8, <1>9
       DEF Next, Continue, UserStep, Poll, Report, Job

\* A command that is not answered is offered, in a response, with the agent, or
\* was lost with its response: the safety half of CommandsAnswered, for any
\* number of overlapping polls and dying handlers.
THEOREM NoneIsMislaid == Spec => []NoneMislaid
  <1>1. Init => NoneMislaid
    BY DEF Init, NoneMislaid
  <1> QED  BY <1>1, TypesInit, TypesStep, NoneMislaidStep, PTL DEF Spec

-----------------------------------------------------------------------------
(* The devices an instance counts, while requests come one at a time.      *)

\* What a handler has read is what the row or the table still says.
Current(h) ==
  /\ work[h].at \in RowStages =>
       work[h].copy.deviceCount = edge[work[h].e].deviceCount
  /\ work[h].at = "sync" => work[h].n = Cardinality(DevicesOf(work[h].e))

Recounts(h, e) ==
  work[h] # None /\ work[h].at \in {"count", "sync"} /\ work[h].e = e

CountInv ==
  serial =>
    /\ \A h, k \in Handlers : work[h] # None /\ work[k] # None => h = k
    /\ \A h \in Handlers : work[h] # None => Current(h)
    /\ \A e \in Edges : \/ edge[e].deviceCount >= Cardinality(DevicesOf(e))
                        \/ \E h \in Handlers : Recounts(h, e)

\* The instance e covers its devices, or handler work w is about to count them.
Covers(e, w) == \/ edge[e].deviceCount >= Cardinality(DevicesOf(e))
                \/ w # None /\ w.at \in {"count", "sync"} /\ w.e = e

LEMMA OnlyHandler ==
  ASSUME CountInv, serial, NEW h \in Handlers, work[h] # None
  PROVE  /\ \A k \in Handlers \ {h} : work[k] = None
         /\ Current(h) /\ \A e \in Edges : Covers(e, work[h])
  BY DEF CountInv, Recounts, Covers

LEMMA NoHandler ==
  ASSUME CountInv, serial, \A k \in Handlers : work[k] = None
  PROVE  \A e \in Edges : Covers(e, None)
  BY DEF CountInv, Recounts, Covers

\* A step of the only handler, which goes on with new.
LEMMA CountMove ==
  ASSUME Types, NEW h \in Handlers, NEW new, Go(h, new),
         \A k \in Handlers \ {h} : work[k] = None,
         new # None => Current(h)', \A e \in Edges : Covers(e, new)'
  PROVE  CountInv'
  <1>1. /\ work'[h] = new
        /\ \A k \in Handlers \ {h} : work'[k] = None
    BY DEF Go, Types, TypeOK
  <1>2. \A e \in Edges : \/ edge'[e].deviceCount >= Cardinality(DevicesOf(e)')
                        \/ Recounts(h, e)'
    BY <1>1 DEF Covers, Recounts
  <1> QED  BY <1>1, <1>2 DEF CountInv

\* A handler begins, and writes no count and no device.
LEMMA CountBegin ==
  ASSUME Types, CountInv, serial, NEW h \in Handlers, NEW new, Go(h, new),
         \A k \in Handlers : work[k] = None, UNCHANGED <<edge, device>>,
         new.at \notin RowStages \cup {"sync"}
           \/ \E e \in Edges : new.at \in RowStages /\ new.e = e /\ new.copy = edge[e]
  PROVE  CountInv'
  <1>1. \A e \in Edges : Covers(e, new)'
    BY NoHandler DEF Covers, DevicesOf
  <1>2. work'[h] = new
    BY DEF Go, Types, TypeOK
  <1>3. Current(h)'
    BY <1>2 DEF Current, RowStages
  <1> QED  BY <1>1, <1>3, CountMove

\* The only handler saves a row with the count it has.
LEMMA CountSaves ==
  ASSUME Types, CountInv, serial, NEW h \in Handlers, work[h] # None,
         work[h].at \in RowStages, NEW new \in EdgeRows, Saves(h, new),
         new.deviceCount = work[h].copy.deviceCount, UNCHANGED device
  PROVE  CountInv'
  <1>1. /\ \A k \in Handlers \ {h} : work[k] = None
        /\ work[h].copy.deviceCount = edge[work[h].e].deviceCount
        /\ \A e \in Edges : Covers(e, work[h])
    BY OnlyHandler DEF Current
  <1>2. /\ work[h].e \in Edges /\ Go(h, None)
        /\ edge' = [edge EXCEPT ![work[h].e] = new]
    BY WorkTypes DEF Saves, End
  <1>3. \A e \in Edges : edge'[e].deviceCount = edge[e].deviceCount
    BY <1>1, <1>2 DEF Types, TypeOK
  <1>4. \A e \in Edges : Covers(e, None)'
    BY <1>1, <1>3 DEF Covers, DevicesOf, RowStages
  <1> QED  BY <1>1, <1>2, <1>4, CountMove

LEMMA RowCountSteps ==
  ASSUME Types, CountInv, serial, UNCHANGED serial,
         \/ \E h \in Handlers, e \in Edges :
              Update(h, e) \/ RegenerateToken(h, e) \/ Heartbeat(h, e)
         \/ \E h \in Handlers :
              \/ UpdateSave(h) \/ RegenerateTokenSave(h) \/ HeartbeatSave(h)
              \/ DetectOfflineEdges(h) \/ DetectOfflineSave(h)
  PROVE  CountInv'
  <1>1. ASSUME NEW h \in Handlers, NEW e \in Edges, NEW stage \in RowStages,
               Reads(h, stage, e), Idle(h), UNCHANGED <<edge, device>>
        PROVE  CountInv'
    <2> DEFINE new == [NewWork(stage, e) EXCEPT !.copy = edge[e]]
    <2>1. new.at = stage /\ new.e = e /\ new.copy = edge[e] /\ Go(h, new)
      BY <1>1 DEF NewWork, Reads
    <2> HIDE DEF new
    <2> QED  BY <1>1, <2>1, CountBegin DEF Idle
  <1>2. ASSUME NEW h \in Handlers, NEW e \in Edges,
               Update(h, e) \/ RegenerateToken(h, e) \/ Heartbeat(h, e)
        PROVE  CountInv'
    BY <1>1, <1>2 DEF Update, RegenerateToken, Heartbeat, Ask, RowStages
  <1>3. ASSUME NEW h \in Handlers, DetectOfflineEdges(h) PROVE CountInv'
    BY <1>1, <1>3 DEF DetectOfflineEdges, RowStages
  <1>4. ASSUME NEW h \in Handlers,
               \/ UpdateSave(h) \/ RegenerateTokenSave(h) \/ HeartbeatSave(h)
               \/ DetectOfflineSave(h)
        PROVE  CountInv'
    <2>1. /\ work[h] # None /\ work[h].at \in RowStages
          /\ work[h].copy \in EdgeRows /\ work[h].e \in Edges
          /\ UNCHANGED device
      BY <1>4, WorkTypes DEF UpdateSave, RegenerateTokenSave, HeartbeatSave,
         DetectOfflineSave, At, RowStages
    <2>2. PICK new \in EdgeRows :
            Saves(h, new) /\ new.deviceCount = work[h].copy.deviceCount
      <3>1. CASE UpdateSave(h)
        BY <2>1, <3>1 DEF UpdateSave
      <3>2. CASE RegenerateTokenSave(h)
        <4>1. token'[work[h].e] \in Nat
          BY <2>1, <3>2 DEF RegenerateTokenSave, Types, TypeOK
        <4> QED  BY <2>1, <3>2, <4>1 DEF RegenerateTokenSave, EdgeRows
      <3>3. CASE HeartbeatSave(h)
        <4> DEFINE r == [work[h].copy EXCEPT !.status = "ONLINE", !.seen = "fresh"]
        <4>1. r \in EdgeRows /\ r.deviceCount = work[h].copy.deviceCount
          BY <2>1 DEF EdgeRows
        <4>2. Saves(h, r)
          BY <3>3 DEF HeartbeatSave
        <4> QED  BY <4>1, <4>2
      <3>4. CASE DetectOfflineSave(h)
        BY <2>1, <3>4 DEF DetectOfflineSave, EdgeRows
      <3> QED  BY <1>4, <3>1, <3>2, <3>3, <3>4
    <2> QED  BY <2>1, <2>2, CountSaves
  <1> QED  BY <1>2, <1>3, <1>4

LEMMA DeviceCounts == \A e \in Edges : Cardinality(DevicesOf(e)) \in Nat
  <1>1. \A e \in Edges : IsFiniteSet(DevicesOf(e))
    BY FS_Subset DEF DevicesOf
  <1> QED  BY <1>1, FS_CardinalityType

LEMMA DeviceCountSteps ==
  ASSUME Types, CountInv, serial, UNCHANGED serial,
         \/ \E h \in Handlers, e \in Edges, d \in Devices :
              AssignDevice(h, e, d) \/ UnassignDevice(h, e, d)
         \/ \E h \in Handlers : CountDevices(h) \/ SyncDeviceCount(h)
  PROVE  CountInv'
  <1> TypeOK
    BY DEF Types
  <1>1. ASSUME NEW h \in Handlers, NEW e \in Edges, NEW d \in Devices,
               AssignDevice(h, e, d) \/ UnassignDevice(h, e, d)
        PROVE  CountInv'
    <2>1. /\ \A k \in Handlers : work[k] = None /\ edge' = edge
          /\ \A b \in Edges \ {e} : DevicesOf(b)' \subseteq DevicesOf(b)
      BY <1>1 DEF AssignDevice, UnassignDevice, Ask, Idle, DevicesOf, TypeOK
    <2>2. PICK new \in Work : Go(h, new) /\ new.at = "count" /\ new.e = e
      BY <1>1 DEF AssignDevice, UnassignDevice, NewWork, Work, Stages
    <2>3. ASSUME NEW b \in Edges, b # e PROVE Covers(b, new)'
      <3>1. edge[b].deviceCount >= Cardinality(DevicesOf(b)) /\ edge[b] \in EdgeRows
        BY <2>1, NoHandler DEF Covers, TypeOK
      <3>2. IsFiniteSet(DevicesOf(b))
        BY FS_Subset DEF DevicesOf
      <3>3. /\ Cardinality(DevicesOf(b)') <= Cardinality(DevicesOf(b))
            /\ IsFiniteSet(DevicesOf(b)')
        BY <2>1, <2>3, <3>2, FS_Subset
      <3>4. /\ Cardinality(DevicesOf(b)) \in Nat /\ Cardinality(DevicesOf(b)') \in Nat
            /\ edge[b].deviceCount \in Nat
        BY <3>1, <3>2, <3>3, FS_CardinalityType DEF EdgeRows
      <3> QED  BY <2>1, <3>1, <3>3, <3>4 DEF Covers
    <2>4. \A b \in Edges : Covers(b, new)'
      BY <2>2, <2>3 DEF Covers
    <2>5. Current(h)'
      BY <2>2 DEF Go, TypeOK, Current, RowStages
    <2> QED  BY <2>1, <2>2, <2>4, <2>5, CountMove
  <1>2. ASSUME NEW h \in Handlers, CountDevices(h) PROVE CountInv'
    <2>1. PICK e \in Edges : work[h] # None /\ work[h] \in Work /\ e = work[h].e
      BY <1>2, WorkTypes DEF CountDevices, At
    <2>2. PICK new \in Work :
            /\ Go(h, new) /\ new.at = "sync" /\ new.e = e
            /\ new.n = Cardinality(DevicesOf(e))
      <3> DEFINE new == [work[h] EXCEPT !.at = "sync",
                           !.n = Cardinality(DevicesOf(work[h].e))]
      <3>1. /\ new.at = "sync" /\ new.e = e /\ new \in Work
            /\ new.n = Cardinality(DevicesOf(e)) /\ Go(h, new)
        BY <1>2, <2>1, DeviceCounts DEF CountDevices, Work, Stages
      <3> QED  BY <3>1
    <2>3. UNCHANGED <<edge, device>> /\ work[h].at = "count"
      BY <1>2 DEF CountDevices, At
    <2>4. \A b \in Edges : Covers(b, new)'
      BY <2>1, <2>2, <2>3, OnlyHandler DEF Covers, DevicesOf
    <2>5. Current(h)'
      <3>1. work'[h] = new
        BY <2>2 DEF Go, TypeOK
      <3>2. Cardinality(DevicesOf(e))' = Cardinality(DevicesOf(e))
        BY <2>3 DEF DevicesOf
      <3> QED  BY <2>2, <3>1, <3>2 DEF Current, RowStages
    <2> QED  BY <2>1, <2>2, <2>4, <2>5, OnlyHandler, CountMove
  <1>3. ASSUME NEW h \in Handlers, SyncDeviceCount(h) PROVE CountInv'
    <2>1. PICK e \in Edges : /\ work[h] # None /\ work[h] \in Work /\ e = work[h].e
                             /\ work[h].at = "sync"
      BY <1>3, WorkTypes DEF SyncDeviceCount, At
    <2>2. work[h].n = Cardinality(DevicesOf(e)) /\ edge[e] \in EdgeRows
      BY <2>1, OnlyHandler DEF Current, TypeOK
    <2>3. /\ edge' = [edge EXCEPT ![e].deviceCount = work[h].n] /\ UNCHANGED device
          /\ \A b \in Edges : DevicesOf(b)' = DevicesOf(b)
      BY <1>3, <2>1 DEF SyncDeviceCount, DevicesOf
    <2>4. edge'[e].deviceCount = Cardinality(DevicesOf(e)')
      BY <2>2, <2>3 DEF TypeOK, EdgeRows
    <2>5. \A b \in Edges : Covers(b, None)'
      <3>1. ASSUME NEW b \in Edges, b # e PROVE Covers(b, None)'
        BY <2>1, <2>3, <3>1, OnlyHandler DEF Covers, TypeOK
      <3>2. Covers(e, None)'
        BY <2>3, <2>4, DeviceCounts DEF Covers
      <3> QED  BY <3>1, <3>2
    <2>6. CASE work[h].left = 0
      <3>1. Go(h, None)
        BY <1>3, <2>6 DEF SyncDeviceCount, End
      <3> QED  BY <2>1, <2>5, <3>1, OnlyHandler, CountMove
    <2>7. CASE work[h].left # 0
      <3>1. PICK new : Go(h, new) /\ new.at = "count"
        <4> DEFINE new == [work[h] EXCEPT !.at = "count", !.left = @ - 1]
        <4>1. new.at = "count" /\ Go(h, new)
          BY <1>3, <2>1, <2>7 DEF SyncDeviceCount, Work
        <4> QED  BY <4>1
      <3>2. Current(h)'
        BY <3>1 DEF Go, TypeOK, Current, RowStages
      <3>3. \A b \in Edges : Covers(b, new)'
        BY <2>5 DEF Covers
      <3> QED  BY <2>1, <3>1, <3>2, <3>3, OnlyHandler, CountMove
    <2> QED  BY <2>6, <2>7
  <1> QED  BY <1>1, <1>2, <1>3

LEMMA CountStep == Types /\ CountInv /\ [Next]_vars => CountInv'
  <1> SUFFICES ASSUME Types, CountInv, [Next]_vars, serial PROVE CountInv'
    BY DEF CountInv, Next, vars
  <1> TypeOK
    BY DEF Types
  <1>1. ASSUME UNCHANGED <<work, device>>,
               \A e \in Edges : edge'[e].deviceCount = edge[e].deviceCount
        PROVE  CountInv'
    <2>1. /\ \A e \in Edges : DevicesOf(e)' = DevicesOf(e)
          /\ \A h \in Handlers, e \in Edges : Recounts(h, e)' = Recounts(h, e)
      BY <1>1 DEF DevicesOf, Recounts
    <2>2. ASSUME NEW h \in Handlers, work[h] # None PROVE Current(h)'
      <3>1. Current(h) /\ work[h].e \in Edges
        BY <2>2, WorkTypes DEF CountInv
      <3> QED  BY <1>1, <2>1, <3>1 DEF Current
    <2> QED  BY <1>1, <2>1, <2>2 DEF CountInv
  <1>2. CASE UNCHANGED vars \/ Report
    <2>1. UNCHANGED <<work, device, edge>>
      BY <1>2 DEF vars, Report, AckCommand
    <2> QED  BY <1>1, <2>1
  <1>3. ASSUME NEW h \in Handlers, NEW e \in Edges, Remove(h, e) PROVE CountInv'
    <2>1. \A b \in Edges : edge'[b].deviceCount = edge[b].deviceCount
      BY <1>3 DEF Remove, TypeOK, EdgeRows
    <2> QED  BY <1>1, <1>3, <2>1 DEF Remove
  <1>4. ASSUME NEW h \in Handlers, NEW e \in Edges, NEW c \in Commands,
               DispatchCommand(h, e, c)
        PROVE  CountInv'
    BY <1>1, <1>4 DEF DispatchCommand
  <1>5. CASE Poll
    <2>1. PICK h \in Handlers, e \in Edges : GetPendingCommands(h, e)
      BY <1>5 DEF Poll
    <2> DEFINE new == [NewWork("deliver", e) EXCEPT !.cmds = Pending(e)]
    <2>2. new.at = "deliver" /\ Go(h, new)
      BY <2>1 DEF GetPendingCommands, NewWork
    <2> HIDE DEF new
    <2> QED  BY <2>1, <2>2, CountBegin DEF GetPendingCommands, Idle, RowStages
  <1>6. ASSUME NEW h \in Handlers, MarkDelivered(h) \/ Respond(h) PROVE CountInv'
    <2>1. /\ work[h] # None /\ work[h] \in Work /\ UNCHANGED <<edge, device>>
          /\ work[h].at \in {"deliver", "respond"}
      BY <1>6, WorkTypes DEF MarkDelivered, Respond, At
    <2>2. PICK new : Go(h, new) /\ (new = None \/ new.at = "respond")
      <3> DEFINE new == [work[h] EXCEPT !.at = "respond"]
      <3>1. new.at = "respond"
        BY <2>1 DEF Work
      <3>2. Go(h, new) \/ Go(h, None)
        BY <1>6 DEF MarkDelivered, Respond, End
      <3> QED  BY <3>1, <3>2
    <2>3. \A e \in Edges : Covers(e, new)'
      BY <2>1, OnlyHandler DEF Covers, DevicesOf
    <2>4. new # None => Current(h)'
      BY <2>2 DEF Go, TypeOK, Current, RowStages
    <2> QED  BY <2>1, <2>2, <2>3, <2>4, OnlyHandler, CountMove
  <1>7. ASSUME NEW h \in Handlers, Die(h) PROVE FALSE
    BY <1>7 DEF Die, MayFail
  <1>8. CASE TimePasses
    <2>1. /\ UNCHANGED device
          /\ \A e \in Edges : edge'[e].deviceCount = edge[e].deviceCount
      BY <1>8 DEF TimePasses, Older, TypeOK, EdgeRows
    <2>2. ASSUME NEW h \in Handlers
          PROVE  \/ work'[h] = work[h]
                 \/ /\ work[h] # None /\ work'[h] \in Work
                    /\ work'[h].at = work[h].at /\ work'[h].e = work[h].e
                    /\ work'[h].n = work[h].n
                    /\ work'[h].copy.deviceCount = work[h].copy.deviceCount
      <3>1. CASE work[h] = None \/ work[h].copy = None
        BY <1>8, <3>1 DEF TimePasses
      <3>2. CASE work[h] # None /\ work[h].copy # None
        <4>1. work[h] \in Work /\ work[h].copy \in EdgeRows
          BY <3>2, WorkTypes DEF Work
        <4>2. /\ Older(work[h].copy).deviceCount = work[h].copy.deviceCount
              /\ Older(work[h].copy) \in EdgeRows
          BY <4>1 DEF Older, EdgeRows
        <4>3. work'[h] = [work[h] EXCEPT !.copy = Older(work[h].copy)]
          BY <1>8, <3>2 DEF TimePasses
        <4> QED  BY <3>2, <4>1, <4>2, <4>3 DEF Work
      <3> QED  BY <3>1, <3>2
    <2>3. \A h \in Handlers : work'[h] # None <=> work[h] # None
      BY <2>2
    <2>4. \A e \in Edges : Cardinality(DevicesOf(e))' = Cardinality(DevicesOf(e))
      BY <2>1 DEF DevicesOf
    <2>5. ASSUME NEW h \in Handlers, work'[h] # None PROVE Current(h)'
      <3>1. Current(h) /\ work[h].e \in Edges
        BY <2>3, <2>5, WorkTypes DEF CountInv
      <3> QED  BY <2>1, <2>2, <2>4, <3>1 DEF Current
    <2>6. \A h \in Handlers, e \in Edges : Recounts(h, e) => Recounts(h, e)'
      BY <2>2, <2>3 DEF Recounts
    <2> QED  BY <2>1, <2>3, <2>4, <2>5, <2>6 DEF CountInv
  <1>9. UNCHANGED serial
    BY DEF Next, vars
  <1> QED
    BY <1>2, <1>3, <1>4, <1>5, <1>6, <1>7, <1>8, <1>9, RowCountSteps,
       DeviceCountSteps DEF Next, Continue, UserStep, Job

LEMMA CountInit == Init => CountInv
  <1> SUFFICES ASSUME Init, NEW e \in Edges
               PROVE  edge[e].deviceCount >= Cardinality(DevicesOf(e))
    BY DEF Init, CountInv
  <1>1. \A d \in Devices : device[d] # e
    BY DEF Init
  <1>2. DevicesOf(e) = {}
    BY <1>1 DEF DevicesOf
  <1>3. edge[e].deviceCount = 0
    BY DEF Init, Created
  <1> QED  BY <1>2, <1>3, FS_EmptySet

\* As long as requests come one at a time an instance counts at least the
\* devices it has, between any two of them.
THEOREM CountsCoverDevices == Spec => []CountCoversDevices
  <1>1. CountInv => CountCoversDevices
    BY NoHandler DEF CountCoversDevices, Covers
  <1>2. Init => Types /\ CountInv
    BY TypesInit, CountInit
  <1>3. Types /\ CountInv /\ [Next]_vars => Types' /\ CountInv'
    BY TypesStep, CountStep
  <1> QED  BY <1>1, <1>2, <1>3, PTL DEF Spec

-----------------------------------------------------------------------------
(* Commands as Mailbox has them.                                           *)

Unmarked(c) == command[c] = None \/ command[c].status = "PENDING"

\* A command nobody has marked is at most in a query's result; one in anybody's
\* hands has not been lost, unless it is doubled; the agent has what was handed
\* to it.  A command stays with its instance.
Mail(c) ==
  /\ Unmarked(c) =>
       /\ handed[c] = 0 /\ c \notin lost
       /\ \A h \in Handlers : c \in Waiting(h) => At(h, "deliver")
  /\ c \notin doubled => \A h \in Handlers : c \in Waiting(h) => c \notin lost
  /\ \A e \in Edges : c \in todo[e] => handed[c] > 0 /\ command[c].e = e
  /\ \A h \in Handlers : c \in Waiting(h) => command[c].e = work[h].e

MailInv == \A c \in Commands : Mail(c)

LEMMA MailInit == Init => MailInv
  <1> SUFFICES ASSUME Init PROVE MailInv
    OBVIOUS
  <1>1. \A h \in Handlers : Waiting(h) = {}
    BY DEF Init, Waiting, At
  <1> QED  BY <1>1 DEF Init, MailInv, Mail

\* Steps that leave the commands alone, but for those lost in h's hands.
LEMMA MailStays ==
  ASSUME MailInv, UNCHANGED <<command, handed, doubled, todo, lost>>,
         \A h \in Handlers : Undisturbed(h)
  PROVE  MailInv'
  BY DEF MailInv, Mail, Unmarked, Undisturbed

\* A handler ends whose response was not sent, and takes S with it.
LEMMA MailIsLost ==
  ASSUME Inv, MailInv, NEW h \in Handlers, NEW S,
         At(h, "respond") => S \subseteq work[h].cmds,
         ~At(h, "respond") => S = {},
         UNCHANGED <<command, handed, doubled, todo>>, lost' = lost \cup S,
         Go(h, None)
  PROVE  MailInv'
  <1>1. Types
    BY DEF Inv
  <1>2. \A k \in Handlers : Undisturbed(k)
    BY <1>1, HandlerStep
  <1>3. S \subseteq Waiting(h) /\ Waiting(h)' = {}
    BY <1>1 DEF Waiting, At, Go, Types, TypeOK
  <1>4. SUFFICES ASSUME NEW c \in Commands PROVE Mail(c)'
    BY DEF MailInv
  <1>5. Mail(c) /\ Unmarked(c)' = Unmarked(c)
    BY DEF MailInv, Unmarked
  <1>6. CASE c \notin S
    BY <1>2, <1>5, <1>6 DEF Mail, Undisturbed
  <1>7. CASE c \in S
    <2>1. At(h, "respond") /\ ~At(h, "deliver")
      BY <1>7 DEF At
    <2>2. ~Unmarked(c)
      BY <1>3, <1>5, <1>7, <2>1 DEF Mail
    <2>3. c \notin doubled => \A k \in Handlers : c \notin Waiting(k)'
      BY <1>2, <1>3, <1>7 DEF Inv, InOneHand, Undisturbed
    <2> QED  BY <1>2, <1>5, <2>2, <2>3 DEF Mail, Undisturbed
  <1> QED  BY <1>6, <1>7

LEMMA MailStep == Inv /\ MailInv /\ [Next]_vars => MailInv'
  <1> SUFFICES ASSUME Inv, MailInv, [Next]_vars PROVE MailInv'
    OBVIOUS
  <1> Types /\ TypeOK
    BY DEF Inv, Types
  <1>1. ASSUME NEW h \in Handlers, NEW e \in Edges, NEW b \in Commands,
               DispatchCommand(h, e, b)
        PROVE  MailInv'
    <2>1. /\ UNCHANGED <<work, handed, doubled, todo, lost>> /\ command[b] = None
          /\ command'[b] = [e |-> e, status |-> "PENDING"]
          /\ \A a \in Commands \ {b} : command'[a] = command[a]
      BY <1>1 DEF DispatchCommand, historyVars, agentVars, TypeOK
    <2>2. \A k \in Handlers :
            Waiting(k)' = Waiting(k) /\ At(k, "deliver")' = At(k, "deliver")
      BY <2>1 DEF Waiting, At
    <2>3. \A a \in Commands : Unmarked(a)' = Unmarked(a)
      BY <2>1 DEF Unmarked
    <2>4. /\ \A k \in Handlers : b \notin Waiting(k)
          /\ \A f \in Edges : b \notin todo[f]
      BY <2>1 DEF Types, Dispatched
    <2>5. ASSUME NEW c \in Commands PROVE Mail(c)'
      <3>1. Mail(c)
        BY DEF MailInv
      <3>2. CASE c = b
        BY <2>1, <2>2, <2>3, <2>4, <3>1, <3>2 DEF Mail
      <3>3. CASE c # b
        BY <2>1, <2>2, <2>3, <3>1, <3>3 DEF Mail
      <3> QED  BY <3>2, <3>3
    <2> QED  BY <2>5 DEF MailInv
  <1>2. ASSUME NEW h \in Handlers, NEW e \in Edges, GetPendingCommands(h, e)
        PROVE  MailInv'
    <2>1. /\ UNCHANGED <<command, handed, todo, lost>> /\ doubled \subseteq doubled'
          /\ Go(h, [NewWork("deliver", e) EXCEPT !.cmds = Pending(e)])
      BY <1>2 DEF GetPendingCommands, agentVars
    <2>2. /\ work'[h].cmds = Pending(e) /\ work'[h].e = e
          /\ work'[h].at = "deliver"
          /\ \A k \in Handlers \ {h} : work'[k] = work[k]
      BY <2>1 DEF Go, NewWork, TypeOK
    <2>3. /\ Waiting(h)' \subseteq Pending(e)
          /\ Waiting(h)' # {} => At(h, "deliver")'
      BY <2>2 DEF Waiting, At
    <2>4. \A k \in Handlers \ {h} :
            Waiting(k)' = Waiting(k) /\ At(k, "deliver")' = At(k, "deliver")
      BY <2>2 DEF Waiting, At
    <2>5. ASSUME NEW c \in Commands PROVE Mail(c)'
      <3>1. Mail(c) /\ Unmarked(c)' = Unmarked(c)
        BY <2>1 DEF MailInv, Unmarked
      <3>2. c \in Pending(e) => Unmarked(c) /\ command[c].e = e
        BY DEF Pending, Unmarked
      <3> QED  BY <2>1, <2>2, <2>3, <2>4, <3>1, <3>2 DEF Mail
    <2> QED  BY <2>5 DEF MailInv
  <1>3. ASSUME NEW h \in Handlers, MarkDelivered(h) PROVE MailInv'
    <2>1. /\ UNCHANGED <<handed, doubled, todo, lost>>
          /\ At(h, "deliver") /\ work[h] \in Work
          /\ Go(h, [work[h] EXCEPT !.at = "respond"])
          /\ \A c \in Commands :
               command'[c] = IF c \in work[h].cmds
                             THEN [command[c] EXCEPT !.status = "DELIVERED"]
                             ELSE command[c]
      BY <1>3, WorkTypes DEF MarkDelivered, At, historyVars, agentVars
    <2>2. /\ work'[h].at = "respond" /\ work'[h].cmds = work[h].cmds
          /\ work'[h].e = work[h].e
          /\ \A k \in Handlers \ {h} : work'[k] = work[k]
      BY <2>1 DEF Go, TypeOK, Work
    <2>3. Waiting(h) = work[h].cmds /\ Waiting(h)' \subseteq Waiting(h)
      BY <2>1, <2>2 DEF Waiting, At
    <2>4. \A k \in Handlers \ {h} :
            Waiting(k)' = Waiting(k) /\ At(k, "deliver")' = At(k, "deliver")
      BY <2>2 DEF Waiting, At
    <2>5. ASSUME NEW c \in Commands PROVE Mail(c)'
      <3>1. Mail(c)
        BY DEF MailInv
      <3>2. CASE c \in work[h].cmds
        <4>1. command[c] \in CommandRows
          BY <2>3, <3>2 DEF Types, Dispatched, TypeOK
        <4>2. command'[c].status = "DELIVERED" /\ command'[c].e = command[c].e
          BY <2>1, <3>2, <4>1 DEF CommandRows
        <4>3. command'[c] # None
          BY <2>1, <3>2, <4>1 DEF CommandRows, CommandStatuses
        <4> QED  BY <2>1, <2>2, <2>3, <2>4, <3>1, <4>2, <4>3 DEF Mail, Unmarked
      <3>3. CASE c \notin work[h].cmds
        <4>1. command'[c] = command[c] /\ c \notin Waiting(h)'
          BY <2>1, <2>3, <3>3
        <4> QED  BY <2>1, <2>2, <2>4, <3>1, <4>1 DEF Mail, Unmarked
      <3> QED  BY <3>2, <3>3
    <2> QED  BY <2>5 DEF MailInv
  <1>4. ASSUME NEW h \in Handlers, Respond(h) PROVE MailInv'
    <2>1. /\ UNCHANGED <<command, doubled>> /\ Go(h, None) /\ At(h, "respond")
          /\ work[h].e \in Edges /\ work[h].cmds \subseteq Commands
      BY <1>4, WorkTypes DEF Respond, End, At
    <2>2. CASE UNCHANGED <<todo, handed>> /\ lost' = lost \cup work[h].cmds
      BY <2>1, <2>2, MailIsLost
    <2>3. CASE /\ todo' = [todo EXCEPT ![work[h].e] = @ \cup work[h].cmds]
               /\ handed' = [c \in Commands |->
                    handed[c] + (IF c \in work[h].cmds THEN 1 ELSE 0)]
               /\ UNCHANGED lost
      <3>1. /\ \A k \in Handlers : Undisturbed(k)
            /\ Waiting(h) = work[h].cmds /\ ~At(h, "deliver")
        BY <2>1, HandlerStep DEF Waiting, At
      <3>2. ASSUME NEW c \in Commands PROVE Mail(c)'
        <4>1. Mail(c) /\ Unmarked(c)' = Unmarked(c) /\ handed[c] \in Nat
          BY <2>1 DEF MailInv, Unmarked, TypeOK
        <4>2. CASE c \in work[h].cmds
          <5>1. ~Unmarked(c) /\ command[c].e = work[h].e
            BY <3>1, <4>1, <4>2 DEF Mail
          <5>2. handed'[c] > 0
            BY <2>3, <4>1, <4>2
          <5>3. \A e \in Edges \ {work[h].e} : todo'[e] = todo[e]
            BY <2>3 DEF TypeOK
          <5> QED
            BY <2>1, <2>3, <3>1, <4>1, <5>1, <5>2, <5>3 DEF Mail, Undisturbed
        <4>3. CASE c \notin work[h].cmds
          <5>1. handed'[c] = handed[c]
            BY <2>3, <4>1, <4>3
          <5>2. \A e \in Edges : c \in todo'[e] => c \in todo[e]
            BY <2>3, <4>3 DEF TypeOK
          <5> QED  BY <2>1, <2>3, <3>1, <4>1, <5>1, <5>2 DEF Mail, Undisturbed
        <4> QED  BY <4>2, <4>3
      <3> QED  BY <3>2 DEF MailInv
    <2> QED  BY <1>4, <2>2, <2>3 DEF Respond
  <1>5. ASSUME NEW e \in Edges, NEW b \in Commands, AckCommand(e, b)
        PROVE  MailInv'
    <2>1. PICK result \in Results :
            command' = [command EXCEPT ![b].status = result]
      BY <1>5 DEF AckCommand
    <2>2. /\ UNCHANGED <<work, handed, doubled, lost>> /\ b \in todo[e]
          /\ command[b] \in CommandRows /\ todo' = [todo EXCEPT ![e] = @ \ {b}]
      BY <1>5 DEF AckCommand, Types, TypeOK, Dispatched
    <2>3. /\ command'[b].status = result /\ command'[b].e = command[b].e
          /\ \A a \in Commands \ {b} : command'[a] = command[a]
          /\ \A f \in Edges : todo'[f] \subseteq todo[f]
      BY <2>1, <2>2 DEF TypeOK, CommandRows
    <2>4. \A k \in Handlers :
            Waiting(k)' = Waiting(k) /\ At(k, "deliver")' = At(k, "deliver")
      BY <2>2 DEF Waiting, At
    <2>5. ASSUME NEW c \in Commands PROVE Mail(c)'
      <3>1. Mail(c)
        BY DEF MailInv
      <3>2. Unmarked(c)' => Unmarked(c)
        <4>1. CASE c = b
          <5>1. command'[b] \in CommandRows
            BY <2>1, <2>2 DEF CommandRows, CommandStatuses, TypeOK
          <5> QED  BY <2>3, <4>1, <5>1 DEF Unmarked, Results
        <4>2. CASE c # b
          BY <2>3, <4>2 DEF Unmarked
        <4> QED  BY <4>1, <4>2
      <3>3. command'[c].e = command[c].e
        BY <2>3
      <3> QED  BY <2>2, <2>3, <2>4, <3>1, <3>2, <3>3 DEF Mail
    <2> QED  BY <2>5 DEF MailInv
  <1>6. ASSUME NEW h \in Handlers, Die(h) PROVE MailInv'
    <2> DEFINE S == IF At(h, "respond") THEN work[h].cmds ELSE {}
    <2>1. /\ UNCHANGED <<command, handed, doubled, todo>> /\ Go(h, None)
          /\ lost' = lost \cup S
      BY <1>6 DEF Die, End, agentVars
    <2>2. /\ At(h, "respond") => S \subseteq work[h].cmds
          /\ ~At(h, "respond") => S = {}
      OBVIOUS
    <2> HIDE DEF S
    <2> QED  BY <2>1, <2>2, MailIsLost
  <1>7. CASE UNCHANGED vars
    BY <1>7, MailStays DEF vars, Undisturbed, Waiting, HeldBy, At
  <1>8. ASSUME UNCHANGED lost, UNCHANGED <<command, handed, doubled, todo>>,
               \A h \in Handlers : Undisturbed(h)
        PROVE  MailInv'
    BY <1>8, MailStays
  <1> QED
    BY <1>1, <1>2, <1>3, <1>4, <1>5, <1>6, <1>7, <1>8, OtherSteps
       DEF Next, Continue, UserStep, Poll, Report, Job

THEOREM MailInvariant == Spec => []MailInv
  BY MailInit, MailStep, Invariant, PTL DEF Spec

\* What a marked row shows, and what one with another status does.
LEMMA ShownStatus ==
  ASSUME TypeOK, NEW c \in Commands
  PROVE  /\ Shown[c] = StatusOf(c)
         /\ Shown[c] = None <=> command[c] = None
         /\ M!Marked(c) <=> ~Unmarked(c)
  <1>1. Shown[c] = StatusOf(c)
    BY DEF Shown
  <1>2. command[c] = None \/ command[c].status \in CommandStatuses
    BY DEF TypeOK, CommandRows
  <1> QED  BY <1>1, <1>2 DEF StatusOf, M!Marked, Unmarked

\* What a poll waits for may be marked and sent, unless it is doubled.
LEMMA WaitingIsFresh ==
  ASSUME Inv, MailInv, NEW h \in Handlers, NEW c \in Waiting(h)
  PROVE  /\ c \in Commands /\ command[c] # None
         /\ M!Fresh(c) \/ c \in doubled
  <1>1. c \in Commands /\ command[c] # None
    BY DEF Inv, Types, Dispatched
  <1> QED  BY <1>1 DEF Inv, InOneHand, MailInv, Mail, M!Fresh

LEMMA LeaveSimulates ==
  ASSUME TypeOK, NEW h \in Handlers, NEW e \in Edges, NEW c \in Commands,
         DispatchCommand(h, e, c)
  PROVE  M!Leave(c)
  <1>1. /\ UNCHANGED <<answer, handed, todo, lost, doubled, late>>
        /\ command[c] = None /\ command'[c] = [e |-> e, status |-> "PENDING"]
        /\ \A a \in Commands \ {c} : command'[a] = command[a]
    BY DEF DispatchCommand, historyVars, agentVars, TypeOK
  <1>2. command'[c] # None
    <2>1. [e |-> e, status |-> "PENDING"] \in CommandRows
      BY DEF CommandRows, CommandStatuses
    <2> QED  BY <1>1, <2>1
  <1>3. Shown[c] = None /\ StatusOf(c)' = "PENDING"
    BY <1>1, <1>2 DEF Shown, StatusOf
  <1>4. \A a \in Commands \ {c} : StatusOf(a)' = Shown[a]
    BY <1>1 DEF Shown, StatusOf
  <1>5. Shown' = [Shown EXCEPT ![c] = "PENDING"]
    BY <1>3, <1>4 DEF Shown
  <1> QED  BY <1>1, <1>3, <1>5 DEF M!Leave, Carried

LEMMA PollSimulates ==
  ASSUME TypeOK, NEW h \in Handlers, NEW e \in Edges, GetPendingCommands(h, e)
  PROVE  \E S \in SUBSET Commands : M!Double(S)
  <1> DEFINE S == Pending(e) \cap Held
  <1>1. /\ UNCHANGED <<command, answer, handed, todo, late, lost>>
        /\ doubled' = doubled \cup S
    BY DEF GetPendingCommands, agentVars
  <1>2. S \in SUBSET Commands /\ \A c \in S : Shown[c] = "PENDING"
    BY DEF Pending, Shown, StatusOf
  <1>3. Shown' = Shown /\ Carried' = Carried
    BY <1>1 DEF Shown, StatusOf, Carried
  <1> HIDE DEF S
  <1> QED  BY <1>1, <1>2, <1>3 DEF M!Double

LEMMA MarkSimulates ==
  ASSUME Inv, MailInv, NEW h \in Handlers, MarkDelivered(h)
  PROVE  \E S \in SUBSET Commands : M!Mark(S)
  <1> Types /\ TypeOK
    BY DEF Inv, Types
  <1> DEFINE S == work[h].cmds
  <1>1. /\ UNCHANGED <<answer, handed, doubled, todo, lost, late>>
        /\ At(h, "deliver") /\ S \subseteq Commands
        /\ \A c \in Commands :
             command'[c] = IF c \in S
                           THEN [command[c] EXCEPT !.status = "DELIVERED"]
                           ELSE command[c]
    BY WorkTypes DEF MarkDelivered, At, historyVars, agentVars
  <1>2. S = Waiting(h) /\ S = HeldBy(h)
    BY <1>1 DEF Waiting, HeldBy
  <1> HIDE DEF S
  <1>3. ASSUME NEW c \in S
        PROVE  /\ Shown[c] # None /\ (M!Fresh(c) \/ c \in doubled)
               /\ answer[c] = None \/ c \in late
    <2>1. c \in Commands /\ command[c] # None /\ (M!Fresh(c) \/ c \in doubled)
      BY <1>2, WaitingIsFresh
    <2>2. answer[c] = None \/ c \in late
      BY <1>2, <2>1 DEF Inv, Answered
    <2> QED  BY <2>1, <2>2, ShownStatus
  <1>4. ASSUME NEW c \in Commands
        PROVE  StatusOf(c)' = IF c \in S THEN "DELIVERED" ELSE Shown[c]
    <2>1. CASE c \in S
      <3>1. command[c] \in CommandRows
        <4>1. c \in Waiting(h) /\ command[c] # None
          BY <1>2, <2>1, WaitingIsFresh
        <4> QED  BY <4>1 DEF TypeOK
      <3>2. command'[c].status = "DELIVERED" /\ command'[c] \in CommandRows
        BY <1>1, <2>1, <3>1 DEF CommandRows, CommandStatuses
      <3> QED  BY <2>1, <3>2 DEF StatusOf
    <2>2. CASE c \notin S
      BY <1>1, <2>2 DEF Shown, StatusOf
    <2> QED  BY <2>1, <2>2
  <1>5. Shown' = [c \in Commands |-> IF c \in S THEN "DELIVERED" ELSE Shown[c]]
    BY <1>4 DEF Shown
  <1>6. Carried' = Carried
    BY <1>1 DEF Carried
  <1>7. M!Mark(S)
    BY <1>1, <1>3, <1>5, <1>6 DEF M!Mark
  <1> QED  BY <1>1, <1>7

\* The response of h is sent, or is not.
LEMMA SendSimulates ==
  ASSUME Inv, MailInv, NEW h \in Handlers, At(h, "respond"),
         Respond(h) \/ Die(h)
  PROVE  \E S \in SUBSET Commands : M!Send(S)
  <1> Types /\ TypeOK
    BY DEF Inv, Types
  <1> DEFINE S == work[h].cmds
  <1>1. /\ S \subseteq Commands /\ S = Waiting(h) /\ ~At(h, "deliver")
        /\ work[h].e \in Edges
    BY WorkTypes DEF Waiting, At
  <1>2. /\ UNCHANGED <<command, answer, doubled, late>>
        /\ \/ /\ todo' = [todo EXCEPT ![work[h].e] = @ \cup S]
              /\ handed' = [c \in Commands |->
                   handed[c] + (IF c \in S THEN 1 ELSE 0)]
              /\ UNCHANGED lost
           \/ lost' = lost \cup S /\ UNCHANGED <<todo, handed>>
    BY DEF Respond, Die, agentVars
  <1> HIDE DEF S
  <1>3. ASSUME NEW c \in S
        PROVE  M!Marked(c) /\ (M!Fresh(c) \/ c \in doubled)
    <2>1. c \in Commands /\ (M!Fresh(c) \/ c \in doubled)
      BY <1>1, WaitingIsFresh
    <2>2. ~Unmarked(c)
      BY <1>1, <2>1 DEF MailInv, Mail
    <2> QED  BY <2>1, <2>2, ShownStatus
  <1>4. Shown' = Shown
    BY <1>2 DEF Shown, StatusOf
  <1>5. ASSUME todo' = [todo EXCEPT ![work[h].e] = @ \cup S]
        PROVE  Carried' = Carried \cup S
    BY <1>1, <1>5 DEF Carried, TypeOK
  <1>6. UNCHANGED todo => Carried' = Carried
    BY DEF Carried
  <1>7. M!Send(S)
    BY <1>2, <1>3, <1>4, <1>5, <1>6 DEF M!Send
  <1> QED  BY <1>1, <1>7

LEMMA ReportSimulates ==
  ASSUME Inv, MailInv, NEW e \in Edges, NEW c \in Commands, AckCommand(e, c)
  PROVE  \E result \in {"EXECUTED", "FAILED"} : M!Report(c, result)
  <1> Types /\ TypeOK
    BY DEF Inv, Types
  <1>1. PICK result \in Results :
          /\ command' = [command EXCEPT ![c].status = result]
          /\ answer' = [answer EXCEPT ![c] = result]
    BY DEF AckCommand
  <1>2. /\ UNCHANGED <<handed, lost, doubled>> /\ c \in todo[e]
        /\ command[c] \in CommandRows /\ todo' = [todo EXCEPT ![e] = @ \ {c}]
        /\ late' = IF c \in Held THEN late \cup {c} ELSE late
    BY DEF AckCommand, Types, TypeOK, Dispatched
  <1>3. handed[c] > 0 /\ \A f \in Edges : c \in todo[f] => f = e
    BY <1>2 DEF MailInv, Mail
  <1>4. c \in Held => c \in doubled
    <2>1. SUFFICES ASSUME c \in Held, c \notin doubled PROVE FALSE
      OBVIOUS
    <2>2. PICK h \in Handlers : c \in Waiting(h)
      BY <2>1 DEF Held, HeldBy, Waiting
    <2> QED  BY <1>3, <2>1, <2>2 DEF Inv, InOneHand
  <1>5. /\ command'[c].status = result /\ command'[c] \in CommandRows
        /\ \A a \in Commands \ {c} : command'[a] = command[a]
    BY <1>1, <1>2 DEF TypeOK, CommandRows, CommandStatuses
  <1>6. Shown' = [Shown EXCEPT ![c] = result]
    <2>1. StatusOf(c)' = result
      BY <1>5 DEF StatusOf
    <2>2. \A a \in Commands \ {c} : StatusOf(a)' = Shown[a]
      BY <1>5 DEF Shown, StatusOf
    <2> QED  BY <2>1, <2>2 DEF Shown
  <1>7. c \in Carried /\ Carried' = Carried \ {c}
    BY <1>2, <1>3 DEF Carried, TypeOK
  <1>8. M!Report(c, result)
    BY <1>1, <1>2, <1>4, <1>6, <1>7 DEF M!Report
  <1> QED  BY <1>8 DEF Results

LEMMA MailboxInit == Init => M!Init
  BY DEF Init, M!Init, Shown, StatusOf, Carried

\* EdgeService and the agents implement Mailbox: every step of theirs leaves,
\* doubles, marks, sends or reports commands as Mailbox allows, or concerns none.
THEOREM MailboxRefinement == Spec => ImplementsMailbox
  <1>1. Inv /\ MailInv /\ [Next]_vars => [M!Next]_(M!mvars)
    <2> SUFFICES ASSUME Inv, MailInv, [Next]_vars PROVE [M!Next]_(M!mvars)
      OBVIOUS
    <2>1. Types /\ TypeOK
      BY DEF Inv, Types
    <2>2. ASSUME UNCHANGED <<command, answer, handed, late, doubled, todo, lost>>
          PROVE  UNCHANGED M!mvars
      BY <2>2 DEF M!mvars, Shown, StatusOf, Carried
    <2>3. CASE UNCHANGED vars
      BY <2>2, <2>3 DEF vars, agentVars, historyVars
    <2>4. ASSUME NEW h \in Handlers, Die(h) PROVE [M!Next]_(M!mvars)
      <3>1. CASE At(h, "respond")
        BY <2>4, <3>1, SendSimulates DEF M!Next
      <3>2. CASE ~At(h, "respond")
        BY <2>2, <2>4, <3>2 DEF Die, agentVars
      <3> QED  BY <3>1, <3>2
    <2>5. ASSUME NEW h \in Handlers,
                 \/ MarkDelivered(h) \/ Respond(h)
                 \/ \E e \in Edges :
                      \/ GetPendingCommands(h, e)
                      \/ \E c \in Commands : DispatchCommand(h, e, c)
          PROVE  M!Next
      <3>1. Respond(h) => At(h, "respond")
        BY DEF Respond
      <3> QED
        BY <2>1, <2>5, <3>1, LeaveSimulates, PollSimulates, MarkSimulates,
           SendSimulates DEF M!Next
    <2>6. ASSUME NEW e \in Edges, NEW c \in Commands, AckCommand(e, c)
          PROVE  M!Next
      BY <2>6, ReportSimulates DEF M!Next
    <2>7. CASE Next
      BY <2>1, <2>2, <2>4, <2>5, <2>6, <2>7, OtherSteps
         DEF Next, Continue, UserStep, Poll, Report, Job
    <2> QED  BY <2>3, <2>7
  <1> QED
    BY <1>1, MailboxInit, Invariant, MailInvariant, PTL
       DEF Spec, ImplementsMailbox, M!Spec

-----------------------------------------------------------------------------
(* What Mailbox says of commands, whatever implements it.                  *)

\* Once reported, always shown, unless doubled; handed out once and not lost
\* as well, unless doubled.
KeptFor(c) ==
  /\ handed[c] \in Nat
  /\ M!Marked(c) \/ answer[c] = None
  /\ answer[c] # None => Shown[c] = answer[c] \/ c \in late
  /\ c \in late => c \in doubled
  /\ c \in doubled \/ handed[c] = 0 \/ (handed[c] = 1 /\ c \notin lost)

KeptInv ==
  /\ Shown \in [Commands -> CommandStatuses \cup {None}]
  /\ answer \in [Commands -> Results \cup {None}]
  /\ \A c \in Commands : KeptFor(c)

LEMMA KeptInit == M!Init => KeptInv
  BY DEF M!Init, KeptInv, KeptFor, M!Marked

LEMMA KeptStep == KeptInv /\ [M!Next]_(M!mvars) => KeptInv'
  <1> SUFFICES ASSUME KeptInv, M!Next \/ UNCHANGED M!mvars PROVE KeptInv'
    OBVIOUS
  <1> USE DEF KeptInv, KeptFor, M!Marked, M!Fresh, CommandStatuses, Results
  <1>1. ASSUME NEW c \in Commands, M!Leave(c) PROVE KeptInv'
    BY <1>1 DEF M!Leave
  <1>2. ASSUME NEW c \in Commands, NEW result \in {"EXECUTED", "FAILED"},
               M!Report(c, result)
        PROVE  KeptInv'
    BY <1>2 DEF M!Report
  <1>3. ASSUME NEW S \in SUBSET Commands, M!Double(S) PROVE KeptInv'
    BY <1>3 DEF M!Double
  <1>4. ASSUME NEW S \in SUBSET Commands, M!Mark(S) PROVE KeptInv'
    BY <1>4 DEF M!Mark
  <1>5. ASSUME NEW S \in SUBSET Commands, M!Send(S) PROVE KeptInv'
    BY <1>5 DEF M!Send
  <1>6. CASE UNCHANGED M!mvars
    BY <1>6 DEF M!mvars
  <1> QED  BY <1>1, <1>2, <1>3, <1>4, <1>5, <1>6 DEF M!Next

\* Mailbox alone keeps the promises: a reported result stands and a command is
\* handed out once, unless two polls had overlapped on it, and then only; and
\* one whose response got lost is not handed out as well.
THEOREM MailboxKeepsItsWord ==
  ImplementsMailbox =>
    [](/\ AnswerStands /\ HandedOutOnce
       /\ late \cap Commands \subseteq doubled
       /\ \A c \in lost \cap Commands : handed[c] = 0 \/ c \in doubled)
  <1>1. KeptInv => /\ AnswerStands /\ HandedOutOnce
                   /\ late \cap Commands \subseteq doubled
                   /\ \A c \in lost \cap Commands : handed[c] = 0 \/ c \in doubled
    <2> SUFFICES ASSUME KeptInv, NEW c \in Commands
                 PROVE  /\ answer[c] # None /\ c \notin late =>
                             command[c].status = answer[c]
                        /\ handed[c] <= 1 \/ c \in doubled
                        /\ c \in late => c \in doubled
                        /\ c \in lost => handed[c] = 0 \/ c \in doubled
      BY DEF AnswerStands, HandedOutOnce
    <2>1. Shown[c] = IF command[c] = None THEN None ELSE command[c].status
      BY DEF Shown, StatusOf
    <2> QED  BY <2>1 DEF KeptInv, KeptFor, M!Marked
  <1> QED  BY <1>1, KeptInit, KeptStep, PTL DEF ImplementsMailbox, M!Spec

=============================================================================
