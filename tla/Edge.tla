--------------------------------- MODULE Edge ---------------------------------
(***************************************************************************)
(* Edge instances, EdgeService: the rows users edit, the heartbeats and    *)
(* polls of the agent that runs at the site, the job that marks silent     *)
(* instances OFFLINE, and the commands users leave for the agent.          *)
(*                                                                         *)
(* Requests and the job read a row, wait, and save the copy with all its   *)
(* columns.  A command goes to the agent in the response to a poll, which  *)
(* may get lost.  The agent is external: it polls, carries out what it got *)
(* and reports each result until the report is taken.                      *)
(*                                                                         *)
(* A step goes from one await that others can notice to the next; checks   *)
(* of the token are part of the statement that follows them.               *)
(***************************************************************************)
EXTENDS Naturals, FiniteSets

CONSTANTS
  Edges,
  Devices,
  Commands,
  Handlers,    \* requests, and runs of the job, at a time
  MaxRequests, \* bound: requests of users
  MaxBeats,    \* bound: heartbeats
  MaxTicks,    \* bound: times that two minutes pass
  MaxFailures, \* bound: handlers that die and responses that get lost
  None

ASSUME EdgeConstants ==
  /\ IsFiniteSet(Devices)
  /\ MaxRequests \in Nat /\ MaxBeats \in Nat
  /\ MaxTicks \in Nat /\ MaxFailures \in Nat

VARIABLES
  edge,     \* table edge_instances
  device,   \* devices.edgeId
  command,  \* table edge_commands, None before dispatch
  work,     \* the handlers in flight
  token,    \* the token each agent was given last
  todo,     \* commands each agent has received and not reported
  requests, beats, ticks, failures,
  answer,   \* history: the result the agent reported last
  handed,   \* history: responses that held the command
  late,     \* history: commands reported while a poll still held them
  doubled,  \* history: commands read by a poll while another held them
  lost,     \* history: commands whose response did not arrive
  serial    \* mode, fixed at the start: one request at a time, none fails

vars == <<edge, device, command, work, token, todo, requests, beats, ticks,
          failures, answer, handed, late, doubled, lost, serial>>

agentVars   == <<token, todo>>
boundVars   == <<requests, beats, ticks, failures>>
historyVars == <<answer, handed, late, doubled, lost>>

\* seen: how long ago lastSeen is; "old" is more than two minutes.
EdgeRows == [status : {"OFFLINE", "ONLINE"}, seen : {"never", "fresh", "old"},
             token : Nat, deviceCount : Nat, removed : BOOLEAN]

Results == {"EXECUTED", "FAILED"}
CommandStatuses == {"PENDING", "DELIVERED"} \cup Results
CommandRows == [e : Edges, status : CommandStatuses]

Stages == {"update", "regenerate", "beat", "offline", "count", "sync",
           "deliver", "respond"}

\* copy: the row read; cmds: what a poll found; n: devices counted; left:
\* counts still to be made.
Work == [at : Stages, e : Edges, copy : EdgeRows \cup {None},
         cmds : SUBSET Commands, n : Nat, left : 0..1]

ASSUME EdgeNone ==
  /\ None \notin Edges /\ None \notin CommandRows /\ None \notin Work
  /\ None \notin CommandStatuses

NewWork(stage, e) == [at |-> stage, e |-> e, copy |-> None, cmds |-> {},
                      n |-> 0, left |-> 0]

\* create(), whose token the user hands to the agent.  The tokens of an agent
\* are numbered.
Created == [status |-> "OFFLINE", seen |-> "never", token |-> 1,
            deviceCount |-> 0, removed |-> FALSE]

Init ==
  /\ edge = [e \in Edges |-> Created]
  /\ device = [d \in Devices |-> None]
  /\ command = [c \in Commands |-> None]
  /\ work = [h \in Handlers |-> None]
  /\ token = [e \in Edges |-> 1]
  /\ todo = [e \in Edges |-> {}]
  /\ requests = 0 /\ beats = 0 /\ ticks = 0 /\ failures = 0
  /\ answer = [c \in Commands |-> None]
  /\ handed = [c \in Commands |-> 0]
  /\ late = {} /\ doubled = {} /\ lost = {}
  /\ serial \in BOOLEAN

-----------------------------------------------------------------------------

Listed(e) == ~edge[e].removed

MayFail == ~serial /\ failures < MaxFailures /\ failures' = failures + 1

Idle(h) == /\ work[h] = None
           /\ serial => \A k \in Handlers : work[k] = None

\* A user's request, which handler h takes.
Ask(h) == Idle(h) /\ requests < MaxRequests /\ requests' = requests + 1

Go(h, new) == work' = [work EXCEPT ![h] = new]

End(h) == Go(h, None)

At(h, stage) == work[h] # None /\ work[h].at = stage

\* The copy of e's row that h will save in stage.
Reads(h, stage, e) == Go(h, [NewWork(stage, e) EXCEPT !.copy = edge[e]])

Saves(h, new) == edge' = [edge EXCEPT ![work[h].e] = new] /\ End(h)

-----------------------------------------------------------------------------
(* Instances: update, remove, regenerateToken.                             *)

Update(h, e) ==
  /\ Listed(e) /\ Ask(h) /\ Reads(h, "update", e)
  /\ UNCHANGED <<edge, device, command, agentVars, beats, ticks, failures,
                 historyVars>>

UpdateSave(h) ==
  /\ At(h, "update") /\ Saves(h, work[h].copy)
  /\ UNCHANGED <<device, command, agentVars, boundVars, historyVars>>

\* softRemove writes deletedAt only.
Remove(h, e) ==
  /\ Listed(e) /\ Ask(h)
  /\ edge' = [edge EXCEPT ![e].removed = TRUE]
  /\ UNCHANGED <<device, command, work, agentVars, beats, ticks, failures,
                 historyVars>>

RegenerateToken(h, e) ==
  /\ Listed(e) /\ Ask(h) /\ Reads(h, "regenerate", e)
  /\ UNCHANGED <<edge, device, command, agentVars, beats, ticks, failures,
                 historyVars>>

\* The user hands the new token to the agent.
RegenerateTokenSave(h) ==
  LET e == work[h].e IN
  /\ At(h, "regenerate")
  /\ token' = [token EXCEPT ![e] = @ + 1]
  /\ Saves(h, [work[h].copy EXCEPT !.token = token'[e]])
  /\ UNCHANGED <<device, command, todo, boundVars, historyVars>>

-----------------------------------------------------------------------------
(* heartbeat and detectOfflineEdges.                                       *)

Authenticated(e) == Listed(e) /\ edge[e].token = token[e]

Heartbeat(h, e) ==
  /\ Authenticated(e) /\ Idle(h)
  /\ beats < MaxBeats /\ beats' = beats + 1
  /\ Reads(h, "beat", e)
  /\ UNCHANGED <<edge, device, command, agentVars, requests, ticks, failures,
                 historyVars>>

\* The metrics snapshot and the count for the response change nothing.
HeartbeatSave(h) ==
  /\ At(h, "beat")
  /\ Saves(h, [work[h].copy EXCEPT !.status = "ONLINE", !.seen = "fresh"])
  /\ UNCHANGED <<device, command, agentVars, boundVars, historyVars>>

Silent(e) == Listed(e) /\ edge[e].status = "ONLINE" /\ edge[e].seen = "old"

\* The job's query and its loop, one instance at a time.
DetectOfflineEdges(h) ==
  /\ Idle(h)
  /\ \E e \in Edges : Silent(e) /\ Reads(h, "offline", e)
  /\ UNCHANGED <<edge, device, command, agentVars, boundVars, historyVars>>

\* Mutant: the event is emitted and nothing saved.
DetectOfflineUnsaved(h) ==
  /\ At(h, "offline") /\ End(h)
  /\ UNCHANGED <<edge, device, command, agentVars, boundVars, historyVars>>

DetectOfflineSave(h) ==
  /\ At(h, "offline")
  /\ Saves(h, [work[h].copy EXCEPT !.status = "OFFLINE"])
  /\ UNCHANGED <<device, command, agentVars, boundVars, historyVars>>

Older(row) == IF row.seen = "fresh" THEN [row EXCEPT !.seen = "old"] ELSE row

\* Two minutes pass for every row and copy.
TimePasses ==
  /\ ticks < MaxTicks /\ ticks' = ticks + 1
  /\ edge' = [e \in Edges |-> Older(edge[e])]
  /\ work' = [h \in Handlers |->
       IF work[h] = None \/ work[h].copy = None THEN work[h]
       ELSE [work[h] EXCEPT !.copy = Older(@)]]
  /\ UNCHANGED <<device, command, agentVars, requests, beats, failures,
                 historyVars>>

-----------------------------------------------------------------------------
(* assignDevice and unassignDevice.                                        *)

\* Mutant: a device that moves is counted where it was.
AssignDeviceMoved(h, e, d) ==
  /\ Listed(e) /\ Ask(h)
  /\ device' = [device EXCEPT ![d] = e]
  /\ Go(h, NewWork("count", IF device[d] = None THEN e ELSE device[d]))
  /\ UNCHANGED <<edge, command, agentVars, beats, ticks, failures,
                 historyVars>>

\* The device is saved; when it was on another instance the counting is done
\* twice, for the new instance each time.
AssignDevice(h, e, d) ==
  /\ Listed(e) /\ Ask(h)
  /\ device' = [device EXCEPT ![d] = e]
  /\ Go(h, [NewWork("count", e) EXCEPT !.left =
              IF device[d] \in Edges \ {e} THEN 1 ELSE 0])
  /\ UNCHANGED <<edge, command, agentVars, beats, ticks, failures,
                 historyVars>>

\* edgeId = undefined is skipped by save(): the device stays where it is.
UnassignDevice(h, e, d) ==
  /\ Listed(e) /\ device[d] = e /\ Ask(h)
  /\ Go(h, NewWork("count", e))
  /\ UNCHANGED <<edge, device, command, agentVars, beats, ticks, failures,
                 historyVars>>

DevicesOf(e) == {d \in Devices : device[d] = e}

CountDevices(h) ==
  /\ At(h, "count")
  /\ Go(h, [work[h] EXCEPT !.at = "sync",
                           !.n = Cardinality(DevicesOf(work[h].e))])
  /\ UNCHANGED <<edge, device, command, agentVars, boundVars, historyVars>>

\* One UPDATE of deviceCount.
SyncDeviceCount(h) ==
  /\ At(h, "sync")
  /\ edge' = [edge EXCEPT ![work[h].e].deviceCount = work[h].n]
  /\ IF work[h].left = 0 THEN End(h)
     ELSE Go(h, [work[h] EXCEPT !.at = "count", !.left = @ - 1])
  /\ UNCHANGED <<device, command, agentVars, boundVars, historyVars>>

-----------------------------------------------------------------------------
(* Commands: dispatchCommand, getPendingCommands, ackCommand.              *)

DispatchCommand(h, e, c) ==
  /\ Listed(e) /\ command[c] = None /\ Ask(h)
  /\ command' = [command EXCEPT ![c] = [e |-> e, status |-> "PENDING"]]
  /\ UNCHANGED <<edge, device, work, agentVars, beats, ticks, failures,
                 historyVars>>

\* Mutant: everything that is not finished is offered.
PendingOrDelivered(e) == {c \in Commands :
  /\ command[c] # None /\ command[c].e = e
  /\ command[c].status \in {"PENDING", "DELIVERED"}}

Pending(e) == {c \in Commands :
  command[c] # None /\ command[c].e = e /\ command[c].status = "PENDING"}

\* Commands that a poll has read and not marked yet.
HeldBy(h) == IF At(h, "deliver") THEN work[h].cmds ELSE {}

Held == UNION {HeldBy(h) : h \in Handlers}

GetPendingCommands(h, e) ==
  /\ Authenticated(e) /\ Idle(h)
  /\ Pending(e) # {}
  /\ Go(h, [NewWork("deliver", e) EXCEPT !.cmds = Pending(e)])
  /\ doubled' = doubled \cup (Pending(e) \cap Held)
  /\ UNCHANGED <<edge, device, command, agentVars, boundVars, answer, handed,
                 late, lost>>

\* Mutant: the response is built from what is pending after the UPDATE.
MarkDeliveredRequeried(h) ==
  /\ At(h, "deliver")
  /\ command' = [c \in Commands |->
       IF c \in work[h].cmds THEN [command[c] EXCEPT !.status = "DELIVERED"]
       ELSE command[c]]
  /\ Go(h, [work[h] EXCEPT !.at = "respond", !.cmds = {}])
  /\ UNCHANGED <<edge, device, agentVars, boundVars, historyVars>>

\* One UPDATE of all of them, whatever their status is by now.
MarkDelivered(h) ==
  /\ At(h, "deliver")
  /\ command' = [c \in Commands |->
       IF c \in work[h].cmds THEN [command[c] EXCEPT !.status = "DELIVERED"]
       ELSE command[c]]
  /\ Go(h, [work[h] EXCEPT !.at = "respond"])
  /\ UNCHANGED <<edge, device, agentVars, boundVars, historyVars>>

\* Mutant: the commands of the response are saved as well.
RespondSaving(h) ==
  /\ At(h, "respond")
  /\ LET cmds == work[h].cmds  e == work[h].e IN
       /\ todo' = [todo EXCEPT ![e] = @ \cup cmds]
       /\ handed' = [c \in Commands |->
            handed[c] + (IF c \in cmds THEN 1 ELSE 0)]
       /\ command' = [c \in Commands |->
            IF c \in cmds THEN [command[c] EXCEPT !.status = "DELIVERED"]
            ELSE command[c]]
  /\ End(h)
  /\ UNCHANGED <<edge, device, token, boundVars, answer, late, doubled, lost>>

\* Mutant: the commands of a response that failed are offered again.
RespondPutBack(h) ==
  /\ At(h, "respond")
  /\ LET cmds == work[h].cmds  e == work[h].e IN
       \/ /\ todo' = [todo EXCEPT ![e] = @ \cup cmds]
          /\ handed' = [c \in Commands |->
               handed[c] + (IF c \in cmds THEN 1 ELSE 0)]
          /\ UNCHANGED <<command, failures>>
       \/ /\ MayFail /\ UNCHANGED <<todo, handed>>
          /\ command' = [c \in Commands |->
               IF c \in cmds THEN [command[c] EXCEPT !.status = "PENDING"]
               ELSE command[c]]
  /\ End(h)
  /\ UNCHANGED <<edge, device, token, requests, beats, ticks, answer, late,
                 doubled, lost>>

\* The response arrives, or gets lost.
Respond(h) ==
  /\ At(h, "respond")
  /\ LET cmds == work[h].cmds  e == work[h].e IN
       \/ /\ todo' = [todo EXCEPT ![e] = @ \cup cmds]
          /\ handed' = [c \in Commands |->
               handed[c] + (IF c \in cmds THEN 1 ELSE 0)]
          /\ UNCHANGED <<failures, lost>>
       \/ MayFail /\ lost' = lost \cup cmds /\ UNCHANGED <<todo, handed>>
  /\ End(h)
  /\ UNCHANGED <<edge, device, command, token, requests, beats, ticks, answer,
                 late, doubled>>

\* The agent has carried out c and reports the result.  Commands are never
\* deleted and the status is replaced whatever it was, so what ackCommand
\* reads before it saves decides nothing.
AckCommand(e, c) ==
  /\ Authenticated(e) /\ c \in todo[e]
  /\ \E result \in Results :
       /\ command' = [command EXCEPT ![c].status = result]
       /\ answer' = [answer EXCEPT ![c] = result]
  /\ todo' = [todo EXCEPT ![e] = @ \ {c}]
  /\ late' = IF c \in Held THEN late \cup {c} ELSE late
  /\ UNCHANGED <<edge, device, work, token, boundVars, handed, doubled, lost>>

-----------------------------------------------------------------------------

\* The handler dies: nothing is undone, and no response is sent.
Die(h) ==
  /\ work[h] # None /\ MayFail
  /\ lost' = IF At(h, "respond") THEN lost \cup work[h].cmds ELSE lost
  /\ End(h)
  /\ UNCHANGED <<edge, device, command, agentVars, requests, beats, ticks,
                 answer, handed, late, doubled>>

\* What follows once a handler has begun.
Continue(h) ==
  \/ UpdateSave(h) \/ RegenerateTokenSave(h) \/ HeartbeatSave(h)
  \/ DetectOfflineSave(h) \/ CountDevices(h) \/ SyncDeviceCount(h)
  \/ MarkDelivered(h) \/ Respond(h)

UserStep(h, e) ==
  \/ Update(h, e) \/ Remove(h, e) \/ RegenerateToken(h, e)
  \/ \E d \in Devices : AssignDevice(h, e, d) \/ UnassignDevice(h, e, d)
  \/ \E c \in Commands : DispatchCommand(h, e, c)

Poll == \E h \in Handlers, e \in Edges : GetPendingCommands(h, e)

Report == \E e \in Edges, c \in Commands : AckCommand(e, c)

Job == \E h \in Handlers : DetectOfflineEdges(h)

Next ==
  /\ \/ \E h \in Handlers : \/ Continue(h) \/ Die(h)
                            \/ \E e \in Edges :
                                 UserStep(h, e) \/ Heartbeat(h, e)
     \/ Poll \/ Report \/ Job \/ TimePasses
  /\ UNCHANGED serial

Spec == Init /\ [][Next]_vars

\* Handlers go on, the job is run again and again, and the agent polls and
\* reports as long as its token is accepted.  Nothing is assumed of users, of
\* heartbeats and of the clock.
Fairness ==
  /\ \A h \in Handlers : WF_vars(Continue(h) /\ UNCHANGED serial)
  /\ SF_vars(Poll /\ UNCHANGED serial)
  /\ SF_vars(Report /\ UNCHANGED serial)
  /\ SF_vars(Job /\ UNCHANGED serial)

FairSpec == Spec /\ Fairness

-----------------------------------------------------------------------------
(* Properties.                                                             *)

\* Rows, handlers and agents keep their types.
TypeOK ==
  /\ edge \in [Edges -> EdgeRows]
  /\ device \in [Devices -> Edges \cup {None}]
  /\ command \in [Commands -> CommandRows \cup {None}]
  /\ work \in [Handlers -> Work \cup {None}]
  /\ token \in [Edges -> Nat] /\ todo \in [Edges -> SUBSET Commands]
  /\ requests \in 0..MaxRequests /\ beats \in 0..MaxBeats
  /\ ticks \in 0..MaxTicks /\ failures \in 0..MaxFailures
  /\ answer \in [Commands -> Results \cup {None}]
  /\ handed \in [Commands -> Nat]
  /\ late \cup doubled \cup lost \subseteq Commands
  /\ serial \in BOOLEAN

\* A command whose result the agent has reported is shown with that result,
\* however polls, retries and lost responses interleave with the reports.
\* Exempt is one that was reported while a second poll, which had still read
\* it as pending, was about to mark it.
AnswerStands == \A c \in Commands :
  answer[c] # None /\ c \notin late => command[c].status = answer[c]

\* A restart or a reboot is handed to the agent once, unless two polls
\* overlapped: the agent would carry it out again.
HandedOutOnce == \A c \in Commands : handed[c] <= 1 \/ c \in doubled

\* "Keep deviceCount consistent": as long as requests come one after the
\* other an instance never counts fewer devices than it has.  It may count
\* devices that were assigned elsewhere since, which only its own next
\* assignment corrects.
CountCoversDevices ==
  serial /\ (\A h \in Handlers : work[h] = None) =>
    \A e \in Edges : Listed(e) =>
      edge[e].deviceCount >= Cardinality(DevicesOf(e))

\* An instance that has been silent for two minutes is marked OFFLINE in the
\* end, or heard of, or removed, although updates, token rotations and earlier
\* heartbeats may put ONLINE back from their copies.
SilentGoesOffline == \A e \in Edges : Silent(e) ~> ~Silent(e)

LockedOut(e) == ~Authenticated(e)

\* A command is carried out and reported in the end, unless the response that
\* held it got lost, which nobody repairs, or the agent has lost its access.
CommandsAnswered == \A c \in Commands :
  command[c] # None ~>
    \/ answer[c] # None \/ c \in lost
    \/ command[c] # None /\ LockedOut(command[c].e)

=============================================================================
