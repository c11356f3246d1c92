------------------------------ MODULE Mailbox ------------------------------
(***************************************************************************)
(* What is promised to whoever leaves a command for an agent, with polls,  *)
(* handlers and rows left out.  A command is marked, then its one response *)
(* arrives or gets lost, then the agent reports a result, which stays.     *)
(*                                                                         *)
(* Only a command that was fetched twice while it was pending, before      *)
(* anybody had marked it, is exempt: it may be handed out again, and its   *)
(* result may be covered by a late mark.  Edge implements this.            *)
(***************************************************************************)
EXTENDS Naturals

CONSTANTS Commands, None

VARIABLES
  status,   \* what the user is shown, None before the command exists
  answer,   \* the result that was reported last
  handed,   \* responses with the command that have arrived
  carried,  \* commands the agent has and has not reported
  lost,     \* commands whose response did not arrive
  doubled,  \* commands fetched twice
  late      \* commands that may be marked although they were reported

mvars == <<status, answer, handed, carried, lost, doubled, late>>

Init ==
  /\ status = [c \in Commands |-> None]
  /\ answer = [c \in Commands |-> None]
  /\ handed = [c \in Commands |-> 0]
  /\ carried = {} /\ lost = {} /\ doubled = {} /\ late = {}

\* No response with c has been sent.
Fresh(c) == handed[c] = 0 /\ c \notin lost

\* The user knows that c is on its way.
Marked(c) == status[c] \notin {None, "PENDING"}

Leave(c) ==
  /\ status[c] = None
  /\ status' = [status EXCEPT ![c] = "PENDING"]
  /\ UNCHANGED <<answer, handed, carried, lost, doubled, late>>

Double(S) ==
  /\ \A c \in S : status[c] = "PENDING"
  /\ doubled' = doubled \cup S
  /\ UNCHANGED <<status, answer, handed, carried, lost, late>>

Mark(S) ==
  /\ \A c \in S : /\ status[c] # None
                  /\ Fresh(c) \/ c \in doubled
                  /\ answer[c] = None \/ c \in late
  /\ status' = [c \in Commands |-> IF c \in S THEN "DELIVERED" ELSE status[c]]
  /\ UNCHANGED <<answer, handed, carried, lost, doubled, late>>

\* The response to a poll, with all of S: it arrives, or gets lost.
Send(S) ==
  /\ \A c \in S : Marked(c) /\ (Fresh(c) \/ c \in doubled)
  /\ \/ /\ handed' = [c \in Commands |->
             handed[c] + (IF c \in S THEN 1 ELSE 0)]
        /\ carried' = carried \cup S
        /\ UNCHANGED lost
     \/ lost' = lost \cup S /\ UNCHANGED <<handed, carried>>
  /\ UNCHANGED <<status, answer, doubled, late>>

Report(c, result) ==
  /\ c \in carried
  /\ status' = [status EXCEPT ![c] = result]
  /\ answer' = [answer EXCEPT ![c] = result]
  /\ carried' = carried \ {c}
  /\ late' = late \/ (c \in doubled /\ late' = late \cup {c})
  /\ UNCHANGED <<handed, lost, doubled>>

Next ==
  \/ \E c \in Commands :
       Leave(c) \/ \E result \in {"EXECUTED", "FAILED"} : Report(c, result)
  \/ \E S \in SUBSET Commands : Double(S) \/ Mark(S) \/ Send(S)

Spec == Init /\ [][Next]_mvars

=============================================================================
