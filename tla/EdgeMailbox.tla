---------------------------- MODULE EdgeMailbox ----------------------------
(***************************************************************************)
(* The commands of all edge instances as an implementation of Mailbox.     *)
(* Rows and the agents' lists are what the user and the agent see; polls   *)
(* that have read commands and not answered are hidden.                    *)
(***************************************************************************)
EXTENDS Edge

StatusOf(c) == IF command[c] = None THEN None ELSE command[c].status

Shown == [c \in Commands |-> StatusOf(c)]

Carried == UNION {todo[e] : e \in Edges}

M == INSTANCE Mailbox WITH status <- Shown, carried <- Carried

\* However polls and reports of several agents, dying handlers and lost
\* responses interleave, they are steps of Mailbox: in particular a response
\* that may have got lost is not sent again, and a result is covered only
\* where two polls had overlapped before anything was marked.
ImplementsMailbox == M!Spec

=============================================================================
