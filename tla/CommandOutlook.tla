--------------------------- MODULE CommandOutlook ---------------------------
(***************************************************************************)
(* Device commands as an implementation of CommandLife.  A command is      *)
(* under way in one place at a time: the request that creates it, a        *)
(* message, a timer, or a handler that may still publish it.  Each of      *)
(* these places is a chance to reach the device.                           *)
(***************************************************************************)
EXTENDS DeviceCommands

\* Timers of c in all processes, numbered to tell their copies apart.
Ringing(c, T) ==
  UNION {UNION {{<<p, t, i>> : i \in 1..T[p][t]} :
                  t \in {u \in DOMAIN T[p] : u.msg.id = c}} : p \in Consumers}

TimersOf(c) == Ringing(c, timers)

\* Handlers that may still publish c, or give it up.
Busy == {"findDevice", "sending", "publish", "failed"}

HandlersOf(c) == {p \in Consumers : pc[p] \in Busy /\ held[p].id = c}

BeingCreated(c) == IF c \in creating THEN 1 ELSE 0

Chances(c) == BeingCreated(c) + CopiesOf(c, topic) + Cardinality(TimersOf(c))
                + Cardinality(HandlersOf(c))

Odds == [c \in Commands |-> Chances(c)]

L == INSTANCE CommandLife WITH
  status <- row, later <- scheduled, ripe <- due, chances <- Odds, told <- sent

\* Whatever Kafka, timers, crashes and overlapping handlers make of a command
\* amounts to steps of CommandLife: in particular every publication and every
\* FAILED uses up a chance that was there, and no retry adds one.
ImplementsCommandLife == L!Spec

=============================================================================
