----------------------------- MODULE KillSwitch -----------------------------
(***************************************************************************)
(* What the KILL pillar promises an operator, without breakers, counters,  *)
(* files or clocks: from the moment a kill is acknowledged until somebody  *)
(* enables the tool, no call of it starts, whatever calls were running and *)
(* however often the server restarts.                                      *)
(***************************************************************************)
CONSTANTS
  Tools,    \* tool identifiers
  Calls,    \* slots for calls in flight
  NoTool    \* content of a free slot

VARIABLES
  blocked,  \* tools whose kill was acknowledged and not lifted since
  running   \* running[c]: the tool the call in slot c is executing

vars == <<blocked, running>>

Init ==
  /\ blocked \in SUBSET Tools
  /\ running = [c \in Calls |-> NoTool]

Start(c, t) ==
  /\ running[c] = NoTool
  /\ t \notin blocked
  /\ running' = [running EXCEPT ![c] = t]
  /\ UNCHANGED blocked

Finish(c) ==
  /\ running[c] # NoTool
  /\ running' = [running EXCEPT ![c] = NoTool]
  /\ UNCHANGED blocked

Kill(t) ==
  /\ blocked' = blocked \cup {t}
  /\ UNCHANGED running

Enable(t) ==
  /\ blocked' = blocked \ {t}
  /\ UNCHANGED running

\* The server process ends: its calls are gone, the kills are not.
Crash ==
  /\ running' = [c \in Calls |-> NoTool]
  /\ UNCHANGED blocked

Next ==
  \/ \E c \in Calls : Finish(c) \/ \E t \in Tools : Start(c, t)
  \/ \E t \in Tools : Kill(t) \/ Enable(t)
  \/ Crash

Spec == Init /\ [][Next]_vars
=============================================================================
