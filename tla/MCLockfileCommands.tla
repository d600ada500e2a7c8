-------------------------- MODULE MCLockfileCommands --------------------------
(***************************************************************************)
(* One tool in two toolsets; compilations that change what it does, its    *)
(* risk or its toolsets; two commands, one of which may be killed.         *)
(***************************************************************************)
EXTENDS LockfileCommands

CONSTANTS p1, p2, t1, read, write, reader, admin

MCProcs == {p1, p2}
MCMayCrash == {p1}
MCTools == {t1}
MCContents == {read, write}
MCToolsets == {reader, admin}
MCScopes == {{}, {reader}}

Compiled(content, risk, toolsets) ==
  [t \in MCTools |-> [content |-> content, risk |-> risk, toolsets |-> toolsets]]

MCManifests ==
  {Compiled(read, 1, {reader, admin}),
   Compiled(write, 0, {reader})}

OneAtATime ==
  /\ ~unlock
  /\ \A p, q \in Procs : pc[p] # "idle" /\ pc[q] # "idle" => p = q
  /\ \A p \in Procs : pc[p] # "dead"

\* Nothing is claimed after a lock was stolen, nor of a server that started torn.
\* Commands contend for the lock, crash and are unlocked as long as there is
\* neither a server nor a review; beside one of the two one command runs at a time,
\* and beside both none.
Bounds ==
  /\ ~stolen /\ ~StartedTorn
  /\ server # Off \/ review # NoReview => OneAtATime
  /\ server # Off /\ review # NoReview => \A p \in Procs : pc[p] = "idle"
=============================================================================
