------------------------------- MODULE RootLock -------------------------------
(***************************************************************************)
(* The lock file that mutating commands of one root take: created with     *)
(* O_EXCL, written a moment later, cleared by who read it and then found   *)
(* its owner gone, and removed at the end by path: whoever clears or       *)
(* releases removes the file that is there by then, another's too.         *)
(* `toolwright state unlock` removes it as well.                           *)
(*                                                                         *)
(* A command runs in a process of its own.  A member of Procs runs one     *)
(* after another until one of them crashes.  No pid is used again, and     *)
(* other locks (lock_id) are other files.                                  *)
(***************************************************************************)
CONSTANTS
  Procs,      \* where commands run that contend for the lock
  MayCrash,   \* those that may be killed while they use it
  Unlocking   \* whether operators run `state unlock`

ASSUME RootLockAssumption ==
  /\ MayCrash \subseteq Procs
  /\ Unlocking \in BOOLEAN

VARIABLES
  lock,     \* the file: its owner, and whether the owner wrote it yet
  pc,       \* what a command does next
  seen,     \* seen[p]: the process whose pid the command p has read in the file
  unlock,   \* an unlock read the file and is about to remove it
  stolen    \* history: the lock of a live command was removed by another

lockVars == <<lock, pc, seen, unlock, stolen>>

NoLock == [owner |-> "none"]
LockFile == [owner : Procs, written : BOOLEAN]

Inside == {"created", "holding"}

\* seen: no pid was read, and the pid of a process that has ended since.
Nobody == "nobody"
Gone == "gone"

LockTypeOK ==
  /\ lock \in LockFile \cup {NoLock}
  /\ pc \in [Procs -> {"idle", "looking", "clearing", "retrying", "dead"} \cup Inside]
  /\ seen \in [Procs -> Procs \cup {Nobody, Gone}]
  /\ unlock \in BOOLEAN
  /\ stolen \in BOOLEAN

LockInit ==
  /\ lock = NoLock
  /\ pc = [p \in Procs |-> "idle"]
  /\ seen = [p \in Procs |-> Nobody]
  /\ unlock = FALSE
  /\ stolen = FALSE

Goto(p, step) == pc' = [pc EXCEPT ![p] = step]

\* The command of p is over, and its process.  Who has read its pid holds that of
\* a process that is gone, whoever comes next.
Ends(p) ==
  seen' = [q \in Procs |-> IF q = p THEN Nobody
                           ELSE IF seen[q] = p THEN Gone ELSE seen[q]]

\* The file there belongs to a command that still relies on it.
OwnerInside(others) ==
  lock # NoLock /\ lock.owner \in others /\ pc[lock.owner] \in Inside

\* unlink(missing_ok=True): by path, so it may remove another's file.
Unlink(others) ==
  /\ lock' = NoLock
  /\ stolen' = (stolen \/ OwnerInside(others))

----------------------------------------------------------------------------
\* A mistake: the file is opened without O_EXCL and replaced.
CreateOver(p) ==
  /\ pc[p] = "idle"
  /\ lock' = [owner |-> p, written |-> FALSE]
  /\ Goto(p, "created")
  /\ UNCHANGED <<seen, unlock, stolen>>

\* os.open(O_CREAT | O_EXCL) finds no file.
Create(p) ==
  /\ pc[p] = "idle" /\ lock = NoLock
  /\ lock' = [owner |-> p, written |-> FALSE]
  /\ Goto(p, "created")
  /\ UNCHANGED <<seen, unlock, stolen>>

\* It finds one and reads the pid in it.  A file that cannot be read, as before
\* its owner has written it, is refused: the command ends.
Look(p) ==
  /\ pc[p] = "idle" /\ lock # NoLock /\ lock.written
  /\ seen' = [seen EXCEPT ![p] = IF pc[lock.owner] = "dead" THEN Gone ELSE lock.owner]
  /\ Goto(p, "looking")
  /\ UNCHANGED <<lock, unlock, stolen>>

\* Then it asks whether that process lives: if so it is refused, and if not it
\* is going to clear the lock.
Judge(p) ==
  /\ pc[p] = "looking"
  /\ Goto(p, IF seen[p] = Gone THEN "clearing" ELSE "idle")
  /\ seen' = [seen EXCEPT ![p] = Nobody]
  /\ UNCHANGED <<lock, unlock, stolen>>

\* Whatever is there by now is removed.
ClearStale(p) ==
  /\ pc[p] = "clearing"
  /\ Unlink(Procs \ {p})
  /\ Goto(p, "retrying")
  /\ UNCHANGED <<seen, unlock>>

\* One more try; a file that is there again is refused.
Retry(p) ==
  /\ pc[p] = "retrying"
  /\ IF lock = NoLock
       THEN lock' = [owner |-> p, written |-> FALSE] /\ Goto(p, "created")
       ELSE lock' = lock /\ Goto(p, "idle")
  /\ UNCHANGED <<seen, unlock, stolen>>

\* os.write goes to the file that was opened, which may be unlinked by now.
WriteInfo(p) ==
  /\ pc[p] = "created"
  /\ lock' = IF lock # NoLock /\ lock.owner = p
               THEN [lock EXCEPT !.written = TRUE] ELSE lock
  /\ Goto(p, "holding")
  /\ UNCHANGED <<seen, unlock, stolen>>

\* The finally clause, after the command or an exception in it.
Release(p) ==
  /\ pc[p] = "holding"
  /\ Unlink(Procs \ {p})
  /\ Goto(p, "idle")
  /\ Ends(p)
  /\ UNCHANGED unlock

\* SIGKILL, power loss: no finally clause runs.
Crash(p) ==
  /\ p \in MayCrash /\ pc[p] \notin {"idle", "dead"}
  /\ Goto(p, "dead")
  /\ Ends(p)
  /\ UNCHANGED <<lock, unlock, stolen>>

\* clear_root_lock finds a file.  With --force it goes on whatever it reads there;
\* without, if it cannot read it or finds its owner gone by then.
BeginUnlock ==
  /\ Unlocking /\ ~unlock /\ lock # NoLock
  /\ unlock' = TRUE
  /\ UNCHANGED <<lock, pc, seen, stolen>>

EndUnlock ==
  /\ unlock
  /\ Unlink(Procs)
  /\ unlock' = FALSE
  /\ UNCHANGED <<pc, seen>>

LockStep(p) ==
  \/ Create(p) \/ Look(p) \/ Judge(p) \/ ClearStale(p) \/ Retry(p)
  \/ WriteInfo(p) \/ Release(p) \/ Crash(p)

LockNext == (\E p \in Procs : LockStep(p)) \/ BeginUnlock \/ EndUnlock

LockSpec == LockInit /\ [][LockNext]_lockVars

----------------------------------------------------------------------------
\* Two commands believe that they have the lock only if an unlink by path removed
\* the lock of a live one before: neither creation, nor a release, nor a crash
\* gives it to a second one.
Exclusive ==
  ~stolen => \A p, q \in Procs : pc[p] \in Inside /\ pc[q] \in Inside => p = q

\* utils/locks.py:106: "Acquire an exclusive lock under <root>/state/lock for
\* mutating commands."  No two commands are inside, whatever was removed.
NeverTwoInside ==
  \A p, q \in Procs : pc[p] \in Inside /\ pc[q] \in Inside => p = q
=============================================================================
