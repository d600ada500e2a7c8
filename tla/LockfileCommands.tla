--------------------------- MODULE LockfileCommands ---------------------------
(***************************************************************************)
(* Who reads and writes the lockfile: commands (compile, gate sync, allow, *)
(* block, resign), one at a time under the root lock; `gate allow` without *)
(* arguments, which asks its user about each tool and takes no lock; a     *)
(* server, which loads it when it starts and again when its mtime changes; *)
(* and the console of the server, which changes the server's copy and      *)
(* saves it, without the lock and without another look at the file.        *)
(*                                                                         *)
(* A digest of the artifacts stands for what it is computed from, here the *)
(* manifest with its toolsets.  Saving is one step or fails as a whole.    *)
(* The manifest is written by compile, under the lock, and by nothing else.*)
(***************************************************************************)
EXTENDS Lockfile, RootLock

CONSTANTS
  Tools,
  Manifests,  \* what a compilation may produce
  Scopes      \* the toolset options that are used, {} for none

\* The digest of a lockfile that no sync has written yet.
NoDigest == [content |-> "none"]

ASSUME LockfileCommandsAssumption ==
  /\ NoDigest \notin Manifests
  /\ Manifests \subseteq [Tools -> Action]
  /\ Scopes \subseteq SUBSET Toolsets

VARIABLES
  manifest,  \* tools.json and toolsets.yaml
  file,      \* toolwright.lock.yaml
  work,      \* work[p]: what the command p read
  review,    \* what an interactive review read
  server,    \* the server and its copies
  mtime,     \* the file is not the version the server loaded last
  items,     \* the work items of the tools in the console
  reviewed   \* history: contents and risks that an operator approved

fileVars == <<manifest, file, work, review, server, mtime, items, reviewed>>
vars == <<fileVars, lockVars>>

File == [tools : [Tools -> Entry \cup {NoEntry}], digest : Manifests \cup {NoDigest}]

\* overtaken: the file was saved without the lock since the command read it.
Work == [manifest : Manifests, file : File, overtaken : BOOLEAN]
Nothing == [overtaken |-> FALSE]

NoReview == [digest |-> "no review"]

\* A server has read the manifest, then the lockfile, and then computed the
\* digest of the artifacts: from there on it answers.
Begun == [phase : {"begun"}, scope : Scopes, manifest : Manifests]
Filtered == [phase : {"filtered"}, scope : Scopes, manifest : Manifests,
             file : File, exposed : SUBSET Tools]
Server == [phase : {"running"}, scope : Scopes, manifest : Manifests,
           file : File, exposed : SUBSET Tools, digest : Manifests]
Off == [phase |-> "off"]

Running == server.phase = "running"

TypeOK ==
  /\ LockTypeOK
  /\ manifest \in Manifests
  /\ file \in File
  /\ work \in [Procs -> Work \cup {Nothing}]
  /\ review \in File \cup {NoReview}
  /\ server \in {Off} \cup Begun \cup Filtered \cup Server
  /\ mtime \in BOOLEAN
  /\ items \in [Tools -> {"none", "open", "approved", "denied"}]
  /\ reviewed \in SUBSET [tool : Tools, content : Contents, risk : Nat]
  /\ \A p \in Procs : work[p] # Nothing => pc[p] = "holding"
  /\ \A t \in Tools : file.tools[t] = NoEntry \/
                       file.tools[t].approved \subseteq file.tools[t].toolsets

Init ==
  /\ LockInit
  /\ manifest \in Manifests
  /\ file = [tools |-> [t \in Tools |-> NoEntry], digest |-> NoDigest]
  /\ work = [p \in Procs |-> Nothing]
  /\ review = NoReview
  /\ server = Off
  /\ mtime = FALSE
  /\ items = [t \in Tools |-> "none"]
  /\ reviewed = {}

Review(t, e) == reviewed \cup {[tool |-> t, content |-> e.content, risk |-> e.risk]}

----------------------------------------------------------------------------
(* Commands, under the lock.                                               *)

\* compile writes the artifacts and goes on with a sync.
Compile(p, m) ==
  /\ pc[p] = "holding" /\ work[p] = Nothing /\ m # manifest
  /\ manifest' = m
  /\ UNCHANGED <<file, work, review, server, mtime, items, reviewed, lockVars>>

\* Every command loads the lockfile; sync has read the manifest before.
Load(p) ==
  /\ pc[p] = "holding" /\ work[p] = Nothing
  /\ work' = [work EXCEPT ![p] = [manifest |-> manifest, file |-> file,
                                  overtaken |-> FALSE]]
  /\ UNCHANGED <<manifest, file, review, server, mtime, items, reviewed, lockVars>>

\* atomic_write_text.  The command may load and save once more: allow does, for
\* the snapshot it takes when nothing is pending.
SaveFile(p, new) ==
  /\ file' = new
  /\ mtime' = TRUE
  /\ work' = [work EXCEPT ![p] = Nothing]
  /\ UNCHANGED <<manifest, review, server, items, lockVars>>

Loaded(p) == pc[p] = "holding" /\ work[p] # Nothing

\* sync_lockfile computes the digest from the artifacts as they are by now.
Sync(p) ==
  /\ Loaded(p)
  /\ SaveFile(p, [tools  |-> [t \in Tools |->
                    SyncEntry(work[p].file.tools[t], work[p].manifest[t])],
                  digest |-> manifest])
  /\ UNCHANGED reviewed

\* gate allow of one tool, blocked ones included.
Allow(p, t, scope) ==
  LET e == work[p].file.tools[t] IN
  /\ Loaded(p) /\ CanApprove(e, scope)
  /\ SaveFile(p, [work[p].file EXCEPT !.tools[t] = Approve(e, scope)])
  /\ reviewed' = Review(t, e)

ApproveAll(tools, chosen, scope) ==
  [t \in Tools |-> IF t \in chosen THEN Approve(tools[t], scope) ELSE tools[t]]

ReviewAll(tools, chosen) ==
  reviewed \cup
    {[tool |-> t, content |-> tools[t].content, risk |-> tools[t].risk] : t \in chosen}

\* gate allow --all, which refuses as long as a tool is blocked.
AllowAll(p, scope) ==
  LET tools == work[p].file.tools
      chosen == {t \in Tools : Pending(tools[t], scope)}
  IN
  /\ Loaded(p)
  /\ chosen # {} /\ \A t \in Tools : tools[t].status # "rejected"
  /\ SaveFile(p, [work[p].file EXCEPT !.tools = ApproveAll(tools, chosen, scope)])
  /\ reviewed' = ReviewAll(tools, chosen)

Block(p, t) ==
  LET e == work[p].file.tools[t] IN
  /\ Loaded(p) /\ e # NoEntry
  /\ SaveFile(p, [work[p].file EXCEPT !.tools[t] = Reject(e)])
  /\ UNCHANGED reviewed

ResignAll(p, scope) ==
  LET tools == work[p].file.tools IN
  /\ Loaded(p)
  /\ SaveFile(p, [work[p].file EXCEPT !.tools =
                    [t \in Tools |-> IF tools[t] = NoEntry THEN NoEntry
                                     ELSE Resign(tools[t], scope)]])
  /\ UNCHANGED reviewed

\* The lock's own steps.  A command may end without a save, and a crash takes
\* what it read with it.
LockSteps(p) ==
  /\ LockStep(p)
  /\ work' = [work EXCEPT ![p] = Nothing]
  /\ UNCHANGED <<manifest, file, review, server, mtime, items, reviewed>>

Unlocks ==
  /\ BeginUnlock \/ EndUnlock
  /\ UNCHANGED fileVars

----------------------------------------------------------------------------
(* `gate allow` without arguments, on a terminal: no lock.                 *)

\* What commands have read is no longer what is there.
Overtake ==
  work' = [p \in Procs |-> IF work[p] = Nothing THEN Nothing
                           ELSE [work[p] EXCEPT !.overtaken = TRUE]]

\* When its user has decided, the lockfile is loaded once more.  Whatever became
\* of the review before is forgotten: it failed, or its user gave it up.
ReviewLoad ==
  /\ file.digest # NoDigest
  /\ review' = file
  /\ UNCHANGED <<manifest, file, work, server, mtime, items, reviewed, lockVars>>

ReviewSave(new) ==
  /\ file' = new
  /\ mtime' = TRUE
  /\ review' = NoReview
  /\ Overtake
  /\ UNCHANGED <<manifest, server, items, lockVars>>

\* run_gate_approve: of the tools the user named, those still pending.
ReviewAllow(chosen) ==
  /\ review # NoReview
  /\ \A t \in chosen : review.tools[t].status = "pending"
  /\ ReviewSave([review EXCEPT !.tools = ApproveAll(review.tools, chosen, {})])
  /\ reviewed' = ReviewAll(review.tools, chosen)

\* run_gate_reject of a tool, whatever its status.
ReviewBlock(t) ==
  /\ review # NoReview /\ review.tools[t] # NoEntry
  /\ ReviewSave([review EXCEPT !.tools[t] = Reject(review.tools[t])])
  /\ UNCHANGED reviewed

----------------------------------------------------------------------------
(* The server and its console.                                             *)

\* The manifest and the toolsets are read.
StartManifest(scope) ==
  /\ server = Off
  /\ server' = [phase |-> "begun", scope |-> scope, manifest |-> manifest]
  /\ UNCHANGED <<manifest, file, work, review, mtime, items, reviewed, lockVars>>

\* Then the lockfile, which has to be there.  The approved tools of the scope are
\* listed; if one of a toolset is not among them, the server does not start.
StartLockfile ==
  LET inScope == {t \in Tools : server.scope \subseteq server.manifest[t].toolsets}
      listed == {t \in inScope : Exposed(file.tools[t], server.scope)}
  IN
  /\ server.phase = "begun" /\ file.digest # NoDigest
  /\ server.scope # {} => listed = inScope
  /\ server' = [phase |-> "filtered", scope |-> server.scope,
                manifest |-> server.manifest, file |-> file, exposed |-> listed]
  /\ mtime' = FALSE
  /\ UNCHANGED <<manifest, file, work, review, items, reviewed, lockVars>>

\* The digest is computed from the artifacts, which are read again, and a work
\* item is opened for each tool that is pending.  The mtime was taken some time
\* after the lockfile was read: a save in between counts as read.
StartDigest ==
  /\ server.phase = "filtered"
  /\ server' = [phase |-> "running", scope |-> server.scope,
                manifest |-> server.manifest, file |-> server.file,
                exposed |-> server.exposed, digest |-> manifest]
  /\ mtime' \in {mtime, FALSE}
  /\ items' = [t \in Tools |-> IF server.file.tools[t].status = "pending" THEN "open"
                                                                      ELSE items[t]]
  /\ UNCHANGED <<manifest, file, work, review, reviewed, lockVars>>

Stop ==
  /\ server # Off
  /\ server' = Off
  /\ UNCHANGED <<manifest, file, work, review, mtime, items, reviewed, lockVars>>

\* maybe_reload_lockfile, before a call.  If the file cannot be read the copy
\* stays.  Neither the manifest nor what is exposed is looked at again.
Reload ==
  /\ Running /\ mtime
  /\ server' = [server EXCEPT !.file = file]
  /\ mtime' = FALSE
  /\ UNCHANGED <<manifest, file, work, review, items, reviewed, lockVars>>

\* A console request changes the server's copy, then saves all of it.  If that
\* fails the request does too, and the copy stays changed.
ConsoleSave(t, e, status) ==
  LET new == [server.file EXCEPT !.tools[t] = e] IN
  /\ server' = [server EXCEPT !.file = new]
  /\ \/ /\ file' = new /\ mtime' = TRUE
        /\ Overtake
        /\ items' = [items EXCEPT ![t] = status]
     \/ UNCHANGED <<file, mtime, work, items>>
  /\ UNCHANGED <<manifest, review, lockVars>>

ConsoleAllow(t) ==
  /\ Running /\ items[t] = "open"
  /\ LET e == server.file.tools[t] IN
       IF e = NoEntry   \* approve's FALSE is not looked at
         THEN ConsoleSave(t, e, "approved") /\ UNCHANGED reviewed
         ELSE ConsoleSave(t, Approve(e, {}), "approved") /\ reviewed' = Review(t, e)

ConsoleBlock(t) ==
  /\ Running /\ items[t] = "open"
  /\ LET e == server.file.tools[t] IN
       ConsoleSave(t, IF e = NoEntry THEN e ELSE Reject(e), "denied")
  /\ UNCHANGED reviewed

----------------------------------------------------------------------------
Command(p) ==
  \/ \E m \in Manifests : Compile(p, m)
  \/ Load(p) \/ Sync(p)
  \/ \E scope \in Scopes : \/ \E t \in Tools : Allow(p, t, scope)
                           \/ AllowAll(p, scope) \/ ResignAll(p, scope)
  \/ \E t \in Tools : Block(p, t)
  \/ LockSteps(p)

Next ==
  \/ \E p \in Procs : Command(p)
  \/ Unlocks
  \/ ReviewLoad \/ \E t \in Tools : ReviewBlock(t)
  \/ \E chosen \in SUBSET Tools : ReviewAllow(chosen)
  \/ \E scope \in Scopes : StartManifest(scope)
  \/ StartLockfile \/ StartDigest \/ Stop \/ Reload
  \/ \E t \in Tools : ConsoleAllow(t) \/ ConsoleBlock(t)

Spec == Init /\ [][Next]_vars

----------------------------------------------------------------------------
\* The decision engine of a running server lets a call of t through: the
\* digest of its artifacts is the lockfile's, and its copy approves the tool.
Serves(t) ==
  /\ Running /\ t \in server.exposed
  /\ server.file.digest = server.digest
  /\ ApprovedFor(server.file.tools[t], server.scope)

\* The artifacts were compiled while the server started: it serves those it read
\* first under the digest of those it read last.
StartedTorn == Running /\ server.digest # server.manifest

\* docs/confidence-kit/INVARIANTS.md:7 and :11, whatever is compiled, synced,
\* signed again, reloaded, reviewed and saved meanwhile: what a server executes
\* for t is what some approval was given for, at a risk no lower than the one it
\* has now.  Nothing of the kind holds of a server that started torn.
ServedAsReviewed ==
  ~stolen /\ ~StartedTorn =>
    \A t \in Tools : Serves(t) =>
      \E r \in reviewed : /\ r.tool = t
                          /\ r.content = server.manifest[t].content
                          /\ r.risk >= server.manifest[t].risk

\* No decision of a command under the lock is lost to another one: what one
\* replaces is what it read, unless the console or an interactive review, which
\* take no lock, saved the file in between, or the lock was stolen.  Those two
\* replace what they have not read.
CommandsKeepUpdates ==
  [][\A p \in Procs :
       work[p] # Nothing /\ work'[p] = Nothing /\ file' # file =>
         file = work[p].file \/ work[p].overtaken \/ stolen]_vars

\* INVARIANTS.md:21: when `gate check` passes for the whole lockfile, an
\* approval is there for each toolset of the tool and for none, and a server
\* that starts now exposes it to each of them.
CheckedIsServed ==
  \A t \in Tools :
    LET e == file.tools[t] IN
    e # NoEntry /\ GatePasses(e, {}) =>
      \A scope \in {{}} \cup {{s} : s \in e.toolsets} :
        ApprovedFor(e, scope) /\ Exposed(e, scope)
=============================================================================
