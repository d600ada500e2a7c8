# Toolwright in TLA+

Toolwright stands between AI agents and APIs.  It compiles captured traffic
into tools, records in a lockfile which of them an operator approved, and
serves them behind a governance pipeline that confirms, checks rules, trips
circuit breakers, and lets operators kill a tool.  What can go wrong in it is a
matter of order: calls in flight while a breaker trips, a kill while a result
is on its way, two processes with one file, a token granted, denied and used at
once.  These modules state what must hold then, and check it.

Paths below are relative to the repository; `core/...`, `cli/...`, `mcp/...`
are directories of `toolwright/`.

## Inventory

| Component | Its state | Its operations | What makes it correct |
|---|---|---|---|
| Circuit breakers, `core/kill/breaker.py` | a breaker per tool, in memory and in `breakers.json` | `should_allow`, `record_success`, `record_failure`, `kill_tool`, `enable_tool`, load, save | trips and recovers on the stated streaks; a kill lasts until it is lifted; memory and file agree |
| Governance pipeline, `core/governance/engine.py`, `runtime.py` | the calls in flight, the lockfile digest | decide, confirm, rules, breaker, dry run, execute, record | a refused call has no effect; every result is recorded once |
| Decision engine and enforcer, `core/enforce/` | budgets and rate windows | `evaluate`, `consume_budget` | deny by default; a confirmation is bound to its request |
| Confirmation store, `core/enforce/confirmation_store.py` | a SQLite table of tokens | create, grant, deny, list, consume | a token is used once, as granted, in time |
| Work items and console, `core/governance/actions.py`, `event_store.py`, `mcp/http_transport.py` | work items in memory and one file each; event ring, subscriber queues | publish, resolve, act, expire | an item's status says what was done; acting twice is acting once |
| Reconcile loop, `core/reconcile/` | state per tool, snapshots | probe, classify, drift, repair, snapshot, roll back | probes back off and resume; repairs stay within their policy |
| Lockfile, `core/approval/` | approval status per tool and toolset, signatures | sync, approve, reject, verify | nothing that changed keeps an approval |
| Rules and session history, `core/correct/` | rules file, the calls of a session | load, save, evaluate, record | a prohibited call is never let through |
| Command lock, `utils/locks.py`; atomic writes, `utils/files.py` | lock files; `.tmp` files | acquire, release, clear; write | one holder; a reader sees a whole file |
| kill, enable, inspect, `cli/commands_kill.py`, `mcp/meta_server.py` | a registry per process | kill, enable, diagnose | what they report done is done |
| Drift, `core/drift/` | baselines of responses, in memory and on file | probe, infer, diff, merge, report, save | only safe changes are learned; what is learned or reported is not lost |
| Repair, transports, overlay, capture, compile, verify, UI | see PROJECT.json | | not modelled |

How they interact.  One server process owns a registry of breakers.  The
pipeline (`should_allow`, then an awaited request, then `record_*`), the
reconcile loop (`record_*` after its probes, stdio transport only) and the
console (`kill_tool`, `enable_tool`, HTTP transport only) share it on one
asyncio event loop: a method of the registry is atomic, the pipeline is not.
`toolwright kill`, `enable` and `inspect` are other processes with registries of
their own and the same file.  Confirmation tokens are created and consumed by
the pipeline and granted or denied by `toolwright confirm`, in another process,
or by the console.

The lockfile has four kinds of users: commands, which run one at a time under the
root lock of the repository; `toolwright gate allow` without arguments on a
terminal, which asks its user about each tool and takes no lock; the server, which
only reads it; and the console of the server, which changes the server's copy and
saves that, without the lock.  The rules file is written by commands in place and
by the console, and read by the pipeline when its mtime changes.  Whatever else is
kept in a file goes through `atomic_write_text`.
Baselines of responses belong to one server with `--watch`.

The behaviours that are hard to test, each at its line, are the "hazards" of
PROJECT.json, with the property that covers each, or the reason none does.

## Modules

| Module | Models |
|---|---|
| `KillSwitch` | abstract: what KILL promises an operator |
| `Breaker` | the fields of one breaker and what each registry method does to them; no state |
| `CircuitBreaker` | one server: registry, file, calls in flight, probes, console, disk faults, crashes |
| `BreakerObserved` | `CircuitBreaker` with the calls that probe, to compare with the documents |
| `BreakerProcesses` | the processes that share `breakers.json`, a registry each |
| `ApprovalToken` | abstract: what a confirmation token promises |
| `ConfirmationStore` | the table of tokens and the concurrent calls of the store |
| `RootLock` | the lock file of the commands: exclusive creation, the look at a lock and the later test of its owner, stale and unreadable locks, release by path, `state unlock` |
| `Lockfile` | the entry of one tool and what sync, approve, reject, resign, the gate and the servers make of it; no state |
| `LockfileCommands` | `Lockfile` under `RootLock`: commands, interactive review, server, console and their copies of one lockfile |
| `Policy` | the policy engine: priorities, budgets, confirmations; no state |
| `SessionRules` | the behavioural rules over a session history; no state |
| `Pipeline` | concurrent calls through `Policy`, confirmation, `SessionRules` and breaker, with reloads and edits of their files |
| `Shapes` | baselines of responses: inference, merge, diff; no state |
| `ShapeDrift` | the probe loop and the drift handler over `Shapes` |
| `SavedFile` | abstract: what a state file promises |
| `AtomicWrite` | `atomic_write_text` call by call, with loads and power losses |
| `MC...` | instances for TLC |
| `...Proofs` | theorems of the module of that name |

A definition named like a correct one with a few words appended
(`RecordFailureLate`) and commented "A mistake" is no part of the model: it is the
plausible bug with which the checks are tried out, to see that the property
fails.

### Breaker and CircuitBreaker

A breaker is the record of the fields of `ToolCircuitBreaker` that decide
anything: state, failure and success counts, the override, and the age of
`last_failure_time`.  Ages stop at the recovery timeout.  The wall clock only
moves forward here; `time.time()` could jump.  Names, errors and reasons are
left out.

| Code | Action |
|---|---|
| stage 5 of `GovernanceEngine.execute`, no change of state | `Admit` |
| the same, OPEN to HALF_OPEN, which is saved | `AdmitProbing` |
| `_execute_and_process`, the upstream answered | `Respond` |
| the same, an exception | `Fail` |
| the task is cancelled while it awaits | `Cancel` |
| `_process_probe_result` | `ProbeHealthy`, `ProbeUnhealthy` |
| `publish_work_item` of an item about the tool | `Publish` |
| `handle_kill_tool`, `handle_enable_tool` | `Kill`, `Enable` |
| `handle_rule_dismiss`, `handle_repair_dismiss` and the like, for an item of the tool | `ResolveElsewhere` |
| end and start of the process | `Crash`, `Restart` |
| the state directory refuses or accepts writes | `DiskFault` |

Every save writes the whole registry.  When it raises, memory keeps the change:
`Respond` then also records a failure, because the except branch of the pipeline
catches the exception of the save, and a console request answers 500.  A fault
lasts for a whole step: a handler whose first write succeeds and second fails is
not modelled, nor is a kill or an enable from the command line between two runs of
the server (that is in `BreakerProcesses`).  Calls that are refused change nothing
and are no steps.

The keys of the registry come from two sides.  Calls ask for `tool_id` or
`signature_id` of an action (`Called`), probes record under its name (`Probed`,
core/health/checker.py:91).  In manifests that Toolwright compiles the two have no
key in common, and the run has them so; in manifests written by hand without ids
they are the same, and the theorems hold for both.  The console comes with HTTP
and the loop with stdio and `--watch`: a server has one of the two (`transport`).

A tool has one work item here, in memory and in its file.  `Publish` stands for
whatever leaves it open.  The handlers do not look at the kind of an item, so those
of pending tools, which a server publishes when it starts, reach them; items of
tripped breakers would too.  For the same reason the handlers of rules and repairs
may dismiss the item without a kill (`ResolveElsewhere`), after which a request to
kill the tool is answered ok from the status of the item alone.  Such an answer is
no step and no kill: `killAcked`, and with it `AckedKillRecorded` and the refinement
of `KillSwitch`, are about the kills that reached the registry, and the run
`console_kill` shows the others.

The variables `killAcked`, `hist`, `savedHist` are history.  They record what an
operator was told and the streaks of results, and no action reads them in a
guard.

### BreakerProcesses

Each process loads the file when it starts and never again.  `CallKey` and
`CliKey` map a tool to the key the pipeline uses and to the one an operator
types: compiled manifests use a signature for the first (`core/compile/tools.py`),
tools of an overlay their name.  `Offline` says that operators stop the server
first and run one command at a time.  Nothing in the code makes them do so.

### ConfirmationStore

The lock of the store is one of threads, so between processes the atomic step is
one SQL statement: a consumption is `BeginConsume` (the clock is read), `Select`
or `Refuse`, and `Use`, the conditional UPDATE.  A grant reads the clock, then
updates.  `Deny` and `ListPending` are single statements, the latter with a clock
value from any time in the past.  `Abandon` ends a call between its steps: a
crash, or "database is locked" after 30 s.

### RootLock and LockfileCommands

`RootLock` has one action per system call of `utils/locks.py`: `Create`
(`O_EXCL`), `WriteInfo`, `Look` (the pid in the lock is read), `Judge` (does that
process live?), `ClearStale` (the unlink), each with time for others between,
`Retry`, `Release`, which unlinks by path, `Crash`, and the two steps of `state
unlock`.  `seen` is what `Look` found; when a command ends, its process does, and
who has seen its pid holds that of a process that is gone.  `stolen` is history: an
unlink by path hit the lock of a live command.  It happens when somebody clears a
lock whose owner lives; when two commands find the same stale lock; and, with three
commands, when none has died: one reads the lock of a second, which ends, and then
unlinks the lock of a third (run `root_lock_theft`).  Nothing is claimed of the
lockfile after it.  Without `state unlock` (`Unlocking = FALSE`) all commands come to
a stop once a command dies between creating and writing its lock.

`LockfileCommands` adds the lockfile.  A command is `Load` and then one of `Sync`,
`Allow`, `AllowAll`, `Block`, `ResignAll`, each of which computes a new file from
what was loaded and saves it.  `Compile` writes manifests; the code goes on with a
sync, the model with any command.
`gate allow` on a terminal is `ReviewLoad`, when its user has decided, and then
`ReviewAllow` or `ReviewBlock`, with what was loaded and without the lock
(ui/ops.py:204-280).  `review` is what it loaded.  The tools its user chose are
approved as they are then, which need not be what was shown.

A server starts in three steps, as it reads the manifest (`StartManifest`), the
lockfile (`StartLockfile`) and the artifacts once more for their digest
(`StartDigest`).  If a compilation came in between, the digest is not that of the
manifest it serves (`StartedTorn`), and with a lockfile of the later artifacts it may
serve what nobody approved.  Reading `tools.json` and reading `toolsets.yaml` are one
step here, as are their writes by `compile`.  The mtime is taken some time after the
lockfile was read, so that a save may be missed.  The server `Reload`s when `mtime`
says so.  `ConsoleAllow` and `ConsoleBlock` change the server's copy and save it, or
fail to save it and leave the copy changed.  A digest is the manifest it was computed
from, a signature the record of what it binds.  Left out: `--include-rejected`, tools
that leave the manifest, snapshots, and the approvals that `smart_gate` gives when
`mint` and `create` compile.  A server without a digest (the overlay) answers every
state-changing call with an internal error and has no action here.

Two things are as the code has them and easily taken for slips of the model.  A
changed signature reopens an entry but keeps its approved toolsets, so approving
the tool again for one toolset signs the others along.  And a console that failed
to save may write out its old copy later, or an interactive review what it loaded,
over what commands have saved since: `CommandsKeepUpdates` speaks of commands under
the lock only, and says so (`overtaken`).

### Policy, SessionRules, Pipeline

`GovernanceEngine.execute` runs without an await until the request to the
upstream, so `Deny`, `Challenge`, `Stop` and `Execute` are single steps that decide
everything at once, in the code's order: lockfile, policy with budgets, token,
rules after their hot reload, breaker, dry run.  Token and budget are spent before
the rules and the breaker are asked (`Stop`).  `Respond` and `Fail` end a call.
Around them: `Grant`, `Refuse`, `ReloadLockfile`, `BeginWrite` and `EndWrite` for a
rules file that is empty in between, `ConsoleRules`, `Tick`.  The breaker refuses
whenever it likes (`Trips`), its own behaviour being that of `CircuitBreaker`.

As the code has it: budget windows start with the first look after the last one
ran out, so that twice the limit may fall into one window's length; a rate counts
recorded calls, so that calls in flight may overrun it; a confirm rule behind a
budget rule is not asked; and the console saves its rules over what the command
line wrote.  Two of these are what `BudgetHolds` and `RateHolds` give bounds for.
docs/user-guide.md:693 speaks of "sliding-window tracking", which the windows of the
first do not do.  `ConsoleRules` is what the handlers do for the item of a drafted
rule, whoever published it; the server itself publishes none.

The engine takes the mtime of the rules file after it has read or written the
contents.  `RememberMtime` lets the command line begin or end a write in between:
`file` then holds rules the engine did not read and `stale` says that there is
nothing to read.  A console request whose save fails is answered 500 and leaves the
rules in memory changed (`SaveRules`): the file is as it was, or empty if the write
failed after it was opened.  `apart` is history, true while memory and file differ
and the mtime does not tell; then the rules in memory are what `RulesHold` asks for.
Of a call that is checked against a file that is empty it asks nothing.

### Shapes and ShapeDrift

A baseline maps paths to types, presence counts and item types.  `ShapeDrift` has a
step per probe: the body is compared, then merged when all differences are safe,
reported as an event when they are not and not already pending, and the index is
saved, which may fail and then ends the cycle.  `api` is the upstream, which
changes its responses at any time.  The depth limit of the walk and keys of
objects are left out.

As the code has it: a field under arrays that were empty has counts of its own
(the docstring of `merge_observation` speaks of a jump of `sample_count` there);
items of arrays that were cut off are learned without comparison; and after an
integer field has learned floats, a plain integer response counts as narrowed,
which is reported.

### AtomicWrite and SavedFile

One action per call: `Open` (which empties PATH.tmp), `Write`, `Fsync`, `Replace`,
`SyncDirectory`.  Files are inodes; `paths` are the inodes a power loss may leave
as PATH, `synced` what is on the disk of each.  `Leave` is an error, a crash of the
process, or a directory that cannot be opened.  Savers share the name of the
temporary file.  `clean` is history: it becomes false when two saves overlap and
true again when one has been completed alone.  Loads are read position by
position while saves go on.  That `AtomicWrite` implements `SavedFile` is why
saving is one step in the other modules, where savers exclude each other: commands
by the root lock, coroutines by the event loop.  Server and commands together are
the exception, which `BreakerProcesses` and `LockfileCommands` have as lost updates
and this module as a spoilt file.  `BaselineIndex.save` has a temporary file of its
own and no fsync.

## Runs

| Run | What it shows | Bounds |
|---|---|---|
| `circuit_breaker` | killed breakers are OPEN, a kill that was carried out is never lost, a breaker trips and closes only on its streaks, no early call, recovery; implements `KillSwitch` | thresholds 3 and 2, timeout of 1 tick, a called and a probed key, two calls in flight, both transports |
| `breaker_processes_offline` | disciplined operators: no process loses what another wrote; implements `KillSwitch` | two tools, two calls, one command at a time |
| `confirmation_store` | single use, final denials, use as granted; implements `ApprovalToken` | two tokens with a request each, two calls of the store, ttl 2, clock to 3 |
| `lockfile_commands` | but for torn starts, nothing changed is served before it is approved again; what the gate passes is served; commands exclude each other and lose no decision | one tool in two toolsets, two manifests, two commands of which one may crash, a review, a server; `Bounds`, see below |
| `pipeline` | what is sent was confirmed once, counted, within budget, rate and rules; implements `ApprovalToken` | a reading and a writing tool, two calls in flight, three in all, one token, two rules files, a budget of 1 in 2 ticks, history 2, clock to 4, one reload |
| `shape_drift` | only safe changes are learned, required paths stay required, what was merged is quiet, and what the upstream settles on is learned or reported | one tool, seven bodies, two baselines |
| `atomic_write` | the file is whole and loads give what was saved while saves do not overlap; implements `SavedFile` | two savers, one reader, a short and a long text, three inodes |
| `breaker_probes` | finding: HALF_OPEN allows more than one call | thresholds of 2; the shortest counterexample, as in all of these |
| `console_kill` | finding: a kill is answered ok that did not happen | one tool, console only |
| `root_lock_theft` | finding: two commands inside the root lock | three commands, no crash, no unlock |
| `breaker_kill_online` | finding: a kill beside a running server does not take effect | |
| `breaker_kill_by_name` | finding: a kill by name misses the key of a compiled tool | |

Why these bounds are enough.  A failure threshold of 3 distinguishes the first,
a middle and the tripping failure, a success threshold of 2 a probe that closes
from one that does not, a timeout of 1 a breaker that has rested from one that has
not.  Breakers of different tools share nothing but the file, so one tool that is
called shows every interleaving of one breaker, and one that is probed goes along
because every save takes both; `BreakerProcesses` has two
because there a save by one process takes along another tool's entry.  Two calls
in flight suffice for a result that is late with respect to another one.  Two
calls of the store race for a token or split into a grant and a consumption, and
a clock that passes the ttl by one tick shows expiry before, between and after
their steps.  The first reader or writer of a lock, a lockfile or a temporary file
that gets in the way of another is the second one, so two of each suffice; but a lock
is stolen from a live command by a third, which `root_lock_theft` has.  `Bounds` ends
`lockfile_commands` where nothing is claimed, after a theft or a torn start, and lets
commands contend, crash and be unlocked as long as there is neither a server nor a
review; beside one of the two one command runs at a time, beside both none.
The two manifests differ in content, risk and toolsets, the three ways of changing a
tool, and compilations go back and forth between them: one way raises the risk and
adds a toolset, the other lowers it and drops one.  A budget of one in a window of two ticks and a
clock to four give windows that touch and three calls, of which the twofold limit
admits two at close quarters; a rate of one leaves room to pass it with a second call
in flight, a history of two to forget a call of three.  `Bounds` of `pipeline` has the
rules change, tear and come apart in the first two ticks only.  The
seven bodies hold one case of each kind of change: a new field, a missing one, null,
a wider type safe and unsafe, an empty array and one that was cut off.  A text that
is longer than the other leaves its end behind, should a shorter one be written
over it.  The runs have between a few thousand and 600,000 states and take up to
two minutes.

Symmetry.  Interchangeable are tokens together with their requests, and the slots of calls, in
`ConfirmationStore`; savers and inodes in `AtomicWrite`; slots of calls in
`Pipeline`.  The runs with liveness, that of `CircuitBreaker` among them, use none.

Fairness.  `LiveSpec` assumes that the clock advances, that a call that runs ends
(the HTTP client has a timeout), that agents keep calling a tool they need, and
that a crashed server is started again.  The third is necessary: `should_allow`
is the only way out of OPEN, no timer is.  `Recovers` is conditional on
`StaysWell`: from some time on the upstream answers, the disk accepts writes and
the server stays up.  It is about the breakers that calls ask for: one that only
probes reach, as all they reach in a compiled manifest, stays OPEN once it tripped.

`ShapeDrift`'s `Spec` assumes weak fairness of the cycles of the probe loop and of
the answer to each probe (the HTTP client has a timeout), and strong fairness of
the saves of a merge and of a log: a disk that refuses a write does not refuse
every one.  `Settles` is conditional on the upstream's settling.  The other modules
state no fairness, as they claim no liveness.

## Theorems

`tlapm` checks these for any number of tools, calls, tokens, processes, savers and
files and all thresholds, limits and lengths.  The assumptions are those the
modules state:

- `ThresholdAssumption`, `ProcessAssumption`, `StoreAssumption`: thresholds and the
  ttl are positive, the timeout is a natural number, the markers of free slots are
  distinct from what fills the slots.
- `RootLockAssumption`, `LockfileCommandsAssumption`: manifests have an action for
  every tool, scopes are sets of toolsets, and "no digest" is none of a manifest.
- `PolicyAssumption`, `PipelineAssumption`: rules and lockfiles are well-typed,
  callers are finite in number, a rules file being written is not one of those that
  were, and a window has a length.
- `ShapesAssumption`, `ShapeDriftAssumption`: what is below an array includes its
  items and not the root, and a compiled baseline has seen every field outside of
  arrays in all its samples.
- `AtomicWriteAssumption`: texts have a length, and the marker of no file is no
  file.

`BreakerProofs`: `WellFormed` says what a single breaker satisfies, killed implies
OPEN, counters below their thresholds where the state needs it, HALF_OPEN has
rested; each method keeps it.

`CircuitBreakerProofs`: the safety properties are not inductive on their own.
That a trip needs a streak, for example, needs `failures` to equal the streak of
the history while the breaker is CLOSED, in memory and, for the sake of a
restart, in the file with its own history.  `SoundRegistry` says so for any
registry and history, the inductive invariant `IInv` applies it to both, and
adds that an acknowledged kill is recorded.  From it follow the invariants, the three action
properties and the refinement of `KillSwitch`.

`BreakerProcessesProofs`: under the assumption `Disciplined` (offline operators who
use the keys of the pipeline) every running process has the registry of the
file; killed tools are killed in the file; and the refinement.  The two findings
about `toolwright kill` show that neither half of the assumption can be dropped:
`KilledToolsStayBlocked` proves under it the very property they violate.  `Registries`
is what remains without it, however many processes run at once and overwrite one
another: every registry and the file hold well-formed breakers, killed ones OPEN.

`ConfirmationStoreProofs`: the inductive invariant ties a row's status to the
history of its token (`RowTracks`) and says of a call between its statements that
what it checked and nobody changes, binding and expiry, still holds
(`SelectedIsValid`).  The status may have changed; the second statement asks for
it again, and the proof of `Use` is where that matters.

`LockfileCommandsProofs`: for the lock, whoever relies on it owns the file unless a
lock was stolen (`InsideOwns`), which is inductive where exclusion is not.  For the
lockfile, every copy, on disk, in a command and in the server, has sound entries:
an approval's signature binds what an operator reviewed (`Copies`).  `Current` adds,
until a lock is stolen, that the entries of a copy are in step with the manifest
whose digest it has, and that nobody but the console and the interactive review touched the file since a
command read it, which needs the first part.  `LockIsExclusive` is about the lock
alone, without a lockfile, and `UsesTheLock` says that the commands on the lockfile
are commands of `RootLock`.  `ReleasesStealNothing` says who steals a lock first: a
command that clears one it took for stale, or an unlock.  A release, which unlinks by
path too, never does, as whoever is inside still owns the file.  That commands alone
steal, without crashes, is why `LockIsExclusive` has the premise it has.
`SyncTwiceIsOnce` is about every entry: a second
sync with the same manifest leaves it alone.

`PipelineProofs`: a tracker of a budget counts what was sent since its window began,
nothing was sent in it after its end, and in any window's length before there is no
more than the limit (`BudgetsCount`): a length of time meets two windows at most,
hence twice the limit in `BudgetHolds`, which is what fixed windows give.  A call that was sent with a token has it
consumed, granted for this very call, and shares it with no other (`TokensTrack`);
the history is the end of the sequence of calls that were answered, all of it until it
is full (`HistoryTracks`); and while no change of the file is pending the rules in
memory are some that were written (`FileTracks`), those of the file unless the two have come
apart (`TypeOK`).  `RateHolds` is inductive with
these, and the refinement of `ApprovalToken` follows from them.

`RulesHold` is about everything that has been done, the engine knows the end of it, and
its sequence rules scan that end greedily with a recursive function.
`SequencesAreExact` is what links them: for every order, tool and history, the scan refuses
exactly if the tools of the order, but for the one called, have no places in the history in
that order (`InOrder`).  It takes induction over the history.  The theorems of the
library take an operator, which the provers cannot instantiate; `Induction` here takes
a set of numbers instead, and `Recursion` says when a function on 0..n is the one that
a recursive definition describes.  `ProgressIsGreedy` and `WithoutKeepsPlaces` use them for
the two loops.

`DeniedIsNotSent` and `LookingIsFree` are about the policy, for any sequence of rules: what
is denied before it is allowed is not sent, however calls interleave; and an
evaluation, which starts windows of budgets anew, changes by that no other decision.

`ShapeDriftProofs`: the two invariants hold of memory and of the file, which is never
ahead of memory in the number of samples.  `SafeMergeIsQuiet` is about all shapes
and bodies, without a specification: a response that was safe to merge raises no
drift against the result.  `MergeOrderIsFree`, likewise: the paths, types and sightings
of a baseline do not depend on which of two responses came first.

`AtomicWriteProofs`: while no save overlaps another, one saver at most has not
renamed its file, it writes an inode that no power loss can leave as PATH, and what
it wrote is a prefix of its text (`Solo`, `AloneProgress`); readers have a prefix of
one text (`ReadsOne`).  In the refinement `Replace` is a change, which `SyncDirectory`
makes last; a power loss falls back to a text that was there; an `Open` beside
another save spoils the file, and the `SyncDirectory` of a later save, alone, mends
it.

Only model-checked: `Recovers` and `Settles`, which are liveness.

## Findings

1. HALF_OPEN does not allow "one probe call" (docs/user-guide.md:522) but all.
2. `toolwright kill` beside a running server does not block the tool, and the
   server's next save removes the kill from the file (cli/commands_kill.py:79).
3. `toolwright kill <name>` does not block a tool of a compiled manifest, whose
   key is its signature (the same docstring and its examples).
4. A kill in the console is answered ok and does nothing if another handler has
   dismissed the work item before (core/governance/actions.py:296, against
   docs/user-guide.md:730).
5. The root lock is not exclusive (utils/locks.py:106): a command that reads a lock
   and finds its owner gone a moment later unlinks the lock of whoever came next.

## Plan

All modules of the table above are written, checked, and, except for the two
properties just named, proved.  Two modules that were planned are not written, as
the code they were for cannot run in a shipped server:

- A control plane of confirmation work items.  The event store of a server is made
  for its HTTP routes (mcp/server.py:728) and not given to the pipeline, which would
  publish confirmations, and tripped breakers have no publisher at all,
  docs/user-guide.md:724 notwithstanding.  The items of pending tools are in
  `LockfileCommands`.
- Repair in the reconcile loop.  `HealthChecker.classify_failure` never returns the
  class that starts it; `versioner.snapshot` has no caller, so that nothing can be
  rolled back; the actions of the repair applier are stubs.

What could come next, in this order:

1. The expiry of work items, several items of one tool, and a command line that
   lifts a kill between two runs of a server.
2. The creation of the signing key by two processes at once, in `ConfirmationStore`.
3. Rules as the console overwrites those of the command line, stated as a property
   as `CommandsKeepUpdates` is for the lockfile.
4. Compilation and `drift/engine.py` as operators over abstract endpoints.

## Not modelled

Capture, normalisation, compilation, scopes, plans, verification, the drift report
over two manifests and repair diagnosis are computations in one pass over text and
schemas: they keep no state between calls and no two of them interleave.
Transports, UI, bundles, recipes and audit logs are input and output.  Together they
are most of the lines of the repository, which is why the modules stand for a small
part of it.  Signatures and digests are taken as unforgeable values.  The creation
of the signing key by two processes at once, a restart that forgets budgets and histories, the end of the reconcile
loop on a failed save, and the approval items that a kill dismisses are hazards no
module covers; PROJECT.json says why.

Met while reading, and stated by no property: the pipeline records every response
as a success for the breaker, whatever its status (core/governance/engine.py:418-420),
so that a tool that answers each call with 500 never trips, which README.md:87 may be
read to promise (`Respond` has it so); docs/user-guide.md:693 says that budgets have
sliding windows, which they have not (core/enforce/engine.py:406-418, `Refreshed`);
`repair_suspended` is tested before
the only code that clears it; the reconcile loop records probes under the name of
an action while the pipeline asks for its tool id, which are the same for
manifests without ids only, so that in a compiled one the breakers that probes trip
are not those calls ask for; an exception from saving the loop's state ends its task
(core/reconcile/loop.py:151); the HTTP transport never starts the loops of
`--watch`; an overlay without a digest answers every state-changing call with an
internal error; the `.bak` copy of `breakers.json` is never read; and an error from
the fsync of a directory is raised after the file was replaced.
