--------------------------- MODULE CircuitBreaker ---------------------------
(***************************************************************************)
(* One server process with its CircuitBreakerRegistry: the calls of the    *)
(* governance pipeline, which ask should_allow, run, and record a result   *)
(* later; the reconcile loop, which records the results of its probes in   *)
(* the same registry, under keys of its own; the console, which kills and  *)
(* enables tools through their work items; the file breakers.json, which   *)
(* every recorded result rewrites; crashes and restarts of the server, and *)
(* a disk that refuses writes for a while.                                 *)
(*                                                                         *)
(* Every method of the registry runs without an await, so it is one step.  *)
(* Between should_allow and the record of the result the pipeline awaits   *)
(* the upstream request: the calls of a tool interleave there with each    *)
(* other, with probes, kills and enables.                                  *)
(***************************************************************************)
EXTENDS Breaker

CONSTANTS
  Tools,      \* keys of the registry
  Called,     \* the keys calls ask for: tool_id or signature_id of an action
  Probed,     \* the keys probes are recorded under: the name of an action
  Calls,      \* slots for calls in flight
  NoTool,     \* content of a free slot
  Transports  \* how the server may be started: over HTTP, with the console, or
              \* over stdio with --watch, with the reconcile loop

ASSUME ProcessAssumption ==
  /\ NoTool \notin Tools
  /\ Called \subseteq Tools
  /\ Probed \subseteq Tools
  /\ Transports \subseteq {"http", "stdio"}

VARIABLES
  breaker,   \* _breakers, in the memory of the server
  file,      \* breakers.json
  transport, \* how the server was started, and is started again
  up,        \* the server process runs
  diskOk,    \* writes to the state directory succeed
  call,      \* call[c]: the tool a call in flight executes
  item,      \* status of the work item about the tool, in memory
  savedItem, \* the status in the file of the item
  killAcked, \* history: tools killed with success, not enabled since
  hist,      \* history of the results recorded per tool, see History
  savedHist  \* hist at the time file was written

items == <<item, savedItem>>

vars == <<breaker, file, transport, up, diskOk, call, items, killAcked, hist, savedHist>>

\* The statuses as the handlers of kill and enable tell them apart: one to act on,
\* dismissed by whichever handler, or none that a kill or an enable would take, be
\* it that there is no item or that its status is any other terminal one.
ItemStatus == {"none", "open", "dismissed"}

(***************************************************************************)
(* The history of a tool, which no code reads:                             *)
(*   streak  failures recorded in a row                                    *)
(*   proof   successes recorded in a row while the breaker probes (is      *)
(*           HALF_OPEN), the one that closes it included                   *)
(* Each saturates at the threshold it is compared with.                    *)
(***************************************************************************)
History ==
  [streak : 0..FailureThreshold, proof : 0..SuccessThreshold]

NoHistory == [streak |-> 0, proof |-> 0]

UpTo(bound, n) == IF n > bound THEN bound ELSE n

\* What becomes of h when a result is recorded in a breaker in this state.
AfterSuccess(h, state) ==
  [streak |-> 0,
   proof  |-> IF state = "half_open" THEN UpTo(SuccessThreshold, h.proof + 1) ELSE 0]

AfterFailure(h) ==
  [streak |-> UpTo(FailureThreshold, h.streak + 1), proof |-> 0]

----------------------------------------------------------------------------
TypeOK ==
  /\ breaker \in [Tools -> ToolCircuitBreaker]
  /\ file \in [Tools -> ToolCircuitBreaker]
  /\ transport \in Transports
  /\ up \in BOOLEAN
  /\ diskOk \in BOOLEAN
  /\ call \in [Calls -> Tools \cup {NoTool}]
  /\ item \in [Tools -> ItemStatus]
  /\ savedItem \in [Tools -> ItemStatus]
  /\ killAcked \in SUBSET Tools
  /\ hist \in [Tools -> History]
  /\ savedHist \in [Tools -> History]

\* Before the first start some tools may have been killed from the CLI.
Init ==
  /\ killAcked \in SUBSET Tools
  /\ file = [t \in Tools |-> IF t \in killAcked THEN KillTool(FreshBreaker)
                                                ELSE FreshBreaker]
  /\ breaker = file
  /\ transport \in Transports
  /\ up = TRUE
  /\ diskOk = TRUE
  /\ call = [c \in Calls |-> NoTool]
  /\ item = [t \in Tools |-> "none"]
  /\ savedItem = item
  /\ hist = [t \in Tools |-> NoHistory]
  /\ savedHist = hist

\* _save writes the whole registry, or raises and leaves the file alone.
Save(registry, history) ==
  /\ breaker' = registry
  /\ hist' = history
  /\ file' = IF diskOk THEN registry ELSE file
  /\ savedHist' = IF diskOk THEN history ELSE savedHist

----------------------------------------------------------------------------
(* The pipeline.  A refused call changes nothing and is not a step.        *)

\* The breaker check passes without a state change; nothing is saved.
Admit(c, t) ==
  /\ up /\ call[c] = NoTool /\ t \in Called
  /\ breaker[t].state # "open" /\ ShouldAllow(breaker[t])
  /\ call' = [call EXCEPT ![c] = t]
  /\ UNCHANGED <<breaker, file, transport, up, diskOk, items, killAcked, hist, savedHist>>

\* OPEN and rested: HALF_OPEN is saved, then the call goes on.  If the save
\* raises, the call fails before it starts and memory stays HALF_OPEN.
AdmitProbing(c, t) ==
  /\ up /\ call[c] = NoTool /\ t \in Called
  /\ breaker[t].state = "open" /\ ShouldAllow(breaker[t])
  /\ Save([breaker EXCEPT ![t] = EnterHalfOpen(@)],
          [hist EXCEPT ![t].proof = 0])
  /\ call' = IF diskOk THEN [call EXCEPT ![c] = t] ELSE call
  /\ UNCHANGED <<transport, up, diskOk, items, killAcked>>

\* The upstream answered.  Any answer is a success for the breaker, one with a
\* status of 400 or more too.  If the save inside record_success raises, the
\* except branch of the pipeline records a failure as well, on top of the
\* success already in memory.
Respond(c) ==
  LET t == call[c] IN
  /\ up /\ t # NoTool
  /\ IF diskOk
       THEN Save([breaker EXCEPT ![t] = RecordSuccess(@)],
                 [hist EXCEPT ![t] = AfterSuccess(@, breaker[t].state)])
       ELSE Save([breaker EXCEPT ![t] = RecordFailure(RecordSuccess(@))],
                 [hist EXCEPT ![t] = AfterFailure(AfterSuccess(@, breaker[t].state))])
  /\ call' = [call EXCEPT ![c] = NoTool]
  /\ UNCHANGED <<transport, up, diskOk, items, killAcked>>

\* The request raised: timeout, connection error, RuntimeBlockError.
Fail(c) ==
  LET t == call[c] IN
  /\ up /\ t # NoTool
  /\ Save([breaker EXCEPT ![t] = RecordFailure(@)],
          [hist EXCEPT ![t] = AfterFailure(@)])
  /\ call' = [call EXCEPT ![c] = NoTool]
  /\ UNCHANGED <<transport, up, diskOk, items, killAcked>>

\* The call is cancelled: CancelledError is not an Exception, nothing is
\* recorded.
Cancel(c) ==
  /\ up /\ call[c] # NoTool
  /\ call' = [call EXCEPT ![c] = NoTool]
  /\ UNCHANGED <<breaker, file, transport, up, diskOk, items, killAcked, hist, savedHist>>

----------------------------------------------------------------------------
(* The reconcile loop processes the result of a probe.  In the manifests   *)
(* that Toolwright compiles no probed key is a called one: what a probe    *)
(* finds reaches a breaker no call asks for.                               *)

ProbeHealthy(t) ==
  /\ up /\ transport = "stdio" /\ t \in Probed
  /\ Save([breaker EXCEPT ![t] = RecordSuccess(@)],
          [hist EXCEPT ![t] = AfterSuccess(@, breaker[t].state)])
  /\ UNCHANGED <<transport, up, diskOk, call, items, killAcked>>

ProbeUnhealthy(t) ==
  /\ up /\ transport = "stdio" /\ t \in Probed
  /\ Save([breaker EXCEPT ![t] = RecordFailure(@)],
          [hist EXCEPT ![t] = AfterFailure(@)])
  /\ UNCHANGED <<transport, up, diskOk, call, items, killAcked>>

----------------------------------------------------------------------------
(* The console acts on a tool through a work item that has the tool as its *)
(* subject.  A server publishes those of pending tools when it starts;     *)
(* items of breaker trips (user-guide.md:724) have a constructor and no    *)
(* publisher yet.  When an item appears is left open.  The handlers await  *)
(* nothing between the check of an item and its new status.  They act on   *)
(* an item of any kind.  If a save raises, the request is answered 500,    *)
(* with what was done before the save left as it is.  A request that finds *)
(* the item in the status it would give it is answered ok, and any other   *)
(* that does not find it open is refused: neither is a step.               *)

Act(t) == up /\ transport = "http" /\ t \in Called

\* The status changes in memory, then in the file, which may refuse it.
SetItem(t, status) ==
  /\ item' = [item EXCEPT ![t] = status]
  /\ savedItem' = IF diskOk THEN [savedItem EXCEPT ![t] = status] ELSE savedItem

Publish(t) ==
  /\ Act(t)
  /\ SetItem(t, "open")
  /\ UNCHANGED <<breaker, file, transport, up, diskOk, call, killAcked, hist, savedHist>>

\* The breaker is saved before the item changes.
Resolve(t, status) == IF diskOk THEN SetItem(t, status) ELSE UNCHANGED items

\* A mistake: the kill is acknowledged whether or not it could be saved.
KillAnyhow(t) ==
  /\ Act(t) /\ item[t] = "open"
  /\ Save([breaker EXCEPT ![t] = KillTool(@)], hist)
  /\ killAcked' = killAcked \cup {t}
  /\ Resolve(t, "dismissed")
  /\ UNCHANGED <<transport, up, diskOk, call>>

Kill(t) ==
  /\ Act(t) /\ item[t] = "open"
  /\ Save([breaker EXCEPT ![t] = KillTool(@)], hist)
  /\ killAcked' = IF diskOk THEN killAcked \cup {t} ELSE killAcked
  /\ Resolve(t, "dismissed")
  /\ UNCHANGED <<transport, up, diskOk, call>>

Enable(t) ==
  /\ Act(t) /\ item[t] = "open"
  /\ Save([breaker EXCEPT ![t] = EnableTool(@)],
          [hist EXCEPT ![t] = NoHistory])
  /\ killAcked' = killAcked \ {t}
  /\ Resolve(t, "none")
  /\ UNCHANGED <<transport, up, diskOk, call>>

\* The handlers of rules and repairs (and, for the item of a pending tool, of the
\* gate) dismiss or settle an open item without a look at its kind, and change
\* nothing about the breaker.
ResolveElsewhere(t) ==
  /\ Act(t) /\ item[t] = "open"
  /\ \E status \in {"dismissed", "none"} : SetItem(t, status)
  /\ UNCHANGED <<breaker, file, transport, up, diskOk, call, killAcked, hist, savedHist>>

----------------------------------------------------------------------------
(* The clock, the disk and the process.                                    *)

Aged(registry) == [t \in Tools |-> Older(registry[t])]

Tick ==
  /\ breaker' = Aged(breaker)
  /\ file' = Aged(file)
  /\ UNCHANGED <<transport, up, diskOk, call, items, killAcked, hist, savedHist>>

DiskFault ==
  /\ diskOk' = ~diskOk
  /\ UNCHANGED <<breaker, file, transport, up, call, items, killAcked, hist, savedHist>>

Crash ==
  /\ up
  /\ up' = FALSE
  /\ call' = [c \in Calls |-> NoTool]
  /\ UNCHANGED <<breaker, file, transport, diskOk, items, killAcked, hist, savedHist>>

\* A mistake: a restart begins with an empty registry.
RestartEmpty ==
  /\ ~up
  /\ up' = TRUE
  /\ breaker' = [t \in Tools |-> FreshBreaker]
  /\ hist' = savedHist
  /\ item' = savedItem
  /\ UNCHANGED <<file, transport, diskOk, call, savedItem, killAcked, savedHist>>

\* __init__ loads the file, the event store its items; what memory held before the crash is gone.
Restart ==
  /\ ~up
  /\ up' = TRUE
  /\ breaker' = file
  /\ hist' = savedHist
  /\ item' = savedItem
  /\ UNCHANGED <<file, transport, diskOk, call, savedItem, killAcked, savedHist>>

Next ==
  \/ \E c \in Calls, t \in Tools : Admit(c, t) \/ AdmitProbing(c, t)
  \/ \E c \in Calls : Respond(c) \/ Fail(c) \/ Cancel(c)
  \/ \E t \in Tools : \/ ProbeHealthy(t) \/ ProbeUnhealthy(t)
                      \/ Publish(t) \/ Kill(t) \/ Enable(t) \/ ResolveElsewhere(t)
  \/ Tick \/ DiskFault \/ Crash \/ Restart

Spec == Init /\ [][Next]_vars

(***************************************************************************)
(* Fairness of the live runs.  The clock advances.  A call that runs ends: *)
(* the HTTP client has a timeout.  Agents keep calling a tool they need:   *)
(* should_allow is the only way out of OPEN, so without a caller an OPEN   *)
(* breaker stays OPEN for ever.  A crashed server is started again.        *)
(***************************************************************************)
Fairness ==
  /\ WF_vars(Tick)
  /\ WF_vars(Restart)
  /\ \A c \in Calls : WF_vars(Respond(c) \/ Fail(c) \/ Cancel(c))
  /\ \A t \in Called :
       WF_vars(\E c \in Calls : Admit(c, t) \/ AdmitProbing(c, t))

LiveSpec == Spec /\ Fairness

----------------------------------------------------------------------------
(* Properties.                                                             *)

Starts(c, t) == call[c] = NoTool /\ call'[c] = t

\* A tool whose override says killed is OPEN, in memory and in the file:
\* should_allow only looks at manual_override in its OPEN branch, so a
\* killed breaker in any other state would let calls through.  Late results
\* of calls arrive at killed breakers in every state.
KilledIsOpen ==
  \A t \in Tools : /\ breaker[t].killed => breaker[t].state = "open"
                   /\ file[t].killed => file[t].state = "open"

\* An acknowledged kill is in the file, and in memory while the server is up:
\* neither late results, nor a later failing save, nor a restart undoes it.  This is
\* about requests that reach kill_tool; those answered from the status of the item
\* alone are what AnsweredKillRecorded is about.
AckedKillRecorded ==
  \A t \in killAcked : file[t].killed /\ (up => breaker[t].killed)

\* docs/user-guide.md:730: "Actions taken in the console (approve, block, confirm,
\* deny, kill, enable) take immediate effect on the running MCP server."  So a tool
\* is killed whenever a request to kill it is answered ok for its dismissed item.
AnsweredKillRecorded ==
  \A t \in Tools : Act(t) /\ item[t] = "dismissed" => breaker[t].killed

\* "After 5 consecutive failures, agents can't call it" (README.md:73): a
\* tool whose last FailureThreshold recorded results are all failures is not
\* CLOSED, across interleaved calls, operators' acts and restarts.
FailureStreakBlocks ==
  \A t \in Tools :
    hist[t].streak >= FailureThreshold => breaker[t].state # "closed"

\* The other direction: a breaker trips by itself only on such a streak; no
\* interleaving of successes and failures adds up to a trip.
TripsOnlyOnStreak ==
  [][\A t \in Tools :
       (up /\ breaker[t].state = "closed" /\ breaker'[t].state = "open"
           /\ ~breaker'[t].killed)
         => hist'[t].streak >= FailureThreshold]_vars

\* "3 successes required to fully restore" (README.md:73): unless an operator
\* enables the tool, a breaker closes only when, since it began to probe, this
\* step's success completes a run of SuccessThreshold successes with no failure
\* recorded in between.  Results of calls that started before the trip and
\* arrive while the breaker is OPEN do not count.
ClosesOnlyOnProof ==
  [][\A t \in Tools :
       (up /\ breaker[t].state # "closed" /\ breaker'[t].state = "closed")
         => \/ hist[t].proof + 1 >= SuccessThreshold /\ breaker[t].state = "half_open"
            \/ up' /\ hist'[t] = NoHistory]_vars

\* No call of a tool that is not CLOSED starts before the recovery timeout has
\* passed since the last failure recorded for it, probing calls that fail
\* while others are in flight included.
StartsOnlyRested ==
  [][\A c \in Calls, t \in Tools :
       Starts(c, t) /\ breaker[t].state # "closed" => Rested(breaker[t])]_vars

\* The server implements the kill switch, for the kills of AckedKillRecorded.
KS == INSTANCE KillSwitch WITH blocked <- killAcked, running <- call
ImplementsKillSwitch == KS!Spec

\* The upstream and the host are well from some point on: every call that ends is
\* answered, no probe is unhealthy, the disk accepts writes and the server stays up.
StaysWell ==
  /\ <>[](up /\ diskOk)
  /\ <>[][/\ \A c \in Calls : call[c] # NoTool /\ call'[c] = NoTool => Respond(c)
          /\ \A t \in Tools : ~ProbeUnhealthy(t)]_vars

\* Automatic recovery: once everything stays well, a breaker that tripped by
\* itself ends up CLOSED (or an operator kills the tool meanwhile).  Of the
\* breakers calls ask for: should_allow is the only way out of OPEN, so one that
\* only probes reach stays OPEN.
Recovers ==
  StaysWell =>
    \A t \in Called :
      (breaker[t].state # "closed") ~> (breaker[t].state = "closed" \/ breaker[t].killed)
=============================================================================
