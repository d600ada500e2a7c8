------------------------ MODULE CircuitBreakerProofs ------------------------
(***************************************************************************)
(* The safety properties of CircuitBreaker, for every set of tools and of  *)
(* calls and every value of the thresholds and of the recovery timeout.    *)
(*                                                                         *)
(* The inductive invariant says two things of every breaker, in memory and *)
(* in the file: its fields fit together (WellFormed, in BreakerProofs),    *)
(* and its counters agree with the history of recorded results (Tracks).   *)
(* What an operation of the registry does to one breaker is proved first,  *)
(* as a lemma about one breaker; every action then applies one of those    *)
(* lemmas.                                                                 *)
(***************************************************************************)
EXTENDS CircuitBreaker, BreakerProofs

Tracks(b, h) ==
  /\ h \in History
  /\ b.state = "closed" => b.failures = h.streak
  /\ b.state = "half_open" => b.successes <= h.proof

Sound(b, h) == WellFormed(b) /\ Tracks(b, h)

SoundRegistry(registry, history) ==
  /\ registry \in [Tools -> ToolCircuitBreaker]
  /\ history \in [Tools -> History]
  /\ \A t \in Tools : Sound(registry[t], history[t])

ItemsTyped ==
  item \in [Tools -> ItemStatus] /\ savedItem \in [Tools -> ItemStatus]

IInv ==
  /\ transport \in Transports
  /\ up \in BOOLEAN
  /\ diskOk \in BOOLEAN
  /\ call \in [Calls -> Tools \cup {NoTool}]
  /\ ItemsTyped
  /\ killAcked \in SUBSET Tools
  /\ SoundRegistry(breaker, hist)
  /\ SoundRegistry(file, savedHist)
  /\ AckedKillRecorded

----------------------------------------------------------------------------
(* One breaker and its history.                                            *)

\* Counting saturates within the types of the history.
LEMMA HistoryTypes ==
  /\ NoHistory \in History
  /\ \A h \in History : /\ \A state : AfterSuccess(h, state) \in History
                        /\ AfterFailure(h) \in History
                        /\ [h EXCEPT !.proof = 0] \in History
BY ThresholdAssumption DEF NoHistory, AfterSuccess, AfterFailure, UpTo, History

\* A fresh breaker, killed or not, is sound with an empty history.
LEMMA FreshIsSound ==
  Sound(FreshBreaker, NoHistory) /\ Sound(KillTool(FreshBreaker), NoHistory)
BY FreshIsWellFormed, KillIsWellFormed, HistoryTypes
   DEF Sound, Tracks, FreshBreaker, KillTool, NoHistory

\* record_success keeps a breaker sound and leaves the override alone.
LEMMA SuccessIsSound ==
  ASSUME NEW b, NEW h, Sound(b, h)
  PROVE  /\ Sound(RecordSuccess(b), AfterSuccess(h, b.state))
         /\ RecordSuccess(b).killed = b.killed
<1>1. WellFormed(RecordSuccess(b)) /\ RecordSuccess(b).killed = b.killed
  BY SuccessIsWellFormed DEF Sound
<1>2. Tracks(RecordSuccess(b), AfterSuccess(h, b.state))
  BY HistoryTypes, ThresholdAssumption
     DEF Sound, WellFormed, Tracks, RecordSuccess, AfterSuccess, UpTo, History,
         ToolCircuitBreaker, BreakerState
<1> QED
  BY <1>1, <1>2 DEF Sound

\* record_failure does too.
LEMMA FailureIsSound ==
  ASSUME NEW b, NEW h, Sound(b, h)
  PROVE  /\ Sound(RecordFailure(b), AfterFailure(h))
         /\ RecordFailure(b).killed = b.killed
<1>1. WellFormed(RecordFailure(b)) /\ RecordFailure(b).killed = b.killed
  BY FailureIsWellFormed DEF Sound
<1>2. Tracks(RecordFailure(b), AfterFailure(h))
  BY HistoryTypes, ThresholdAssumption
     DEF Sound, WellFormed, Tracks, RecordFailure, AfterFailure, UpTo, History,
         ToolCircuitBreaker, BreakerState
<1> QED
  BY <1>1, <1>2 DEF Sound

\* kill_tool keeps a breaker sound, with the history it has.
LEMMA KillIsSound ==
  ASSUME NEW b, NEW h, Sound(b, h)
  PROVE  Sound(KillTool(b), h) /\ KillTool(b).killed
BY KillIsWellFormed
   DEF Sound, WellFormed, Tracks, KillTool, ToolCircuitBreaker

\* enable_tool starts the history anew.
LEMMA EnableIsSound ==
  ASSUME NEW b, NEW h, Sound(b, h)
  PROVE  Sound(EnableTool(b), NoHistory)
BY EnableIsWellFormed, HistoryTypes
   DEF Sound, WellFormed, Tracks, EnableTool, NoHistory, ToolCircuitBreaker

\* should_allow enters HALF_OPEN only from a rested breaker nobody killed.
LEMMA ProbingIsSound ==
  ASSUME NEW b, NEW h, Sound(b, h), b.state = "open", ShouldAllow(b)
  PROVE  /\ Sound(EnterHalfOpen(b), [h EXCEPT !.proof = 0])
         /\ EnterHalfOpen(b).killed = b.killed
<1>1. WellFormed(EnterHalfOpen(b)) /\ EnterHalfOpen(b).killed = b.killed
  BY ProbingIsWellFormed DEF Sound
<1>2. Tracks(EnterHalfOpen(b), [h EXCEPT !.proof = 0])
  BY HistoryTypes
     DEF Sound, WellFormed, Tracks, EnterHalfOpen, History, ToolCircuitBreaker
<1> QED
  BY <1>1, <1>2 DEF Sound

\* Time changes nothing but the age, and not that of a breaker that probes.
LEMMA OlderIsSound ==
  ASSUME NEW b, NEW h, Sound(b, h)
  PROVE  /\ Sound(Older(b), h)
         /\ Older(b).killed = b.killed
         /\ Older(b).state = b.state
BY OlderIsWellFormed
   DEF Sound, WellFormed, Tracks, Older, ToolCircuitBreaker

----------------------------------------------------------------------------
(* The registry: one entry replaced.                                       *)

\* A sound registry stays sound when one entry and its history are replaced
\* by a sound pair.
LEMMA ReplaceIsSound ==
  ASSUME NEW registry, NEW history, SoundRegistry(registry, history),
         NEW t \in Tools, NEW b, NEW h, Sound(b, h)
  PROVE  SoundRegistry([registry EXCEPT ![t] = b], [history EXCEPT ![t] = h])
BY DEF SoundRegistry, Sound, WellFormed, Tracks

\* The same when the history stays as it is.
LEMMA ReplaceBreakerIsSound ==
  ASSUME NEW registry, NEW history, SoundRegistry(registry, history),
         NEW t \in Tools, NEW b, Sound(b, history[t])
  PROVE  SoundRegistry([registry EXCEPT ![t] = b], history)
BY DEF SoundRegistry, Sound, WellFormed, Tracks

\* A tick of the clock keeps a registry sound.
LEMMA AgedIsSound ==
  ASSUME NEW registry, NEW history, SoundRegistry(registry, history)
  PROVE  /\ SoundRegistry(Aged(registry), history)
         /\ \A t \in Tools : Aged(registry)[t].killed = registry[t].killed
<1>1. \A t \in Tools : /\ Sound(Older(registry[t]), history[t])
                       /\ Older(registry[t]).killed = registry[t].killed
  BY OlderIsSound DEF SoundRegistry
<1>2. \A t \in Tools : Older(registry[t]) \in ToolCircuitBreaker
  BY <1>1 DEF Sound, WellFormed
<1> QED
  BY <1>1, <1>2 DEF SoundRegistry, Aged

\* Saving a sound registry that keeps every acknowledged override, from a
\* server that is up, keeps the invariant.  acked is what is acknowledged
\* after the step: if the disk refuses the write, nothing new is.
LEMMA SaveKeepsInvariant ==
  ASSUME IInv, up, UNCHANGED <<transport, up, diskOk>>,
         NEW registry, NEW history, SoundRegistry(registry, history),
         Save(registry, history),
         call' \in [Calls -> Tools \cup {NoTool}],
         killAcked' \in SUBSET Tools,
         \A t \in killAcked' : registry[t].killed,
         ~diskOk => killAcked' \subseteq killAcked,
         ItemsTyped'
  PROVE  IInv'
<1>1. SoundRegistry(breaker, hist)' /\ SoundRegistry(file, savedHist)'
  BY DEF IInv, Save, SoundRegistry
<1>2. AckedKillRecorded'
  <2>1. CASE diskOk
    BY <2>1 DEF AckedKillRecorded, Save
  <2>2. CASE ~diskOk
    BY <2>2 DEF AckedKillRecorded, Save, IInv
  <2> QED BY <2>1, <2>2
<1> QED
  BY <1>1, <1>2 DEF IInv

----------------------------------------------------------------------------
(* The state machine.                                                      *)

\* The initial states satisfy the invariant.
LEMMA InitInvariant == Init => IInv
<1> SUFFICES ASSUME Init PROVE IInv
  OBVIOUS
<1>1. SoundRegistry(file, savedHist)
  <2>1. \A t \in Tools : Sound(file[t], savedHist[t])
    BY FreshIsSound DEF Init
  <2>2. file \in [Tools -> ToolCircuitBreaker] /\ savedHist \in [Tools -> History]
    BY FreshIsSound DEF Init, Sound, WellFormed, Tracks
  <2> QED
    BY <2>1, <2>2 DEF SoundRegistry
<1>2. AckedKillRecorded
  BY DEF Init, AckedKillRecorded, KillTool, FreshBreaker
<1> QED
  BY <1>1, <1>2 DEF Init, IInv, ItemsTyped, ItemStatus

\* Every step keeps the invariant.
LEMMA NextInvariant == IInv /\ [Next]_vars => IInv'
<1> SUFFICES ASSUME IInv, [Next]_vars PROVE IInv'
  OBVIOUS
<1>0. SoundRegistry(breaker, hist) /\ SoundRegistry(file, savedHist)
  BY DEF IInv
<1>a. \A t \in Tools : Sound(breaker[t], hist[t])
  BY <1>0 DEF SoundRegistry
<1>b. \A t \in Tools : t \in killAcked /\ up => breaker[t].killed
  BY DEF IInv, AckedKillRecorded
<1>d. UNCHANGED items => ItemsTyped'
  BY DEF IInv, ItemsTyped, items
<1>c. killAcked \subseteq Tools /\ breaker \in [Tools -> ToolCircuitBreaker]
  BY DEF IInv, SoundRegistry
<1>1. ASSUME NEW c \in Calls, NEW t \in Tools, Admit(c, t) PROVE IInv'
  BY <1>1 DEF IInv, Admit, AckedKillRecorded, ItemsTyped, items, SoundRegistry
<1>2. ASSUME NEW c \in Calls, NEW t \in Tools, AdmitProbing(c, t) PROVE IInv'
  <2> DEFINE registry == [breaker EXCEPT ![t] = EnterHalfOpen(@)]
             history  == [hist EXCEPT ![t] = [@ EXCEPT !.proof = 0]]
  <2>1. /\ Sound(EnterHalfOpen(breaker[t]), [hist[t] EXCEPT !.proof = 0])
        /\ EnterHalfOpen(breaker[t]).killed = breaker[t].killed
    BY <1>2, <1>a, ProbingIsSound DEF AdmitProbing
  <2>2. SoundRegistry(registry, history)
    BY <1>0, <2>1, ReplaceIsSound
  <2>3. \A u \in killAcked : registry[u].killed
    BY <1>2, <1>b, <1>c, <2>1 DEF AdmitProbing
  <2>4. call' \in [Calls -> Tools \cup {NoTool}]
    BY <1>2 DEF AdmitProbing, IInv
  <2>5. Save(registry, history) /\ up /\ UNCHANGED <<transport, up, diskOk, items, killAcked>>
    BY <1>2 DEF AdmitProbing
  <2> HIDE DEF registry, history
  <2> QED
    BY <1>c, <1>d, <2>2, <2>3, <2>4, <2>5, SaveKeepsInvariant
<1>3. ASSUME NEW t \in Tools, NEW b, NEW h, up,
             Sound(b, h), b.killed = breaker[t].killed,
             Save([breaker EXCEPT ![t] = b], [hist EXCEPT ![t] = h]),
             call' \in [Calls -> Tools \cup {NoTool}],
             UNCHANGED <<transport, up, diskOk, items, killAcked>>
      PROVE  IInv'
  <2>1. SoundRegistry([breaker EXCEPT ![t] = b], [hist EXCEPT ![t] = h])
    BY <1>0, <1>3, ReplaceIsSound
  <2>2. \A u \in killAcked : [breaker EXCEPT ![t] = b][u].killed
    BY <1>3, <1>b, <1>c
  <2> QED
    BY <1>c, <1>d, <1>3, <2>1, <2>2, SaveKeepsInvariant
<1>4. ASSUME NEW c \in Calls, Respond(c) PROVE IInv'
  <2> DEFINE t == call[c]
  <2>1. t \in Tools /\ call' \in [Calls -> Tools \cup {NoTool}]
    BY <1>4 DEF Respond, IInv
  <2>2. /\ Sound(RecordSuccess(breaker[t]), AfterSuccess(hist[t], breaker[t].state))
        /\ RecordSuccess(breaker[t]).killed = breaker[t].killed
    BY <1>a, <2>1, SuccessIsSound
  <2>3. CASE diskOk
    BY <1>3, <1>4, <2>1, <2>2, <2>3 DEF Respond
  <2>4. CASE ~diskOk
    <3>1. /\ Sound(RecordFailure(RecordSuccess(breaker[t])),
                   AfterFailure(AfterSuccess(hist[t], breaker[t].state)))
          /\ RecordFailure(RecordSuccess(breaker[t])).killed = breaker[t].killed
      BY <2>2, FailureIsSound
    <3> QED
      BY <1>3, <1>4, <2>1, <2>4, <3>1 DEF Respond
  <2> QED
    BY <2>3, <2>4
<1>5. ASSUME NEW c \in Calls, Fail(c) PROVE IInv'
  <2> DEFINE t == call[c]
  <2>1. t \in Tools /\ call' \in [Calls -> Tools \cup {NoTool}]
    BY <1>5 DEF Fail, IInv
  <2>2. /\ Sound(RecordFailure(breaker[t]), AfterFailure(hist[t]))
        /\ RecordFailure(breaker[t]).killed = breaker[t].killed
    BY <1>a, <2>1, FailureIsSound
  <2> QED
    BY <1>3, <1>5, <2>1, <2>2 DEF Fail
<1>6. ASSUME NEW c \in Calls, Cancel(c) PROVE IInv'
  BY <1>6 DEF IInv, Cancel, AckedKillRecorded, ItemsTyped, items, SoundRegistry
<1>7. ASSUME NEW t \in Tools, ProbeHealthy(t) PROVE IInv'
  <2>1. /\ Sound(RecordSuccess(breaker[t]), AfterSuccess(hist[t], breaker[t].state))
        /\ RecordSuccess(breaker[t]).killed = breaker[t].killed
    BY <1>a, SuccessIsSound
  <2> QED
    BY <1>3, <1>7, <2>1 DEF ProbeHealthy, IInv
<1>8. ASSUME NEW t \in Tools, ProbeUnhealthy(t) PROVE IInv'
  <2>1. /\ Sound(RecordFailure(breaker[t]), AfterFailure(hist[t]))
        /\ RecordFailure(breaker[t]).killed = breaker[t].killed
    BY <1>a, FailureIsSound
  <2> QED
    BY <1>3, <1>8, <2>1 DEF ProbeUnhealthy, IInv
<1>9. ASSUME NEW t \in Tools, Kill(t) PROVE IInv'
  <2> DEFINE registry == [breaker EXCEPT ![t] = KillTool(@)]
  <2>1. Sound(KillTool(breaker[t]), hist[t]) /\ KillTool(breaker[t]).killed
    BY <1>a, KillIsSound
  <2>2. SoundRegistry(registry, hist)
    BY <1>0, <2>1, ReplaceBreakerIsSound
  <2>3. killAcked' \in SUBSET Tools /\ (~diskOk => killAcked' \subseteq killAcked)
    BY <1>9, <1>c DEF Kill
  <2>4. \A u \in killAcked' : registry[u].killed
    BY <1>9, <1>b, <1>c, <2>1 DEF Kill, Act
  <2>5. Save(registry, hist) /\ up /\ UNCHANGED <<transport, up, diskOk, call>>
    BY <1>9 DEF Kill, Act
  <2>6. ItemsTyped'
    BY <1>9 DEF Kill, Resolve, SetItem, IInv, ItemsTyped, items, ItemStatus
  <2> HIDE DEF registry
  <2> QED
    BY <2>2, <2>3, <2>4, <2>5, <2>6, SaveKeepsInvariant DEF IInv
<1>10. ASSUME NEW t \in Tools, Enable(t) PROVE IInv'
  <2> DEFINE registry == [breaker EXCEPT ![t] = EnableTool(@)]
             history  == [hist EXCEPT ![t] = NoHistory]
  <2>1. SoundRegistry(registry, history)
    BY <1>0, <1>a, EnableIsSound, ReplaceIsSound
  <2>2. killAcked' \in SUBSET Tools /\ killAcked' \subseteq killAcked
    BY <1>10, <1>c DEF Enable
  <2>3. \A u \in killAcked' : registry[u].killed
    BY <1>10, <1>b, <1>c DEF Enable, Act
  <2>4. Save(registry, history) /\ up /\ UNCHANGED <<transport, up, diskOk, call>>
    BY <1>10 DEF Enable, Act
  <2>5. ItemsTyped'
    BY <1>10 DEF Enable, Resolve, SetItem, IInv, ItemsTyped, items, ItemStatus
  <2> HIDE DEF registry, history
  <2> QED
    BY <2>1, <2>2, <2>3, <2>4, <2>5, SaveKeepsInvariant DEF IInv
<1>11. CASE Tick
  <2>1. SoundRegistry(breaker, hist)' /\ SoundRegistry(file, savedHist)'
    BY <1>0, <1>11, AgedIsSound DEF Tick
  <2>2. AckedKillRecorded'
    BY <1>0, <1>11, <1>c, AgedIsSound DEF Tick, IInv, AckedKillRecorded
  <2> QED
    BY <1>11, <1>d, <2>1, <2>2 DEF Tick, IInv
<1>12. CASE DiskFault
  BY <1>12 DEF IInv, DiskFault, AckedKillRecorded, ItemsTyped, items, SoundRegistry
<1>13. CASE Crash
  BY <1>13 DEF IInv, Crash, AckedKillRecorded, ItemsTyped, items, SoundRegistry
<1>14. CASE Restart
  BY <1>14 DEF IInv, Restart, AckedKillRecorded, ItemsTyped, items, SoundRegistry
<1>15. CASE UNCHANGED vars
  BY <1>15 DEF vars, IInv, AckedKillRecorded, ItemsTyped, items, SoundRegistry
<1>16. ASSUME NEW t \in Tools, Publish(t) \/ ResolveElsewhere(t) PROVE IInv'
  <2>1. /\ UNCHANGED <<breaker, file, transport, up, diskOk, call, killAcked>>
        /\ UNCHANGED <<hist, savedHist>>
    BY <1>16 DEF Publish, ResolveElsewhere
  <2>2. ItemsTyped'
    BY <1>16 DEF Publish, ResolveElsewhere, SetItem, IInv, ItemsTyped, ItemStatus
  <2> QED
    BY <2>1, <2>2 DEF IInv, AckedKillRecorded, SoundRegistry
<1> QED
  BY <1>1, <1>2, <1>4, <1>5, <1>6, <1>7, <1>8, <1>9, <1>10, <1>11, <1>12,
     <1>13, <1>14, <1>15, <1>16 DEF Next

\* The inductive invariant holds in every reachable state.
THEOREM Invariance == Spec => []IInv
BY InitInvariant, NextInvariant, PTL DEF Spec

----------------------------------------------------------------------------
(* The invariants the runs check.                                          *)

\* Every field of every breaker stays within its type: no counter passes its
\* threshold, whatever interleaves.
THEOREM TypeCorrect == Spec => []TypeOK
<1>1. IInv => TypeOK
  BY DEF IInv, ItemsTyped, SoundRegistry, TypeOK
<1> QED
  BY <1>1, Invariance, PTL

\* A killed breaker is OPEN, in memory and in the file.
THEOREM KilledStaysOpen == Spec => []KilledIsOpen
<1>1. IInv => KilledIsOpen
  BY DEF IInv, SoundRegistry, Sound, WellFormed, KilledIsOpen
<1> QED
  BY <1>1, Invariance, PTL

\* An acknowledged kill is in the file, and in memory while the server is up.
THEOREM KillsAreDurable == Spec => []AckedKillRecorded
<1>1. IInv => AckedKillRecorded
  BY DEF IInv
<1> QED
  BY <1>1, Invariance, PTL

\* A tool with FailureThreshold failures in a row is not CLOSED.
THEOREM StreaksBlock == Spec => []FailureStreakBlocks
<1>1. IInv => FailureStreakBlocks
  <2> SUFFICES ASSUME IInv, NEW t \in Tools,
                      hist[t].streak >= FailureThreshold,
                      breaker[t].state = "closed"
               PROVE  FALSE
    BY DEF FailureStreakBlocks
  <2>1. Sound(breaker[t], hist[t])
    BY DEF IInv, SoundRegistry
  <2> QED
    BY <2>1, ThresholdAssumption
       DEF Sound, WellFormed, Tracks, ToolCircuitBreaker
<1> QED
  BY <1>1, Invariance, PTL

----------------------------------------------------------------------------
(* The action properties: what a step may do to one breaker.               *)

\* record_failure trips a CLOSED breaker only when the failure completes a
\* streak of FailureThreshold, and never closes one.
LEMMA FailureTrips ==
  ASSUME NEW b, NEW h, Sound(b, h)
  PROVE  /\ (b.state = "closed" /\ RecordFailure(b).state = "open")
              => AfterFailure(h).streak >= FailureThreshold
         /\ b.state # "closed" => RecordFailure(b).state = "open"
BY ThresholdAssumption
   DEF Sound, WellFormed, Tracks, RecordFailure, AfterFailure, UpTo,
       ToolCircuitBreaker, BreakerState, History

\* record_success never trips a breaker, and closes one only from HALF_OPEN,
\* with SuccessThreshold successes since it began to probe.
LEMMA SuccessCloses ==
  ASSUME NEW b, NEW h, Sound(b, h)
  PROVE  /\ b.state = "closed" => RecordSuccess(b).state = "closed"
         /\ (b.state # "closed" /\ RecordSuccess(b).state = "closed")
              => b.state = "half_open" /\ h.proof + 1 >= SuccessThreshold
BY ThresholdAssumption
   DEF Sound, WellFormed, Tracks, RecordSuccess,
       ToolCircuitBreaker, BreakerState, History

\* What one step does to the breaker of one tool while the server is up:
\* nothing, or one operation of the registry together with its history.
Transition(t) ==
  \/ breaker'[t].state = breaker[t].state
  \/ breaker[t].state = "open" /\ breaker'[t].state = "half_open"
  \/ /\ breaker'[t] = RecordSuccess(breaker[t])
     /\ hist'[t] = AfterSuccess(hist[t], breaker[t].state)
  \/ /\ breaker'[t] = RecordFailure(breaker[t])
     /\ hist'[t] = AfterFailure(hist[t])
  \/ /\ breaker'[t] = RecordFailure(RecordSuccess(breaker[t]))
     /\ hist'[t] = AfterFailure(AfterSuccess(hist[t], breaker[t].state))
  \/ breaker'[t].killed /\ breaker'[t].state = "open"
  \/ hist'[t] = NoHistory /\ breaker'[t].state = "closed" /\ up'

\* Every step of a server that is up is one of those transitions for every
\* tool.
LEMMA StepIsTransition ==
  ASSUME IInv, [Next]_vars, up, NEW u \in Tools
  PROVE  Transition(u)
<1>0. /\ breaker \in [Tools -> ToolCircuitBreaker]
      /\ hist \in [Tools -> History]
      /\ call \in [Calls -> Tools \cup {NoTool}]
  BY DEF IInv, SoundRegistry
<1>a. ASSUME UNCHANGED breaker PROVE Transition(u)
  BY <1>a DEF Transition
<1>1. ASSUME NEW c \in Calls, NEW t \in Tools, AdmitProbing(c, t)
      PROVE  Transition(u)
  <2>1. breaker' = [breaker EXCEPT ![t] = EnterHalfOpen(@)]
        /\ breaker[t].state = "open"
    BY <1>1 DEF AdmitProbing, Save
  <2> QED
    BY <1>0, <2>1 DEF Transition, EnterHalfOpen, ToolCircuitBreaker
<1>2. ASSUME NEW c \in Calls, Respond(c) PROVE Transition(u)
  <2>1. CASE diskOk
    BY <1>0, <1>2, <2>1 DEF Respond, Save, Transition
  <2>2. CASE ~diskOk
    BY <1>0, <1>2, <2>2 DEF Respond, Save, Transition
  <2> QED
    BY <2>1, <2>2
<1>3. ASSUME NEW c \in Calls, Fail(c) PROVE Transition(u)
  BY <1>0, <1>3 DEF Fail, Save, Transition
<1>4. ASSUME NEW t \in Tools, ProbeHealthy(t) PROVE Transition(u)
  BY <1>0, <1>4 DEF ProbeHealthy, Save, Transition
<1>5. ASSUME NEW t \in Tools, ProbeUnhealthy(t) PROVE Transition(u)
  BY <1>0, <1>5 DEF ProbeUnhealthy, Save, Transition
<1>6. ASSUME NEW t \in Tools, Kill(t) PROVE Transition(u)
  <2>1. breaker' = [breaker EXCEPT ![t] = KillTool(@)]
    BY <1>6 DEF Kill, Save
  <2> QED
    BY <1>0, <2>1 DEF Transition, KillTool, ToolCircuitBreaker
<1>7. ASSUME NEW t \in Tools, Enable(t) PROVE Transition(u)
  <2>1. /\ breaker' = [breaker EXCEPT ![t] = EnableTool(@)]
        /\ hist' = [hist EXCEPT ![t] = NoHistory]
        /\ up'
    BY <1>7 DEF Enable, Act, Save
  <2> QED
    BY <1>0, <2>1 DEF Transition, EnableTool, ToolCircuitBreaker
<1>8. CASE Tick
  <2>1. breaker'[u].state = breaker[u].state
    BY <1>0, <1>8 DEF Tick, Aged, Older, ToolCircuitBreaker
  <2> QED
    BY <2>1 DEF Transition
<1>9. ASSUME \/ DiskFault \/ Crash \/ UNCHANGED vars
             \/ \E c \in Calls : Cancel(c) \/ \E t \in Tools : Admit(c, t)
             \/ \E t \in Tools : Publish(t) \/ ResolveElsewhere(t)
      PROVE  UNCHANGED breaker
  BY <1>9 DEF DiskFault, Crash, vars, Cancel, Admit, Publish, ResolveElsewhere
<1>10. ~Restart
  BY DEF Restart
<1> QED
  BY <1>a, <1>1, <1>2, <1>3, <1>4, <1>5, <1>6, <1>7, <1>8, <1>9, <1>10
     DEF Next

\* A breaker trips by itself only on a streak of FailureThreshold failures.
THEOREM TripsNeedStreak == Spec => TripsOnlyOnStreak
<1> DEFINE A == \A t \in Tools :
       (up /\ breaker[t].state = "closed" /\ breaker'[t].state = "open"
           /\ ~breaker'[t].killed)
         => hist'[t].streak >= FailureThreshold
<1>1. IInv /\ [Next]_vars => A
  <2> SUFFICES ASSUME IInv, [Next]_vars, up, NEW t \in Tools,
                      breaker[t].state = "closed",
                      breaker'[t].state = "open", ~breaker'[t].killed
               PROVE  hist'[t].streak >= FailureThreshold
    OBVIOUS
  <2>1. Sound(breaker[t], hist[t])
    BY DEF IInv, SoundRegistry
  <2>2. Sound(RecordSuccess(breaker[t]), AfterSuccess(hist[t], breaker[t].state))
    BY <2>1, SuccessIsSound
  <2> QED
    BY <2>1, <2>2, StepIsTransition, FailureTrips, SuccessCloses DEF Transition
<1>2. Spec => [][A]_vars
  BY <1>1, Invariance, PTL DEF Spec
<1> QED
  BY <1>2 DEF TripsOnlyOnStreak

\* Without an operator, a breaker closes only on SuccessThreshold successes.
THEOREM ClosingNeedsProof == Spec => ClosesOnlyOnProof
<1> DEFINE A == \A t \in Tools :
       (up /\ breaker[t].state # "closed" /\ breaker'[t].state = "closed")
         => \/ hist[t].proof + 1 >= SuccessThreshold /\ breaker[t].state = "half_open"
            \/ up' /\ hist'[t] = NoHistory
<1>1. IInv /\ [Next]_vars => A
  <2> SUFFICES ASSUME IInv, [Next]_vars, up, NEW t \in Tools,
                      breaker[t].state # "closed", breaker'[t].state = "closed",
                      ~(up' /\ hist'[t] = NoHistory)
               PROVE  /\ hist[t].proof + 1 >= SuccessThreshold
                      /\ breaker[t].state = "half_open"
    OBVIOUS
  <2>1. Sound(breaker[t], hist[t])
    BY DEF IInv, SoundRegistry
  <2>2. Sound(RecordSuccess(breaker[t]), AfterSuccess(hist[t], breaker[t].state))
    BY <2>1, SuccessIsSound
  <2> QED
    BY <2>1, <2>2, StepIsTransition, FailureTrips, SuccessCloses DEF Transition
<1>2. Spec => [][A]_vars
  BY <1>1, Invariance, PTL DEF Spec
<1> QED
  BY <1>2 DEF ClosesOnlyOnProof

\* Only Admit and AdmitProbing start calls, of a tool whose breaker is CLOSED
\* or HALF_OPEN, or OPEN, rested and not killed.
LEMMA StartIsAdmission ==
  ASSUME IInv, [Next]_vars, NEW c \in Calls, NEW t \in Tools, Starts(c, t)
  PROVE  \/ up /\ breaker[t].state # "open"
         \/ up /\ ~breaker[t].killed /\ Rested(breaker[t])
<1>0. call \in [Calls -> Tools \cup {NoTool}] /\ NoTool \notin Tools
  BY ProcessAssumption DEF IInv
<1>1. ASSUME NEW d \in Calls, NEW u \in Tools, Admit(d, u)
      PROVE  up /\ breaker[t].state # "open"
  BY <1>0, <1>1 DEF Admit, Starts
<1>2. ASSUME NEW d \in Calls, NEW u \in Tools, AdmitProbing(d, u)
      PROVE  up /\ ~breaker[t].killed /\ Rested(breaker[t])
  <2>1. d = c /\ u = t
    BY <1>0, <1>2 DEF AdmitProbing, Starts
  <2> QED
    BY <1>2, <2>1 DEF AdmitProbing, ShouldAllow
<1>3. ASSUME NEW d \in Calls, Respond(d) \/ Fail(d) \/ Cancel(d) PROVE FALSE
  BY <1>0, <1>3 DEF Respond, Fail, Cancel, Starts
<1>4. ASSUME NEW u \in Tools,
             \/ ProbeHealthy(u) \/ ProbeUnhealthy(u)
             \/ Publish(u) \/ Kill(u) \/ Enable(u) \/ ResolveElsewhere(u)
      PROVE  FALSE
  BY <1>0, <1>4 DEF ProbeHealthy, ProbeUnhealthy, Publish, Kill, Enable,
     ResolveElsewhere, Starts
<1>5. ASSUME Tick \/ DiskFault \/ Crash \/ Restart \/ UNCHANGED vars
      PROVE  FALSE
  BY <1>0, <1>5 DEF Tick, DiskFault, Crash, Restart, vars, Starts
<1> QED
  BY <1>1, <1>2, <1>3, <1>4, <1>5 DEF Next

\* A call of a tool that is not CLOSED starts only after the recovery timeout.
THEOREM StartsAreRested == Spec => StartsOnlyRested
<1> DEFINE A == \A c \in Calls, t \in Tools :
       Starts(c, t) /\ breaker[t].state # "closed" => Rested(breaker[t])
<1>1. IInv /\ [Next]_vars => A
  <2> SUFFICES ASSUME IInv, [Next]_vars, NEW c \in Calls, NEW t \in Tools,
                      Starts(c, t), breaker[t].state # "closed"
               PROVE  Rested(breaker[t])
    OBVIOUS
  <2>1. Sound(breaker[t], hist[t])
    BY DEF IInv, SoundRegistry
  <2>2. breaker[t].state = "half_open" => Rested(breaker[t])
    BY <2>1 DEF Sound, WellFormed
  <2>3. breaker[t].state \in BreakerState
    BY <2>1 DEF Sound, WellFormed, ToolCircuitBreaker
  <2> QED
    BY <2>2, <2>3, StartIsAdmission DEF BreakerState
<1>2. Spec => [][A]_vars
  BY <1>1, Invariance, PTL DEF Spec
<1> QED
  BY <1>2 DEF StartsOnlyRested

----------------------------------------------------------------------------
(* Refinement.                                                             *)

\* Every step of the server is a step of the kill switch, or changes nothing
\* the kill switch sees.
LEMMA StepRefinement == IInv /\ [Next]_vars => [KS!Next]_KS!vars
<1> SUFFICES ASSUME IInv, [Next]_vars PROVE [KS!Next]_KS!vars
  OBVIOUS
<1>0. call \in [Calls -> Tools \cup {NoTool}] /\ NoTool \notin Tools
  BY ProcessAssumption DEF IInv
<1>a. ASSUME NEW c \in Calls, NEW t \in Tools, call[c] = NoTool,
             call' = [call EXCEPT ![c] = t], UNCHANGED killAcked
      PROVE  KS!Start(c, t)
  <2>1. Starts(c, t)
    BY <1>0, <1>a DEF Starts
  <2>2. up /\ (breaker[t].state # "open" \/ ~breaker[t].killed)
    BY <2>1, StartIsAdmission
  <2>3. breaker[t].killed => breaker[t].state = "open"
    BY DEF IInv, SoundRegistry, Sound, WellFormed
  <2>4. t \notin killAcked
    BY <2>2, <2>3 DEF IInv, AckedKillRecorded
  <2> QED
    BY <1>a, <2>4 DEF KS!Start
<1>1. ASSUME NEW c \in Calls, NEW t \in Tools, Admit(c, t)
      PROVE  KS!Start(c, t)
  BY <1>1, <1>a DEF Admit
<1>2. ASSUME NEW c \in Calls, NEW t \in Tools, AdmitProbing(c, t)
      PROVE  KS!Start(c, t) \/ UNCHANGED KS!vars
  BY <1>2, <1>a DEF AdmitProbing, KS!vars
<1>3. ASSUME NEW c \in Calls, Respond(c) \/ Fail(c) \/ Cancel(c)
      PROVE  KS!Finish(c)
  BY <1>3 DEF Respond, Fail, Cancel, KS!Finish
<1>4. ASSUME NEW t \in Tools,
             \/ ProbeHealthy(t) \/ ProbeUnhealthy(t)
             \/ Publish(t) \/ ResolveElsewhere(t)
      PROVE  UNCHANGED KS!vars
  BY <1>4 DEF ProbeHealthy, ProbeUnhealthy, Publish, ResolveElsewhere, KS!vars
<1>5. ASSUME NEW t \in Tools, Kill(t)
      PROVE  KS!Kill(t) \/ UNCHANGED KS!vars
  BY <1>5 DEF Kill, KS!Kill, KS!vars
<1>6. ASSUME NEW t \in Tools, Enable(t) PROVE KS!Enable(t)
  BY <1>6 DEF Enable, KS!Enable
<1>7. ASSUME Crash PROVE KS!Crash
  BY <1>7 DEF Crash, KS!Crash
<1>8. ASSUME Tick \/ DiskFault \/ Restart \/ UNCHANGED vars
      PROVE  UNCHANGED KS!vars
  BY <1>8 DEF Tick, DiskFault, Restart, vars, KS!vars
<1> QED
  BY <1>1, <1>2, <1>3, <1>4, <1>5, <1>6, <1>7, <1>8 DEF Next, KS!Next

\* The server implements the kill switch: no call starts between an
\* acknowledged kill and the next enable.
THEOREM Implementation == Spec => ImplementsKillSwitch
<1>1. Init => KS!Init
  BY DEF Init, KS!Init
<1>2. Spec => KS!Spec
  BY <1>1, StepRefinement, Invariance, PTL DEF Spec, KS!Spec
<1> QED
  BY <1>2 DEF ImplementsKillSwitch
=============================================================================
