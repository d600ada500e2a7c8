----------------------- MODULE BreakerProcessesProofs -----------------------
(***************************************************************************)
(* Under the discipline Offline (operators stop the server before they     *)
(* kill or enable a tool, and work one at a time), for tools the operators *)
(* name by the key the pipeline uses, the processes together implement the *)
(* kill switch, whatever the thresholds and however many tools there are.  *)
(* BreakerProcesses's violation runs show that neither assumption can be   *)
(* dropped.  That every registry stays sound needs neither.                *)
(***************************************************************************)
EXTENDS BreakerProcesses, BreakerProofs

\* What the theorems assume: the discipline, and one key per tool.
Disciplined ==
  /\ Offline
  /\ CliKey = CallKey
  /\ \A t, u \in Tools : CliKey[t] = CliKey[u] => t = u

WellFormedRegistry(registry) ==
  /\ registry \in [Keys -> ToolCircuitBreaker]
  /\ \A k \in Keys : WellFormed(registry[k])

IInv ==
  /\ alive \in SUBSET Processes
  /\ \A p, q \in alive : p = q
  /\ memory \in [Processes -> [Keys -> ToolCircuitBreaker]]
  /\ \A p \in Processes : WellFormedRegistry(memory[p])
  /\ WellFormedRegistry(file)
  /\ call \in [Calls -> Tools \cup {NoTool}]
  /\ killed \in SUBSET Tools
  /\ FileIsCurrent
  /\ KillIsOnFile

----------------------------------------------------------------------------
\* An empty registry is well formed.
LEMMA NoRegistryIsWellFormed == WellFormedRegistry(NoRegistry)
BY FreshIsWellFormed DEF NoRegistry, WellFormedRegistry, WellFormed

\* The only process alive changes entry k to b, which is killed if the entry
\* was, or else belongs to a tool that is not to count as killed any more: the
\* invariant holds in the state that follows.
LEMMA SaveKeepsInvariant ==
  ASSUME IInv, NEW p \in alive, NEW k \in Keys, NEW b,
         WellFormed(b), SaveBy(p, k, b), UNCHANGED alive,
         call' \in [Calls -> Tools \cup {NoTool}],
         killed' \in SUBSET Tools,
         \A t \in killed' : \/ CliKey[t] # k /\ t \in killed
                            \/ CliKey[t] = k /\ b.killed
  PROVE  IInv'
<1>0. /\ p \in Processes /\ \A q \in alive : q = p
      /\ memory \in [Processes -> [Keys -> ToolCircuitBreaker]]
      /\ memory[p] = file
      /\ b \in ToolCircuitBreaker
  BY DEF IInv, FileIsCurrent, WellFormed
<1>1. /\ memory' = [memory EXCEPT ![p] = [memory[p] EXCEPT ![k] = b]]
      /\ file' = [file EXCEPT ![k] = b]
      /\ memory'[p] = file'
  BY <1>0 DEF SaveBy
<1>2. WellFormedRegistry(file)'
  BY <1>1 DEF IInv, WellFormedRegistry, WellFormed
<1>3. memory' \in [Processes -> [Keys -> ToolCircuitBreaker]]
  BY <1>0, <1>1
<1>4. \A q \in Processes : WellFormedRegistry(memory'[q])
  BY <1>0, <1>1, <1>2 DEF IInv
<1>5. FileIsCurrent'
  BY <1>0, <1>1 DEF FileIsCurrent
<1>6. KillIsOnFile'
  <2>1. \A t \in Tools : CliKey[t] \in Keys
    BY ProcessesAssumption
  <2> QED
    BY <1>1, <2>1 DEF KillIsOnFile, IInv, WellFormedRegistry
<1> QED
  BY <1>2, <1>3, <1>4, <1>5, <1>6 DEF IInv

\* The initial state satisfies the invariant.
LEMMA InitInvariant == Init => IInv
BY NoRegistryIsWellFormed
   DEF Init, IInv, FileIsCurrent, KillIsOnFile, WellFormedRegistry

\* Every step keeps the invariant.
LEMMA NextInvariant ==
  ASSUME Disciplined, IInv, [Next]_vars
  PROVE  IInv'
<1>0. /\ \A t \in Tools : CliKey[t] \in Keys /\ CallKey[t] \in Keys
      /\ CallKey = CliKey
      /\ \A t, u \in Tools : CliKey[t] = CliKey[u] => t = u
      /\ Server \in Processes
  BY ProcessesAssumption DEF Disciplined, Processes
<1>a. \A p \in alive, k \in Keys : WellFormed(memory[p][k])
  BY DEF IInv, WellFormedRegistry
<1>b. \A p \in alive, t \in killed : memory[p][CliKey[t]].killed
  BY DEF IInv, FileIsCurrent, KillIsOnFile
<1>c. killed \in SUBSET Tools /\ call \in [Calls -> Tools \cup {NoTool}]
  BY DEF IInv
<1>1. ASSUME NEW p \in Processes, Start(p) PROVE IInv'
  BY <1>1 DEF Disciplined, MayStart, Start, IInv, FileIsCurrent, KillIsOnFile,
     WellFormedRegistry
<1>2. ASSUME NEW p \in Processes, End(p) PROVE IInv'
  <2>1. /\ memory' \in [Processes -> [Keys -> ToolCircuitBreaker]]
        /\ \A q \in Processes : WellFormedRegistry(memory'[q])
    BY <1>2, NoRegistryIsWellFormed DEF End, IInv, WellFormedRegistry
  <2>2. alive' = {}
    BY <1>2 DEF End, IInv
  <2>3. call' \in [Calls -> Tools \cup {NoTool}]
    BY <1>2 DEF End, IInv
  <2> QED
    BY <1>2, <2>1, <2>2, <2>3 DEF End, IInv, FileIsCurrent, KillIsOnFile
<1>3. ASSUME NEW c \in Calls, NEW t \in Tools, Admit(c, t) PROVE IInv'
  BY <1>3 DEF Admit, IInv, FileIsCurrent, KillIsOnFile
<1>4. ASSUME NEW p \in alive, NEW t \in Tools, NEW b,
             WellFormed(b), b.killed = memory[p][CliKey[t]].killed,
             SaveBy(p, CliKey[t], b), UNCHANGED <<alive, killed>>,
             call' \in [Calls -> Tools \cup {NoTool}]
      PROVE  IInv'
  <2>1. \A u \in killed' : \/ CliKey[u] # CliKey[t] /\ u \in killed
                           \/ CliKey[u] = CliKey[t] /\ b.killed
    BY <1>4, <1>b
  <2> QED
    BY <1>0, <1>4, <1>c, <2>1, SaveKeepsInvariant
<1>5. ASSUME NEW c \in Calls, NEW t \in Tools, AdmitProbing(c, t) PROVE IInv'
  <2>1. /\ WellFormed(EnterHalfOpen(Entry(t)))
        /\ EnterHalfOpen(Entry(t)).killed = Entry(t).killed
    BY <1>0, <1>5, <1>a, ProbingIsWellFormed DEF AdmitProbing, Entry
  <2>2. call' \in [Calls -> Tools \cup {NoTool}]
    BY <1>5, <1>c DEF AdmitProbing
  <2> QED
    BY <1>0, <1>4, <1>5, <2>1, <2>2 DEF AdmitProbing, Entry
<1>6. ASSUME NEW c \in Calls, Respond(c) PROVE IInv'
  <2>1. call[c] \in Tools /\ call' \in [Calls -> Tools \cup {NoTool}]
    BY <1>6, <1>c DEF Respond
  <2>2. /\ WellFormed(RecordSuccess(Entry(call[c])))
        /\ RecordSuccess(Entry(call[c])).killed = Entry(call[c]).killed
    BY <1>0, <1>6, <1>a, <2>1, SuccessIsWellFormed DEF Respond, Entry
  <2> QED
    BY <1>0, <1>4, <1>6, <2>1, <2>2 DEF Respond, Entry
<1>7. ASSUME NEW c \in Calls, Fail(c) PROVE IInv'
  <2>1. call[c] \in Tools /\ call' \in [Calls -> Tools \cup {NoTool}]
    BY <1>7, <1>c DEF Fail
  <2>2. /\ WellFormed(RecordFailure(Entry(call[c])))
        /\ RecordFailure(Entry(call[c])).killed = Entry(call[c]).killed
    BY <1>0, <1>7, <1>a, <2>1, FailureIsWellFormed DEF Fail, Entry
  <2> QED
    BY <1>0, <1>4, <1>7, <2>1, <2>2 DEF Fail, Entry
<1>8. ASSUME NEW p \in Operators, NEW t \in Tools, Kill(p, t) PROVE IInv'
  <2> DEFINE b == KillTool(memory[p][CliKey[t]])
  <2>1. p \in alive /\ WellFormed(b) /\ b.killed
    BY <1>0, <1>8, <1>a, KillIsWellFormed DEF Kill
  <2>2. /\ killed' \in SUBSET Tools
        /\ \A u \in killed' : \/ CliKey[u] # CliKey[t] /\ u \in killed
                              \/ CliKey[u] = CliKey[t] /\ b.killed
    BY <1>0, <1>8, <1>c, <2>1 DEF Kill
  <2>3. SaveBy(p, CliKey[t], b) /\ UNCHANGED <<alive, call>>
    BY <1>8 DEF Kill
  <2> HIDE DEF b
  <2> QED
    BY <1>0, <1>c, <2>1, <2>2, <2>3, SaveKeepsInvariant
<1>9. ASSUME NEW p \in Operators, NEW t \in Tools, Enable(p, t) PROVE IInv'
  <2> DEFINE b == EnableTool(memory[p][CliKey[t]])
  <2>1. p \in alive /\ WellFormed(b)
    BY <1>0, <1>9, <1>a, EnableIsWellFormed DEF Enable
  <2>2. /\ killed' \in SUBSET Tools
        /\ \A u \in killed' : CliKey[u] # CliKey[t] /\ u \in killed
        /\ UNCHANGED <<alive, call>>
    BY <1>0, <1>9, <1>c DEF Enable
  <2>3. CASE SaveBy(p, CliKey[t], b)
    <3> HIDE DEF b
    <3> QED
      BY <1>0, <1>c, <2>1, <2>2, <2>3, SaveKeepsInvariant
  <2>4. CASE UNCHANGED <<memory, file>>
    BY <2>2, <2>4 DEF IInv, FileIsCurrent, KillIsOnFile, WellFormedRegistry
  <2> QED
    BY <1>9, <2>3, <2>4 DEF Enable
<1>10. ASSUME NEW p \in Operators, NEW t \in Tools, Diagnose(p, t) PROVE IInv'
  <2> DEFINE b == memory[p][CliKey[t]]
  <2>1. p \in alive /\ WellFormed(b) /\ b.state = "open" /\ ShouldAllow(b)
    BY <1>0, <1>10, <1>a DEF Diagnose
  <2>2. WellFormed(EnterHalfOpen(b)) /\ EnterHalfOpen(b).killed = b.killed
    BY <2>1, ProbingIsWellFormed
  <2>3. SaveBy(p, CliKey[t], EnterHalfOpen(b)) /\ UNCHANGED <<alive, call, killed>>
    BY <1>10 DEF Diagnose
  <2> QED
    BY <1>4, <1>c, <2>1, <2>2, <2>3
<1>11. CASE Tick
  <2>1. ASSUME NEW registry, WellFormedRegistry(registry)
        PROVE  /\ WellFormedRegistry(Aged(registry))
               /\ \A k \in Keys : Aged(registry)[k].killed = registry[k].killed
    BY <2>1, OlderIsWellFormed DEF WellFormedRegistry, WellFormed, Aged
  <2>2. /\ memory' \in [Processes -> [Keys -> ToolCircuitBreaker]]
        /\ \A p \in Processes : WellFormedRegistry(memory'[p])
        /\ WellFormedRegistry(file')
    BY <1>11, <2>1 DEF Tick, IInv, WellFormedRegistry
  <2>3. FileIsCurrent'
    BY <1>11 DEF Tick, IInv, FileIsCurrent
  <2>4. KillIsOnFile'
    BY <1>0, <1>11, <2>1 DEF Tick, IInv, KillIsOnFile
  <2> QED
    BY <1>11, <2>2, <2>3, <2>4 DEF Tick, IInv
<1>12. CASE UNCHANGED vars
  BY <1>12 DEF vars, IInv, FileIsCurrent, KillIsOnFile, WellFormedRegistry
<1> QED
  BY <1>1, <1>2, <1>3, <1>5, <1>6, <1>7, <1>8, <1>9, <1>10, <1>11, <1>12 DEF Next

\* The inductive invariant holds in every reachable state.
THEOREM Invariance == Disciplined => (Spec => []IInv)
<1> SUFFICES ASSUME Disciplined PROVE Spec => []IInv
  OBVIOUS
<1>1. IInv /\ [Next]_vars => IInv'
  BY NextInvariant
<1> QED
  BY <1>1, InitInvariant, PTL DEF Spec

\* No process that runs has a registry older than the file.
THEOREM NothingIsLost == Disciplined => (Spec => []FileIsCurrent)
<1>1. IInv => FileIsCurrent
  BY DEF IInv
<1> QED
  BY <1>1, Invariance, PTL

\* A killed tool is killed in the file.
THEOREM KillsAreOnFile == Disciplined => (Spec => []KillIsOnFile)
<1>1. IInv => KillIsOnFile
  BY DEF IInv
<1> QED
  BY <1>1, Invariance, PTL

----------------------------------------------------------------------------
(* What holds of any operators, however many processes run at once.         *)

Registries ==
  /\ alive \in SUBSET Processes
  /\ memory \in [Processes -> [Keys -> ToolCircuitBreaker]]
  /\ \A p \in Processes : WellFormedRegistry(memory[p])
  /\ WellFormedRegistry(file)
  /\ call \in [Calls -> Tools \cup {NoTool}]
  /\ killed \in SUBSET Tools

\* A process changes an entry and saves its registry.
LEMMA SaveKeepsRegistries ==
  ASSUME Registries, NEW p \in alive, NEW k \in Keys, NEW b,
         WellFormed(b), SaveBy(p, k, b), UNCHANGED alive,
         call' \in [Calls -> Tools \cup {NoTool}], killed' \in SUBSET Tools
  PROVE  Registries'
<1>0. /\ p \in Processes /\ b \in ToolCircuitBreaker
      /\ memory \in [Processes -> [Keys -> ToolCircuitBreaker]]
      /\ WellFormedRegistry(memory[p])
  BY DEF Registries, WellFormed
<1>1. /\ memory' = [memory EXCEPT ![p] = [memory[p] EXCEPT ![k] = b]]
      /\ file' = [memory[p] EXCEPT ![k] = b]
  BY <1>0 DEF SaveBy
<1>2. WellFormedRegistry(file)'
  BY <1>0, <1>1 DEF WellFormedRegistry, WellFormed
<1>3. memory' \in [Processes -> [Keys -> ToolCircuitBreaker]]
  BY <1>0, <1>1
<1>4. \A q \in Processes : WellFormedRegistry(memory'[q])
  BY <1>0, <1>1, <1>2 DEF Registries
<1> QED
  BY <1>2, <1>3, <1>4 DEF Registries

LEMMA NextRegistries == Registries /\ [Next]_vars => Registries'
<1> SUFFICES ASSUME Registries, [Next]_vars PROVE Registries'
  OBVIOUS
<1>0. \A t \in Tools : CliKey[t] \in Keys /\ CallKey[t] \in Keys
  BY ProcessesAssumption
<1>a. \A p \in alive, k \in Keys : WellFormed(memory[p][k])
  BY DEF Registries, WellFormedRegistry
<1>c. killed \in SUBSET Tools /\ call \in [Calls -> Tools \cup {NoTool}]
  BY DEF Registries
<1>1. ASSUME NEW p \in Processes, Start(p) PROVE Registries'
  BY <1>1 DEF Start, Registries, WellFormedRegistry
<1>2. ASSUME NEW p \in Processes, End(p) PROVE Registries'
  <2>1. /\ memory' \in [Processes -> [Keys -> ToolCircuitBreaker]]
        /\ \A q \in Processes : WellFormedRegistry(memory'[q])
    BY <1>2, NoRegistryIsWellFormed DEF End, Registries, WellFormedRegistry
  <2>2. call' \in [Calls -> Tools \cup {NoTool}]
    BY <1>2 DEF End, Registries
  <2> QED
    BY <1>2, <2>1, <2>2 DEF End, Registries
<1>3. ASSUME NEW c \in Calls, NEW t \in Tools, Admit(c, t) PROVE Registries'
  BY <1>3 DEF Admit, Registries
<1>4. ASSUME NEW c \in Calls, NEW t \in Tools, AdmitProbing(c, t) PROVE Registries'
  <2>1. WellFormed(EnterHalfOpen(Entry(t)))
    BY <1>0, <1>4, <1>a, ProbingIsWellFormed DEF AdmitProbing, Entry
  <2>2. call' \in [Calls -> Tools \cup {NoTool}]
    BY <1>4, <1>c DEF AdmitProbing
  <2> QED
    BY <1>0, <1>4, <1>c, <2>1, <2>2, SaveKeepsRegistries DEF AdmitProbing
<1>5. ASSUME NEW c \in Calls, Respond(c) \/ Fail(c) PROVE Registries'
  <2>1. Server \in alive /\ call[c] \in Tools /\ call' \in [Calls -> Tools \cup {NoTool}]
    BY <1>5, <1>c DEF Respond, Fail
  <2>2. WellFormed(Entry(call[c]))
    BY <1>0, <1>a, <2>1 DEF Entry
  <2>3. CASE Respond(c)
    <3>1. WellFormed(RecordSuccess(Entry(call[c])))
      BY <2>2, SuccessIsWellFormed
    <3> QED
      BY <1>0, <1>c, <2>1, <2>3, <3>1, SaveKeepsRegistries DEF Respond
  <2>4. CASE Fail(c)
    <3>1. WellFormed(RecordFailure(Entry(call[c])))
      BY <2>2, FailureIsWellFormed
    <3> QED
      BY <1>0, <1>c, <2>1, <2>4, <3>1, SaveKeepsRegistries DEF Fail
  <2> QED
    BY <1>5, <2>3, <2>4
<1>6. ASSUME NEW p \in Operators, NEW t \in Tools, Kill(p, t) PROVE Registries'
  <2>1. WellFormed(KillTool(memory[p][CliKey[t]]))
    BY <1>0, <1>6, <1>a, KillIsWellFormed DEF Kill
  <2> QED
    BY <1>0, <1>6, <1>c, <2>1, SaveKeepsRegistries DEF Kill
<1>7. ASSUME NEW p \in Operators, NEW t \in Tools, Enable(p, t) PROVE Registries'
  <2>1. WellFormed(EnableTool(memory[p][CliKey[t]]))
    BY <1>0, <1>7, <1>a, EnableIsWellFormed DEF Enable
  <2>2. CASE SaveBy(p, CliKey[t], EnableTool(memory[p][CliKey[t]]))
    BY <1>0, <1>7, <1>c, <2>1, <2>2, SaveKeepsRegistries DEF Enable
  <2>3. CASE UNCHANGED <<memory, file>>
    BY <1>7, <2>3 DEF Enable, Registries, WellFormedRegistry
  <2> QED
    BY <1>7, <2>2, <2>3 DEF Enable
<1>8. ASSUME NEW p \in Operators, NEW t \in Tools, Diagnose(p, t) PROVE Registries'
  <2>1. WellFormed(EnterHalfOpen(memory[p][CliKey[t]]))
    BY <1>0, <1>8, <1>a, ProbingIsWellFormed DEF Diagnose
  <2> QED
    BY <1>0, <1>8, <1>c, <2>1, SaveKeepsRegistries DEF Diagnose
<1>9. CASE Tick
  <2>1. ASSUME NEW registry, WellFormedRegistry(registry)
        PROVE  WellFormedRegistry(Aged(registry))
    BY <2>1, OlderIsWellFormed DEF WellFormedRegistry, WellFormed, Aged
  <2>2. /\ memory' \in [Processes -> [Keys -> ToolCircuitBreaker]]
        /\ \A p \in Processes : WellFormedRegistry(memory'[p])
        /\ WellFormedRegistry(file')
    BY <1>9, <2>1 DEF Tick, Registries, WellFormedRegistry
  <2> QED
    BY <1>9, <2>2 DEF Tick, Registries
<1>10. CASE UNCHANGED vars
  BY <1>10 DEF vars, Registries, WellFormedRegistry
<1> QED
  BY <1>1, <1>2, <1>3, <1>4, <1>5, <1>6, <1>7, <1>8, <1>9, <1>10 DEF Next

\* Processes that overwrite one another's files lose kills and enables, but no
\* registry and no file ever holds a breaker that is none: a killed one that is
\* not OPEN, or one that is HALF_OPEN before its time.  It takes no discipline.
THEOREM RegistriesAreSound == Spec => []Registries
<1>1. Init => Registries
  BY NoRegistryIsWellFormed DEF Init, Registries, WellFormedRegistry
<1> QED
  BY <1>1, NextRegistries, PTL DEF Spec

\* Every field of every registry stays within its type, whatever operators do.
THEOREM TypeCorrect == Spec => []TypeOK
<1>1. Registries => TypeOK
  BY DEF Registries, WellFormedRegistry, TypeOK
<1> QED
  BY <1>1, RegistriesAreSound, PTL

----------------------------------------------------------------------------
\* Every step is a step of the kill switch, or changes nothing it sees.
LEMMA StepRefinement ==
  ASSUME Disciplined, IInv, [Next]_vars
  PROVE  [KS!Next]_KS!vars
<1>1. ASSUME NEW c \in Calls, NEW t \in Tools, Admit(c, t) \/ AdmitProbing(c, t)
      PROVE  KS!Start(c, t)
  <2>1. Server \in alive /\ ShouldAllow(Entry(t))
    BY <1>1 DEF Admit, AdmitProbing
  <2>2. CallKey[t] \in Keys /\ CallKey = CliKey
    BY ProcessesAssumption DEF Disciplined
  <2>3. WellFormed(Entry(t)) /\ Entry(t) = file[CliKey[t]]
    BY <2>1, <2>2 DEF IInv, FileIsCurrent, WellFormedRegistry, Entry
  <2>4. t \notin killed
    BY <2>1, <2>3, AllowedIsNotKilled DEF IInv, KillIsOnFile
  <2> QED
    BY <1>1, <2>4 DEF Admit, AdmitProbing, KS!Start
<1>2. ASSUME NEW c \in Calls, Respond(c) \/ Fail(c) PROVE KS!Finish(c)
  BY <1>2 DEF Respond, Fail, KS!Finish
<1>3. ASSUME NEW p \in Processes, Start(p) PROVE UNCHANGED KS!vars
  BY <1>3 DEF Start, KS!vars
<1>4. ASSUME NEW p \in Processes, End(p) PROVE KS!Crash \/ UNCHANGED KS!vars
  BY <1>4 DEF End, KS!Crash, KS!vars
<1>5. ASSUME NEW p \in Operators, NEW t \in Tools, Kill(p, t) PROVE KS!Kill(t)
  BY <1>5 DEF Kill, KS!Kill
<1>6. ASSUME NEW p \in Operators, NEW t \in Tools, Enable(p, t) PROVE KS!Enable(t)
  BY <1>6 DEF Enable, KS!Enable
<1>7. ASSUME NEW p \in Operators, NEW t \in Tools, Diagnose(p, t)
      PROVE  UNCHANGED KS!vars
  BY <1>7 DEF Diagnose, KS!vars
<1>8. ASSUME Tick \/ UNCHANGED vars PROVE UNCHANGED KS!vars
  BY <1>8 DEF Tick, vars, KS!vars
<1> QED
  BY <1>1, <1>2, <1>3, <1>4, <1>5, <1>6, <1>7, <1>8 DEF Next, KS!Next

\* The server, the commands and inspect implement the kill switch together.
THEOREM Implementation == Disciplined => (Spec => ImplementsKillSwitch)
<1> SUFFICES ASSUME Disciplined PROVE Spec => ImplementsKillSwitch
  OBVIOUS
<1>1. Init => KS!Init
  BY DEF Init, KS!Init
<1>2. IInv /\ [Next]_vars => [KS!Next]_KS!vars
  BY StepRefinement
<1>3. Spec => []IInv
  BY Invariance
<1>4. Spec => KS!Spec
  BY <1>1, <1>2, <1>3, PTL DEF Spec, KS!Spec
<1> QED
  BY <1>4 DEF ImplementsKillSwitch

----------------------------------------------------------------------------
\* What the documents promise of a kill holds of disciplined operators: no call
\* of a killed tool starts, by whichever process it was killed.
THEOREM KilledToolsStayBlocked == Disciplined => (Spec => KilledToolsDoNotStart)
<1> SUFFICES ASSUME Disciplined PROVE Spec => KilledToolsDoNotStart
  OBVIOUS
<1>1. ASSUME IInv, [Next]_vars, NEW c \in Calls, NEW t \in Tools,
             call[c] = NoTool, call'[c] = t
      PROVE  t \notin killed
  <2>1. [KS!Next]_KS!vars
    BY <1>1, StepRefinement
  <2>2. call[c] # t
    BY <1>1, ProcessesAssumption
  <2>3. ASSUME NEW d \in Calls, NEW u \in Tools, KS!Start(d, u)
        PROVE  t \notin killed
    BY <1>1, <2>2, <2>3 DEF KS!Start, IInv
  <2>4. ASSUME NEW d \in Calls, KS!Finish(d) PROVE FALSE
    BY <1>1, <2>2, <2>4, ProcessesAssumption DEF KS!Finish, IInv
  <2>5. ASSUME KS!Crash PROVE FALSE
    BY <1>1, <2>5, ProcessesAssumption DEF KS!Crash
  <2>6. ASSUME NEW u \in Tools, KS!Kill(u) \/ KS!Enable(u) PROVE FALSE
    BY <1>1, <2>2, <2>6 DEF KS!Kill, KS!Enable
  <2>7. ASSUME UNCHANGED KS!vars PROVE FALSE
    BY <1>1, <2>2, <2>7 DEF KS!vars
  <2> QED
    BY <2>1, <2>3, <2>4, <2>5, <2>6, <2>7 DEF KS!Next
<1>2. IInv /\ [Next]_vars
      => [\A c \in Calls, t \in Tools :
            call[c] = NoTool /\ call'[c] = t => t \notin killed]_vars
  BY <1>1
<1>3. Spec => []IInv
  BY Invariance
<1> QED
  BY <1>2, <1>3, PTL DEF Spec, KilledToolsDoNotStart
=============================================================================
