-------------------------- MODULE BreakerProcesses --------------------------
(***************************************************************************)
(* The processes that share breakers.json: the server, the one-shot        *)
(* commands `toolwright kill` and `toolwright enable`, and the MCP server  *)
(* of `toolwright inspect` with its meta-tools.  Each builds a registry of *)
(* its own when it starts, from the file, and never reads the file again;  *)
(* every change of a registry rewrites the whole file.  Nothing locks the  *)
(* file or tells one process of another.                                   *)
(*                                                                         *)
(* CircuitBreaker has the details of the server; here a disk never fails   *)
(* and the console is not used.                                            *)
(***************************************************************************)
EXTENDS Breaker

CONSTANTS
  Tools,      \* tools an agent can call
  Keys,       \* keys of the entries of a registry
  CallKey,    \* CallKey[t]: tool_id of t, the key the pipeline uses
  CliKey,     \* CliKey[t]: how an operator names t, the key kill and enable use
  Calls,      \* slots for calls in flight
  NoTool,     \* content of a free slot
  Operators,  \* slots for processes of operators: kill, enable, inspect
  Server,     \* the process that serves the tools
  Offline     \* TRUE: operators stop the server first, and work one at a time

ASSUME ProcessesAssumption ==
  /\ NoTool \notin Tools
  /\ Server \notin Operators
  /\ CallKey \in [Tools -> Keys]
  /\ CliKey \in [Tools -> Keys]
  /\ Offline \in BOOLEAN

Processes == Operators \cup {Server}

VARIABLES
  alive,    \* the processes that run
  memory,   \* memory[p]: _breakers of process p
  file,     \* breakers.json
  call,     \* call[c]: the tool a call in flight executes
  killed    \* history: tools whose kill was reported done, not enabled since

vars == <<alive, memory, file, call, killed>>

NoRegistry == [k \in Keys |-> FreshBreaker]

TypeOK ==
  /\ alive \in SUBSET Processes
  /\ memory \in [Processes -> [Keys -> ToolCircuitBreaker]]
  /\ file \in [Keys -> ToolCircuitBreaker]
  /\ call \in [Calls -> Tools \cup {NoTool}]
  /\ killed \in SUBSET Tools

Init ==
  /\ alive = {}
  /\ memory = [p \in Processes |-> NoRegistry]
  /\ file = NoRegistry
  /\ call = [c \in Calls |-> NoTool]
  /\ killed = {}

\* Process p changes one entry of its registry, and saves all of them.
SaveBy(p, k, b) ==
  /\ memory' = [memory EXCEPT ![p][k] = b]
  /\ file' = memory'[p]

----------------------------------------------------------------------------
(* Processes start, from the file, and end.                                *)

MayStart(p) == Offline => alive = {}

\* A mistake: a process starts with an empty registry.
StartEmpty(p) ==
  /\ p \notin alive /\ MayStart(p)
  /\ alive' = alive \cup {p}
  /\ memory' = [memory EXCEPT ![p] = NoRegistry]
  /\ UNCHANGED <<file, call, killed>>

Start(p) ==
  /\ p \notin alive /\ MayStart(p)
  /\ alive' = alive \cup {p}
  /\ memory' = [memory EXCEPT ![p] = file]
  /\ UNCHANGED <<file, call, killed>>

End(p) ==
  /\ p \in alive
  /\ alive' = alive \ {p}
  /\ memory' = [memory EXCEPT ![p] = NoRegistry]
  /\ call' = IF p = Server THEN [c \in Calls |-> NoTool] ELSE call
  /\ UNCHANGED <<file, killed>>

----------------------------------------------------------------------------
(* The server.                                                             *)

Entry(t) == memory[Server][CallKey[t]]

Admit(c, t) ==
  /\ Server \in alive /\ call[c] = NoTool
  /\ Entry(t).state # "open" /\ ShouldAllow(Entry(t))
  /\ call' = [call EXCEPT ![c] = t]
  /\ UNCHANGED <<alive, memory, file, killed>>

\* A mistake: the transition to HALF_OPEN is not saved.
AdmitProbingUnsaved(c, t) ==
  /\ Server \in alive /\ call[c] = NoTool
  /\ Entry(t).state = "open" /\ ShouldAllow(Entry(t))
  /\ memory' = [memory EXCEPT ![Server][CallKey[t]] = EnterHalfOpen(@)]
  /\ call' = [call EXCEPT ![c] = t]
  /\ UNCHANGED <<alive, file, killed>>

AdmitProbing(c, t) ==
  /\ Server \in alive /\ call[c] = NoTool
  /\ Entry(t).state = "open" /\ ShouldAllow(Entry(t))
  /\ SaveBy(Server, CallKey[t], EnterHalfOpen(Entry(t)))
  /\ call' = [call EXCEPT ![c] = t]
  /\ UNCHANGED <<alive, killed>>

Respond(c) ==
  /\ Server \in alive /\ call[c] # NoTool
  /\ SaveBy(Server, CallKey[call[c]], RecordSuccess(Entry(call[c])))
  /\ call' = [call EXCEPT ![c] = NoTool]
  /\ UNCHANGED <<alive, killed>>

Fail(c) ==
  /\ Server \in alive /\ call[c] # NoTool
  /\ SaveBy(Server, CallKey[call[c]], RecordFailure(Entry(call[c])))
  /\ call' = [call EXCEPT ![c] = NoTool]
  /\ UNCHANGED <<alive, killed>>

----------------------------------------------------------------------------
(* The operators.  A command starts, does one of these, and ends; inspect  *)
(* stays and may do several.                                               *)

Kill(p, t) ==
  /\ p \in alive
  /\ SaveBy(p, CliKey[t], KillTool(memory[p][CliKey[t]]))
  /\ killed' = killed \cup {t}
  /\ UNCHANGED <<alive, call>>

\* The command leaves a CLOSED breaker alone; the meta-tool resets it, which
\* clears its failure count.
Enable(p, t) ==
  /\ p \in alive
  /\ \/ SaveBy(p, CliKey[t], EnableTool(memory[p][CliKey[t]]))
     \/ memory[p][CliKey[t]].state = "closed" /\ UNCHANGED <<memory, file>>
  /\ killed' = killed \ {t}
  /\ UNCHANGED <<alive, call>>

\* toolwright_diagnose asks should_allow of the registry of inspect.
Diagnose(p, t) ==
  LET b == memory[p][CliKey[t]] IN
  /\ p \in alive
  /\ b.state = "open" /\ ShouldAllow(b)
  /\ SaveBy(p, CliKey[t], EnterHalfOpen(b))
  /\ UNCHANGED <<alive, call, killed>>

----------------------------------------------------------------------------
Aged(registry) == [k \in Keys |-> Older(registry[k])]

Tick ==
  /\ memory' = [p \in Processes |-> Aged(memory[p])]
  /\ file' = Aged(file)
  /\ UNCHANGED <<alive, call, killed>>

Next ==
  \/ \E p \in Processes : Start(p) \/ End(p)
  \/ \E c \in Calls, t \in Tools : Admit(c, t) \/ AdmitProbing(c, t)
  \/ \E c \in Calls : Respond(c) \/ Fail(c)
  \/ \E p \in Operators, t \in Tools : Kill(p, t) \/ Enable(p, t) \/ Diagnose(p, t)
  \/ Tick

Spec == Init /\ [][Next]_vars

----------------------------------------------------------------------------
\* Whoever runs has the registry the file holds: with one process at a time, no
\* state of a breaker is lost when it ends, HALF_OPEN and failure counts
\* included.
FileIsCurrent == \A p \in alive : memory[p] = file

\* A killed tool is killed in the file, wherever results of its calls, other
\* tools' results, restarts and diagnoses fall.
KillIsOnFile == \A t \in killed : file[CliKey[t]].killed

\* commands_kill.py:79: "The tool will be blocked from execution until manually
\* re-enabled with `toolwright enable`": no call of a killed tool starts.
KilledToolsDoNotStart ==
  [][\A c \in Calls, t \in Tools :
       call[c] = NoTool /\ call'[c] = t => t \notin killed]_vars

\* The same promise, and that of CircuitBreaker, as one abstract specification.
KS == INSTANCE KillSwitch
        WITH blocked <- killed, running <- call
ImplementsKillSwitch == KS!Spec
=============================================================================
