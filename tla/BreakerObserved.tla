-------------------------- MODULE BreakerObserved --------------------------
(***************************************************************************)
(* The circuit breaker as its documentation describes it to operators:     *)
(* CircuitBreaker with a history variable for what they observe and the    *)
(* code does not record.                                                   *)
(***************************************************************************)
EXTENDS CircuitBreaker

VARIABLE probing  \* the calls in flight that were admitted in HALF_OPEN

ovars == <<vars, probing>>

OInit == Init /\ probing = {}

\* What the next step leaves in flight of the calls that probe.
NextProbing ==
  {c \in Calls :
     \/ c \in probing /\ call'[c] = call[c]
     \/ call[c] = NoTool /\ call'[c] # NoTool
        /\ breaker'[call'[c]].state = "half_open"}

ONext == Next /\ probing' = NextProbing

ObservedSpec == OInit /\ [][ONext]_ovars

----------------------------------------------------------------------------
\* docs/user-guide.md:522: "HALF_OPEN (probing) - allows one probe call."
OneProbeAtATime ==
  \A t \in Tools :
    breaker[t].state = "half_open" =>
      \A c, d \in probing : call[c] = t /\ call[d] = t => c = d
============================================================================
