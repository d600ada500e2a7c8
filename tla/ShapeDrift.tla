------------------------------ MODULE ShapeDrift ------------------------------
(***************************************************************************)
(* ShapeProbeLoop and handle_drift: the server asks the upstream again and *)
(* again, merges safe drift into the baselines of its tools and logs any   *)
(* other.                                                                  *)
(*                                                                         *)
(* A cycle probes all tools at once; answers come in any order, and what   *)
(* is done with one has no await in it.  A save writes the baselines of    *)
(* all tools.  An error of a save or of the log ends the cycle; probes     *)
(* that are still out are answered all the same.  The interval is longer   *)
(* than a probe takes: each cycle finds every tool due and no probe out.   *)
(***************************************************************************)
EXTENDS Shapes

CONSTANTS
  Tools,
  Bodies,     \* what upstreams answer
  Baselines,  \* what compile_shape_baselines makes of captured traffic
  Down        \* no answer, or none of status 200 with a JSON body

VARIABLES
  api,       \* api[t]: what the upstream of t answers at the moment
  pending,   \* tools whose probe is out
  index,     \* the baselines in memory
  file,      \* and in the file
  orig,      \* history: the baselines as they were compiled
  clipped,   \* history: arrays of bodies that were merged although cut off
  reported   \* history: the bodies whose drift is in drift_events.jsonl

vars == <<api, pending, index, file, orig, clipped, reported>>

\* seen <= sampled <= total at every path.
Shape(shape) ==
  /\ DOMAIN shape = {"fields", "total"} /\ shape.total \in Nat
  /\ DOMAIN shape.fields \subseteq Paths
  /\ \A p \in DOMAIN shape.fields :
       /\ shape.fields[p] \in FieldShape
       /\ shape.fields[p].seen <= shape.fields[p].sampled
       /\ shape.fields[p].sampled <= shape.total

Nested == Under(Arrays)

ASSUME ShapeDriftAssumption ==
  /\ Bodies \subseteq Body /\ Down \notin Bodies
  /\ \A shape \in Baselines :
       /\ Shape(shape)
       /\ \A p \in DOMAIN shape.fields \ Nested :
            shape.fields[p].sampled = shape.total

Init ==
  /\ api \in [Tools -> Bodies \cup {Down}]
  /\ pending = {}
  /\ orig \in [Tools -> Baselines] /\ index = orig /\ file = orig
  /\ clipped = [t \in Tools |-> {}]
  /\ reported = [t \in Tools |-> {}]

----------------------------------------------------------------------------
\* probe_cycle.
BeginCycle ==
  /\ pending = {}
  /\ pending' = Tools
  /\ UNCHANGED <<api, index, file, orig, clipped, reported>>

\* A probe that fails says nothing about drift.
ProbeFails(t) ==
  /\ t \in pending /\ api[t] = Down
  /\ pending' = pending \ {t}
  /\ UNCHANGED <<api, index, file, orig, clipped, reported>>

Changes(t) == Diff(index[t], api[t])

NoDrift(t) ==
  /\ t \in pending /\ api[t] # Down
  /\ Changes(t) = {}
  /\ pending' = pending \ {t}
  /\ UNCHANGED <<api, index, file, orig, clipped, reported>>

\* _auto_merge: memory first, then the file, unless the save fails.
AutoMerge(t, saved) ==
  /\ t \in pending /\ api[t] # Down
  /\ Changes(t) # {} /\ AllSafe(Changes(t))
  /\ pending' = pending \ {t}
  /\ index' = [index EXCEPT ![t] = Merged(@, api[t])]
  /\ file' = IF saved THEN index' ELSE file
  /\ clipped' = [clipped EXCEPT ![t] = @ \cup api[t].truncated]
  /\ UNCHANGED <<api, orig, reported>>

\* A mistake: what would need an approval is not logged.
LogManual(t, saved) ==
  /\ t \in pending /\ api[t] # Down
  /\ ~AllSafe(Changes(t))
  /\ pending' = pending \ {t}
  /\ reported' = IF /\ saved
                    /\ \E c \in Changes(t) : c.kind \in {"required_path_missing", "type_narrowed"}
                 THEN [reported EXCEPT ![t] = @ \cup {api[t]}] ELSE reported
  /\ UNCHANGED <<api, index, file, orig, clipped>>

\* _log_drift_event, unless the log cannot be written.
Log(t, saved) ==
  /\ t \in pending /\ api[t] # Down
  /\ ~AllSafe(Changes(t))
  /\ pending' = pending \ {t}
  /\ reported' = IF saved THEN [reported EXCEPT ![t] = @ \cup {api[t]}] ELSE reported
  /\ UNCHANGED <<api, index, file, orig, clipped>>

Upstream(t, body) ==
  /\ api' = [api EXCEPT ![t] = body]
  /\ UNCHANGED <<pending, index, file, orig, clipped, reported>>

\* The server stops, at any moment, and loads the file when it starts.
Restart ==
  /\ pending' = {}
  /\ index' = file
  /\ UNCHANGED <<api, file, orig, clipped, reported>>

Answer(t, saved) == ProbeFails(t) \/ NoDrift(t) \/ AutoMerge(t, saved) \/ Log(t, saved)

Next ==
  \/ BeginCycle
  \/ \E t \in Tools : \/ \E saved \in BOOLEAN : Answer(t, saved)
                      \/ \E body \in Bodies \cup {Down} : Upstream(t, body)
  \/ Restart

\* The loop goes on, probes are answered or time out, and a disk that refuses
\* a write does not refuse every write.
Fairness ==
  /\ WF_vars(BeginCycle)
  /\ \A t \in Tools : WF_vars(\E saved \in BOOLEAN : Answer(t, saved))
  /\ \A t \in Tools : SF_vars(AutoMerge(t, TRUE)) /\ SF_vars(Log(t, TRUE))

Spec == Init /\ [][Next]_vars /\ Fairness

----------------------------------------------------------------------------
TypeOK ==
  /\ api \in [Tools -> Bodies \cup {Down}]
  /\ pending \subseteq Tools
  /\ \A t \in Tools : Shape(index[t]) /\ Shape(file[t]) /\ Shape(orig[t])
  /\ DOMAIN index = Tools /\ DOMAIN file = Tools /\ orig \in [Tools -> Baselines]
  /\ clipped \in [Tools -> SUBSET Arrays]
  /\ reported \in [Tools -> SUBSET Bodies]

\* What was merged is known: the same response raises no drift again.
MergedIsQuiet ==
  [][\A t \in Tools :
       index'[t].total > index[t].total => Diff(index'[t], api[t]) = {}]_vars

\* However many responses were merged, a path of the compiled baseline has no
\* type and no null that did not come with it, but for a float where there was
\* an integer.  The items of arrays that were cut off are not compared, and
\* learned with the rest.
Learnable(types) == types \cup (IF Integer \in types THEN {Number} ELSE {})

LearnsOnlySafely ==
  \A t \in Tools : \A p \in DOMAIN orig[t].fields \ Under(clipped[t]) :
    /\ p \in DOMAIN index[t].fields
    /\ index[t].fields[p].types \subseteq Learnable(orig[t].fields[p].types)

\* A path every response must have stays one: no sequence of merges and
\* restarts turns its absence into a matter of routine.  Not so for what is in
\* arrays: samples in which they were empty count once they are not.
KeepsRequired ==
  \A t \in Tools : \A p \in DOMAIN orig[t].fields \ Nested :
    Required(orig[t].fields[p]) =>
      /\ p \in DOMAIN index[t].fields /\ Required(index[t].fields[p])
      /\ p \in DOMAIN file[t].fields /\ Required(file[t].fields[p])

\* Whatever the upstream settles on is learned or reported.
Settles ==
  \A t \in Tools, body \in Bodies :
    <>[](api[t] = body) => <>[](body \in reported[t] \/ Diff(index[t], body) = {})
=============================================================================
