----------------------------- MODULE SessionRules -----------------------------
(***************************************************************************)
(* RuleEngine and SessionHistory: what the behavioural rules say of a call *)
(* that is about to start, from the calls that have succeeded before.      *)
(*                                                                         *)
(* A rule of the file stands for an active one; its tools are those its    *)
(* targets match.  Patterns stand for the tools that match them, and the   *)
(* arguments of a call for one value that parameter conditions look at.    *)
(***************************************************************************)
EXTENDS Integers, Sequences, FiniteSets

\* SessionHistory.record: the oldest call is dropped beyond max_history.
Recorded(history, call, cap) ==
  LET all == Append(history, call) IN
  IF Len(all) > cap THEN SubSeq(all, Len(all) - cap + 1, Len(all)) ELSE all

\* has_called and call_sequence.
Called(history) == {history[i].tool : i \in DOMAIN history}

CallsOf(history, t) == {i \in DOMAIN history : history[i].tool = t}

\* calls_since.
Since(history, time) == {i \in DOMAIN history : history[i].time >= time}

\* How much of the order the calls have gone through, one after the other.
Progress(order, history) ==
  LET done[i \in 0..Len(history)] ==
        IF i = 0 THEN 0
        ELSE IF /\ done[i - 1] < Len(order)
                /\ order[done[i - 1] + 1] = history[i].tool
          THEN done[i - 1] + 1 ELSE done[i - 1]
  IN  done[Len(history)]

\* The order without one tool, wherever it stands.
Without(order, t) ==
  LET kept[i \in 0..Len(order)] ==
        IF i = 0 THEN << >>
        ELSE IF order[i] = t THEN kept[i - 1] ELSE Append(kept[i - 1], order[i])
  IN  kept[Len(order)]

----------------------------------------------------------------------------
(* One operator per kind of rule: whether it refuses the call.             *)

PrerequisiteRefuses(rule, history) ==
  \/ ~(rule.required \subseteq Called(history))
  \/ rule.oneOf # {} /\ rule.oneOf \cap Called(history) = {}

ProhibitionRefuses(rule, history) ==
  rule.always \/ rule.after \cap Called(history) # {}

ParameterRefuses(rule, arg) == arg \in rule.refused

\* The tool itself is no step of what must come before it.
SequenceRefuses(rule, t, history) ==
  LET prior == Without(rule.order, t) IN Progress(prior, history) < Len(prior)

\* A mistake: one call more than the limit.
RateRefusesLate(rule, t, history, now) ==
  Cardinality(CallsOf(history, t)) > rule.limit

\* window 0 stands for the whole session.
RateRefuses(rule, t, history, now) ==
  LET recent == IF rule.window = 0 THEN DOMAIN history
                                   ELSE Since(history, now - rule.window)
      counted == IF rule.perTool THEN recent \cap CallsOf(history, t) ELSE recent
  IN  Cardinality(counted) >= rule.limit

\* There is no way to give this approval: a triggered rule refuses.
ApprovalRefuses(rule, arg, history) ==
  \/ arg \in rule.args
  \/ rule.after \cap Called(history) # {}
  \/ rule.args = {} /\ rule.after = {}

Refuses(rule, t, arg, history, now) ==
  /\ t \in rule.tools
  /\ CASE rule.kind = "prerequisite" -> PrerequisiteRefuses(rule, history)
       [] rule.kind = "prohibition"  -> ProhibitionRefuses(rule, history)
       [] rule.kind = "parameter"    -> ParameterRefuses(rule, arg)
       [] rule.kind = "sequence"     -> SequenceRefuses(rule, t, history)
       [] rule.kind = "rate"         -> RateRefuses(rule, t, history, now)
       [] rule.kind = "approval"     -> ApprovalRefuses(rule, arg, history)

\* RuleEngine.evaluate: one violation is enough.
RulesAllow(rules, t, arg, history, now) ==
  \A rule \in rules : ~Refuses(rule, t, arg, history, now)
=============================================================================
