---------------------------- MODULE BreakerProofs ----------------------------
(***************************************************************************)
(* What the operations of the registry do to one breaker, for every value  *)
(* of the thresholds.  WellFormed is the invariant of one breaker: its     *)
(* fields have their types and fit together.                               *)
(***************************************************************************)
EXTENDS Breaker, TLAPS

WellFormed(b) ==
  /\ b \in ToolCircuitBreaker
  /\ b.state = "closed" => b.failures < FailureThreshold
  /\ b.state = "half_open" => b.successes < SuccessThreshold /\ Rested(b)
  /\ b.killed => b.state = "open"

\* The values the operations assign, in the types of the fields.
LEMMA FieldTypes ==
  /\ 0 \in 0..FailureThreshold
  /\ 0 \in 0..SuccessThreshold
  /\ 0 \in NoFailure..RecoveryTimeout
  /\ NoFailure \in NoFailure..RecoveryTimeout
  /\ {"closed", "open", "half_open"} \subseteq BreakerState
  /\ \A n \in 0..FailureThreshold :
       n < FailureThreshold => n + 1 \in 0..FailureThreshold
  /\ \A n \in 0..SuccessThreshold :
       n < SuccessThreshold => n + 1 \in 0..SuccessThreshold
BY ThresholdAssumption DEF NoFailure, BreakerState

\* A new entry is well formed.
LEMMA FreshIsWellFormed == WellFormed(FreshBreaker)
<1>1. FreshBreaker \in ToolCircuitBreaker
  BY FieldTypes DEF FreshBreaker, ToolCircuitBreaker
<1> QED
  BY <1>1, ThresholdAssumption DEF WellFormed, FreshBreaker

\* record_success keeps a breaker well formed and leaves the override alone.
LEMMA SuccessIsWellFormed ==
  ASSUME NEW b, WellFormed(b)
  PROVE  WellFormed(RecordSuccess(b)) /\ RecordSuccess(b).killed = b.killed
<1> USE DEF WellFormed
<1>1. CASE b.state = "closed"
  <2>1. RecordSuccess(b) = [b EXCEPT !.failures = 0]
    BY <1>1 DEF RecordSuccess
  <2>2. RecordSuccess(b) \in ToolCircuitBreaker
    BY <2>1, FieldTypes DEF ToolCircuitBreaker
  <2> QED
    BY <1>1, <2>1, <2>2, ThresholdAssumption DEF ToolCircuitBreaker
<1>2. CASE b.state = "open"
  BY <1>2 DEF RecordSuccess
<1>3. CASE b.state = "half_open" /\ b.successes + 1 >= SuccessThreshold
  <2>1. RecordSuccess(b)
          = [b EXCEPT !.state = "closed", !.failures = 0, !.successes = 0]
    BY <1>3 DEF RecordSuccess
  <2>2. RecordSuccess(b) \in ToolCircuitBreaker
    BY <2>1, FieldTypes DEF ToolCircuitBreaker
  <2> QED
    BY <1>3, <2>1, <2>2, ThresholdAssumption DEF ToolCircuitBreaker
<1>4. CASE b.state = "half_open" /\ ~(b.successes + 1 >= SuccessThreshold)
  <2>1. RecordSuccess(b) = [b EXCEPT !.successes = @ + 1]
    BY <1>4 DEF RecordSuccess
  <2>2. RecordSuccess(b) \in ToolCircuitBreaker
    BY <1>4, <2>1, FieldTypes DEF ToolCircuitBreaker
  <2> QED
    BY <1>4, <2>1, <2>2, ThresholdAssumption DEF ToolCircuitBreaker, Rested
<1> QED
  BY <1>1, <1>2, <1>3, <1>4 DEF ToolCircuitBreaker, BreakerState

\* record_failure does too: failure_count never passes the threshold, because
\* only a CLOSED breaker counts.
LEMMA FailureIsWellFormed ==
  ASSUME NEW b, WellFormed(b)
  PROVE  WellFormed(RecordFailure(b)) /\ RecordFailure(b).killed = b.killed
<1> USE DEF WellFormed
<1>1. CASE b.state = "closed"
  <2> DEFINE next == IF b.failures + 1 >= FailureThreshold THEN "open" ELSE "closed"
  <2>1. RecordFailure(b)
          = [b EXCEPT !.failures = @ + 1, !.age = 0, !.state = next]
    BY <1>1 DEF RecordFailure
  <2>2. RecordFailure(b) \in ToolCircuitBreaker
    BY <1>1, <2>1, FieldTypes DEF ToolCircuitBreaker
  <2> QED
    BY <1>1, <2>1, <2>2, ThresholdAssumption DEF ToolCircuitBreaker
<1>2. CASE b.state = "half_open"
  <2>1. RecordFailure(b)
          = [b EXCEPT !.state = "open", !.successes = 0, !.age = 0]
    BY <1>2 DEF RecordFailure
  <2>2. RecordFailure(b) \in ToolCircuitBreaker
    BY <2>1, FieldTypes DEF ToolCircuitBreaker
  <2> QED
    BY <1>2, <2>1, <2>2 DEF ToolCircuitBreaker
<1>3. CASE b.state = "open"
  <2>1. RecordFailure(b) = [b EXCEPT !.age = 0]
    BY <1>3 DEF RecordFailure
  <2>2. RecordFailure(b) \in ToolCircuitBreaker
    BY <2>1, FieldTypes DEF ToolCircuitBreaker
  <2> QED
    BY <1>3, <2>1, <2>2 DEF ToolCircuitBreaker
<1> QED
  BY <1>1, <1>2, <1>3 DEF ToolCircuitBreaker, BreakerState

\* kill_tool sets the override, and leaves the breaker OPEN.
LEMMA KillIsWellFormed ==
  ASSUME NEW b, WellFormed(b)
  PROVE  WellFormed(KillTool(b)) /\ KillTool(b).killed
<1>1. KillTool(b) \in ToolCircuitBreaker
  BY FieldTypes DEF WellFormed, KillTool, ToolCircuitBreaker
<1> QED
  BY <1>1 DEF WellFormed, KillTool, ToolCircuitBreaker

\* enable_tool lifts it.
LEMMA EnableIsWellFormed ==
  ASSUME NEW b, WellFormed(b)
  PROVE  WellFormed(EnableTool(b))
<1>1. EnableTool(b) \in ToolCircuitBreaker
  BY FieldTypes DEF WellFormed, EnableTool, ToolCircuitBreaker
<1> QED
  BY <1>1, ThresholdAssumption DEF WellFormed, EnableTool, ToolCircuitBreaker

\* should_allow enters HALF_OPEN only from a rested breaker nobody killed.
LEMMA ProbingIsWellFormed ==
  ASSUME NEW b, WellFormed(b), b.state = "open", ShouldAllow(b)
  PROVE  WellFormed(EnterHalfOpen(b)) /\ EnterHalfOpen(b).killed = b.killed
<1>1. EnterHalfOpen(b) \in ToolCircuitBreaker
  BY FieldTypes DEF WellFormed, EnterHalfOpen, ToolCircuitBreaker
<1>2. ~b.killed /\ Rested(b)
  BY DEF ShouldAllow
<1> QED
  BY <1>1, <1>2, ThresholdAssumption
     DEF WellFormed, EnterHalfOpen, Rested, ToolCircuitBreaker

\* A breaker whose answer is yes is not killed.
LEMMA AllowedIsNotKilled ==
  ASSUME NEW b, WellFormed(b), ShouldAllow(b)
  PROVE  ~b.killed
BY DEF WellFormed, ShouldAllow

\* Time changes nothing but the age, and not that of a breaker that probes.
LEMMA OlderIsWellFormed ==
  ASSUME NEW b, WellFormed(b)
  PROVE  WellFormed(Older(b)) /\ Older(b).killed = b.killed
<1>1. Older(b) \in ToolCircuitBreaker
  BY ThresholdAssumption DEF WellFormed, Older, ToolCircuitBreaker, NoFailure
<1>2. Rested(b) => Rested(Older(b))
  BY ThresholdAssumption
     DEF WellFormed, Older, ToolCircuitBreaker, NoFailure, Rested
<1> QED
  BY <1>1, <1>2 DEF WellFormed, Older, ToolCircuitBreaker
=============================================================================
