------------------------------ MODULE Breaker ------------------------------
(***************************************************************************)
(* The circuit breaker of one tool: the fields of ToolCircuitBreaker and   *)
(* what each method of CircuitBreakerRegistry does to them.  The module    *)
(* has no state; CircuitBreaker and BreakerProcesses apply these operators *)
(* to the registries of one and of several processes.                      *)
(*                                                                         *)
(* Time is kept as the age of last_failure_time, which stops growing at    *)
(* RecoveryTimeout because no comparison of the code tells larger ages     *)
(* apart.  manual_override only ever holds None or "killed", so it is the  *)
(* Boolean field killed.  A tool with no entry in the registry behaves as  *)
(* one whose entry is FreshBreaker: should_allow lets both pass and every  *)
(* other method starts by creating the entry.                              *)
(***************************************************************************)
EXTENDS Integers

CONSTANTS
  FailureThreshold,   \* failure_threshold (5 in the code)
  SuccessThreshold,   \* success_threshold (3 in the code)
  RecoveryTimeout     \* recovery_timeout_seconds, in ticks of the clock

ASSUME ThresholdAssumption ==
  /\ FailureThreshold \in Nat \ {0}
  /\ SuccessThreshold \in Nat \ {0}
  /\ RecoveryTimeout \in Nat

\* last_failure_time is None.
NoFailure == -1

BreakerState == {"closed", "open", "half_open"}

ToolCircuitBreaker ==
  [state     : BreakerState,
   failures  : 0..FailureThreshold,      \* failure_count
   successes : 0..SuccessThreshold,      \* success_count
   killed    : BOOLEAN,                  \* manual_override = "killed"
   age       : NoFailure..RecoveryTimeout]

FreshBreaker ==
  [state |-> "closed", failures |-> 0, successes |-> 0,
   killed |-> FALSE, age |-> NoFailure]

\* elapsed >= recovery_timeout_seconds, with last_failure_time set.
Rested(b) == b.age = RecoveryTimeout

\* One tick of the clock, seen from the time stamp of the last failure.
Older(b) ==
  [b EXCEPT !.age = IF @ \in 0..(RecoveryTimeout - 1) THEN @ + 1 ELSE @]

----------------------------------------------------------------------------
(* should_allow: the answer, and the breaker it leaves behind.             *)

\* A mistake: the manual override is not looked at.
ShouldAllowIgnoringKill(b) == b.state = "open" => Rested(b)

ShouldAllow(b) == b.state = "open" => ~b.killed /\ Rested(b)

\* A mistake: HALF_OPEN is never entered, the breaker allows and stays OPEN.
EnterHalfOpenStayingOpen(b) == [b EXCEPT !.successes = 0]

\* The branch of should_allow that changes state: OPEN, not killed, rested.
EnterHalfOpen(b) == [b EXCEPT !.state = "half_open", !.successes = 0]

----------------------------------------------------------------------------
(* record_success, record_failure, kill_tool, enable_tool.                 *)

\* A mistake: a success while OPEN (a call admitted earlier) closes the tool.
RecordSuccessClosingOpen(b) ==
  IF b.state = "open"
    THEN [b EXCEPT !.state = "closed", !.failures = 0]
    ELSE b

\* A mistake: a success in CLOSED does not reset failure_count.
RecordSuccessKeepingFailures(b) ==
  IF b.state = "half_open" /\ b.successes + 1 >= SuccessThreshold
    THEN [b EXCEPT !.state = "closed", !.failures = 0, !.successes = 0]
    ELSE IF b.state = "half_open" THEN [b EXCEPT !.successes = @ + 1] ELSE b

RecordSuccess(b) ==
  CASE b.state = "closed"    -> [b EXCEPT !.failures = 0]
    [] b.state = "open"      -> b
    [] b.state = "half_open" ->
         IF b.successes + 1 >= SuccessThreshold
           THEN [b EXCEPT !.state = "closed", !.failures = 0, !.successes = 0]
           ELSE [b EXCEPT !.successes = @ + 1]

\* A mistake: off by one, the threshold-th failure does not trip.
RecordFailureLate(b) ==
  IF b.state = "closed"
    THEN IF b.failures = FailureThreshold
           THEN [b EXCEPT !.state = "open", !.age = 0]
           ELSE [b EXCEPT !.failures = @ + 1, !.age = 0]
    ELSE [b EXCEPT !.state = "open", !.successes = 0, !.age = 0]

\* A mistake: a failed probe leaves the breaker HALF_OPEN.
RecordFailureStayingHalfOpen(b) ==
  IF b.state = "closed"
    THEN [b EXCEPT !.failures = @ + 1, !.age = 0,
                   !.state = IF b.failures + 1 >= FailureThreshold
                               THEN "open" ELSE "closed"]
    ELSE [b EXCEPT !.age = 0]

\* A mistake: failure_count grows in every state.
RecordFailureCountingAlways(b) ==
  [b EXCEPT !.failures = @ + 1, !.age = 0,
            !.state = IF b.failures + 1 >= FailureThreshold
                        THEN "open" ELSE "closed"]

RecordFailure(b) ==
  CASE b.state = "closed" ->
         [b EXCEPT !.failures = @ + 1, !.age = 0,
                   !.state = IF b.failures + 1 >= FailureThreshold
                               THEN "open" ELSE "closed"]
    [] b.state = "half_open" ->
         [b EXCEPT !.state = "open", !.successes = 0, !.age = 0]
    [] b.state = "open" -> [b EXCEPT !.age = 0]

KillTool(b) == [b EXCEPT !.state = "open", !.killed = TRUE, !.age = 0]

EnableTool(b) ==
  [b EXCEPT !.state = "closed", !.killed = FALSE,
            !.failures = 0, !.successes = 0]
============================================================================
