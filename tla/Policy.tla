-------------------------------- MODULE Policy --------------------------------
(***************************************************************************)
(* PolicyEngine: rules in the order of their priority, each of which       *)
(* matches some tools, and the trackers of its budget rules.  Method,      *)
(* path, host, risk and scope count as the set of tools a rule matches;    *)
(* audit and redaction settings are left out.                              *)
(*                                                                         *)
(* A tracker has windows for a minute and an hour that work alike: here it *)
(* has one.  A window starts with the first look at the tracker after the  *)
(* last one ran out.                                                       *)
(***************************************************************************)
EXTENDS Naturals, Sequences

CONSTANTS
  Tools,
  PolicyRules,   \* a sequence, the highest priority first
  DefaultAllow,  \* what happens if no rule matches
  StateChanging, \* tools that need a confirmation unless a rule waives it
  Always,        \* tools that need one in any case: confirmation_required
  Window         \* time units of a budget

PolicyRule ==
  [type : {"allow", "deny", "confirm", "budget"}, tools : SUBSET Tools,
   limit : Nat, waives : BOOLEAN]

ASSUME PolicyAssumption ==
  /\ PolicyRules \in Seq(PolicyRule)
  /\ DefaultAllow \in BOOLEAN
  /\ StateChanging \subseteq Tools /\ Always \subseteq Tools
  /\ Window \in Nat \ {0}

Rules == DOMAIN PolicyRules
BudgetRules == {i \in Rules : PolicyRules[i].type = "budget"}

Tracker == [start : Nat, count : Nat]
Budgets == [BudgetRules -> Tracker]

----------------------------------------------------------------------------
\* A mistake: the counter is set back, the start of its window is not.
RefreshedInPlace(b, now) ==
  IF now - b.start >= Window THEN [b EXCEPT !.count = 0] ELSE b

\* _check_reset, which every look at the tracker calls.
Refreshed(b, now) ==
  IF now - b.start >= Window THEN [start |-> now, count |-> 0] ELSE b

Matching(t) == {i \in Rules : t \in PolicyRules[i].tools}

Exceeded(i, budgets, now) ==
  /\ PolicyRules[i].type = "budget"
  /\ Refreshed(budgets[i], now).count >= PolicyRules[i].limit

\* The rules at which the evaluation would stop, and those it looks at.
Stops(t, budgets, now) ==
  {i \in Matching(t) : \/ PolicyRules[i].type \in {"allow", "deny"}
                       \/ Exceeded(i, budgets, now)}

LookedAt(t, budgets, now) ==
  LET stops == Stops(t, budgets, now) IN
  {i \in Matching(t) : \A j \in stops : i <= j}

First(S) == CHOOSE i \in S : \A j \in S : i <= j

\* evaluate: the rule it stops at decides, else the first that matched.
Allowed(t, budgets, now) ==
  LET stops == Stops(t, budgets, now) IN
  IF stops # {} THEN PolicyRules[First(stops)].type = "allow"
                ELSE Matching(t) # {} \/ DefaultAllow

\* With no rule to stop at, only the first rule that matched is asked: a
\* confirm rule behind a budget rule is not.
Confirms(t, budgets, now) ==
  IF Stops(t, budgets, now) # {}
    THEN \E i \in LookedAt(t, budgets, now) : PolicyRules[i].type = "confirm"
    ELSE /\ Matching(t) # {}
         /\ PolicyRules[First(Matching(t))].type = "confirm"

\* _has_allow_without_confirmation: any rule that waives, whatever decides.
Waived(t) ==
  \E i \in Matching(t) : PolicyRules[i].type = "allow" /\ PolicyRules[i].waives

StepUp(t, budgets, now) ==
  \/ t \in StateChanging /\ ~Waived(t)
  \/ Confirms(t, budgets, now)
  \/ t \in Always

----------------------------------------------------------------------------
\* What evaluate leaves of the trackers, with dry_run: the windows may move.
Evaluated(t, budgets, now) ==
  LET looked == LookedAt(t, budgets, now) IN
  [i \in BudgetRules |-> IF i \in looked THEN Refreshed(budgets[i], now)
                                         ELSE budgets[i]]

\* consume_budget: of every budget rule that matches and has something left.
Consumed(t, budgets, now) ==
  [i \in BudgetRules |->
     LET b == Refreshed(budgets[i], now) IN
     IF t \notin PolicyRules[i].tools THEN budgets[i]
     ELSE IF b.count < PolicyRules[i].limit THEN [b EXCEPT !.count = @ + 1]
     ELSE b]
=============================================================================
