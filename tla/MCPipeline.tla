------------------------------ MODULE MCPipeline ------------------------------
(***************************************************************************)
(* A tool that reads and one that writes and needs a confirmation; a       *)
(* budget for both; a session rate for reading, and two rules files, one   *)
(* that asks for a read before a write and one that refuses it after.      *)
(***************************************************************************)
EXTENDS Pipeline, TLC

CONSTANTS c1, c2, k1, a1, read, write

MCCallers == {c1, c2}
MCTools == {read, write}
MCTokens == {k1}
MCArgs == {a1}
MCLockfiles == {MCTools, {read}}
MCTrips == {write}
MCStateChanging == {write}
MCAlways == {}

MCPolicyRules ==
  <<[type |-> "budget", tools |-> {read}, limit |-> 1, waives |-> FALSE],
    [type |-> "allow", tools |-> {read, write}, limit |-> 0, waives |-> FALSE]>>

Rate ==
  [kind |-> "rate", tools |-> {read}, limit |-> 1, window |-> 0, perTool |-> TRUE]

ReadFirst == [kind |-> "sequence", tools |-> {write}, order |-> <<read, write>>]

NotAfterRead ==
  [kind |-> "prohibition", tools |-> {write}, always |-> FALSE, after |-> {read}]

MCRuleFiles == {{Rate, ReadFirst}, {Rate, NotAfterRead}}

\* From time 2 on only what leaves the rules the same in memory and file is
\* followed further.
Bounds ==
  now > 1 => ~stale /\ ~apart /\ file # Torn

MCSymmetry == Permutations(MCCallers)
=============================================================================
