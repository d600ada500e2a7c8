--------------------------- MODULE ApprovalToken ---------------------------
(***************************************************************************)
(* What the confirmation flow promises: a token stands for one approval of *)
(* one request.  It is spent at most once, only while it is approved, and  *)
(* a token that was refused or ran out is never approved or spent again.   *)
(***************************************************************************)
CONSTANT Tokens

VARIABLE phase   \* phase[t]

Init == phase = [t \in Tokens |-> "waiting"]

Approve(t) ==
  /\ phase[t] = "waiting"
  /\ phase' = [phase EXCEPT ![t] = "approved"]

\* Refusals and expiries; one look at the clock may void several tokens.
Void(T) ==
  /\ \A t \in T : phase[t] \in {"waiting", "approved"}
  /\ phase' = [t \in Tokens |-> IF t \in T THEN "void" ELSE phase[t]]

Spend(t) ==
  /\ phase[t] = "approved"
  /\ phase' = [phase EXCEPT ![t] = "spent"]

Next ==
  \/ \E t \in Tokens : Approve(t) \/ Spend(t)
  \/ \E T \in SUBSET Tokens : Void(T)

Spec == Init /\ [][Next]_phase
=============================================================================
