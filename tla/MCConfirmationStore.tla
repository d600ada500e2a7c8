------------------------ MODULE MCConfirmationStore ------------------------
(* An instance of ConfirmationStore for TLC: two tokens, for two requests. *)
EXTENDS ConfirmationStore, TLC

CONSTANTS t1, t2   \* tokens, each also the name of the request it is for

TwoTokens == {t1, t2}
Own == [t \in TwoTokens |-> t]

\* Sound: Own relates each token to its own request only.
Symmetry == Permutations(Clients) \cup Permutations(TwoTokens)
=============================================================================
