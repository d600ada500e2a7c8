---------------------------- MODULE MCAtomicWrite ----------------------------
(* Two processes that save and one that loads a file: a short and a long   *)
(* text, so that writes over a longer text leave its end.                  *)
EXTENDS AtomicWrite, TLC

CONSTANTS fresh, killed, w1, w2, r1, f1, f2, f3

MCLength == fresh :> 1 @@ killed :> 2
Symmetry == Permutations(Writers) \cup Permutations(Files)
=============================================================================
