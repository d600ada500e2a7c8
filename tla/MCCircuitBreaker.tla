-------------------------- MODULE MCCircuitBreaker --------------------------
(* Instances of CircuitBreaker for TLC.  The run has liveness properties and *)
(* therefore no symmetry, though calls are interchangeable.                  *)
EXTENDS CircuitBreaker
=============================================================================
