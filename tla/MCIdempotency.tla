---------------------------- MODULE MCIdempotency ----------------------------
(* Idempotency for TLC: requests and bodies are interchangeable. *)
EXTENDS Idempotency, TLC

SafetySymmetry == Permutations(Requests) \cup Permutations(Bodies)
=============================================================================
