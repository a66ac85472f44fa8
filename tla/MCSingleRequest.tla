---------------------------- MODULE MCSingleRequest ----------------------------
(* SingleRequest for TLC: activities and research results are interchangeable. *)
EXTENDS SingleRequest, TLC

SafetySymmetry == Permutations(Procs) \cup Permutations(Findings)
=============================================================================
