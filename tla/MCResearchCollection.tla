-------------------------- MODULE MCResearchCollection --------------------------
(* ResearchCollection for TLC: what a constant's members are called makes no difference. *)
EXTENDS ResearchCollection, TLC

ResearchSymmetry ==
    Permutations(Deliveries) \cup Permutations(Runs) \cup Permutations(Procs)
        \cup Permutations(Windows) \cup Permutations(Queries)
=============================================================================
