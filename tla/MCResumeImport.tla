----------------------------- MODULE MCResumeImport -----------------------------
(* ResumeImport for TLC: activities are interchangeable, and so are sessions. *)
EXTENDS ResumeImport, TLC

ImportSymmetry == Permutations(Procs) \cup Permutations(Callers)
=============================================================================
