---------------------------- MODULE MCLegacyPipeline ----------------------------
(* LegacyPipeline for TLC: activities are interchangeable. *)
EXTENDS LegacyPipelineInvariants, TLC

LegacySymmetry == Permutations(Procs)
=============================================================================
