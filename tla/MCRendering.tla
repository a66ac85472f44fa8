------------------------------ MODULE MCRendering ------------------------------
(* Rendering for TLC: workers, customers and renderings are interchangeable. *)
EXTENDS Rendering, TLC

RenderingSymmetry == Permutations(Workers) \cup Permutations(Customers) \cup Permutations(Bytes)
=============================================================================
