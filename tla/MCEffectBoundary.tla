--------------------------- MODULE MCEffectBoundary ---------------------------
EXTENDS EffectBoundary, TLC

(* Nodes and handler slots are interchangeable; sound for safety properties. *)
Interchangeable == Permutations(Nodes) \cup Permutations(Handlers)
=============================================================================
