-------------------------- MODULE MCObjectExtension --------------------------
(* Keys are interchangeable, and so are blocks. *)
EXTENDS ObjectExtension, TLC

Symmetry == Permutations(Handles) \cup Permutations(Blocks)
=============================================================================
