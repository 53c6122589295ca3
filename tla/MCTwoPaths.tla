----------------------------- MODULE MCTwoPaths -----------------------------
(* Instances of TwoPaths; nodes in the same roles are interchangeable. *)
EXTENDS TwoPaths, TLC

Symmetry == Permutations(Node \ Hears)
=============================================================================
