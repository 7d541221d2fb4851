--------------------------- MODULE MCCheckpoints ----------------------------
(* Checkpoints for TLC: files and contents are interchangeable. *)
EXTENDS Checkpoints, TLC

Symmetry == Permutations(Files) \cup Permutations(Values)
=============================================================================
