--------------------------- MODULE MCDesktopTabs ---------------------------
(* Two tabs of one workspace and the controllers made for them. *)
EXTENDS DesktopTabs, TLC

Symmetry == Permutations(Tabs) \cup Permutations(Holders)
=============================================================================
