----------------------------- MODULE MCTurnGate -----------------------------
(* The turn gate for TLC: one foreground call, and one background agent where
   the frontend is the desktop. *)
EXTENDS TurnGate
=============================================================================
