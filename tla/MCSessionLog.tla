---------------------------- MODULE MCSessionLog ----------------------------
(* The session log and its files. *)
EXTENDS SessionLog
=============================================================================
