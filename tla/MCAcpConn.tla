----------------------------- MODULE MCAcpConn -----------------------------
(* One client, its sessions and their turns on a connection. *)
EXTENDS AcpConn
=============================================================================
