---------------------------- MODULE MCConnSocket ----------------------------
(* ConnSocket for TLC. *)
EXTENDS ConnSocket
=============================================================================
