------------------------------ MODULE MCLaunch ------------------------------
(***************************************************************************)
(* Launch for TLC.  The state space is finite as it stands; a run chooses  *)
(* the settings it is about.                                               *)
(***************************************************************************)
EXTENDS Launch

Direct == {s \in AllSettings : s.backend = "direct"}
DirectRecovery == {s \in Direct : s.recovery_proc}
=============================================================================
