------------------------------ MODULE MCDrives -------------------------------
(***************************************************************************)
(* Two images and two labels, so that drives share either or neither, and  *)
(* room for three drives and the appliance's disk.                         *)
(***************************************************************************)
EXTENDS Drives, TLC

Symmetric == Permutations(Files) \cup Permutations(Labels)
==============================================================================
