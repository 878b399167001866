-------------------------------- MODULE RPC --------------------------------
(***************************************************************************)
(* What a remote procedure call of libguestfs promises its caller: the     *)
(* daemon carries out the request at most once, and the call returns       *)
(* success only if the daemon carried out this very request successfully.  *)
(* An error tells the caller nothing about what the daemon did.            *)
(***************************************************************************)

VARIABLES
  call,     \* is a call in progress: idle or pending
  outcome,  \* how the daemon finished the current request, or none
  ret       \* what the last call returned, or none

vars == <<call, outcome, ret>>

Results == {"ok", "error"}

Init == call = "idle" /\ outcome = "none" /\ ret = "none"

\* The caller starts an appliance, the first one or one after a crash.
Launch ==
  /\ call = "idle"
  /\ outcome' = "none" /\ ret' = "none"
  /\ UNCHANGED call

Call ==
  /\ call = "idle"
  /\ call' = "pending" /\ outcome' = "none" /\ ret' = "none"

Execute(s) ==
  /\ outcome = "none"
  /\ outcome' = s
  /\ UNCHANGED <<call, ret>>

Return(s) ==
  /\ call = "pending"
  /\ s = "ok" => outcome = "ok"
  /\ call' = "idle" /\ ret' = s
  /\ UNCHANGED outcome

Next ==
  \/ Launch
  \/ Call
  \/ \E s \in Results : Execute(s) \/ Return(s)

Spec == Init /\ [][Next]_vars
=============================================================================
