---------------------------- MODULE EventsPromise ----------------------------
(***************************************************************************)
(* What the users of a handle see of Events, as the state of Callbacks.    *)
(***************************************************************************)
EXTENDS Events

\* The notifications that a walk has still to make.
Owes(f, r) ==
  /\ f.op = "walk"
  /\ \E i \in DOMAIN events :
       i >= f.next /\ events[i].opaque = r /\ f.class \in events[i].event_bitmask
StillOwed(t, k, r) == k \in DOMAIN stack[t] /\ Owes(stack[t][k], r)
stillOwed == {o \in Threads \X Levels \X Regs : StillOwed(o[1], o[2], o[3])}

Promise == INSTANCE Callbacks WITH
  NoError <- None, live <- [r \in Regs |-> wanted[r].classes], owed <- stillOwed,
  lastError <- [t \in Threads |-> errdata[t].last_error],
  handlers <- [t \in Threads |-> Append(errdata[t].error_cb_stack, errdata[t].error_cb)]

(***************************************************************************)
(* Whatever the callbacks do to the array that is being walked and to the  *)
(* error handlers, the users of the handle get what Callbacks promises.    *)
(***************************************************************************)
KeepsPromise == Promise!PSpec
==============================================================================
