-------------------------------- MODULE Calls --------------------------------
(***************************************************************************)
(* Calls of the functions of the daemon or of the library, one after       *)
(* another, each from its first step to its last.                          *)
(*                                                                         *)
(* In the daemon a call is what the generated stub makes of a request: the *)
(* handler do_x, and after it the reply, unless the handler failed (and so *)
(* has replied) or has a FileOut parameter (and so has replied as well).   *)
(***************************************************************************)
EXTENDS Steps, SequencesExt

CONSTANTS
  Entries,      \* the functions that can be called, by name
  Shared,       \* the functions that others call by name
  Sessions,     \* resources that outlive the call that takes them
  Known         \* by property, the functions that are known to depart from it

(***************************************************************************)
(* "device" returns names of devices, "bufferout" a buffer and its size,   *)
(* "filein" and "fileout" transfer a file, "library" is no handler but a   *)
(* function of the library, "program" the main program of the daemon.      *)
(* "sessions" has the sessions that the function looks at or changes.      *)
(***************************************************************************)
Kinds == {"plain", "device", "bufferout", "filein", "fileout", "library", "program"}
IsHandler(kind) == kind \notin {"library", "program"}
Entry(kind, fn, sessions) == [kind |-> kind, fn |-> fn, sessions |-> sessions]

VARIABLES
  entry,        \* the function that is being called, or "none"
  todo,         \* the steps left
  facts,        \* what the branches of the running function have decided
  held,         \* the resources held
  stale,        \* those that a callee has closed, by the variable they are in
  errors,       \* error replies written (errors reported, in the library)
  replies,      \* other replies written (errors recorded while the handler is off)
  file,         \* where the transfer of the call's file is
  nodes,        \* whether udev has caught up
  ret           \* how the call ended

vars == <<entry, todo, facts, held, stale, errors, replies, file, nodes, ret>>

Idle == entry = "none"
Finished == ~Idle /\ todo = <<>>

Init ==
  /\ entry = "none" /\ todo = <<>> /\ facts = {} /\ held = {} /\ stale = {}
  /\ errors = 0 /\ replies = 0 /\ file = "none" /\ nodes = "settled" /\ ret = "none"

-----------------------------------------------------------------------------
(* The steps. *)

At(op) == todo # <<>> /\ todo[1].op = op
This == todo[1]
Rest == Tail(todo)
Goto(steps) == todo' = steps

\* The innermost step of a kind, and what comes after it.
Where(op) == SelectInSeq(todo, LAMBDA s : s.op = op)
Past(op) == SubSeq(todo, Where(op) + 1, Len(todo))

AtMostTwo(n) == IF n < 2 THEN n ELSE 2

Same == UNCHANGED <<entry, held, stale, errors, replies, file, nodes, ret>>
SameFlow == UNCHANGED <<entry, facts, ret>>

StepTry ==
  /\ At("try")
  /\ Goto(Rest) \/ Goto(This.else \o Rest)
  /\ Same /\ UNCHANGED facts

StepTake ==
  /\ At("take") \/ At("trytake")
  /\ held' = held \cup {This.arg} /\ stale' = stale \ {This.arg} /\ Goto(Rest)
  /\ SameFlow /\ UNCHANGED <<errors, replies, file, nodes>>

StepTakeFails ==
  /\ At("trytake")
  /\ Goto(This.else \o Rest)
  /\ Same /\ UNCHANGED facts

StepRelease ==
  /\ At("release") \/ At("tryrelease")
  /\ held' = held \ {This.arg}
  /\ Goto(Rest) \/ (At("tryrelease") /\ Goto(This.else \o Rest))
  /\ SameFlow /\ UNCHANGED <<stale, errors, replies, file, nodes>>

StepClosed ==
  /\ At("closed")
  /\ held' = held \ {This.arg} /\ stale' = stale \cup {This.arg} /\ Goto(Rest)
  /\ SameFlow /\ UNCHANGED <<errors, replies, file, nodes>>

StepEither ==
  /\ At("either")
  /\ Goto(This.then \o Rest) \/ Goto(This.else \o Rest)
  /\ Same /\ UNCHANGED facts

StepIf ==
  /\ At("if")
  /\ \E b \in BOOLEAN :
       /\ <<This.arg, ~b>> \notin facts
       /\ facts' = facts \cup {<<This.arg, b>>}
       /\ Goto((IF b THEN This.then ELSE This.else) \o Rest)
  /\ Same

StepIfHeld ==
  /\ At("ifheld")
  /\ Goto((IF This.arg \in held THEN This.then ELSE This.else) \o Rest)
  /\ Same /\ UNCHANGED facts

\* A loop that is being run leaves itself behind as "again".
StepLoop ==
  /\ At("loop") \/ At("again")
  /\ Goto(Rest) \/ Goto(This.then \o <<[This EXCEPT !.op = "again"]>> \o Rest)
  /\ Same /\ UNCHANGED facts

StepBreak ==
  /\ At("break")
  /\ Goto(Past("again"))
  /\ Same /\ UNCHANGED facts

\* A call leaves behind how it returns and the facts of the caller.
StepCall ==
  /\ At("call")
  /\ Goto(This.then \o <<Step("return", This.arg, facts, This.else)>> \o Rest)
  /\ facts' = {}
  /\ Same

StepNamed ==
  /\ At("named")
  /\ LET f == Shared[This.arg]
     IN  Goto(f.body \o <<Step("return", f.auto, facts, <<Fail>>)>> \o Rest)
  /\ facts' = {}
  /\ Same

StepReturn ==
  /\ At("ok") \/ At("fail") \/ At("return")
  /\ LET frame == todo[Where("return")]
     IN  /\ held' = held \ frame.arg
         /\ stale' = stale \ frame.arg
         /\ facts' = frame.then
         /\ Goto((IF At("fail") THEN frame.else ELSE <<>>) \o Past("return"))
  /\ UNCHANGED <<entry, errors, replies, file, nodes, ret>>

\* With the error handler off an error is recorded and not reported.
StepError ==
  /\ At("error")
  /\ IF "quiet" \in held
     THEN replies' = AtMostTwo(replies + 1) /\ UNCHANGED errors
     ELSE errors' = AtMostTwo(errors + 1) /\ UNCHANGED replies
  /\ Goto(Rest)
  /\ SameFlow /\ UNCHANGED <<held, stale, file, nodes>>

StepReply ==
  /\ At("reply")
  /\ replies' = AtMostTwo(replies + 1) /\ Goto(Rest)
  /\ file' = IF Entries[entry].kind = "fileout" THEN "outgoing" ELSE file
  /\ SameFlow /\ UNCHANGED <<held, stale, errors, nodes>>

\* receive_file returns 0, -1 (the callback failed) or -2 (cancelled).
StepReceive ==
  /\ At("receive")
  /\ \/ file' = "over" /\ Goto(Rest)
     \/ file' = file /\ Goto(This.then \o Rest)
     \/ file' = "over" /\ Goto(This.else \o Rest)
  /\ SameFlow /\ UNCHANGED <<held, stale, errors, replies, nodes>>

\* It reads chunks until the last, and so waits for ever when there is none.
StepCancelReceive ==
  /\ At("cancel_receive")
  /\ file' = (IF file = "incoming" THEN "over" ELSE "broken") /\ Goto(Rest)
  /\ SameFlow /\ UNCHANGED <<held, stale, errors, replies, nodes>>

\* When the library has cancelled, send_file_write has sent the last chunk.
StepSend ==
  /\ At("send")
  /\ \/ file' = (IF file = "outgoing" THEN file ELSE "broken") /\ Goto(Rest)
     \/ file' = (IF file = "outgoing" THEN "over" ELSE "broken") /\ Goto(This.else \o Rest)
     \/ This.arg = "too long" /\ file' = file /\ Goto(This.else \o Rest)
  /\ SameFlow /\ UNCHANGED <<held, stale, errors, replies, nodes>>

StepEnd ==
  /\ At("end")
  /\ file' = IF file = "outgoing" THEN "over" ELSE "broken"
  /\ Goto(Rest) \/ (This.else # <<>> /\ Goto(This.else \o Rest))
  /\ SameFlow /\ UNCHANGED <<held, stale, errors, replies, nodes>>

StepNodes ==
  /\ At("nodes") \/ At("settle")
  /\ nodes' = (IF At("nodes") THEN "changing" ELSE "settled") /\ Goto(Rest)
  /\ SameFlow /\ UNCHANGED <<held, stale, errors, replies, file>>

-----------------------------------------------------------------------------
(* Whole calls. *)

Done == Step("done", "ok", <<>>, <<>>)
Failed == Step("done", "fail", <<>>, <<>>)

(***************************************************************************)
(* The stub of a handler.  A handler that returns a buffer fails by        *)
(* returning NULL without assigning the size ("size_r").                   *)
(***************************************************************************)
Stub(kind, fn) ==
  LET reject == (IF kind = "filein" THEN <<cancel_receive>> ELSE <<>>) \o <<Error, Failed>>
      failed == IF kind = "bufferout" THEN <<IfHeld("size_r", <<>>, <<Failed>>)>> ELSE <<Failed>>
      answer == (IF kind = "device"
                 THEN <<TryOr(<<"reverse_device_name_translation">>, <<Error, Failed>>)>>
                 ELSE <<>>)
                \o <<reply>>
  IN  <<TryOr(<<"optgroup_available", "optargs_bitmask", "xdr_args", "RESOLVE_DEVICE",
                "NEED_ROOT", "ABS_PATH">>, reject),
        CallOr(fn, failed)>>
      \o (IF kind = "fileout" THEN <<>> ELSE answer)
      \o <<Done>>

Request(n) ==
  /\ Idle
  /\ held \subseteq Entries[n].sessions
  /\ entry' = n
  /\ LET e == Entries[n]
     IN  /\ Goto(IF IsHandler(e.kind) THEN Stub(e.kind, e.fn)
                                    ELSE <<CallOr(e.fn, <<Failed>>), Done>>)
         /\ file' = IF e.kind = "filein" THEN "incoming" ELSE "none"
  /\ UNCHANGED <<facts, held, stale, errors, replies, nodes, ret>>

StepDone ==
  /\ At("done")
  /\ ret' = This.arg /\ Goto(<<>>)
  /\ UNCHANGED <<entry, facts, held, stale, errors, replies, file, nodes>>

\* By the next call udev has caught up.
Return ==
  /\ Finished
  /\ entry' = "none" /\ facts' = {} /\ errors' = 0 /\ replies' = 0
  /\ held' = (IF ret = "died" THEN {} ELSE held \cap Sessions) /\ stale' = {}
  /\ file' = "none" /\ nodes' = "settled" /\ ret' = "none"
  /\ UNCHANGED todo

Next ==
  \/ StepTry \/ StepTake \/ StepTakeFails \/ StepRelease \/ StepClosed
  \/ StepEither \/ StepIf \/ StepIfHeld \/ StepLoop \/ StepBreak
  \/ StepCall \/ StepNamed \/ StepReturn \/ StepError \/ StepReply
  \/ StepReceive \/ StepCancelReceive \/ StepSend \/ StepEnd \/ StepNodes
  \/ StepDone \/ Return
  \/ \E n \in DOMAIN Entries : Request(n)

Spec == Init /\ [][Next]_vars

-----------------------------------------------------------------------------
(* What every call must do. *)

Kept(property) == ~Idle /\ entry \notin Known[property]
InLibrary == Entries[entry].kind = "library"
Ended(property) == Kept(property) /\ Finished /\ ret # "died"

(***************************************************************************)
(* A request is answered by one reply: a handler that has failed has       *)
(* called reply_with_error, once, whichever of its callees failed, and one *)
(* that has not failed has not.  A second reply is taken by the library    *)
(* for the reply to its next request; with no reply the library waits for  *)
(* ever.                                                                   *)
(***************************************************************************)
OneReply == Ended("OneReply") /\ IsHandler(Entries[entry].kind) => errors + replies = 1

(***************************************************************************)
(* The file of a request or a reply is transferred to its last chunk, and  *)
(* no further, however the call ends: the next bytes on the socket must be *)
(* those of a message.                                                     *)
(***************************************************************************)
StreamOver == Ended("StreamOver") => file \in {"none", "over"}

(***************************************************************************)
(* Nothing is left behind: when a call ends, on whichever of its error     *)
(* paths, its descriptors are closed, its child processes waited for, its  *)
(* temporary files, half-made files and mounts removed, the chroot and     *)
(* pulse mode left.  Only the sessions outlive a call.                     *)
(***************************************************************************)
NothingLeft == Ended("NothingLeft") => held \subseteq Sessions \cup {"size_r"}

(***************************************************************************)
(* The answer comes in its place: after the file that follows the request, *)
(* since a reply written while chunks are still to come is read by a       *)
(* library that is sending them; and outside the chroot and after pulse    *)
(* mode, so that no progress message of the timer can come in the middle   *)
(* of it or after it.                                                      *)
(***************************************************************************)
AnswerInPlace ==
  At("error") \/ At("reply") =>
    /\ Kept("AnswerAfterFile") => file # "incoming"
    /\ Kept("QuietWhileApart") => {"chroot", "pulse"} \cap held = {}

(***************************************************************************)
(* Each resource is released once: a release finds it held, also when a    *)
(* callee has closed the descriptor that a CLEANUP_CLOSE variable of the   *)
(* caller still has, and no variable is overwritten while what it refers   *)
(* to is still held.                                                       *)
(***************************************************************************)
ReleasedOnce ==
  Kept("ReleasedOnce") =>
    /\ At("release") \/ At("tryrelease") => This.arg \in held
    /\ At("take") \/ At("trytake") => This.arg \notin held
    /\ At("ok") \/ At("fail") \/ At("return") => stale \cap todo[Where("return")].arg = {}

(***************************************************************************)
(* Success is not reported while udev has still to make or remove device   *)
(* nodes, by a handler that has made the kernel add, remove or rename      *)
(* devices or look at a partition table again, or by the daemon as it      *)
(* starts: the next request may name one of them.                          *)
(***************************************************************************)
Settled == At("reply") /\ Kept("Settled") => nodes = "settled"

(***************************************************************************)
(* The errors of a function of the library agree with its result.  One     *)
(* that fails has said why: some error has been recorded in the handle, so *)
(* that what the caller reads there is about this call and not about an    *)
(* earlier one.  One that succeeds has reported no error to the caller's   *)
(* error handler: whoever expects an error to be possible turns the        *)
(* handler off first.                                                      *)
(***************************************************************************)
ErrorsMatchResult ==
  /\ Ended("FailureExplained") /\ InLibrary /\ ret = "fail" => errors + replies > 0
  /\ Ended("SuccessIsClean") /\ InLibrary /\ ret = "ok" => errors = 0

(***************************************************************************)
(* A child process is waited for only when it can end: by then this end of *)
(* every pipe to it is closed, or is closed with it.  While one is open a  *)
(* child that reads waits for more, or one that writes for a reader, and   *)
(* waitpid for the child.                                                  *)
(***************************************************************************)
Pipes == {"pipe", "errorfd", "outfd", "so_fd", "se_fd"}
ChildCanEnd ==
  "child" \in held /\ Kept("ChildCanEnd") =>
    /\ (At("release") \/ At("tryrelease")) /\ This.arg = "child" => Pipes \cap held = {}
    /\ At("ok") \/ At("fail") \/ At("return") =>
         LET auto == todo[Where("return")].arg
         IN  "child" \in auto => Pipes \cap held \subseteq auto
==============================================================================
