-------------------------------- MODULE Steps --------------------------------
(***************************************************************************)
(* The body of a C function as a sequence of steps.                        *)
(*                                                                         *)
(* A step is a call that can succeed or fail, a branch, a loop, or one of  *)
(* the few effects that outlive the expression they are in: a resource     *)
(* taken or released, a message written to the other end of the socket, an *)
(* error recorded.  Memory, values and the text of messages are left out:  *)
(* a test of an argument is a step that can fail, and a block that runs    *)
(* for some arguments only is a branch either side of which can be taken.  *)
(* Calls puts the steps in motion.                                         *)
(***************************************************************************)
EXTENDS Naturals, Sequences

Step(op, arg, then, else) == [op |-> op, arg |-> arg, then |-> then, else |-> else]

Fail == Step("fail", "", <<>>, <<>>)      \* return -1 or NULL
Ok == Step("ok", "", <<>>, <<>>)          \* return anything else
Break == Step("break", "", <<>>, <<>>)    \* leave the innermost loop
Dies == Step("done", "died", <<>>, <<>>)  \* abort, error (EXIT_FAILURE, ...)

(***************************************************************************)
(* Calls that can fail.  "what" lists what is called or tested, in order;  *)
(* "else" is what the function does before it returns -1.                  *)
(***************************************************************************)
TryOr(what, else) == Step("try", what, <<>>, else)
Try(what, else) == TryOr(what, else \o <<Fail>>)
OrDies(what) == TryOr(what, <<Dies>>)

(***************************************************************************)
(* reply_with_error and reply_with_perror in the daemon, error and         *)
(* perrorf in the library.                                                 *)
(***************************************************************************)
Error == Step("error", "", <<>>, <<>>)
Checks(what) == Try(what, <<Error>>)

(***************************************************************************)
(* Resources: descriptors, streams, directories, temporary files, child    *)
(* processes, mounts, and the states that must be left again (the chroot,  *)
(* pulse mode).  Release is a close whose result is not looked at; Closed  *)
(* is a close by a callee, which leaves the number in the variable.        *)
(***************************************************************************)
Take(r) == Step("take", r, <<>>, <<>>)
Release(r) == Step("release", r, <<>>, <<>>)
Closed(r) == Step("closed", r, <<>>, <<>>)
TryTake(r, else) == Step("trytake", r, <<>>, else \o <<Fail>>)
TryRelease(r, else) == Step("tryrelease", r, <<>>, else \o <<Fail>>)
Opens(r) == TryTake(r, <<Error>>)

(***************************************************************************)
(* Branches: on what the function does not depend on later, on a fact that *)
(* later branches of the same call depend on too, on a resource.           *)
(***************************************************************************)
Either(then, else) == Step("either", "", then, else)
Maybe(then) == Either(then, <<>>)
If(fact, then, else) == Step("if", fact, then, else)
IfHeld(r, then, else) == Step("ifheld", r, then, else)
Loop(body) == Step("loop", "", body, <<>>)

(***************************************************************************)
(* Functions: "auto" has the resources of the variables declared with a    *)
(* CLEANUP macro, which are released on every way out.                     *)
(***************************************************************************)
Scoped(auto, body) == [auto |-> auto, body |-> body]
Fn(body) == Scoped({}, body)
CallOr(f, else) == Step("call", f.auto, f.body, else)
Call(f, else) == CallOr(f, else \o <<Fail>>)
Sub(f) == Call(f, <<>>)                   \* the callee has reported its error
Checked(f) == Call(f, <<Error>>)          \* the callee has not
Ignored(f) == CallOr(f, <<>>)

\* A large function that has many callers is called by its name in Shared.
ByName(name) == Fn(<<Step("named", name, <<>>, <<>>)>>)

\* The macros around a call that resolves a path of the guest.
CHROOT_IN == Take("chroot")
CHROOT_OUT == Release("chroot")
ChrootTry(else) == Either(<<CHROOT_IN, CHROOT_OUT>>, <<CHROOT_IN, CHROOT_OUT>> \o else \o <<Fail>>)
ChrootChecks == ChrootTry(<<Error>>)
ChrootTryTake(r, else) ==
  Either(<<CHROOT_IN, Take(r), CHROOT_OUT>>, <<CHROOT_IN, CHROOT_OUT>> \o else \o <<Fail>>)
ChrootOpens(r) == ChrootTryTake(r, <<Error>>)

\* While the error handler is off, errors are recorded and nobody is told.
guestfs_push_error_handler == Take("quiet")
guestfs_pop_error_handler == Release("quiet")

\* Pulse mode: progress messages written by a timer (daemon/proto.c).
pulse_mode_start == Take("pulse")
pulse_mode_end == Release("pulse")
pulse_mode_cancel == Release("pulse")

(***************************************************************************)
(* The file that follows the request (FileIn) or the reply (FileOut).      *)
(***************************************************************************)
receive_file(write_error, cancelled) ==
  Step("receive", "", write_error \o <<Fail>>, cancelled \o <<Fail>>)
cancel_receive == Step("cancel_receive", "", <<>>, <<>>)
reply == Step("reply", "", <<>>, <<>>)
send_file_write(else) == Step("send", "", <<>>, else \o <<Fail>>)
send_file_write_unbounded(else) == Step("send", "too long", <<>>, else \o <<Fail>>)
send_file_end(else) == Step("end", "", <<>>, else)

(***************************************************************************)
(* Nodes comes after a command that has made the kernel add, remove or     *)
(* rename block devices (volumes, arrays, mappings, disks), or that has    *)
(* rewritten a partition table or had it read again, whether or not the    *)
(* code then waits: the nodes under /dev follow when udev gets round to    *)
(* them.  udev_settle is the wait for udev.                                *)
(***************************************************************************)
Nodes == Step("nodes", "", <<>>, <<>>)
udev_settle == Step("settle", "", <<>>, <<>>)
==============================================================================
