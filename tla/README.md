# A TLA+ development for libguestfs

libguestfs gives a program access to disk images through a small virtual
machine, the *appliance*.  A call of the API is a remote procedure call: the
library (`src/lib`) sends a request to a daemon (`src/daemon`) that runs inside
the appliance and does the work.  This directory holds TLA+ modules of the parts
of that system where several processes, failures and orders of events meet, the
TLC runs that check them on small instances, and TLAPS proofs of the results
that matter most, for every value of the constants.

## The system

| part | state | what is hard | module |
|---|---|---|---|
| RPC protocol (`lib/proto.c`, `daemon/proto.c`, the stubs that `generator/c.ml` and `generator/daemon.ml` write) | serial numbers, messages on their way in both directions, a transfer in progress, the user's cancellation flag | both sides may cancel a transfer at any point, both socket buffers are bounded, the appliance may die | `Protocol`, `RPC` |
| connection (`lib/conn-socket.c`) | daemon socket, console socket, clock | two sockets that reach EOF in either order, a timeout in whole seconds | `ConnSocket` |
| life of a handle (`lib/launch.c`, `lib/handle.c`, `lib/launch-*.c`) | the handle's state, descriptors, socket names, the hypervisor, the recovery process | some forty early returns and cleanup labels, processes that die in any order, a crash of the main program | `Launch` |
| events and errors (`lib/events.c`, `lib/errors.c`, the wrappers of `generator/c.ml`) | the array of callbacks, the lock, a stack of error handlers per thread | callbacks that change the array they are called from, nested calls, two threads | `Events`, `Callbacks` |
| drives (`lib/drives.c`, `lib/libvirt-domain.c`, `daemon/hotplug.c`) | the vector of drives, the disks of the appliance's domain | slots that must stay the targets of the domain, one of several drives that fails | `Drives` |
| FUSE (`lib/fuse.c`) | three caches with a time to live, the mount | stale entries, requests that change what is cached under other names | `Fuse` |
| handlers of the daemon (most of `daemon/*.c`) | descriptors, children, mounts, the chroot, the file of a request, sessions | each of some ten calls can fail | `Calls` with `Daemon` |
| functions of the library (`lib/*.c`) | descriptors, temporary files, children | the same | `Calls` with `Library` |
| guestfish, tools, bindings, generator, inspection | little | | |

`PROJECT.json` lists every part with its state of modelling, and the hazards of
the code at the lines where they bite.

## Modules

 RPC what a caller is promised: a request is carried out at most once Protocol
both ends of the protocol, the socket, the handlers ProtocolInv the inductive
invariants of Protocol for well-behaved handlers ProtocolRPC the refinement
mapping from Protocol to RPC, and the inductive invariant behind it, for all
handlers ProtocolCall the theorems for all handlers: types, errors, the
refinement ProtocolSafety the theorems for well-behaved handlers: IInv, waiting
ProtocolFiles the theorems on whole files MCProtocol instances for TLC

    Launch            the life of a handle over the four backends
    LaunchProofs, MCLaunch

    ConnSocket        the loops around poll, the console and the clock
    ConnSocketProofs, MCConnSocket

    Callbacks         what the users of a handle are promised of events and errors
    Events            the array of callbacks, the error handlers, the lock
    EventsPromise     the refinement mapping from Events to Callbacks
    EventsProofs, MCEvents

    Drives            the vector of drives and the domain of the appliance
    DrivesProofs, MCDrives

    Fuse              the mounted filesystem and its caches
    FuseProofs, MCFuse

    Steps             the body of a C function as a sequence of steps
    Calls             what running such a function does, and what it must not do
    Daemon            the table of the daemon's handlers; their bodies are in
                      DaemonUtils, Transfers, DaemonSessions, Storage,
                      Filesystems, Files, Appliance
    Library           the table of the library's functions; their bodies are in
                      LibraryCalls, LibraryLaunch
    MCCalls           all of them, and those that are known to depart

An operator whose name ends in a suffix (`reply_no_serial`,
`CloseHandle_keeps_sockdir`) and whose comment calls it a mutation or a mutant is
a plausible bug: replacing the definition it is named after by it violates the
property that `PROJECT.json` names.  No specification uses these operators.

### Protocol

One action per step between two system calls on the socket.  The library's side
(`pc`) follows the stubs and `lib/proto.c`: `guestfs_int_send`, then for an
upload `send_file_open`, `send_file_read`, `send_file_eof` with
`check_daemon_socket` before and `write_data` for each message, then
`guestfs_int_recv` or `guestfs_int_recv_discard`, and for a download `recv_file`,
`recv_file_cancel` and `recv_file_drain`.  The daemon's side (`dpc`) follows
`main_loop`, the stub (`dispatch_plain`, `dispatch_filein`, `dispatch_fileout`),
`receive_file`, `cancel_receive`, `reply`, `send_file_write` and `send_file_end`.
The two share the sequences `up` and `down`, with room for `UpCap` and `DownCap`
messages; a message is its type with the procedure and the serial number where
it has them.  Lengths, XDR and the text of errors are left out.

`check_daemon_socket` and the daemon's `check_for_library_cancellation` look for a
flag by reading one word.  If the word is the start of another message, its rest
stays at the head of the queue: the message is *torn*.  Neither program stops
there.  The library reports "Lost protocol synchronization", its call returns -1
and the handle stays READY; the daemon sends its next chunk.  Both go on reading
from where the stream now stands, through further calls.  What reading at a torn
message takes, of it alone or of the messages behind it too, and what it looks
like (a flag, a message of the wrong kind, a length that makes guestfsd exit) is
left open, with one assumption: bytes from the middle of messages never look like
the header of a request, nor like the header of the reply, with procedure and
serial number, that the call in progress waits for.

An action is the whole of what the code does between two system calls, the
cleanup of an early return included.

`Procs` chooses the procedures.  `checksum`, `upload` and `download` stand for
the handlers that keep to the protocol, plain, FileIn and FileOut.  Four others
stand for handlers whose error paths do not: `tar_in` replies to a rejected
upload without `cancel_receive`, `yara_load` may return without a reply,
`journal_get` may stop sending without a last chunk, and `filesystem_walk` ends a
cancelled transfer twice.  `Faults` chooses what may fail: on the library's side
opening, reading, writing and closing the local file and the user's
cancellation; on the daemon's side rejecting a request, writing, closing,
sending and failing; and the death of the appliance.

`RPC` is the abstract specification: a call is made, carried out at most once
with some outcome, and returns; success is only reported of a request that
succeeded.  `ProtocolRPC` maps `Protocol` to it.

### Launch

The handle is its state, its connection, whether it has drives, and the
backend's data; what `launch` holds in local variables (`fds`) and what it has
bound in the socket directory (`files`) are kept apart from what the connection
owns.  Each backend's `launch` is split at the system calls that can fail, and
each early return or jump to a cleanup label is a disjunct of the step it leaves
from.  The hypervisor, the recovery process and libvirtd are processes of their
own; the main program may crash between any two steps.  `child_cleanup`, which
any read may call at EOF, runs inside whichever call met it, also inside the
autosync of `shutdown_backend`.

`hv` is the hypervisor of the latest launch.  In the direct backend without a
recovery process `shutdown_direct` does not wait for qemu; such a process may
live on a little after the shutdown, and the properties say so.  Closing the
libvirt connection destroys the domain at once in `shutdown_libvirt` and in
launch's cleanup, and some time after a crash of the main program.  The
socketpair that an error in building qemu's command line leaves open is the
descriptor `"dropped"`; the properties on descriptors except it by name.

### ConnSocket

`accept_connection`, `read_data` and `write_data` are loops around `poll` that
first look at the console and then at the daemon socket.  The appliance
connects, writes to either socket, hangs up and dies, closing its sockets in any
order.  Any `poll`, `read`, `write` or `accept` may fail; each loop then returns
-1 with the error recorded, except the one in which `read_data` reads out the
console after the daemon socket is at its end: it stops, and `read_data` returns
0 as it would have done anyway.  `LogsDelivered` therefore promises the messages
of the console or a recorded error.  Only `accept_connection` looks at the
clock, which has `TicksPerSec` ticks per second; `Seconds` is what `time`
returns.

### Events

A thread has a stack of frames: wrappers of the API (`api`), walks over
`g->events` (`walk`, with the index of the next slot), the program's callbacks
and error handlers (`user`) and `guestfs_close`.  Whatever a program may do in a
callback it may do between any two slots of the walk: register, delete, use the
functions of the old interface, set, push and pop error handlers, make calls
that raise events and errors of their own.  `wanted` is what the program has
registered; it is history, and no action reads it except to choose which event
handle a program deletes.  The model follows `guestfs_delete_event_callback` in
that only the last slot is given back (`lib/events.c:89`): the others become
tombstones, because an event handle is the index of its slot.

`Callbacks` is the promise of `guestfs.pod`: an event is owed to each callback
that is registered for its class when it is raised, is paid once, and is
cancelled by deleting the callback; a callback that is registered during a walk
may get the event of that walk or not.  Errors and error handlers are those of
the thread.  `EventsPromise` maps `Events` to it.

### Drives

`drives` is `g->drives` with its holes, `domain` the disks of the appliance's
domain by SCSI target, and `leaving` those that libvirt has been told to detach
and that the guest has yet to let go of.  `call` is where a call that takes
several steps is: waiting for the daemon to see a new disk, between the
precheck and the detaching, waiting for a removed disk to go, or adding the
disks of a libvirt domain one by one.  The appliance may die in each of them.

What the model says that one may not expect: a hot-add that the daemon does not
confirm in time fails but keeps the drive; a removal that it does not confirm
fails but has forgotten the drive, which is why `FreeSlotsAreFree` is about
handles whose removals all succeeded (`lib/drives.c:1092`); a new drive takes
the last free slot, where the comment at `lib/drives.c:933` speaks of the first;
`max_disks` is compared at launch only.  A slot that is free while its target is
not is never given away wrongly, because libvirt refuses a target in use.  A
disk of a domain whose secret is unknown is left out and the call succeeds;
`GroupAtomic` allows for that.

### Fuse

The guest is an inode for each path, with a kind and a version of the attributes
that a cache keeps.  A behaviour follows one of the caches, which do not depend
on each other: that of `lstat`, that of extended attributes or that of symbolic
links, or within the first the access time alone, which changes for other
reasons than the rest.  Each request of the kernel that changes something is the
whole of its function: it forgets what is cached under the names it was given,
and then makes the call, which may fail.  `readdir` takes the time, drops what
has expired and, after the calls, fills the cache of the directory's entries
with the time it took before; the clock may tick in between, other requests may
not, because the loop is single-threaded and holds the handle's lock.
`mount_local_read`, `readdir` and `readlink` make the guest set an access time and
forget nothing.

`behind[p]` is when what a cache may have of `p` last changed through an operation
on *another* path, or by being read.  The cases are the attributes of the
directory that a file is made in or removed from, another hard link of a file,
what is below a renamed directory, and an access time set by reading.
`ServedIsCurrent` excuses these, for `cachetimeout` and no longer, and nothing
else.

`mount_local` may fail at each of its steps.  `init_dir_caches` that fails half
way leaves the tables it has made to the handle, and the next `mount_local`
makes new ones without freeing them: `MountInv` says that these tables are empty
and the only thing that can be left without a mountpoint.

Two remarks.  `guestmount --help` gives 5 seconds as the default of
`--dir-cache-timeout`, where the code and the manual page have 60.
`guestfs_umount_local`, called by another thread, waits for the lock of the
handle and so for the end of the loop; it runs `guestunmount`, which the model has
as unmounting from outside.

### Calls

Most of the daemon and of the library is sequential: a function makes calls that
fail or succeed and must undo what it has done.  `Steps` turns the body of such
a function into a sequence of steps (a call that can fail with what the function
then does, a resource taken or released, a branch, a loop, a reply or error, a
chunk of a file received or sent), and `Calls` runs every function of a table,
choosing every outcome of every step.  The text of a function in `Daemon`'s and
`Library`'s modules names the C functions it calls in the order of the source;
calls with the same consequence share a step.  Variables declared with
`CLEANUP_CLOSE`, `CLEANUP_FREE_*` and the like are released on return.  Branches
on the same fact agree within a call.  Sessions (the augeas, hivex, inotify,
journal and yara handles) live on between calls.

Values and memory are left out, so an argument check is a step that may fail and
a test of a result a branch that may go either way.  Where the code relies on a
relation between two such tests, the fact is named and both tests use it.  A
command's output is such a fact: `commandrvf` returns its last `realloc`
unchecked (`daemon/command.c:434-443`), so a handler may succeed with NULL for
the output.  One that reads it dies there (`OrDies`); one that returns it as its
result returns NULL without a reply.  A destination that `copy` is to unlink on
failure is a resource while it is incomplete.

`Nodes` marks what udev has to catch up with: a command that made the kernel add,
remove or rename block devices, or that rewrote a partition table or had it read
again, whether or not the code then waits for udev.  Writing to a device or
putting a filesystem, a swap area or a physical volume on it makes udev look at
it again too when it is closed; the nodes that exist do not change, and these are
left out.

`Known` (in `MCCalls`) lists the functions that depart from a property, by
cause; the properties are about all the others.  In the daemon: functions that
reply twice because a helper has replied already (`WipeFirst`, `RepliedTwice`);
error paths without a reply (`NotReplied`, and `ReturnsNoOutput` for a NULL
output handed on); uploads refused without `cancel_receive` (`RefusedOnly`);
downloads ended twice or not at all (`EndedWrongly`); children and descriptors
left on rare paths (`GivesStdin`); devices or partitions changed without waiting
for udev (`DoesNotWait`), which `parted_settles` shows for the file whose
comment says otherwise.  In the library: descriptors closed twice
(`ClosesAgain`); a failed read of a pipe that is reported while the command
succeeds (`ReadsOn`); failures that are reported and then overlooked
(`Overlooks`), among them a failed `guestfs_tar_in` inside `copy_in`; failures
without a message (`FailsSilently`), such as the empty result files of
`filesystem_walk`; and a qemu that is waited for while the pipe to it is open
(`TalksToQemu`).  Most of them need a failing `malloc` or `close`.

## Runs

All bounds are constants of the modules or guards named after them.

| run | configuration | shows |
|---|---|---|
| `protocol` | MCProtocol.cfg | For handlers that keep to the protocol and all faults together: the inductive invariant `FInv`; `InSync`, `QuietBetweenCalls`, `ReplyIsMine`, `CancelIsForThisTransfer`, `WholeFileMoved`; `StuckOnlyIfBothCancel` (the two programs wait for each other only if both cancel the same upload); `FailureHasError`; and under fairness `CallReturns`. |
| `protocol_all` | MCProtocolAll.cfg | With every kind of handler, also those that lose synchronization, and with the calls that are made on the same connection after a loss: the refinement `ImplementsRPC`. |
| `launch` | MCLaunch.cfg | All four backends and all settings: the inductive invariant `LInv`; `CleanInConfig`, `ReadyIsConnected`, `ClosedLeavesNothing`, `FailureIsReported`; under fairness `RecoveryStopsRunaway` and `CallEnds`. |
| `conn_socket` | MCConnSocket.cfg | The inductive invariant `CInv`, `TimeoutNotEarly`, `LogsDelivered`; under fairness `DeathEndsCall` and `AcceptReturns`. |
| `events` | MCEvents.cfg | Two threads: the inductive invariant `EInv`, `HandlesAreMine`, `InsideHasLock`, and the refinement `KeepsPromise`. |
| `drives` | MCDrives.cfg | The inductive invariant `DInv`, `SlotsMatchDomain`, `FreeSlotsAreFree`, `GroupAtomic`. |
| `fuse` | MCFuse.cfg | The inductive invariant `FuseInv` and `ServedIsCurrent`, for each cache. |
| `every_call` | MCCalls.cfg | Every function of both tables: `OneReply`, `StreamOver`, `AnswerInPlace`, `NothingLeft`, `ReleasedOnce`, `Settled`, `ErrorsMatchResult`, `ChildCanEnd`. |
| `both_ends_cancel` | MCProtocolBothCancel.cfg | Violates `NotStuck`: the library gives up an upload that the daemon rejects, and neither ends it. |
| `launch_runaway` | MCLaunchRunaway.cfg | Violates `NoRunaway`: a crash before the recovery process watches leaves qemu running. |
| `accept_timeout` | MCConnSocketTimeout.cfg | Violates `AcceptHasTimeout`: a timeout that has become negative is none. |
| `parted_settles` | MCParted.cfg | Violates `Settled`: the handlers of `parted.c` that run sgdisk return without waiting for udev. |

The expected violations are disagreements between the code and one of its own
documents, comments or tests, quoted under "findings" in `PROJECT.json`.  More
can be had from the same modules by changing a configuration:

- `Procs = {"tar_in"}` violates `InSync`: a FileIn handler that replies without
  `cancel_receive`.  `{"filesystem_walk"}` violates `InSync`: a FileOut handler that
  ends a cancelled transfer twice.  `{"journal_get"}` and `{"yara_load"}` violate
  `NotStuck`: no last chunk (`daemon/journal.c:169`), no reply at all
  (`daemon/yara.c:112`).
- A failed launch of the unix backend leaves the handle in LAUNCHING
  (`lib/launch-unix.c:68`), which is why
  `LaunchingIsTransient` leaves that backend out.
- A download that the user cancels fails without an error (`lib/proto.c:813`),
  which is why `FailureHasError` excepts cancelled calls.
- The daemon replies to an upload that the library cancels, although
  `docs/guestfs-internals.pod:311` says that it does not; the stubs depend on the
  reply.
- `guestfs_shutdown` does not report a failed hypervisor in the direct backend
  without a recovery process (`lib/launch-direct.c:988`) or when a libvirt domain
  is gone already (`lib/launch-libvirt.c:2181`), which is why `FailureIsReported`
  is about the backends that wait.
- The functions that `MCCalls` lists.

### Bounds

*Protocol.*  Three calls are enough for what one call leaves behind to be met by
the next and by one after a relaunch; two launches for a death and a new
appliance.  A file of two chunks has a first, a middle and a last step of a
transfer; two progress messages fill a socket with room for one (`DownCap = 1`),
so a writer of progress messages blocks, and `UpCap = 2` lets the library run
ahead of the daemon by a chunk and the end of the file.  `protocol_all` has the
four handlers that break the protocol and a plain one, so that a call after a
loss may itself succeed; a file of one chunk, one progress message and room for
two messages each way are enough for a torn message with others behind it.
`protocol` has 242,000 states, `protocol_all` 1.7 million.

*Launch.*  The model is finite as it stands: handles may be launched and shut
down for ever.  The number of drives is abstracted to none or some.

*ConnSocket.*  Two seconds of two ticks let the start fall anywhere in its second
and let a poll cross a whole second; the horizon lies beyond every deadline that
a poll can be given.  Calls move two units, of three in all, through a buffer of
one, so that reads and writes are partial and a second call follows the first.

*Events.*  Two threads contend for the lock.  The array of callbacks takes two
entries (`MaxEvents`, 1000 in the code) and there are three registrations: one
more than fits, so that the refusal happens, and a slot can pass from one
registration to another.  Of the two classes one may go to several callbacks and
the other is the close event, which the old interface can set as well.  Six
frames let a callback make a call that raises an event or an error whose
callback makes a call again.  Threads and registrations are symmetric.

*Drives.*  Two images and two labels make drives with the same label, and with
none; four slots and four targets hold a drive before a hole, after it, and the
appliance's own disk.  The order of images and labels does not matter to the
code, and is taken by symmetry.

*Fuse.*  Two directories with a file each and two inodes have every pair of
related paths: a directory and its entry, two names of one file, a path below a
renamed directory.  Two changes suffice for one to be cached and a second to
make it stale; a timeout of one second and two ticks of the clock for an entry
to be fresh, in its last second, and expired.  The inodes are interchangeable,
and so are the two directories; 327,000 states remain.

*Calls.*  The functions call each other to their real depth.  A loop may end
after any round and its rounds change nothing but what is held, so the state
space is finite without a bound.

### Fairness

*Protocol.*  `WF` of the steps of each program: both run when they can.  Nothing
obliges a caller to call or cancel, or the appliance to die.

*Launch.* `WF` of the main program's own steps, of the recovery process's loop
and of libvirtd's promise to destroy a domain whose connection is gone; a
hypervisor that was sent SIGTERM exits.  The main program is exempt in the four
waits that nothing bounds (`Waiting`): a read from an appliance that is alive;
`accept_connection` while the console does not report the hypervisor's death,
because its timeout may turn negative (`accept_timeout`); libvirt's `accept4` on
the console socket, which has no timeout; and `destroy_domain`, which tries
again as long as libvirtd answers EBUSY.  `CallEnds` says that a call ends or
comes to one of these.

*ConnSocket.*  `WF` of the library, of the kernel closing a dead process's
sockets, and of time.  The appliance may be silent for ever, and system calls
need not fail.

The other modules state no liveness: callbacks and guests may never return.

## Proofs

TLAPS proves the following for every value of the constants, from one named
assumption per module that only gives the constants their types and keeps
special values apart: `ConstantsAssumption` (Protocol), `SettingsAssumption`
(Launch), `ConnAssumption`, `EventsAssumption`, `DrivesAssumption` and
`FuseAssumption`.  "Disciplined" marks theorems that assume
`Procs \subseteq Disciplined`: handlers that keep to the protocol.

| theorem | states |
|---|---|
| `ProtocolCall!TypeCorrect` | types, for all handlers |
| `ProtocolCall!FailuresHaveErrors` | `FailureHasError`, for all handlers |
| `ProtocolCall!CallInvariance`, `Refinement` | `CallInv`, and that `Protocol` implements `RPC` (`ImplementsRPC`), for all handlers |
| `ProtocolSafety!Invariance` | `IInv` (disciplined) |
| `ProtocolSafety!StaysInSync`, `StaysQuietBetweenCalls`, `RepliesAreMine`, `CancelsAreForThisTransfer` | the properties of the socket between and during calls, for every file length, buffer size and number of calls (disciplined) |
| `ProtocolSafety!StuckOnlyWhenBothCancel` | `StuckOnlyIfBothCancel` (disciplined) |
| `ProtocolFiles!FullInvariance`, `WholeFilesMoved` | `FInv` and `WholeFileMoved` (disciplined) |
| `LaunchProofs!LaunchInvariance` | `LInv`, for every set of settings |
| `LaunchProofs!CleanAfterLaunch`, `ReadyConnected`, `CloseLeavesNothing`, `LaunchingEnds`, `ShutdownReports` | the safety properties of `launch` |
| `ConnSocketProofs!ConnInvariance`, `AcceptIsPatient`, `ConsoleIsReadOut` | `CInv`, `TimeoutNotEarly`, `LogsDelivered` |
| `EventsProofs!EventsInvariance`, `HandlesStayMine`, `CallsExclusive` | `EInv`, `HandlesAreMine`, `InsideHasLock`, for any number of threads and callbacks |
| `EventsProofs!PromiseKept` | `Events` implements `Callbacks` |
| `DrivesProofs!DrivesInvariance`, `SlotsStayMatched`, `FreeSlotsStayFree`, `ConfigStaysDense`, `GroupsAtomic` | `DInv`, `SlotsMatchDomain`, `FreeSlotsAreFree`, `ConfigIsDense`, `GroupAtomic` |
| `FuseProofs!FuseInvariance`, `AnswersAreCurrent` | `FuseInv`, `ServedIsCurrent`, for every tree of paths and every timeout |

*Protocol, all handlers.* A handler that gives up a transfer without telling the
library leaves chunks, flags and late replies on the socket, and nothing can be
said of their order.  The refinement does not need it: `CallInv` (in
`ProtocolRPC`) speaks only of what bears the serial number of the call in
progress, or comes after it on a queue.  The request is on the socket at most
once, and not at all when the daemon has it or the library has yet to write it;
only the rest of that call follows it (`RequestOnce`).  When the daemon has
finished the request, it is back in its main loop, gone, or about to send the
same error again, and an upload that succeeded was read to its end
(`FinishedOnce`).  An `ok` with this number, or an end of file behind such a
header, was written for this request (`AnswerIsTrue`).  What else the library or
the daemon may misread makes a call fail, and never makes it succeed; a torn
message can only be at the head of a queue, and what is left after reading at it
is a later part of the queue (`TornInv`), so this also holds of the calls after
a loss.  The daemon's last message of a call is then `RPC`'s `Execute`, the
library's return is `Return`, and the other steps of a call stutter.  TLC finds
no violation of `CallInv` either, as an INVARIANT added to `MCProtocolAll.cfg`.

*Protocol, disciplined.* `InSync` is not inductive: whether the next word is the
one a side expects depends on everything the other side has written and not yet
read.  `IInv` (in `ProtocolInv`) says, for each pair of points the two programs
can be at together, what may be on the socket in each direction: whose turn it
is, that a reply on its way is the one to the current request, that chunks on
their way up are read by a daemon that is receiving or discarding, and that
flags left over are ones that the reader ignores.  `ProtocolSafety` begins with
what taking a message from a queue, and adding one, does to the operators of
`IInv`, and then treats one action after the other.

`FInv` adds what the other three properties need.  *Whole files* (`MovedInv`):
the chunks that one side counts and the other does not are on the socket or in
the library's hand; the proof counts data chunks in a queue with the cardinality
of their positions, which `ProtocolFiles` relates to taking and adding a message.
*Waiting* (`FlowInv`): whenever the library waits, the daemon has the request,
works, or has written the last message (`TurnInv`); the daemon writes at most one
message between two looks of the library, so there is room for what the library
writes (`RoomInv`); and the end of an upload is on its way to a daemon that
discards, unless the library has left it out because the daemon's flag came
first (`FlagInv`, `EndInv`), which is the one case that
`StuckOnlyIfBothCancel` names and `both_ends_cancel` shows.  *Errors*
(`ErrorInv`): a path that is bound to fail has recorded its error; this holds
without `IInv`, and so for all handlers.

*Launch.*  What a handle in CONFIG may still hold depends on the way it came
there, so `LInv` describes every point of the main program: where each
descriptor may be held and in which backend (`FdsInv`), what the connection owns
(`ConnInv`), when a hypervisor may exist that the backend's data does not know
(`ApplianceInv`: only in libvirt's launch, or unwaited in the direct backend),
that a recovery process exists exactly if its pid is known (`RecoveryInv`), and
that a failure that has been collected has been reported (`FailureInv`).

*ConnSocket.*  `CInv` bounds from below the deadline that each poll of
`accept_connection` is given, counted from the start: `Seconds` divides the clock
by `TicksPerSec`, and the proof uses that the quotient loses less than one second
at either end.  That the polls begin anew after every message then does no harm.
For `LogsDelivered` the reading of the console ends only when it is empty and
closed, or with a recorded error.

*Events.*  `EInv` says that registrations and slots correspond one to one, except
for tombstones and for the wrappers of the old interface, and which stacks of
frames there can be.  For the refinement, the notifications owed by a walk are
those of the slots from its index on; a deletion that shortens the array, and a
registration that takes the slot of a deleted callback, are shown to change only
what `Callbacks` lets them change, in every walk of every thread.

*Drives.*  `DInv` adds to `SlotsMatchDomain` what a call in progress knows: the
slot it found is still the drive's, the vector is what it was before the group
and the group's drives, and disks that are leaving carry the label that the call
in progress waits for.

*Fuse.* `CacheInv` says of every entry that it has what the guest has, or
expires within `cachetimeout` of `behind`.  The lemmas on `Creates`, `Removes`,
`Moves`, `HardLinks` and `Sets` show that each changes what a cache may have of
the paths it is given and of `Related` paths, and of no other, and those on
reading that it changes at most the access time of what was read.

Only model-checked: everything under fairness (`CallReturns`,
`RecoveryStopsRunaway`, `CallEnds`, `DeathEndsCall`, `AcceptReturns`), which is
beyond the proof system; and `Calls`, whose properties are about
the given texts of some hundreds of functions: there is no parameter to
generalise over, and TLC covers every path of each.

## Not modelled

The bindings and the generator turn descriptions into text; inspection parses
the files of guests; guestfish and the tools are sequential clients; the
appliance is booted by shell scripts.  What the daemon's OCaml functions return
is left open, and what their stubs make of it is in `DaemonUtils`.  The answer to
the serial console's status request, and log messages inside `Protocol`, are left
out.  A size of a file that does not fit `RInt64` is truncated by the conversion,
which no property is about.  Two processes that test qemu at the same time write
the same results to the same cache files; the interleaving of their writes is not
modelled.  `child_cleanup` keeps the features cached from the appliance that
died, where `shutdown_backend` drops them; they are those of the daemon's build.
The result of `guestfs_int_discard_possible` is a truth value also when it fails
(-1 counts as true), and `guestfs_int_appliance_command_line` is used without a
test for NULL: both are data that the models do not carry.
