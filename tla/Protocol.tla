------------------------------ MODULE Protocol ------------------------------
(***************************************************************************)
(* The RPC protocol between the library (lib/proto.c, with the client      *)
(* stubs of generator/c.ml) and the daemon inside the appliance            *)
(* (daemon/proto.c, with the server stubs of generator/daemon.ml and the   *)
(* FileIn and FileOut handlers).                                           *)
(*                                                                         *)
(* The two sides are sequential programs joined by one socket, that is by  *)
(* one FIFO of messages in each direction.  A read blocks while the FIFO   *)
(* is empty, a write blocks while it is full.  The contents of messages    *)
(* are abstracted to what the two programs branch on; a chunk or a flag    *)
(* word carries no serial number on the wire and so carries none here.     *)
(*                                                                         *)
(* A program that looks for a flag reads one word.  When it is the first   *)
(* word of another message, the rest of that message stays at the head of  *)
(* the FIFO: it is torn.  Both programs go on, and read what nobody wrote. *)
(***************************************************************************)
EXTENDS Naturals, Sequences

CONSTANTS
  Procs,        \* the procedures the caller may invoke, a subset of AllProcs
  Faults,       \* what may go wrong, a subset of AllFaults
  MaxCalls,     \* bound: requests made over the life of the handle
  MaxLaunches,  \* bound: appliances started over the life of the handle
  FileLen,      \* bound: data chunks in a transferred file
  MaxProgress,  \* bound: progress messages in one request
  UpCap,        \* messages the socket buffers towards the daemon
  DownCap       \* messages the socket buffers towards the library

(***************************************************************************)
(* One procedure stands for each family of handlers that treats the        *)
(* protocol in the same way.                                               *)
(***************************************************************************)
FileIn == {"upload", "tar_in", "yara_load"}
FileOut == {"download", "journal_get", "filesystem_walk"}
AllProcs == {"checksum"} \cup FileIn \cup FileOut
NoProc == "none"

(***************************************************************************)
(* The first row is met by the library, the second by the daemon; "crash"  *)
(* is the death of qemu at any moment.                                     *)
(***************************************************************************)
AllFaults == {"lib_open", "lib_read", "lib_close", "lib_write", "user_cancel",
              "reject", "write", "close", "send", "fail", "crash"}

ASSUME ConstantsAssumption ==
  /\ Procs \subseteq AllProcs
  /\ Faults \subseteq AllFaults
  /\ MaxCalls \in Nat /\ MaxLaunches \in Nat
  /\ FileLen \in Nat /\ MaxProgress \in Nat
  /\ UpCap \in Nat \ {0} /\ DownCap \in Nat \ {0}

VARIABLES
  \* The library: fields of guestfs_h, and where its (only) thread is.
  state,        \* g->state; g->conn is NULL exactly in "CONFIG"
  serial,       \* g->msg_next_serial
  user_cancel,  \* g->user_cancel
  errnum,       \* the error recorded for the current call: none, error, EINTR
  pc,           \* what the library is doing
  proc,         \* the procedure being called
  msg,          \* the message it is about to write
  after,        \* where send_file_cancellation returns to
  moved,        \* data chunks it has moved in the current transfer
  ret,          \* how the last call ended
  launches,     \* appliances started so far
  \* The socket.
  up, down,
  \* The daemon: statics of daemon/proto.c, and where its only thread is.
  dpc,          \* what the daemon is doing
  proc_nr, dserial, count_progress,
  status,       \* the status of the reply it is about to write
  chunk,        \* the chunk it is about to write
  dmoved,       \* data chunks it has moved in the current transfer
  outcome       \* history: the last request it finished, and how

libVars == <<state, serial, user_cancel, errnum, pc, proc, msg, after, moved,
             ret, launches>>
job == <<proc_nr, dserial, outcome>>
daemonVars == <<dpc, job, count_progress, status, chunk, dmoved>>
vars == <<libVars, up, down, daemonVars>>

-----------------------------------------------------------------------------
(* Messages. *)

Message(t, p, s) == [type |-> t, proc |-> p, serial |-> s]
Word(t) == Message(t, NoProc, 0)

CANCEL == Word("CANCEL")            \* GUESTFS_CANCEL_FLAG
LAUNCH == Word("LAUNCH")            \* GUESTFS_LAUNCH_FLAG
PROGRESS == Word("PROGRESS")        \* GUESTFS_PROGRESS_FLAG and its 24 bytes
DataChunk == Word("data")
EofChunk == Word("eof")             \* cancel = 0, length 0
CancelChunk == Word("cancel")       \* cancel = 1
TORN == Word("torn")                \* a message without its first bytes

Chunks == {"data", "eof", "cancel"}
Replies == {"ok", "error"}
MessageTypes == Chunks \cup Replies \cup
                {"request", "CANCEL", "LAUNCH", "PROGRESS", "torn"}
Messages == [type : MessageTypes, proc : AllProcs \cup {NoProc}, serial : Nat]

-----------------------------------------------------------------------------
(* The socket, as lib/conn-socket.c presents it. *)

conn == state # "CONFIG"
Dead == dpc = "dead"

(***************************************************************************)
(* read_data polls the console as well as the daemon socket, so once qemu  *)
(* has died it may report end of file although bytes are still buffered.   *)
(***************************************************************************)
can_read_data == down # <<>> \/ Dead
ReadsEof == Dead
Reads(t) == down # <<>> /\ Head(down).type \in t
CanWrite == ~Dead /\ Len(up) < UpCap

(***************************************************************************)
(* Reading at a torn message takes some bytes: of it, or of it and of the  *)
(* messages behind it.  What they look like is up to the contents, except  *)
(* for one assumption: never like the header of a request, nor like that   *)
(* of the reply to the call in progress.                                   *)
(***************************************************************************)
Leftover(q) ==
  LET suffixes == {SubSeq(q, k, Len(q)) : k \in 2 .. Len(q) + 1}
  IN  suffixes \cup {<<TORN>> \o s : s \in suffixes}

\* What a queue holds after a message was read, and after one word was read.
Rest(q) == IF Head(q).type = "torn" THEN Leftover(q) ELSE {Tail(q)}
RestOfWord(q) ==
  CASE Head(q).type = "torn"   -> Leftover(q)
    [] Head(q).type = "LAUNCH" -> {Tail(q)}
    [] OTHER                   -> {<<TORN>> \o Tail(q)}

-----------------------------------------------------------------------------
(* The library. *)

Goto(l) == pc' = l
Error(e) == errnum' = e

Return(r) == pc' = "idle" /\ ret' = r

(***************************************************************************)
(* The appliance died: the backend is shut down, the connection freed and  *)
(* the handle goes back to CONFIG.                                         *)
(***************************************************************************)
child_cleanup ==
  /\ state' = "CONFIG"
  /\ up' = <<>> /\ down' = <<>>
  /\ dpc' = "off"
  /\ UNCHANGED <<job, count_progress, status, chunk, dmoved>>

\* guestfs_launch, as far as the protocol goes.
launch ==
  /\ pc = "idle" /\ state = "CONFIG"
  /\ launches < MaxLaunches
  /\ launches' = launches + 1
  /\ state' = "LAUNCHING"
  /\ proc' = NoProc
  /\ Error("none")
  /\ Goto("launch")
  /\ dpc' = "boot" /\ proc_nr' = NoProc /\ dserial' = 0
  /\ UNCHANGED <<serial, user_cancel, msg, after, moved, ret, up, down,
                 count_progress, status, chunk, dmoved, outcome>>

\* The backend waits for the launch flag (recv_from_daemon makes it READY).
launch_recv ==
  /\ pc = "launch"
  /\ \/ /\ Reads({"LAUNCH"})
        /\ down' = Tail(down)
        /\ state' = "READY"
        /\ Return("ok")
        /\ UNCHANGED <<errnum, up, daemonVars>>
     \/ /\ ReadsEof
        /\ child_cleanup
        /\ Error("error")
        /\ Return("error")
  /\ UNCHANGED <<serial, user_cancel, proc, msg, after, moved, launches>>

(***************************************************************************)
(* A caller invokes a daemon function: the generated stub checks that the  *)
(* appliance is up and guestfs_int_send takes the next serial number.      *)
(***************************************************************************)
guestfs_int_send(p) ==
  /\ pc = "idle" /\ state = "READY"
  /\ serial <= MaxCalls
  /\ serial' = serial + 1
  /\ proc' = p
  /\ msg' = Message("request", p, serial)
  /\ Error("none")
  /\ Goto("check")
  /\ moved' = 0
  /\ UNCHANGED <<state, user_cancel, after, ret, launches, up, down, daemonVars>>

(***************************************************************************)
(* check_daemon_socket, called before each message is written, and what    *)
(* its caller does with the answer.                                        *)
(***************************************************************************)
\* It returns 1 (nothing to read): go on and write.
CheckNothing ==
  /\ ~can_read_data
  /\ Goto("write")
  /\ UNCHANGED <<state, errnum, msg, after, ret, up, down, daemonVars>>

\* Mutation: after a progress message it reports cancellation of the chunk as
\* done, and the chunk it was called for is not written.
CheckProgress_skip ==
  /\ Reads({"PROGRESS"})
  /\ down' = Tail(down)
  /\ IF msg.type = "data" THEN Goto("read") ELSE UNCHANGED pc
  /\ UNCHANGED <<state, errnum, msg, after, ret, up, daemonVars>>

\* A progress message is passed to the callback, and it looks again.
CheckProgress ==
  /\ Reads({"PROGRESS"})
  /\ down' = Tail(down)
  /\ UNCHANGED <<pc, state, errnum, msg, after, ret, up, daemonVars>>

\* It returns -2: before a request that is ignored; a chunk is not sent, and
\* unless it was the cancel chunk itself the cancel chunk is sent instead.
DaemonCancelled ==
  CASE msg.type = "request" -> Goto("write") /\ UNCHANGED <<msg, after>>
    [] msg.type = "cancel"  -> Goto(after) /\ UNCHANGED <<msg, after>>
    [] OTHER -> msg' = CancelChunk /\ after' = "reply" /\ UNCHANGED pc

CheckCancel ==
  /\ Reads({"CANCEL"})
  /\ down' = Tail(down)
  /\ DaemonCancelled
  /\ UNCHANGED <<state, errnum, ret, up, daemonVars>>

\* The caller's return path after an error at a write: a request fails; a chunk
\* ends the transfer without a cancel chunk, and the stub discards the reply;
\* nobody looks at the result of send_file_cancellation.
Unwind ==
  IF msg.type = "request" THEN Return("error")
  ELSE Goto(IF msg.type = "cancel" THEN after ELSE "discard") /\ UNCHANGED ret

\* "Lost protocol synchronization (bad!)": it returns -1 and the handle stays
\* READY, with the rest of the message on the socket.
CheckLost ==
  /\ Reads(MessageTypes \ {"PROGRESS", "CANCEL"})
  /\ down' \in RestOfWord(down)
  /\ Error("error")
  /\ Unwind
  /\ UNCHANGED <<state, msg, after, up, daemonVars>>

\* The bytes of a torn message look like a progress or a cancellation flag.
CheckTorn ==
  /\ Reads({"torn"})
  /\ down' \in Leftover(down)
  /\ UNCHANGED <<pc, msg, after>> \/ DaemonCancelled
  /\ UNCHANGED <<state, errnum, ret, up, daemonVars>>

CheckEof ==
  /\ ReadsEof
  /\ child_cleanup
  /\ Error("error")
  /\ Unwind
  /\ UNCHANGED <<msg, after>>

check_daemon_socket ==
  /\ pc = "check"
  /\ \/ CheckNothing
     \/ CheckProgress
     \/ CheckCancel
     \/ CheckLost
     \/ CheckTorn
     \/ CheckEof
  /\ UNCHANGED <<serial, user_cancel, proc, moved, launches>>

\* Mutation: a FileOut parameter handled as a FileIn parameter.
Written_any_file ==
  CASE msg.type = "request" -> IF proc \in FileIn \cup FileOut THEN "open" ELSE "reply"
    [] msg.type = "data"    -> "read"
    [] msg.type = "eof"     -> "reply"
    [] OTHER                -> after

(***************************************************************************)
(* write_data of a whole message: it may block, and it does not look at    *)
(* the read side any more.  Writing to a dead appliance gives EPIPE.       *)
(***************************************************************************)
Written ==
  CASE msg.type = "request" -> IF proc \in FileIn THEN "open" ELSE "reply"
    [] msg.type = "data"    -> "read"
    [] msg.type = "eof"     -> "reply"
    [] OTHER                -> after

write_data ==
  /\ pc = "write"
  /\ \/ /\ CanWrite
        /\ up' = Append(up, msg)
        /\ Goto(Written)
        /\ UNCHANGED <<state, errnum, ret, down, daemonVars>>
     \/ /\ Dead
        /\ child_cleanup
        /\ Error("error")
        /\ Unwind
  /\ UNCHANGED <<serial, user_cancel, proc, msg, after, moved, launches>>

\* Mutation: the cancel chunk is forgotten on the error path.
CancelTransfer_silent(e) ==
  /\ Error(e)
  /\ Goto("discard")
  /\ UNCHANGED <<msg, after>>

\* A local error: send_file_cancellation, then the stub discards the reply.
CancelTransfer(e) ==
  /\ Error(e)
  /\ msg' = CancelChunk /\ after' = "discard"
  /\ Goto("check")

\* guestfs_int_send_file forgets earlier cancellations and opens the file.
send_file_open ==
  /\ pc = "open"
  /\ user_cancel' = FALSE
  /\ \/ Goto("read") /\ UNCHANGED <<errnum, msg, after>>
     \/ "lib_open" \in Faults /\ CancelTransfer("error")
  /\ UNCHANGED <<state, serial, proc, moved, ret, launches, up, down, daemonVars>>

\* One turn of its loop: send a chunk, reach the end, fail, or be cancelled.
send_file_read ==
  /\ pc = "read"
  /\ \/ /\ ~user_cancel /\ moved < FileLen
        /\ moved' = moved + 1
        /\ msg' = DataChunk
        /\ Goto("check")
        /\ UNCHANGED <<errnum, after>>
     \/ /\ ~user_cancel
        /\ Goto("eof")
        /\ UNCHANGED <<errnum, msg, after, moved>>
     \/ /\ ~user_cancel /\ "lib_read" \in Faults
        /\ CancelTransfer("error")
        /\ UNCHANGED moved
     \/ /\ user_cancel
        /\ CancelTransfer("EINTR")
        /\ UNCHANGED moved
  /\ UNCHANGED <<state, serial, user_cancel, proc, ret, launches, up, down,
                 daemonVars>>

\* At end of file user_cancel is looked at once more, and the file is closed.
send_file_eof ==
  /\ pc = "eof"
  /\ \/ user_cancel /\ CancelTransfer("EINTR")
     \/ ~user_cancel /\ "lib_close" \in Faults /\ CancelTransfer("error")
     \/ ~user_cancel /\ msg' = EofChunk /\ Goto("check") /\ UNCHANGED <<errnum, after>>
  /\ UNCHANGED <<state, serial, user_cancel, proc, moved, ret, launches, up,
                 down, daemonVars>>

(***************************************************************************)
(* Reading in guestfs_int_recv_from_daemon: progress messages go to the    *)
(* callback, end of file cleans up, and reading from a handle without a    *)
(* connection is an error (RHBZ#914931).                                   *)
(***************************************************************************)
RecvProgress ==
  /\ conn
  /\ Reads({"PROGRESS"})
  /\ down' = Tail(down)
  /\ UNCHANGED <<pc, state, errnum, ret, up, daemonVars>>

\* Mutation: the closed connection is not reported.
RecvFails_quiet ==
  /\ \/ ReadsEof /\ child_cleanup
     \/ ~conn /\ UNCHANGED <<state, up, down, daemonVars>>
  /\ Return("error")
  /\ UNCHANGED errnum

\* Mutation: no check that there is a connection.
RecvFails_no_conn ==
  /\ ReadsEof
  /\ child_cleanup
  /\ Error("error")
  /\ Return("error")

RecvFails ==
  /\ \/ ReadsEof /\ child_cleanup
     \/ ~conn /\ UNCHANGED <<state, up, down, daemonVars>>
  /\ Error("error")
  /\ Return("error")

\* Mutation: the reply header is not checked against the request.
RecvReply_unchecked ==
  /\ conn
  /\ Reads(Replies)
  /\ down' = Tail(down)
  /\ IF Reads({"error"}) THEN Error("error") /\ Return("error")
     ELSE IF proc \in FileOut
     THEN Goto("recv_open") /\ UNCHANGED <<errnum, ret>>
     ELSE Return("ok") /\ UNCHANGED errnum
  /\ UNCHANGED <<state, up, daemonVars>>

\* guestfs_int_recv, guestfs_int_check_reply_header and the end of the stub.
RecvReply ==
  /\ conn
  /\ Reads(Replies)
  /\ down' = Tail(down)
  /\ LET hdr == Head(down) IN
       IF hdr.proc # proc \/ hdr.serial # serial - 1 \/ hdr.type = "error"
       THEN Error("error") /\ Return("error")
       ELSE IF proc \in FileOut
       THEN Goto("recv_open") /\ UNCHANGED <<errnum, ret>>
       ELSE Return("ok") /\ UNCHANGED errnum
  /\ UNCHANGED <<state, up, daemonVars>>

\* A cancellation flag is discarded, and it reads again.
RecvSkipCancel ==
  /\ conn
  /\ Reads({"CANCEL"})
  /\ down' = Tail(down)
  /\ UNCHANGED <<pc, state, errnum, ret, up, daemonVars>>

\* A launch flag, or bytes that do not parse as a reply.
RecvUnexpected(t) ==
  /\ conn
  /\ Reads(t)
  /\ down' = Tail(down)
  /\ Error("error")
  /\ Return("error")
  /\ UNCHANGED <<state, up, daemonVars>>

\* The bytes of a torn message look like a flag, or like no reply at all.
RecvTorn ==
  /\ conn
  /\ Reads({"torn"})
  /\ down' \in Leftover(down)
  /\ UNCHANGED <<pc, errnum, ret>> \/ (Error("error") /\ Return("error"))
  /\ UNCHANGED <<state, up, daemonVars>>

guestfs_int_recv ==
  /\ pc = "reply"
  /\ \/ RecvProgress
     \/ RecvSkipCancel
     \/ RecvReply
     \/ RecvUnexpected(Chunks \cup {"LAUNCH"})
     \/ RecvTorn
     \/ RecvFails
  /\ UNCHANGED <<serial, user_cancel, proc, msg, after, moved, launches>>

\* Mutation: the reply to a cancelled upload is left on the socket.
guestfs_int_recv_discard_skip ==
  /\ pc = "discard"
  /\ Return("error")
  /\ UNCHANGED <<state, serial, user_cancel, errnum, proc, msg, after, moved,
                 launches, up, down, daemonVars>>

\* guestfs_int_recv_discard: the stub returns the earlier error.
guestfs_int_recv_discard ==
  /\ pc = "discard"
  /\ \/ RecvProgress
     \/ RecvSkipCancel
     \/ /\ conn
        /\ Reads(MessageTypes \ {"PROGRESS", "CANCEL"})
        /\ down' \in Rest(down)
        /\ Return("error")
        /\ UNCHANGED <<state, errnum, up, daemonVars>>
     \/ RecvTorn
     \/ RecvFails
  /\ UNCHANGED <<serial, user_cancel, proc, msg, after, moved, launches>>

\* guestfs_int_recv_file forgets earlier cancellations and opens the file.
recv_file_open ==
  /\ pc = "recv_open"
  /\ user_cancel' = FALSE
  /\ \/ Goto("recv") /\ UNCHANGED errnum
     \/ "lib_open" \in Faults /\ Error("error") /\ Goto("recv_cancel")
  /\ UNCHANGED <<state, serial, proc, msg, after, moved, ret, launches, up, down,
                 daemonVars>>

\* The answer of receive_file_data to a cancel chunk.
CancelledError == IF user_cancel THEN "EINTR" ELSE "error"

\* A data chunk is written to the file; user_cancel is then looked at.
RecvData ==
  /\ Reads({"data"})
  /\ down' = Tail(down)
  /\ \/ /\ moved' = moved + 1
        /\ Goto(IF user_cancel THEN "recv_cancel" ELSE "recv")
        /\ UNCHANGED errnum
     \/ /\ "lib_write" \in Faults
        /\ Error("error")
        /\ Goto("recv_cancel")
        /\ UNCHANGED moved
  /\ UNCHANGED <<state, ret, up, daemonVars>>

\* The daemon ends the transfer.
RecvEnd ==
  /\ Reads({"cancel", "eof"})
  /\ down' = Tail(down)
  /\ \/ Reads({"cancel"}) /\ Error(CancelledError) /\ Return("error")
     \/ Reads({"eof"}) /\ Return("ok") /\ UNCHANGED errnum
     \/ Reads({"eof"}) /\ "lib_close" \in Faults /\ Error("error") /\ Return("error")
  /\ UNCHANGED <<state, up, moved, daemonVars>>

\* One turn of the loop of guestfs_int_recv_file.
recv_file ==
  /\ pc = "recv"
  /\ \/ RecvData
     \/ RecvEnd
     \/ RecvProgress /\ UNCHANGED moved
     \/ RecvUnexpected(Replies \cup {"LAUNCH", "CANCEL"}) /\ UNCHANGED moved
     \/ RecvFails /\ UNCHANGED moved
  /\ UNCHANGED <<serial, user_cancel, proc, msg, after, launches>>

\* Mutation: the rest of the transfer is not drained after a cancellation.
recv_file_cancel_no_drain ==
  /\ pc = "recv_cancel"
  /\ \/ CanWrite /\ up' = Append(up, CANCEL)
     \/ Dead /\ UNCHANGED up
  /\ Return("error")
  /\ UNCHANGED <<state, serial, user_cancel, errnum, proc, msg, after, moved,
                 launches, down, daemonVars>>

\* The cancel path: write the flag (EPIPE is not noticed here) ...
recv_file_cancel ==
  /\ pc = "recv_cancel"
  /\ \/ CanWrite /\ up' = Append(up, CANCEL)
     \/ Dead /\ UNCHANGED up
  /\ Goto("drain")
  /\ UNCHANGED <<state, serial, user_cancel, errnum, proc, msg, after, moved,
                 ret, launches, down, daemonVars>>

\* ... and throw chunks away until the daemon ends the transfer.
recv_file_drain ==
  /\ pc = "drain"
  /\ \/ RecvProgress
     \/ /\ Reads({"data"})
        /\ down' = Tail(down)
        /\ UNCHANGED <<pc, state, errnum, ret, up, daemonVars>>
     \/ /\ Reads({"eof", "cancel"})
        /\ errnum' = IF Reads({"cancel"}) THEN CancelledError ELSE errnum
        /\ down' = Tail(down)
        /\ Return("error")
        /\ UNCHANGED <<state, up, daemonVars>>
     \/ RecvUnexpected(Replies \cup {"LAUNCH", "CANCEL"})
     \/ RecvFails
  /\ UNCHANGED <<serial, user_cancel, proc, msg, after, moved, launches>>

\* guestfs_user_cancel: another thread, a callback or a signal handler.
guestfs_user_cancel ==
  /\ "user_cancel" \in Faults
  /\ ~user_cancel
  /\ user_cancel' = TRUE
  /\ UNCHANGED <<state, serial, errnum, pc, proc, msg, after, moved, ret,
                 launches, up, down, daemonVars>>

LibraryStep ==
  \/ launch_recv
  \/ check_daemon_socket \/ write_data
  \/ send_file_open \/ send_file_read \/ send_file_eof
  \/ guestfs_int_recv \/ guestfs_int_recv_discard
  \/ recv_file_open \/ recv_file \/ recv_file_cancel \/ recv_file_drain

CallerStep ==
  \/ launch
  \/ \E p \in Procs : guestfs_int_send(p)
  \/ guestfs_user_cancel

-----------------------------------------------------------------------------
(* The daemon. *)

DGoto(l) == dpc' = l
Receives(t) == up # <<>> /\ Head(up).type \in t
CanReply == Len(down) < DownCap
Reply(s) == status' = s /\ DGoto("reply")
Finished(s) == outcome' = [serial |-> dserial, status |-> s]

\* guestfsd announces itself and enters main_loop.
daemon_start ==
  /\ dpc = "boot"
  /\ CanReply
  /\ down' = Append(down, LAUNCH)
  /\ DGoto("main")
  /\ UNCHANGED <<libVars, up, job, count_progress, status, chunk, dmoved>>

(***************************************************************************)
(* main_loop reads a message.  A late cancellation flag is ignored.  A     *)
(* chunk is not a request: when it is long enough to hold a header it has  *)
(* the wrong program number and is answered with the numbers of the        *)
(* previous request, otherwise the header does not decode and guestfsd     *)
(* exits.                                                                  *)
(***************************************************************************)
main_loop ==
  /\ dpc = "main"
  /\ up # <<>> /\ ~Receives({"torn"})
  /\ up' = Tail(up)
  /\ LET m == Head(up) IN
       CASE m.type = "request" ->
              /\ proc_nr' = m.proc /\ dserial' = m.serial
              /\ count_progress' = 0 /\ dmoved' = 0
              /\ DGoto("stub")
              /\ UNCHANGED <<status, chunk, outcome>>
         [] m.type = "data" ->
              /\ count_progress' = 0
              /\ Reply("error") \/ (DGoto("dead") /\ UNCHANGED status)
              /\ UNCHANGED <<job, chunk, dmoved>>
         [] m.type \in {"eof", "cancel"} ->
              /\ DGoto("dead")
              /\ UNCHANGED <<job, count_progress, status, chunk, dmoved>>
         [] OTHER -> UNCHANGED daemonVars
  /\ UNCHANGED <<libVars, down>>

\* What is left of a torn message is no request either: it is answered, it makes
\* guestfsd exit, or it looks like a flag.
main_loop_torn ==
  /\ dpc = "main"
  /\ Receives({"torn"})
  /\ up' \in Leftover(up)
  /\ Reply("error") \/ (dpc' \in {"main", "dead"} /\ UNCHANGED status)
  /\ count_progress' \in {0, count_progress}
  /\ UNCHANGED <<libVars, down, job, chunk, dmoved>>

(***************************************************************************)
(* After each chunk (and, for a long command, from the pulse timer) the    *)
(* daemon may notify progress; the rate limit decides whether a message is *)
(* sent.                                                                   *)
(***************************************************************************)
AfterProgress == CASE proc_nr \in FileIn  -> "recv"
                   [] proc_nr \in FileOut -> "send"
                   [] OTHER               -> "stub"

notify_progress ==
  /\ \/ dpc \in {"written", "sent"} /\ DGoto(AfterProgress)
     \/ /\ dpc \in {"written", "sent"} \/ (dpc = "stub" /\ proc_nr = "checksum")
        /\ count_progress < MaxProgress
        /\ DGoto("notify")
  /\ UNCHANGED <<libVars, up, down, job, count_progress, status, chunk, dmoved>>

notify_progress_no_ratelimit ==
  /\ dpc = "notify"
  /\ CanReply
  /\ down' = Append(down, PROGRESS)
  /\ count_progress' = count_progress + 1
  /\ DGoto(AfterProgress)
  /\ UNCHANGED <<libVars, up, job, status, chunk, dmoved>>

\* A procedure without file parameters does its work.
dispatch_plain ==
  /\ dpc = "stub" /\ proc_nr = "checksum"
  /\ Reply("ok") \/ ("fail" \in Faults /\ Reply("error"))
  /\ UNCHANGED <<libVars, up, down, job, count_progress, chunk, dmoved>>

\* Mutation: every rejection replies without cancelling the transfer.
dispatch_filein_no_cancel ==
  /\ dpc = "stub" /\ proc_nr \in FileIn
  /\ (DGoto("recv") /\ UNCHANGED status) \/ ("reject" \in Faults /\ Reply("error"))
  /\ UNCHANGED <<libVars, up, down, job, count_progress, chunk, dmoved>>

(***************************************************************************)
(* A procedure with a FileIn parameter starts to receive the file, or is   *)
(* rejected by the stub or by the handler, which must cancel the transfer  *)
(* first.  do_tar_in with an unknown compression type replies at once, as  *)
(* do_upload_offset, do_ntfsclone_in and do_yara_load do in a like case.   *)
(***************************************************************************)
dispatch_filein ==
  /\ dpc = "stub" /\ proc_nr \in FileIn
  /\ \/ DGoto("recv") /\ UNCHANGED status
     \/ "reject" \in Faults /\ DGoto("cancel") /\ UNCHANGED status
     \/ proc_nr = "tar_in" /\ "reject" \in Faults /\ Reply("error")
  /\ UNCHANGED <<libVars, up, down, job, count_progress, chunk, dmoved>>

(***************************************************************************)
(* receive_file reads the next chunk, ignoring flag words.  A request here *)
(* has no valid cancel field, so the two sides have lost synchronization   *)
(* and it returns -1 as for a write error.                                 *)
(***************************************************************************)
receive_file ==
  /\ dpc = "recv"
  /\ up # <<>>
  /\ up' = Tail(up)
  /\ LET m == Head(up) IN
       CASE m.type = "data" ->
              \/ dmoved' = dmoved + 1 /\ DGoto("written") /\ UNCHANGED status
              \/ "write" \in Faults /\ DGoto("cancel") /\ UNCHANGED <<status, dmoved>>
         [] m.type = "eof" -> DGoto("received") /\ UNCHANGED <<status, dmoved>>
         [] m.type = "cancel" -> Reply("error") /\ UNCHANGED dmoved
         [] m.type = "request" -> DGoto("cancel") /\ UNCHANGED <<status, dmoved>>
         [] OTHER -> UNCHANGED <<dpc, status, dmoved>>
  /\ UNCHANGED <<libVars, down, job, count_progress, chunk>>

(***************************************************************************)
(* The handler has the whole file.  do_yara_load returns -1 without a      *)
(* reply when yr_rules_load fails in a way it does not know.               *)
(***************************************************************************)
received ==
  /\ dpc = "received"
  /\ \/ Reply("ok")
     \/ "close" \in Faults /\ Reply("error")
     \/ proc_nr = "yara_load" /\ "fail" \in Faults /\ DGoto("main") /\ UNCHANGED status
  /\ UNCHANGED <<libVars, up, down, job, count_progress, chunk, dmoved>>

\* cancel_receive writes the flag ...
cancel_receive ==
  /\ dpc = "cancel"
  /\ CanReply
  /\ down' = Append(down, CANCEL)
  /\ DGoto("discard")
  /\ UNCHANGED <<libVars, up, job, count_progress, status, chunk, dmoved>>

\* Mutation: only the end of the file ends the discarding.
cancel_receive_discard_eof ==
  /\ dpc = "discard"
  /\ up # <<>>
  /\ up' = Tail(up)
  /\ IF Receives({"eof", "request"}) THEN Reply("error") ELSE UNCHANGED <<dpc, status>>
  /\ UNCHANGED <<libVars, down, job, count_progress, chunk, dmoved>>

\* Mutation: one message is discarded instead of all.
cancel_receive_discard_one ==
  /\ dpc = "discard"
  /\ up # <<>>
  /\ up' = Tail(up)
  /\ Reply("error")
  /\ UNCHANGED <<libVars, down, job, count_progress, chunk, dmoved>>

\* ... and discards chunks until the library ends the transfer.
cancel_receive_discard ==
  /\ dpc = "discard"
  /\ up # <<>>
  /\ up' = Tail(up)
  /\ IF Receives({"eof", "cancel", "request"})
     THEN Reply("error")
     ELSE UNCHANGED <<dpc, status>>
  /\ UNCHANGED <<libVars, down, job, count_progress, chunk, dmoved>>

\* Mutation: send_error does not fill in the serial number.
reply_no_serial ==
  /\ dpc = "reply"
  /\ CanReply
  /\ down' = Append(down, Message(status, proc_nr, IF status = "ok" THEN dserial ELSE 0))
  /\ IF proc_nr \in FileOut /\ status = "ok"
     THEN DGoto("send") /\ UNCHANGED outcome
     ELSE DGoto("main") /\ Finished(status)
  /\ UNCHANGED <<libVars, up, proc_nr, dserial, count_progress, status, chunk,
                 dmoved>>

\* reply and send_error; a FileOut handler goes on to send the file.
reply ==
  /\ dpc = "reply"
  /\ CanReply
  /\ down' = Append(down, Message(status, proc_nr, dserial))
  /\ IF proc_nr \in FileOut /\ status = "ok"
     THEN DGoto("send") /\ UNCHANGED outcome
     ELSE DGoto("main") /\ Finished(status)
  /\ UNCHANGED <<libVars, up, proc_nr, dserial, count_progress, status, chunk,
                 dmoved>>

\* A procedure with a FileOut parameter replies before it sends the file.
dispatch_fileout ==
  /\ dpc = "stub" /\ proc_nr \in FileOut
  /\ Reply("ok") \/ ("reject" \in Faults /\ Reply("error"))
  /\ UNCHANGED <<libVars, up, down, job, count_progress, chunk, dmoved>>

SendChunk(c) == chunk' = c /\ DGoto("chunk")

(***************************************************************************)
(* send_file_write looks for a cancellation from the library without       *)
(* blocking.  Anything else it reads there is the start of a message, the  *)
(* rest of which stays unread, and the chunk is sent.                      *)
(***************************************************************************)
send_file_write ==
  /\ dpc = "send"
  /\ dmoved < FileLen
  /\ \/ up = <<>> /\ SendChunk(DataChunk) /\ UNCHANGED up
     \/ /\ Receives({"CANCEL", "torn"})
        /\ up' \in Rest(up)
        /\ chunk' = CancelChunk /\ DGoto("cancelled")
     \/ /\ Receives(MessageTypes \ {"CANCEL"})
        /\ up' \in RestOfWord(up)
        /\ SendChunk(DataChunk)
  /\ UNCHANGED <<libVars, down, job, count_progress, status, dmoved>>

\* A record above GUESTFS_MAX_CHUNK_SIZE is refused and nothing is sent; a
\* journal field may be that long, the other handlers read at most that much.
send_file_write_too_long ==
  /\ dpc = "send"
  /\ proc_nr = "journal_get" /\ "send" \in Faults
  /\ DGoto("main")
  /\ UNCHANGED <<libVars, up, down, job, count_progress, status, chunk, dmoved>>

\* send_file_end: end of file, or an error reading the file.
send_file_end ==
  /\ dpc = "send"
  /\ SendChunk(EofChunk) \/ ("send" \in Faults /\ SendChunk(CancelChunk))
  /\ UNCHANGED <<libVars, up, down, job, count_progress, status, dmoved>>

(***************************************************************************)
(* send_chunk.  The scanning handlers answer the -2 that send_file_write   *)
(* returns after a cancellation with send_file_end (1): they send the      *)
(* cancel chunk a second time.                                             *)
(***************************************************************************)
send_chunk ==
  /\ dpc \in {"chunk", "cancelled"}
  /\ CanReply
  /\ down' = Append(down, chunk)
  /\ IF chunk.type = "data"
     THEN dmoved' = dmoved + 1 /\ DGoto("sent") /\ UNCHANGED outcome
     ELSE /\ UNCHANGED dmoved
          /\ Finished(IF chunk.type = "eof" THEN "ok" ELSE "error")
          /\ DGoto(IF dpc = "cancelled" /\ proc_nr = "filesystem_walk"
                   THEN "chunk" ELSE "main")
  /\ UNCHANGED <<libVars, up, proc_nr, dserial, count_progress, status, chunk>>

\* qemu dies; what the daemon had written stays readable.
appliance_dies ==
  /\ "crash" \in Faults
  /\ dpc \notin {"off", "dead"}
  /\ DGoto("dead")
  /\ up' = <<>>
  /\ UNCHANGED <<libVars, down, job, count_progress, status, chunk, dmoved>>

DaemonStep ==
  \/ daemon_start \/ main_loop \/ main_loop_torn
  \/ notify_progress \/ notify_progress_no_ratelimit
  \/ dispatch_plain \/ dispatch_filein \/ dispatch_fileout
  \/ receive_file \/ received
  \/ cancel_receive \/ cancel_receive_discard \/ reply
  \/ send_file_write \/ send_file_write_too_long \/ send_file_end
  \/ send_chunk

Init ==
  /\ state = "CONFIG" /\ serial = 1 /\ user_cancel = FALSE /\ errnum = "none"
  /\ pc = "idle" /\ proc = NoProc /\ msg = Word("request") /\ after = "reply"
  /\ moved = 0 /\ ret = "ok" /\ launches = 0
  /\ up = <<>> /\ down = <<>>
  /\ dpc = "off" /\ proc_nr = NoProc /\ dserial = 0 /\ count_progress = 0
  /\ status = "ok" /\ chunk = EofChunk /\ dmoved = 0
  /\ outcome = [serial |-> 0, status |-> "ok"]

Next == CallerStep \/ LibraryStep \/ DaemonStep \/ appliance_dies

Spec == Init /\ [][Next]_vars

(***************************************************************************)
(* Both programs run whenever they can; nothing obliges a caller to make   *)
(* or to cancel a call, nor qemu to die.                                   *)
(***************************************************************************)
FairSpec == Spec /\ WF_vars(LibraryStep) /\ WF_vars(DaemonStep)

-----------------------------------------------------------------------------
(* Properties. *)

LibraryAt == {"idle", "launch", "check", "write", "open", "read", "eof", "reply",
              "discard", "recv_open", "recv", "recv_cancel", "drain"}
DaemonAt == {"off", "dead", "boot", "main", "stub", "recv", "written", "received",
             "cancel", "discard", "reply", "send", "chunk", "cancelled", "sent",
             "notify"}

\* The type invariant.
TypeOK ==
  /\ state \in {"CONFIG", "LAUNCHING", "READY"}
  /\ serial \in Nat /\ launches \in Nat /\ moved \in Nat
  /\ user_cancel \in BOOLEAN
  /\ errnum \in {"none", "error", "EINTR"}
  /\ pc \in LibraryAt
  /\ proc \in AllProcs \cup {NoProc}
  /\ msg \in Messages
  /\ after \in {"reply", "discard"}
  /\ ret \in {"ok", "error"}
  /\ up \in Seq(Messages) /\ down \in Seq(Messages)
  /\ dpc \in DaemonAt
  /\ proc_nr \in AllProcs \cup {NoProc}
  /\ dserial \in Nat /\ count_progress \in Nat /\ dmoved \in Nat
  /\ status \in Replies
  /\ chunk \in Messages
  /\ outcome \in [serial : Nat, status : Replies]

\* No message of the queue is torn.
Whole(q) == \A i \in 1 .. Len(q) : q[i].type # "torn"

\* Neither side ever takes a word of the stream for something it is not: the
\* library never reports "Lost protocol synchronization", and the daemon never
\* eats the first word of a request while looking for a cancellation.
InSync == Whole(up) /\ Whole(down)

\* When a call has returned and the appliance is alive, the daemon is back in
\* main_loop and nothing of the call is left on the socket, except a
\* cancellation flag that main_loop will ignore.
QuietBetweenCalls ==
  pc = "idle" /\ state = "READY" /\ ~Dead =>
    /\ dpc = "main"
    /\ down = <<>>
    /\ \A i \in 1 .. Len(up) : up[i].type = "CANCEL"

\* The first message that is neither a progress message nor a cancellation flag
\* and that guestfs_int_recv reads is the reply to this very call, so
\* guestfs_int_check_reply_header never fails.
ReplyIsMine ==
  pc \in {"reply", "discard"} /\ conn =>
    \A i \in 1 .. Len(down) :
      \/ down[i].type \in {"PROGRESS", "CANCEL"}
      \/ /\ down[i].type \in Replies
         /\ down[i].proc = proc /\ down[i].serial = serial - 1
      \/ down[i].type \in Chunks /\ \E j \in 1 .. i - 1 : down[j].type = "ok"

\* What the daemon finds when it looks for a cancellation during a download was
\* sent by the library for this download: the library is draining it.
CancelIsForThisTransfer ==
  dpc \in {"send", "chunk", "cancelled", "sent"} /\ up # <<>> => pc = "drain"

\* A transfer that is reported as successful moved the whole file: both sides
\* moved the same number of chunks.
WholeFileMoved ==
  pc = "idle" /\ state = "READY" /\ ret = "ok" /\ ~Dead
    /\ proc \in FileIn \cup FileOut => moved = dmoved

\* Each side in a read with nothing to read or a write with no room.
LibraryBlocked ==
  \/ pc \in {"reply", "discard", "recv", "drain"} /\ conn /\ ~can_read_data
  \/ pc \in {"write", "recv_cancel"} /\ ~Dead /\ Len(up) >= UpCap
DaemonBlocked ==
  \/ dpc \in {"main", "recv", "discard"} /\ up = <<>>
  \/ dpc \in {"notify", "cancel", "reply", "chunk", "cancelled"} /\ ~CanReply

\* The two programs never wait for each other: neither for a message that the
\* other will not send, nor for room that the other will not make.
NotStuck == ~(LibraryBlocked /\ DaemonBlocked)

\* The library has given up an upload and waits for the reply, while the daemon
\* has rejected it and waits for the library to end it.
BothCancel == pc = "discard" /\ msg = CancelChunk /\ dpc = "discard"

\* Uploads that both sides cancel at the same time are the only case in which
\* the two programs wait for each other, whatever fails and however little room
\* there is on the socket.
StuckOnlyIfBothCancel == LibraryBlocked /\ DaemonBlocked => BothCancel

\* A call that fails has recorded an error for guestfs_last_error, unless the
\* user asked for it to be cancelled.
FailureHasError == pc = "idle" /\ ret = "error" /\ ~user_cancel => errnum # "none"

\* Every call returns, or comes to the case that StuckOnlyIfBothCancel excepts.
CallReturns == (pc # "idle") ~> (pc = "idle" \/ BothCancel)
=============================================================================
