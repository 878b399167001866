---------------------------- MODULE ProtocolInv ----------------------------
(***************************************************************************)
(* The inductive invariant of Protocol, for handlers that keep to the      *)
(* protocol: where each side is, and what may then be on the socket.  At   *)
(* any moment one side holds the turn: the library between calls, then the *)
(* daemon from the moment it reads the request until it writes the last    *)
(* message of the call, which is then the last message on the socket.      *)
(***************************************************************************)
EXTENDS Protocol, FiniteSets

Disciplined == {"checksum", "upload", "download"}

\* The kinds of message in a queue.
Types(q) == {q[i].type : i \in 1 .. Len(q)}

\* Messages of the kinds S are at the end of the queue only.
LastOnly(q, S) == \A i \in 1 .. Len(q) - 1 : q[i].type \notin S

\* A request is number s for p, with only flags before and chunks after it.
RequestInOrder(q, p, s) ==
  \A i \in 1 .. Len(q) : q[i].type = "request" =>
    /\ q[i].proc = p /\ q[i].serial = s
    /\ \A j \in 1 .. i - 1 : q[j].type = "CANCEL"
    /\ \A j \in i + 1 .. Len(q) : q[j].type \in Chunks

\* The replies are to request number s for p.
RepliesTo(q, p, s) ==
  \A i \in 1 .. Len(q) : q[i].type \in Replies => q[i].proc = p /\ q[i].serial = s

\* Where the library is in a call.
Quiet == pc = "idle" \/ (pc \in {"check", "write"} /\ msg.type = "request")
Sending == pc \in {"open", "read", "eof"}
             \/ (pc \in {"check", "write"} /\ msg.type # "request")
Waiting == pc \in {"reply", "discard"}
Receiving == pc \in {"recv_open", "recv", "recv_cancel", "drain"}

\* Where the daemon is in a call.
Pending == "request" \in Types(up)
TakingFile == {"stub", "notify", "written", "recv", "cancel", "discard"}
GivingFile == {"send", "chunk", "sent", "notify", "cancelled"}
Working == dpc \in TakingFile \cup GivingFile \cup {"received", "reply"}

EndOfFile == {"eof", "cancel"}
Final == IF proc \in FileOut THEN EndOfFile \cup {"error"} ELSE Replies

\* The life of the appliance.
LifeInv ==
  /\ state = "CONFIG" =>
       /\ pc \in {"idle", "reply", "discard"}
       /\ dpc = "off" /\ up = <<>> /\ down = <<>>
  /\ state = "LAUNCHING" =>
       /\ pc = "launch"
       /\ dpc \in {"boot", "main", "dead"}
       /\ up = <<>> /\ Len(down) <= 1 /\ Types(down) \subseteq {"LAUNCH"}
       /\ dpc = "boot" => down = <<>>
  /\ state = "READY" => pc # "launch" /\ dpc \notin {"off", "boot"}
  /\ Dead => up = <<>>

\* The library and the message it is about to write.
LibraryInv ==
  /\ pc \notin {"idle", "launch"} => proc \in Disciplined
  /\ pc = "launch" => proc = NoProc
  /\ pc \in {"check", "write"} =>
       \/ msg = Message("request", proc, serial - 1)
       \/ msg \in {DataChunk, EofChunk, CancelChunk}
  /\ Sending \/ pc = "discard" => proc \in FileIn
  /\ Receiving => proc \in FileOut
  /\ serial >= 1

\* What is on its way to the daemon.
UpInv ==
  /\ Types(up) \subseteq {"CANCEL", "request", "data"} \cup EndOfFile
  /\ RequestInOrder(up, proc, serial - 1)
  /\ LastOnly(up, EndOfFile)
  /\ Types(up) \cap EndOfFile # {} => Waiting
  /\ Types(up) \cap Chunks # {} => proc \in FileIn
  /\ Pending => /\ dpc = "main" /\ down = <<>>
                /\ Sending \/ Waiting
                /\ proc \notin FileIn => pc = "reply"
  /\ dpc = "main" /\ ~Pending => Types(up) \subseteq {"CANCEL"}

\* What is on its way to the library.
DownInv ==
  state = "READY" =>
    /\ Quiet => down = <<>>
    /\ Sending => Types(down) \subseteq {"PROGRESS", "CANCEL"}
    /\ Waiting /\ proc \notin FileOut =>
         Types(down) \subseteq {"PROGRESS", "CANCEL"} \cup Replies
    /\ Waiting /\ proc \in FileOut /\ down # <<>> =>
         /\ Head(down).type \in Replies
         /\ Types(Tail(down)) \subseteq Chunks \cup {"PROGRESS"}
    /\ Receiving => Types(down) \subseteq Chunks \cup {"PROGRESS"}
    /\ RepliesTo(down, proc, serial - 1)
    /\ LastOnly(down, Final)
    /\ Types(down) \cap Final # {} => dpc \in {"main", "dead"}

\* The daemon: it works for the call in progress, and gets on with the library.
DaemonInv ==
  /\ Quiet /\ state = "READY" => dpc \in {"main", "dead"} /\ ~Pending
  /\ Sending => Pending \/ dpc \in TakingFile \cup {"dead"}
  /\ Working =>
       /\ proc_nr = proc /\ dserial = serial - 1
       /\ proc \in Disciplined
       /\ Sending \/ Waiting \/ Receiving
  /\ Working /\ proc \in FileIn =>
       \/ dpc \in TakingFile /\ Types(up) \subseteq Chunks
       \/ dpc \in {"received", "reply"} /\ up = <<>> /\ Waiting
  /\ Working /\ proc \notin FileIn \cup FileOut =>
       dpc \in {"stub", "notify", "reply"} /\ up = <<>> /\ pc = "reply"
  /\ Working /\ proc \in FileOut =>
       \/ dpc \in {"stub", "reply"} /\ up = <<>> /\ down = <<>> /\ pc = "reply"
       \/ /\ dpc \in GivingFile
          /\ Types(up) \subseteq {"CANCEL"}
          /\ up # <<>> => pc = "drain"
          /\ pc = "reply" => down # <<>>
          /\ pc \in {"reply"} \/ Receiving
  /\ dpc = "chunk" => chunk \in {DataChunk, EofChunk, CancelChunk}
  /\ dpc = "cancelled" => chunk = CancelChunk /\ pc = "drain"

\* Inductive: it implies InSync, QuietBetweenCalls, ReplyIsMine
\* and CancelIsForThisTransfer.
IInv == TypeOK /\ LifeInv /\ LibraryInv /\ UpInv /\ DownInv /\ DaemonInv

-----------------------------------------------------------------------------
(* What the theorems about transfers, waiting and errors need besides. *)

\* The data chunks in a queue, and the one the library is about to write.
DataIn(q) == Cardinality({i \in 1 .. Len(q) : q[i].type = "data"})
InHand == IF pc \in {"check", "write"} /\ msg.type = "data" THEN 1 ELSE 0

\* The daemon may still say that it has the whole file; the library may still
\* say so.
DaemonTakesAll == dpc \in {"stub", "recv", "written", "notify", "received"}
                    \/ (dpc = "reply" /\ status = "ok")
LibraryTakesAll == pc \in {"recv_open", "recv"} \/ (pc = "reply" /\ "ok" \in Types(down))

\* Each chunk that one side has moved and the other has not is on its way.
MovedInv ==
  /\ pc \in {"check", "write"} /\ msg.type = "request" => moved = 0
  /\ proc \in FileIn =>
       /\ Pending => moved = DataIn(up) + InHand
       /\ Working /\ DaemonTakesAll => moved = dmoved + DataIn(up) + InHand
       /\ Waiting /\ "ok" \in Types(down) => moved = dmoved
  /\ proc \in FileOut =>
       /\ pc = "reply" => moved = 0
       /\ dpc \in {"stub", "reply"} => dmoved = 0
       /\ LibraryTakesAll => dmoved = moved + DataIn(down)
  /\ pc = "idle" /\ state = "READY" /\ ret = "ok" /\ proc \in FileIn \cup FileOut =>
       moved = dmoved

\* While the library waits, the daemon has something to do or has done it.
TurnInv ==
  state = "READY" /\ ~Dead /\ (Waiting \/ Receiving) =>
    Pending \/ Working \/ Types(down) \cap Final # {}

\* Since the library last looked, the daemon has written at most one message
\* without making room for another.
RoomInv ==
  /\ Len(up) <= UpCap
  /\ pc = "write" /\ msg.type # "request" =>
       down = <<>> \/ dpc \in {"recv", "discard", "dead"} \/ Len(up) < UpCap

\* The daemon cancels an upload once, and then waits for its end.
FlagInv ==
  Sending =>
    /\ LastOnly(down, {"CANCEL"})
    /\ "CANCEL" \in Types(down) => dpc \in {"discard", "dead"}
    /\ pc \in {"check", "write"} /\ msg.type = "cancel" /\ after = "reply" =>
         "CANCEL" \notin Types(down) /\ dpc \in {"discard", "dead"}

\* The end of an upload is on its way while the daemon needs it, unless the
\* library has left it out for the daemon's flag.
EndInv ==
  Waiting /\ proc \in FileIn =>
    /\ Pending \/ dpc \in {"stub", "recv", "written", "notify", "cancel"} =>
         Types(up) \cap EndOfFile # {}
    /\ dpc = "discard" => Types(up) \cap EndOfFile # {} \/ (pc = "discard" /\ msg = CancelChunk)

FlowInv == TurnInv /\ RoomInv /\ FlagInv /\ EndInv

\* An error is recorded when a call is bound to fail.
ErrorInv ==
  /\ pc \in {"check", "write"} => msg.type \in {"request"} \cup Chunks
  /\ pc = "discard" => errnum # "none"
  /\ pc \in {"check", "write"} /\ msg.type = "cancel" /\ after = "discard" => errnum # "none"
  /\ pc \in {"recv_cancel", "drain"} => errnum # "none" \/ user_cancel
  /\ FailureHasError

\* Inductive: it also implies WholeFileMoved, StuckOnlyIfBothCancel and
\* FailureHasError.
FInv == IInv /\ MovedInv /\ FlowInv /\ ErrorInv
=============================================================================
