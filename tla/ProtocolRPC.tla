---------------------------- MODULE ProtocolRPC ----------------------------
(***************************************************************************)
(* The protocol implements RPC.  A launch is not a call; what the daemon   *)
(* finished counts only while its serial number is the current one.        *)
(***************************************************************************)
EXTENDS ProtocolInv

Calling == pc \notin {"idle", "launch"}
rpc == INSTANCE RPC WITH
  call <- IF Calling THEN "pending" ELSE "idle",
  outcome <- IF proc # NoProc /\ outcome.serial = serial - 1 THEN outcome.status
             ELSE "none",
  ret <- IF proc = NoProc \/ Calling THEN "none" ELSE ret

\* A request is carried out at most once, and a call returns success only when
\* the daemon carried out that very request successfully, whatever fails and
\* whatever is left on the socket by earlier calls.
ImplementsRPC == rpc!Spec

-----------------------------------------------------------------------------
(***************************************************************************)
(* The inductive invariant behind it, for all handlers, those included     *)
(* that lose synchronization: what bears the serial number of the call in  *)
(* progress, or comes after it on a queue, belongs to that call.           *)
(***************************************************************************)

Current == serial - 1
Unsent == pc \in {"check", "write"} /\ msg.type = "request"
AwaitsFile == pc \in {"recv_open", "recv"}
Carried == outcome = [serial |-> Current, status |-> "ok"]

Requests(m, s) == m.type = "request" /\ m.serial = s
Answers(m, s) == m.type \in Replies /\ m.serial = s
Confirms(m, s) == m.type = "ok" /\ m.serial = s

\* What a call sends after its request.
Sends(p) == IF p \in FileIn THEN Chunks ELSE {"CANCEL"}

\* From position i on a queue has messages of the kinds T only, and the end of
\* a file at its end only, when the library is over with sending it.
Follows(q, i, T, over) ==
  \A j \in i .. Len(q) :
    /\ q[j].type \in T
    /\ q[j].type \in EndOfFile => j = Len(q) /\ over

\* The numbers that have been given out.
SerialsInv ==
  /\ serial >= 1
  /\ dserial < serial /\ outcome.serial < serial
  /\ \A i \in 1 .. Len(up) : up[i].serial < serial
  /\ \A i \in 1 .. Len(down) : down[i].serial < serial

\* Only the first message of a queue may be torn, and a file is never received
\* from such a queue: behind a message that was read whole there are whole ones.
TornFirst(q) == \A i \in 1 .. Len(q) : q[i].type = "torn" => i = 1
TornInv ==
  /\ TornFirst(up) /\ (Whole(up) \/ proc_nr \notin FileIn)
  /\ TornFirst(down) /\ (Whole(down) \/ ~Receiving)

\* Where the two sides are, and what they are about to write.
PlaceInv ==
  /\ pc \notin {"idle", "launch"} => proc # NoProc
  /\ pc = "launch" => proc = NoProc
  /\ pc \in {"check", "write"} =>
       \/ msg = Message("request", proc, Current)
       \/ msg \in {DataChunk, EofChunk, CancelChunk}
  /\ Sending => proc \in FileIn
  /\ Receiving => proc \in FileOut
  /\ dpc \in {"recv", "written", "received", "cancel", "discard"} => proc_nr \in FileIn
  /\ dpc = "chunk" => chunk \in {DataChunk, EofChunk, CancelChunk}
  /\ dpc = "cancelled" => chunk = CancelChunk
  /\ dpc \in {"send", "chunk", "cancelled", "sent"} => proc_nr \in FileOut

\* The request goes to the daemon once, and the rest of the call behind it.
RequestOnce ==
  /\ Unsent => /\ dserial # Current
               /\ \A i \in 1 .. Len(up) : ~Requests(up[i], Current)
  /\ \A i \in 1 .. Len(up) : Requests(up[i], Current) =>
       /\ dserial # Current /\ up[i].proc = proc
       /\ Follows(up, i + 1, Sends(proc), ~Sending)
  /\ dserial = Current => proc_nr = proc /\ Follows(up, 1, Sends(proc), ~Sending)

\* The daemon finishes it once: what it does again ends as the first time did.
FinishedOnce ==
  /\ outcome.serial = Current =>
       /\ dserial = Current
       /\ \/ dpc \in {"main", "dead", "off"}
          \/ /\ outcome.status = "error"
             /\ \/ dpc = "reply" /\ status = "error"
                \/ dpc = "chunk" /\ chunk = CancelChunk
  /\ /\ dserial = Current /\ proc \in FileIn
     /\ dpc = "received" \/ (dpc = "reply" /\ status = "ok") \/ Carried
     => up = <<>> /\ ~Sending

\* What the library will take for success was sent for this call.
AnswerIsTrue ==
  /\ AwaitsFile => dserial = Current
  /\ \A i \in 1 .. Len(down) :
       /\ Answers(down[i], Current) => dserial = Current
       /\ Confirms(down[i], Current) => Carried \/ proc \in FileOut
       /\ /\ down[i].type = "eof"
          /\ AwaitsFile \/ \E j \in 1 .. i - 1 : Confirms(down[j], Current)
          => Carried

\* Inductive: with it each step is a step of RPC.
CallInv ==
  /\ TypeOK /\ SerialsInv /\ TornInv /\ PlaceInv
  /\ proc # NoProc => RequestOnce /\ FinishedOnce /\ AnswerIsTrue
=============================================================================
