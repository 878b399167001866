--------------------------- MODULE ProtocolFiles ----------------------------
(***************************************************************************)
(* An upload or a download that returns success moved the whole file.      *)
(* Every data chunk that one side has moved and the other has not is on    *)
(* the socket or in the library's hand, so the proof counts the chunks in  *)
(* a queue as messages are put and taken.                                  *)
(***************************************************************************)
EXTENDS ProtocolSafety, FiniteSetTheorems

LEMMA DataPositions ==
  ASSUME NEW q \in Seq(Messages)
  PROVE  IsFiniteSet({i \in 1 .. Len(q) : q[i].type = "data"}) /\ DataIn(q) \in Nat
<1>1. IsFiniteSet(1 .. Len(q))
  BY FS_Interval
<1>2. IsFiniteSet({i \in 1 .. Len(q) : q[i].type = "data"})
  BY <1>1, FS_Subset, Zenon
<1> QED
  BY <1>2, FS_CardinalityType, Zenon DEF DataIn

LEMMA NoData ==
  ASSUME NEW q \in Seq(Messages), "data" \notin Types(q)
  PROVE  DataIn(q) = 0
<1>1. {i \in 1 .. Len(q) : q[i].type = "data"} = {}
  BY Zenon DEF Types
<1> QED
  BY <1>1, FS_EmptySet, Zenon DEF DataIn

LEMMA DataPut ==
  ASSUME NEW q \in Seq(Messages), NEW m \in Messages
  PROVE  DataIn(Append(q, m)) = DataIn(q) + (IF m.type = "data" THEN 1 ELSE 0)
<1> DEFINE P == {i \in 1 .. Len(q) : q[i].type = "data"}
           R == {i \in 1 .. Len(Append(q, m)) : Append(q, m)[i].type = "data"}
<1>1. /\ Len(q) \in Nat /\ Len(Append(q, m)) = Len(q) + 1
      /\ \A i \in 1 .. Len(q) : Append(q, m)[i] = q[i]
      /\ Append(q, m)[Len(q) + 1] = m
  OBVIOUS
<1>2. IsFiniteSet(P)
  BY DataPositions, Zenon
<1>3. Len(q) + 1 \notin P
  BY <1>1
<1>4. R = IF m.type = "data" THEN P \cup {Len(q) + 1} ELSE P
  BY <1>1
<1>5. Cardinality(P \cup {Len(q) + 1}) = Cardinality(P) + 1
  BY <1>2, <1>3, FS_AddElement, Zenon
<1>6. DataIn(q) = Cardinality(P) /\ DataIn(Append(q, m)) = Cardinality(R) /\ DataIn(q) \in Nat
  BY DataPositions, Zenon DEF DataIn
<1> HIDE DEF P, R
<1>7. CASE m.type = "data"
  BY <1>4, <1>5, <1>6, <1>7, Zenon
<1>8. CASE m.type # "data"
  BY <1>4, <1>6, <1>8
<1> QED
  BY <1>7, <1>8, Zenon

LEMMA DataTake ==
  ASSUME NEW q \in Seq(Messages), q # <<>>
  PROVE  DataIn(q) = DataIn(Tail(q)) + (IF Head(q).type = "data" THEN 1 ELSE 0)
<1> DEFINE P == {i \in 1 .. Len(q) : q[i].type = "data"}
           R == {i \in 1 .. Len(Tail(q)) : Tail(q)[i].type = "data"}
           f == [i \in R |-> i + 1]
<1>1. /\ Len(q) \in Nat /\ Len(q) >= 1 /\ Len(Tail(q)) = Len(q) - 1 /\ Tail(q) \in Seq(Messages)
      /\ \A i \in 1 .. Len(q) - 1 : Tail(q)[i] = q[i + 1]
      /\ Head(q) = q[1]
  OBVIOUS
<1>2. IsFiniteSet(P) /\ IsFiniteSet(R)
  BY <1>1, DataPositions, Zenon
<1>3. ExistsBijection(R, P \ {1})
  <2>1. \A i \in R : f[i] \in P \ {1}
    BY <1>1
  <2>2. \A i, j \in R : f[i] = f[j] => i = j
    OBVIOUS
  <2>3. ASSUME NEW j \in P \ {1} PROVE \E i \in R : f[i] = j
    <3>1. j \in 1 .. Len(q) /\ j # 1 /\ q[j].type = "data"
      OBVIOUS
    <3>2. j - 1 \in 1 .. Len(Tail(q)) /\ Tail(q)[j - 1] = q[j] /\ (j - 1) + 1 = j
      BY <1>1, <3>1
    <3>3. j - 1 \in R
      BY <3>1, <3>2, Zenon
    <3> QED
      BY <3>2, <3>3, Zenon
  <2> HIDE DEF P, R
  <2>4. f \in Bijection(R, P \ {1})
    BY <2>1, <2>2, <2>3, Zenon DEF Bijection, Injection, Surjection, IsInjective
  <2> QED
    BY <2>4, Zenon DEF ExistsBijection
<1>4. IsFiniteSet(P \ {1})
  BY <1>2, FS_Subset, Zenon
<1>5. Cardinality(R) = Cardinality(P \ {1})
  BY <1>2, <1>3, <1>4, FS_Bijection, Zenon
<1>6. 1 \in P <=> Head(q).type = "data"
  BY <1>1
<1> HIDE DEF P, R
<1>7. Cardinality(P) = Cardinality(P \ {1}) + (IF 1 \in P THEN 1 ELSE 0)
  <2>1. Cardinality(P \ {1}) = IF 1 \in P THEN Cardinality(P) - 1 ELSE Cardinality(P)
    BY <1>2, FS_RemoveElement, Zenon
  <2>2. Cardinality(P) \in Nat
    BY <1>2, FS_CardinalityType, Zenon
  <2> QED
    BY <2>1, <2>2
<1> QED
  BY <1>5, <1>7, <1>6, Zenon DEF DataIn, P, R

-----------------------------------------------------------------------------
(* Whole files. *)

\* Taking or putting anything but a data chunk.
LEMMA NotCounted ==
  ASSUME NEW q \in Seq(Messages)
  PROVE  /\ q # <<>> /\ Head(q).type # "data" => DataIn(Tail(q)) = DataIn(q)
         /\ \A m \in Messages : m.type # "data" => DataIn(Append(q, m)) = DataIn(q)
<1>1. DataIn(q) \in Nat
  BY DataPositions, Zenon
<1>2. ASSUME q # <<>>, Head(q).type # "data"  PROVE DataIn(Tail(q)) = DataIn(q)
  <2>1. DataIn(Tail(q)) \in Nat
    BY <1>2, DataPositions, TakeType, Zenon
  <2>2. DataIn(q) = DataIn(Tail(q)) + (IF Head(q).type = "data" THEN 1 ELSE 0)
    BY <1>2, DataTake, Zenon
  <2> QED
    BY <1>2, <2>1, <2>2
<1>3. ASSUME NEW m \in Messages, m.type # "data"  PROVE DataIn(Append(q, m)) = DataIn(q)
  <2>1. DataIn(Append(q, m)) = DataIn(q) + (IF m.type = "data" THEN 1 ELSE 0)
    BY DataPut, Zenon
  <2> QED
    BY <1>1, <1>3, <2>1
<1> QED
  BY <1>2, <1>3, Zenon

\* A library step that moves no chunk.
LEMMA MovesNothing ==
  ASSUME MovedInv, UNCHANGED <<proc, up, dpc, status, moved, dmoved>>, InHand' = InHand,
         pc' \in {"check", "write"} /\ msg'.type = "request" =>
           pc \in {"check", "write"} /\ msg.type = "request",
         proc \in FileIn /\ Waiting' /\ "ok" \in Types(down') => Waiting /\ "ok" \in Types(down),
         proc \in FileOut /\ pc' = "reply" => pc = "reply",
         proc \in FileOut /\ LibraryTakesAll' =>
           LibraryTakesAll /\ DataIn(down') = DataIn(down),
         /\ pc' = "idle" /\ state' = "READY" /\ ret' = "ok" /\ proc \in FileIn \cup FileOut
           => moved = dmoved
  PROVE  MovedInv'
<1>1. /\ Pending' <=> Pending
      /\ Working' <=> Working
      /\ DaemonTakesAll' <=> DaemonTakesAll
      /\ DataIn(up)' = DataIn(up)
  BY Zenon DEF Pending, Working, DaemonTakesAll, DataIn
<1> QED
  BY <1>1, ZenonT(30) DEF MovedInv

\* Nothing is left of a transfer when the appliance is gone.
LEMMA MovedCleanup ==
  ASSUME child_cleanup, proc' = proc, pc' \in {"idle", "reply", "discard"},
         pc' = "reply" => proc \in FileIn
  PROVE  MovedInv'
<1>1. state' = "CONFIG" /\ dpc' = "off" /\ Types(up') = {} /\ Types(down') = {}
  BY EmptyQueue, Zenon DEF child_cleanup
<1>2. ~Pending' /\ ~Working' /\ ~LibraryTakesAll'
  BY <1>1, Zenon DEF Pending, Working, TakingFile, GivingFile, LibraryTakesAll
<1> QED
  BY <1>1, <1>2, ProcKinds, Zenon DEF MovedInv

\* What is read without being counted.
LEMMA ReadsNoData ==
  ASSUME TypeOK, NEW S, Reads(S), "data" \notin S, down' = Tail(down)
  PROVE  /\ DataIn(down') = DataIn(down) /\ DataIn(down) \in Nat
         /\ Types(down) = {Head(down).type} \cup Types(down')
<1>1. down # <<>> /\ Head(down).type # "data" /\ Tail(down) \in Seq(Messages)
  BY TakeType, Zenon DEF Reads, TypeOK
<1>2. DataIn(Tail(down)) \in Nat /\ DataIn(down) \in Nat
  BY <1>1, DataPositions, Zenon DEF TypeOK
<1> QED
  BY <1>1, <1>2, DataTake, Take DEF TypeOK

LEMMA MovedCheck ==
  ASSUME IInv, IInv', FlagInv, MovedInv, check_daemon_socket
  PROVE  MovedInv'
<1> USE DEF Goto
<1>0. /\ pc = "check" /\ UNCHANGED <<proc, moved>> /\ TypeOK /\ state = "READY"
      /\ ~Waiting /\ ~LibraryTakesAll
  BY Zenon DEF check_daemon_socket, IInv, LifeInv, TypeOK, Waiting, LibraryTakesAll
<1>1. CASE CheckNothing
  BY <1>0, <1>1, MovesNothing, Zenon DEF CheckNothing, InHand, daemonVars, Waiting, LibraryTakesAll
<1>2. CASE CheckProgress
  BY <1>0, <1>2, MovesNothing, Zenon DEF CheckProgress, InHand, daemonVars, Waiting, LibraryTakesAll
<1>3. CASE CheckCancel
  <2>1. /\ "CANCEL" \in Types(down) /\ down # <<>> /\ down' = Tail(down)
        /\ UNCHANGED <<state, up, dpc, status, dmoved, ret>>
        /\ Types(down) = {"CANCEL"} \cup Types(down')
    BY <1>0, <1>3, Take, ZenonT(30) DEF CheckCancel, Reads, TypeOK, daemonVars
  <2>2. msg.type # "request" /\ Sending /\ proc \in FileIn /\ ~Pending
    BY <1>0, <2>1, ZenonT(30) DEF IInv, DownInv, Quiet, Sending, LibraryInv, UpInv
  <2>3. dpc \in {"discard", "dead"}
    BY <2>1, <2>2, Zenon DEF FlagInv
  <2>4. "ok" \notin Types(down')
    BY <1>0, <2>1, <2>2, ZenonT(30) DEF IInv, DownInv
  <2>5. pc' \in {"reply", "discard", "check"} /\ (pc' = "check" => msg'.type # "request")
    BY <1>0, <1>3, <2>2, WordTypes, ZenonT(30) DEF CheckCancel, DaemonCancelled, TypeOK
  <2>6. ~Pending' /\ ~DaemonTakesAll' /\ proc' \in FileIn
    BY <1>0, <2>1, <2>2, <2>3, Zenon DEF Pending, DaemonTakesAll
  <2> QED
    BY <2>4, <2>5, <2>6, ProcKinds, Zenon DEF MovedInv
<1>4. CASE CheckEof
  <2>1. pc' \in {"idle", "reply", "discard"} /\ (pc' = "reply" => proc \in FileIn)
    BY <1>0, <1>4, ZenonT(30) DEF CheckEof, Unwind, Return, IInv, LibraryInv, Sending, TypeOK
  <2> QED
    BY <1>0, <1>4, <2>1, MovedCleanup, ZenonT(30) DEF CheckEof
<1> QED
  BY <1>1, <1>2, <1>3, <1>4, CheckForm, Zenon

LEMMA MovedWrite ==
  ASSUME IInv, IInv', MovedInv, write_data
  PROVE  MovedInv'
<1> USE DEF Goto
<1>0. pc = "write" /\ UNCHANGED <<proc, moved, msg>> /\ TypeOK /\ state = "READY" /\ moved \in Nat
  BY Zenon DEF write_data, IInv, LifeInv, TypeOK
<1>1. CASE Dead /\ child_cleanup /\ Unwind
  <2>1. pc' \in {"idle", "reply", "discard"} /\ (pc' = "reply" => proc \in FileIn)
    BY <1>0, <1>1, ZenonT(30) DEF Unwind, Return, IInv, LibraryInv, Sending, TypeOK
  <2> QED
    BY <1>0, <1>1, <2>1, MovedCleanup, ZenonT(30)
<1>2. CASE /\ CanWrite /\ up' = Append(up, msg) /\ pc' = Written
           /\ UNCHANGED <<state, ret, down, daemonVars>>
  <2>0. UNCHANGED <<dpc, status, dmoved>> /\ Types(up') = Types(up) \cup {msg.type} /\ ~Dead
    BY <1>0, <1>2, Put, Zenon DEF daemonVars, TypeOK, CanWrite
  <2>1. DataIn(up') = DataIn(up) + (IF msg.type = "data" THEN 1 ELSE 0) /\ DataIn(up) \in Nat
    BY <1>0, <1>2, DataPut, DataPositions, ZenonT(30) DEF TypeOK
  <2>2. CASE msg.type = "request"
    <3>1. /\ down = <<>> /\ dpc = "main" /\ ~Pending /\ Types(up) \subseteq {"CANCEL"}
      BY <1>0, <2>0, <2>2, ZenonT(30) DEF IInv, DownInv, DaemonInv, UpInv, Quiet, Dead
    <3>2. DataIn(up') = 0 /\ moved = 0 /\ ~Working' /\ Types(down') = {}
      BY <1>0, <1>2, <2>0, <2>1, <2>2, <3>1, NoData, EmptyQueue
         DEF TypeOK, MovedInv, Working, TakingFile, GivingFile
    <3>3. pc' \in {"open", "reply"} /\ InHand' = 0 /\ dpc' = "main" /\ ~LibraryTakesAll'
      BY <1>2, <2>0, <2>2, <3>1, <3>2, Zenon DEF Written, InHand, LibraryTakesAll
    <3> QED
      BY <1>0, <3>2, <3>3 DEF MovedInv
  <2>3. CASE msg.type # "request"
    <3>1. Sending /\ proc \in FileIn /\ "ok" \notin Types(down)
      BY <1>0, <2>3, ZenonT(30) DEF Sending, IInv, LibraryInv, DownInv
    <3>2. pc' \in {"read", "reply", "discard"} /\ InHand' = 0
      BY <1>0, <1>2, <2>3, Zenon DEF Written, InHand, TypeOK
    <3>3. DataIn(up') + InHand' = DataIn(up) + InHand
      BY <1>0, <2>1, <3>2 DEF InHand
    <3>4. (Pending' <=> Pending) /\ (Working' <=> Working) /\ (DaemonTakesAll' <=> DaemonTakesAll)
      BY <1>2, <2>0, <2>3, Zenon DEF Pending, Working, DaemonTakesAll
    <3>5. InHand \in Nat /\ InHand' \in Nat /\ DataIn(up') \in Nat /\ dmoved \in Nat
      BY <1>0, <2>1 DEF InHand, TypeOK
    <3>6. /\ Pending => moved = DataIn(up') + InHand'
          /\ Working /\ DaemonTakesAll => moved = dmoved + DataIn(up') + InHand'
      BY <2>1, <3>1, <3>3, <3>5 DEF MovedInv
    <3> QED
      BY <1>0, <1>2, <2>0, <3>1, <3>2, <3>4, <3>6, ProcKinds, Zenon DEF MovedInv
  <2> QED
    BY <2>2, <2>3, Zenon
<1> QED
  BY <1>1, <1>2, Zenon DEF write_data

LEMMA MovedSend ==
  ASSUME IInv, MovedInv, send_file_open \/ send_file_read \/ send_file_eof
  PROVE  MovedInv'
<1> USE DEF Goto
<1>0. /\ UNCHANGED <<proc, up, down, dpc, status, dmoved>> /\ InHand = 0
      /\ pc' \in {"check", "read", "eof"}
  BY Zenon DEF send_file_open, send_file_read, send_file_eof, CancelTransfer, daemonVars, InHand
<1>1. /\ proc \in FileIn /\ moved \in Nat /\ dmoved \in Nat /\ DataIn(up) \in Nat
      /\ ~Waiting /\ ~LibraryTakesAll /\ ~Waiting' /\ ~LibraryTakesAll'
  BY <1>0, DataPositions, Zenon DEF send_file_open, send_file_read, send_file_eof, IInv, LibraryInv, Sending, TypeOK,
              Waiting, LibraryTakesAll
<1>2. moved' = moved + InHand' /\ InHand' \in Nat /\ (pc' = "check" => msg'.type # "request")
  BY <1>1, WordTypes DEF send_file_open, send_file_read, send_file_eof, CancelTransfer, InHand
<1>3. /\ (Pending' <=> Pending) /\ (Working' <=> Working) /\ (DaemonTakesAll' <=> DaemonTakesAll)
      /\ DataIn(up)' = DataIn(up)
  BY <1>0, Zenon DEF Pending, Working, DaemonTakesAll, DataIn
<1>4. /\ Pending => moved = DataIn(up)
      /\ Working /\ DaemonTakesAll => moved = dmoved + DataIn(up)
  BY <1>0, <1>1 DEF MovedInv
<1>5. /\ Pending => moved' = DataIn(up) + InHand'
      /\ Working /\ DaemonTakesAll => moved' = dmoved + DataIn(up) + InHand'
  BY <1>1, <1>2, <1>4, Zenon
<1> QED
  BY <1>0, <1>1, <1>2, <1>3, <1>5, ProcKinds, Zenon DEF MovedInv

\* The call is over with an error, or the connection is.
LEMMA MovedError ==
  ASSUME MovedInv, pc \notin {"check", "write"}, pc' = "idle", ret' = "error",
         proc' = proc, moved' = moved,
         UNCHANGED <<up, daemonVars>> \/ child_cleanup
  PROVE  MovedInv'
<1>1. CASE child_cleanup
  BY <1>1, MovedCleanup, Zenon
<1>2. CASE UNCHANGED <<up, daemonVars>>
  <2>1. UNCHANGED <<proc, up, dpc, status, moved, dmoved>> /\ InHand = 0 /\ InHand' = 0
    BY <1>2, Zenon DEF daemonVars, InHand
  <2>2. ~Waiting' /\ ~LibraryTakesAll'
    BY Zenon DEF Waiting, LibraryTakesAll
  <2> QED
    BY <2>1, <2>2, MovesNothing, Zenon
<1> QED
  BY <1>1, <1>2, Zenon

LEMMA MovedReply ==
  ASSUME IInv, MovedInv, guestfs_int_recv \/ guestfs_int_recv_discard
  PROVE  MovedInv'
<1> USE DEF Goto
<1>0. UNCHANGED <<proc, moved, msg>> /\ TypeOK /\ pc \in {"reply", "discard"} /\ Waiting /\ InHand = 0
  BY Zenon DEF guestfs_int_recv, guestfs_int_recv_discard, IInv, Waiting, InHand
<1>1. CASE RecvProgress \/ RecvSkipCancel
  <2>1. /\ down' = Tail(down) /\ UNCHANGED <<pc, state, ret, up, dpc, status, dmoved>>
        /\ Reads({"PROGRESS", "CANCEL"})
    BY <1>1, Zenon DEF RecvProgress, RecvSkipCancel, Reads, daemonVars
  <2>2. DataIn(down') = DataIn(down) /\ ("ok" \in Types(down') => "ok" \in Types(down))
    BY <1>0, <2>1, ReadsNoData, Zenon
  <2>3. InHand' = 0 /\ (LibraryTakesAll' => LibraryTakesAll) /\ Waiting'
    BY <1>0, <2>1, <2>2, Zenon DEF InHand, LibraryTakesAll, Waiting
  <2> QED
    BY <1>0, <2>1, <2>2, <2>3, MovesNothing, Zenon
<1>2. CASE RecvFails
  BY <1>0, <1>2, MovedError, Zenon DEF RecvFails, Return
<1>3. CASE pc = "discard" /\ Return("error") /\ UNCHANGED <<up, daemonVars>>
  BY <1>0, <1>3, MovedError, Zenon DEF Return
<1>4. CASE RecvUnexpected(Chunks \cup {"LAUNCH"})
  BY <1>0, <1>4, MovedError, Zenon DEF RecvUnexpected, Return
<1>5. CASE pc = "reply" /\ RecvReply
  <2>1. /\ Reads(Replies) /\ down' = Tail(down) /\ UNCHANGED <<state, up, daemonVars>>
        /\ UNCHANGED <<dpc, status, dmoved>>
    BY <1>5, Zenon DEF RecvReply, daemonVars
  <2>2. CASE Return("error")
    BY <1>0, <2>1, <2>2, MovedError, Zenon DEF Return
  <2>3. CASE Head(down).type = "ok" /\ proc \in FileOut /\ pc' = "recv_open"
    <3>1. "ok" \in Types(down) /\ DataIn(down') = DataIn(down)
      BY <1>0, <2>1, <2>3, ReadsNoData, Zenon DEF Replies
    <3>2. LibraryTakesAll /\ InHand' = 0 /\ ~Waiting'
      BY <1>5, <2>3, <3>1, Zenon DEF LibraryTakesAll, InHand, Waiting
    <3> QED
      BY <1>0, <2>1, <2>3, <3>1, <3>2, MovesNothing, Zenon
  <2>4. CASE Head(down).type = "ok" /\ proc \notin FileOut /\ Return("ok")
    <3>1. "ok" \in Types(down)
      BY <1>0, <2>1, <2>4, ReadsNoData, Zenon DEF Replies
    <3>2. proc \in FileIn => moved = dmoved
      BY <1>0, <3>1, Zenon DEF MovedInv
    <3>3. InHand' = 0 /\ ~Waiting' /\ pc' = "idle"
      BY <2>4, Zenon DEF InHand, Waiting, Return
    <3> QED
      BY <1>0, <2>1, <2>4, <3>2, <3>3, MovesNothing, Zenon
  <2> QED
    BY <1>5, <2>1, <2>2, <2>3, <2>4, Zenon DEF RecvReply, Reads, Replies
<1> QED
  BY <1>1, <1>2, <1>3, <1>4, <1>5, RecvForm, DiscardForm, Zenon DEF RecvAny

LEMMA MovedReceive ==
  ASSUME IInv, MovedInv, recv_file_open \/ recv_file \/ recv_file_cancel \/ recv_file_drain
  PROVE  MovedInv'
<1> USE DEF Goto
<1>0. /\ proc' = proc /\ TypeOK /\ Receiving /\ proc \in FileOut /\ proc \notin FileIn
      /\ moved \in Nat /\ dmoved \in Nat /\ DataIn(down) \in Nat
      /\ pc \notin {"check", "write"}
  BY ProcKinds, DataPositions, ZenonT(30)
     DEF recv_file_open, recv_file, recv_file_cancel, recv_file_drain, IInv, LibraryInv, Receiving,
         TypeOK
<1>1. CASE /\ pc' \in {"recv_cancel", "drain"}
           /\ UNCHANGED <<dpc, dmoved>>
  BY <1>0, <1>1, Zenon DEF MovedInv, LibraryTakesAll
<1>2. CASE recv_file_open /\ pc' = "recv"
  BY <1>0, <1>2, Zenon DEF recv_file_open, MovedInv, LibraryTakesAll, daemonVars
<1>3. CASE recv_file /\ RecvProgress /\ UNCHANGED moved
  <2>1. DataIn(down') = DataIn(down) /\ UNCHANGED <<pc, dpc, dmoved>>
    BY <1>0, <1>3, ReadsNoData, Zenon DEF RecvProgress, daemonVars
  <2> QED
    BY <1>0, <1>3, <2>1, Zenon DEF MovedInv, LibraryTakesAll, recv_file
<1>4. CASE pc = "recv" /\ RecvData /\ pc' = "recv"
  <2>1. DataIn(down) = DataIn(down') + 1 /\ DataIn(down') \in Nat
    BY <1>0, <1>4, DataTake, DataPositions, TakeType, ZenonT(30) DEF RecvData, Reads, TypeOK
  <2>2. moved' = moved + 1 /\ UNCHANGED <<dpc, dmoved>>
    BY <1>4, Zenon DEF RecvData, daemonVars
  <2>3. dmoved = moved + DataIn(down)
    BY <1>0, <1>4, Zenon DEF MovedInv, LibraryTakesAll
  <2>4. dmoved = moved' + DataIn(down')
    BY <1>0, <2>1, <2>2, <2>3
  <2> QED
    BY <1>0, <1>4, <2>2, <2>4, ZenonT(30) DEF MovedInv, LibraryTakesAll
<1>5. CASE pc = "recv" /\ RecvEnd /\ Reads({"eof"}) /\ Return("ok")
  <2>1. UNCHANGED <<moved, dpc, dmoved>> /\ pc' = "idle" /\ down' = Tail(down)
    BY <1>5, Zenon DEF RecvEnd, Return, daemonVars
  <2>2. state = "READY" /\ Head(down).type \in Final /\ down # <<>>
    BY <1>0, <1>5, ZenonT(30) DEF IInv, LifeInv, TypeOK, Reads, Final, EndOfFile
  <2>3. Tail(down) = <<>>
    BY <1>0, <2>2, Take, ZenonT(30) DEF IInv, DownInv, TypeOK
  <2>4. DataIn(down) = 0
    BY <1>0, <1>5, <2>1, <2>2, <2>3, EmptyQueue, ReadsNoData, NoData, Take, ZenonT(30) DEF TypeOK, Reads
  <2>5. moved = dmoved
    BY <1>0, <1>5, <2>4 DEF MovedInv, LibraryTakesAll
  <2> QED
    BY <1>0, <2>1, <2>5, Zenon DEF MovedInv, LibraryTakesAll
<1>6. CASE UNCHANGED moved /\ Return("error") /\ (UNCHANGED <<up, daemonVars>> \/ child_cleanup)
  BY <1>0, <1>6, MovedError, Zenon DEF Return
<1>7. CASE recv_file
  BY <1>1, <1>3, <1>4, <1>5, <1>6, <1>7, ZenonT(30)
     DEF recv_file, RecvData, RecvEnd, RecvUnexpected, RecvFails, Return, daemonVars
<1>8. CASE recv_file_drain
  BY <1>1, <1>6, <1>8, Zenon DEF recv_file_drain, RecvProgress, RecvUnexpected, RecvFails, Return, daemonVars
<1>9. CASE recv_file_open \/ recv_file_cancel
  BY <1>1, <1>2, <1>9, Zenon DEF recv_file_open, recv_file_cancel, daemonVars
<1> QED
  BY <1>7, <1>8, <1>9, Zenon

LEMMA MovedLibrary ==
  ASSUME IInv, IInv', FlagInv, MovedInv, LibraryStep
  PROVE  MovedInv'
<1>1. CASE launch_recv
  BY <1>1, Zenon DEF launch_recv, Return, IInv, LibraryInv, MovedInv, NoProc, FileIn, FileOut
<1> QED
  BY <1>1, MovedCheck, MovedWrite, MovedSend, MovedReply, MovedReceive, ZenonT(30) DEF LibraryStep

\* What a step of the daemon leaves alone.
LEMMA DaemonMoves ==
  ASSUME MovedInv, UNCHANGED libVars,
         proc \in FileIn =>
           /\ Pending' => moved = DataIn(up') + InHand
           /\ Working' /\ DaemonTakesAll' => moved = dmoved' + DataIn(up') + InHand
           /\ Waiting /\ "ok" \in Types(down') => moved = dmoved',
         proc \in FileOut =>
           /\ dpc' \in {"stub", "reply"} => dmoved' = 0
           /\ LibraryTakesAll' => dmoved' = moved + DataIn(down'),
         dmoved' = dmoved \/ pc # "idle"
  PROVE  MovedInv'
<1>1. UNCHANGED <<pc, msg, proc, moved, state, ret>>
  BY Zenon DEF libVars
<1>2. InHand' = InHand /\ (Waiting' <=> Waiting)
  BY <1>1, Zenon DEF InHand, Waiting
<1> QED
  BY <1>1, <1>2, Zenon DEF MovedInv

\* A step that takes no chunk off the socket and puts none on it.
LEMMA MovedSame ==
  ASSUME MovedInv, UNCHANGED <<libVars, up, dmoved>>,
         proc \in FileIn =>
           /\ Working' /\ DaemonTakesAll' => Working /\ DaemonTakesAll
           /\ "ok" \in Types(down') => "ok" \in Types(down),
         proc \in FileOut =>
           /\ dpc' \in {"stub", "reply"} => dpc \in {"stub", "reply"}
           /\ "ok" \in Types(down') => "ok" \in Types(down)
           /\ DataIn(down') = DataIn(down)
  PROVE  MovedInv'
<1>1. UNCHANGED <<pc, proc>> /\ (Pending' <=> Pending) /\ DataIn(up') = DataIn(up)
  BY Zenon DEF libVars, Pending
<1>2. proc \in FileOut /\ LibraryTakesAll' => LibraryTakesAll
  BY <1>1, Zenon DEF LibraryTakesAll
<1> QED
  BY <1>1, <1>2, DaemonMoves, Zenon DEF MovedInv

LEMMA MovedTaking ==
  ASSUME IInv, MovedInv,
         receive_file \/ received \/ cancel_receive \/ cancel_receive_discard \/ dispatch_filein
  PROVE  MovedInv'
<1> USE DEF DGoto, Reply
<1>0. /\ UNCHANGED libVars /\ TypeOK /\ Working /\ proc_nr = proc /\ proc \in FileIn /\ proc = "upload"
      /\ proc \notin FileOut /\ pc # "idle" /\ ~Pending
  <2>1. UNCHANGED libVars /\ TypeOK /\ Working /\ proc_nr \in FileIn
    BY DaemonKnows, DaemonLeaves, ZenonT(30)
       DEF receive_file, received, cancel_receive, cancel_receive_discard, dispatch_filein, Working,
           TakingFile, IInv, DaemonStep
  <2>2. proc_nr = proc /\ proc \in Disciplined /\ pc # "idle"
    BY <2>1, DaemonKnows, ZenonT(30) DEF IInv, DaemonInv, Sending, Waiting, Receiving
  <2>3. ~Pending
    BY <2>1, Zenon DEF IInv, UpInv, Working, TakingFile, GivingFile
  <2> QED
    BY <2>1, <2>2, <2>3, ProcKinds, Zenon
<1>1. CASE dispatch_filein
  <2>1. UNCHANGED <<up, down, dmoved>> /\ dpc = "stub"
    BY <1>1, Zenon DEF dispatch_filein
  <2>2. DaemonTakesAll
    BY <2>1, Zenon DEF DaemonTakesAll
  <2> QED
    BY <1>0, <2>1, <2>2, MovedSame, Zenon
<1>2. CASE received
  <2>1. UNCHANGED <<up, down, dmoved>> /\ dpc = "received"
    BY <1>2, Zenon DEF received
  <2>2. DaemonTakesAll
    BY <2>1, Zenon DEF DaemonTakesAll
  <2> QED
    BY <1>0, <2>1, <2>2, MovedSame, Zenon
<1>3. CASE cancel_receive
  <2>1. UNCHANGED <<up, dmoved>> /\ ~DaemonTakesAll' /\ down' = Append(down, CANCEL)
    BY <1>3, Zenon DEF cancel_receive, DaemonTakesAll
  <2>2. "ok" \in Types(down') => "ok" \in Types(down)
    BY <1>0, <2>1, Put, WordsAreMessages, WordTypes DEF TypeOK
  <2> QED
    BY <1>0, <2>1, <2>2, MovedSame, Zenon
<1>4. CASE cancel_receive_discard
  <2>1. UNCHANGED <<down, dmoved>> /\ up # <<>> /\ up' = Tail(up) /\ ~DaemonTakesAll'
    BY <1>4, Zenon DEF cancel_receive_discard, DaemonTakesAll
  <2>2. ~Pending'
    BY <1>0, <2>1, Take, Zenon DEF Pending, TypeOK
  <2> QED
    BY <1>0, <2>1, <2>2, DaemonMoves, Zenon DEF MovedInv
<1>5. CASE receive_file
  <2>1. dpc = "recv" /\ up # <<>> /\ up' = Tail(up) /\ UNCHANGED down /\ DaemonTakesAll
    BY <1>5, Zenon DEF receive_file, DaemonTakesAll
  <2>2. /\ ~Pending' /\ Head(up).type \in Chunks
        /\ DataIn(up) = DataIn(up') + (IF Head(up).type = "data" THEN 1 ELSE 0)
        /\ DataIn(up') \in Nat
    BY <1>0, <2>1, Take, TakeType, DataTake, DataPositions, DaemonKnows, ZenonT(30) DEF Pending, TypeOK, TakingFile
  <2>3. moved = dmoved + DataIn(up) + InHand /\ dmoved \in Nat /\ InHand \in Nat
    BY <1>0, <2>1, ZenonT(30) DEF MovedInv, TypeOK, InHand
  <2>4. "ok" \notin Types(down)
    BY <1>0, <2>1, ZenonT(30) DEF IInv, DownInv, Final, Replies, LifeInv, TypeOK
  <2>5. CASE Head(up).type = "data"
    <3>1. DaemonTakesAll' => dmoved' = dmoved + 1
      BY <2>1, <2>5, <1>5, Zenon DEF receive_file, DaemonTakesAll
    <3>2. DaemonTakesAll' => moved = dmoved' + DataIn(up') + InHand
      BY <2>2, <2>3, <2>5, <3>1
    <3> QED
      BY <1>0, <2>1, <2>2, <2>4, <3>2, DaemonMoves, ZenonT(30)
  <2>6. CASE Head(up).type # "data"
    <3>1. dmoved' = dmoved
      BY <2>1, <2>2, <2>6, <1>5, Zenon DEF receive_file, Chunks
    <3> QED
      BY <1>0, <2>1, <2>2, <2>3, <2>4, <2>6, <3>1, DaemonMoves
  <2> QED
    BY <2>5, <2>6, Zenon
<1> QED
  BY <1>1, <1>2, <1>3, <1>4, <1>5, Zenon

LEMMA MovedGiving ==
  ASSUME IInv, MovedInv,
         dispatch_fileout \/ send_file_write \/ send_file_write_too_long \/ send_file_end \/ send_chunk
  PROVE  MovedInv'
<1> USE DEF DGoto, Reply, SendChunk
<1>0. /\ UNCHANGED libVars /\ TypeOK /\ Working /\ proc_nr = proc /\ proc \in FileOut
      /\ proc \notin FileIn /\ pc # "idle" /\ moved \in Nat /\ dmoved \in Nat
  <2>1. UNCHANGED libVars /\ TypeOK /\ Working /\ proc_nr \in FileOut
    BY DaemonKnows, DaemonLeaves, ZenonT(30)
       DEF dispatch_fileout, send_file_write, send_file_write_too_long, send_file_end, send_chunk,
           Working, TakingFile, GivingFile, IInv, DaemonStep
  <2>2. proc_nr = proc /\ pc # "idle"
    BY <2>1, DaemonKnows, ZenonT(30) DEF IInv, DaemonInv, Sending, Waiting, Receiving
  <2> QED
    BY <2>1, <2>2, ProcKinds, ZenonT(30) DEF TypeOK
<1>1. CASE dispatch_fileout
  BY <1>0, <1>1, MovedSame, Zenon DEF dispatch_fileout
<1>2. CASE send_file_write \/ send_file_write_too_long \/ send_file_end
  <2>1. UNCHANGED <<down, dmoved, pc>> /\ dpc' \notin {"stub", "reply"}
    BY <1>0, <1>2, Zenon DEF send_file_write, send_file_write_too_long, send_file_end, libVars
  <2>2. LibraryTakesAll' <=> LibraryTakesAll
    BY <2>1, Zenon DEF LibraryTakesAll
  <2> QED
    BY <1>0, <2>1, <2>2, DaemonMoves, ZenonT(30) DEF MovedInv
<1>3. CASE send_chunk
  <2>1. /\ down' = Append(down, chunk) /\ dpc' \notin {"stub", "reply"} /\ UNCHANGED pc
        /\ dmoved' = dmoved + (IF chunk.type = "data" THEN 1 ELSE 0)
    BY <1>0, <1>3 DEF send_chunk, libVars
  <2>2. chunk \in {DataChunk, EofChunk, CancelChunk}
    BY <1>3, ZenonT(30) DEF send_chunk, IInv, DaemonInv
  <2>3. chunk \in Messages /\ chunk.type # "ok"
    BY <2>2, WordsAreMessages, WordTypes, Zenon
  <2>4. /\ "ok" \in Types(down') => "ok" \in Types(down)
        /\ DataIn(down') = DataIn(down) + (IF chunk.type = "data" THEN 1 ELSE 0)
        /\ DataIn(down) \in Nat
    <3>1. down \in Seq(Messages)
      BY <1>0, Zenon DEF TypeOK
    <3>2. Types(down') = Types(down) \cup {chunk.type}
      BY <2>1, <2>3, <3>1, Put, Zenon
    <3>3. DataIn(down') = DataIn(down) + (IF chunk.type = "data" THEN 1 ELSE 0)
      BY <2>1, <2>3, <3>1, DataPut, Zenon
    <3> QED
      BY <2>3, <3>1, <3>2, <3>3, DataPositions, ZenonT(30)
  <2>5. LibraryTakesAll' => LibraryTakesAll
    BY <2>1, <2>4, Zenon DEF LibraryTakesAll
  <2>6. LibraryTakesAll => dmoved = moved + DataIn(down)
    BY <1>0, Zenon DEF MovedInv
  <2>7. LibraryTakesAll' => dmoved' = moved + DataIn(down')
    BY <1>0, <2>1, <2>4, <2>5, <2>6
  <2> QED
    BY <1>0, <2>1, <2>7, DaemonMoves, Zenon
<1> QED
  BY <1>1, <1>2, <1>3, Zenon

LEMMA MovedMain ==
  ASSUME IInv, MovedInv, main_loop
  PROVE  MovedInv'
<1>0. /\ dpc = "main" /\ up # <<>> /\ up' = Tail(up) /\ UNCHANGED <<libVars, down>> /\ TypeOK
      /\ ~Working
  BY MainLoopReads, Zenon DEF IInv, Working, TakingFile, GivingFile
<1>1. Types(up) = {Head(up).type} \cup Types(up')
  BY MainLoopReads, Zenon
<1>2. CASE Head(up).type = "CANCEL" /\ UNCHANGED daemonVars
  <2>1. DataIn(up') = DataIn(up) /\ UNCHANGED <<dpc, dmoved, pc>>
    <3>1. DataIn(up') = DataIn(up)
      BY <1>0, <1>2, NotCounted, ZenonT(30) DEF TypeOK
    <3> QED
      BY <1>0, <1>2, <3>1, Zenon DEF daemonVars, libVars
  <2>2. (Pending' => Pending) /\ ~Working' /\ (LibraryTakesAll' <=> LibraryTakesAll)
    BY <1>0, <1>1, <2>1, Zenon DEF Pending, Working, LibraryTakesAll
  <2> QED
    BY <1>0, <2>1, <2>2, DaemonMoves, ZenonT(30) DEF MovedInv
<1>3. CASE /\ Head(up).type = "request" /\ Pending /\ dpc' = "stub" /\ dmoved' = 0
           /\ Types(up') \subseteq Chunks
  <2>1. DataIn(up') = DataIn(up) /\ DataIn(up) \in Nat
    BY <1>0, <1>3, NotCounted, DataPositions, ZenonT(30) DEF TypeOK
  <2>2. /\ ~Pending' /\ Types(down) = {} /\ pc # "idle"
        /\ proc \in FileOut => pc = "reply"
    BY <1>3, EmptyQueue, ProcKinds, ZenonT(30)
       DEF IInv, UpInv, Pending, Chunks, Sending, Waiting
  <2>3. UNCHANGED <<pc, down>>
    BY <1>0, Zenon DEF libVars
  <2>4. proc \in FileOut => ~LibraryTakesAll'
    BY <2>2, <2>3, Zenon DEF LibraryTakesAll
  <2>5. proc \in FileIn => moved = DataIn(up) + InHand
    BY <1>3, Zenon DEF MovedInv
  <2>6. InHand \in Nat
    BY Zenon DEF InHand
  <2> QED
    BY <1>0, <1>3, <2>1, <2>2, <2>3, <2>4, <2>5, <2>6, DaemonMoves
<1> QED
  BY <1>2, <1>3, MainLoopReads, Zenon

LEMMA MovedProgress ==
  ASSUME IInv, MovedInv, notify_progress \/ notify_progress_no_ratelimit
  PROVE  MovedInv'
<1> USE DEF DGoto
<1>0. /\ UNCHANGED <<libVars, up, dmoved>> /\ TypeOK /\ Working
      /\ dpc \in {"written", "sent", "stub", "notify"}
      /\ dpc = "stub" => proc_nr = "checksum"
      /\ dpc' \in {"notify", AfterProgress}
  BY Zenon DEF notify_progress, notify_progress_no_ratelimit, IInv, Working, TakingFile, GivingFile
<1>1. proc_nr = proc /\ (proc \in FileOut => dpc' \notin {"stub", "reply"})
  BY <1>0, DaemonKnows, ProcKinds, Zenon DEF AfterProgress
<1>2. proc \in FileIn => DaemonTakesAll
  BY <1>0, DaemonKnows, ProcKinds, Zenon DEF DaemonTakesAll
<1>3. down' = down \/ down' = Append(down, PROGRESS)
  BY Zenon DEF notify_progress, notify_progress_no_ratelimit
<1>4. ("ok" \in Types(down') => "ok" \in Types(down)) /\ DataIn(down') = DataIn(down)
  <2>1. PROGRESS \in Messages /\ PROGRESS.type = "PROGRESS" /\ down \in Seq(Messages)
    BY <1>0, WordsAreMessages, WordTypes, Zenon DEF TypeOK
  <2>2. Types(Append(down, PROGRESS)) = Types(down) \cup {"PROGRESS"}
    BY <2>1, Put
  <2>3. DataIn(Append(down, PROGRESS)) = DataIn(down)
    BY <2>1, NotCounted, Zenon
  <2>4. CASE down' = down
    BY <2>4, Zenon
  <2>5. CASE down' = Append(down, PROGRESS)
    BY <2>2, <2>3, <2>5, Zenon
  <2> QED
    BY <1>3, <2>4, <2>5, Zenon
<1> QED
  BY <1>0, <1>1, <1>2, <1>4, MovedSame, Zenon

LEMMA MovedAnswer ==
  ASSUME IInv, MovedInv, reply
  PROVE  MovedInv'
<1> DEFINE m == Message(status, proc_nr, dserial)
<1> USE DEF DGoto
<1>0. /\ UNCHANGED <<libVars, up, dmoved>> /\ TypeOK /\ dpc = "reply" /\ Working
      /\ down' = Append(down, m)
      /\ dpc' \in {"send", "main"}
  BY Zenon DEF reply, IInv, Working
<1>1. m \in Messages /\ m.type = status /\ status \in Replies /\ down \in Seq(Messages)
  BY <1>0, Zenon DEF TypeOK, Message, Messages, MessageTypes, Replies
<1>2. Types(down') = Types(down) \cup {status} /\ DataIn(down') = DataIn(down)
  <2>1. Types(down') = Types(down) \cup {status}
    BY <1>0, <1>1, Put
  <2>2. DataIn(down') = DataIn(down)
    <3>1. m.type # "data"
      BY <1>1, Zenon DEF Replies
    <3> QED
      BY <1>0, <1>1, <3>1, NotCounted, Zenon
  <2> QED
    BY <2>1, <2>2, Zenon
<1>3. Pending' <=> Pending
  BY <1>0, Zenon DEF Pending
<1>4. CASE proc \in FileIn
  <2>1. up = <<>> /\ Waiting /\ proc \notin FileOut /\ ~Pending
    BY <1>0, <1>4, ProcKinds, EmptyQueue, ZenonT(30) DEF IInv, DaemonInv, TakingFile, Pending
  <2>2. DataIn(up) = 0 /\ InHand = 0
    BY <1>0, <2>1, NoData, EmptyQueue, ZenonT(30) DEF InHand, Waiting, TypeOK
  <2>3. "ok" \in Types(down') => moved = dmoved
    <3>1. CASE "ok" \in Types(down)
      BY <1>4, <2>1, <3>1, ZenonT(30) DEF MovedInv
    <3>2. CASE status = "ok"
      BY <1>0, <1>4, <2>2, <3>2 DEF MovedInv, DaemonTakesAll, TypeOK
    <3> QED
      BY <1>2, <3>1, <3>2, Zenon
  <2>4. proc_nr = proc
    BY <1>0, DaemonKnows, Zenon
  <2>5. dpc' = "main"
    BY <2>1, <2>4, Zenon DEF reply
  <2>6. ~Working'
    BY <2>5, Zenon DEF Working, TakingFile, GivingFile
  <2> QED
    BY <1>0, <1>3, <2>1, <2>3, <2>6, DaemonMoves, Zenon
<1>5. CASE proc \in FileOut
  <2>1. down = <<>> /\ pc = "reply" /\ proc \notin FileIn
    BY <1>0, <1>5, ProcKinds, ZenonT(30) DEF IInv, DaemonInv, GivingFile
  <2>2. dmoved = 0 /\ moved = 0 /\ DataIn(down') = 0
    BY <1>0, <1>1, <1>2, <1>5, <2>1, NoData, EmptyQueue, ZenonT(30) DEF MovedInv
  <2> QED
    BY <1>0, <2>1, <2>2, DaemonMoves
<1>6. CASE proc \notin FileIn \cup FileOut
  BY <1>0, <1>6, MovedSame, Zenon
<1> QED
  BY <1>4, <1>5, <1>6, Zenon

LEMMA MovedStep ==
  ASSUME IInv, IInv', FlagInv, MovedInv, [Next]_vars
  PROVE  MovedInv'
<1>1. CASE LibraryStep
  BY <1>1, MovedLibrary, Zenon
<1>2. CASE guestfs_user_cancel
  BY <1>2, Zenon DEF guestfs_user_cancel, daemonVars, MovedInv, DataIn, InHand, Pending, Working,
              DaemonTakesAll, LibraryTakesAll, Waiting
<1>3. CASE launch
  BY <1>3, Zenon DEF launch, Goto, MovedInv, NoProc, FileIn, FileOut
<1>4. ASSUME NEW p \in Procs, guestfs_int_send(p)  PROVE MovedInv'
  <2>1. /\ moved' = 0 /\ pc' = "check" /\ state = "READY" /\ Quiet /\ msg'.type = "request"
        /\ UNCHANGED <<up, down, dpc, status, dmoved>>
    BY <1>4, Zenon DEF guestfs_int_send, Goto, daemonVars, Quiet, Message
  <2>2. ~Pending /\ dpc \in {"main", "dead"}
    BY <2>1, Zenon DEF IInv, DaemonInv
  <2>3. ~Pending' /\ ~Working' /\ ~Waiting' /\ ~LibraryTakesAll'
    BY <2>1, <2>2, Zenon DEF Pending, Working, TakingFile, GivingFile, Waiting, LibraryTakesAll
  <2> QED
    BY <2>1, <2>2, <2>3, ZenonT(30) DEF MovedInv
<1>5. CASE daemon_start
  <2>1. dpc = "boot" /\ UNCHANGED libVars
    BY <1>5, Zenon DEF daemon_start
  <2>2. proc = NoProc
    BY <2>1, ZenonT(30) DEF IInv, LifeInv, LibraryInv, TypeOK
  <2>3. proc' = NoProc /\ UNCHANGED <<pc, msg, moved>>
    BY <2>1, <2>2, Zenon DEF libVars
  <2> QED
    BY <2>3, Zenon DEF MovedInv, NoProc, FileIn, FileOut
<1>6. CASE dispatch_plain
  <2>1. UNCHANGED <<libVars, up, down, dmoved>> /\ dpc = "stub" /\ proc_nr = "checksum" /\ Working
    BY <1>6, Zenon DEF dispatch_plain, Working, TakingFile
  <2>2. proc \notin FileIn /\ proc \notin FileOut
    BY <2>1, DaemonKnows, ProcKinds, Zenon DEF FileIn, FileOut
  <2> QED
    BY <2>1, <2>2, MovedSame, Zenon
<1>7. CASE appliance_dies
  <2>1. dpc' = "dead" /\ Types(up') = {} /\ UNCHANGED <<libVars, down, dmoved, pc>>
    BY <1>7, EmptyQueue, Zenon DEF appliance_dies, DGoto, libVars
  <2>2. ~Pending' /\ ~Working' /\ (LibraryTakesAll' <=> LibraryTakesAll)
    BY <2>1, Zenon DEF Pending, Working, TakingFile, GivingFile, LibraryTakesAll
  <2> QED
    BY <2>1, <2>2, DaemonMoves, ZenonT(30) DEF MovedInv
<1>8. CASE UNCHANGED vars
  BY <1>8, ZenonT(30) DEF vars, libVars, daemonVars, job, MovedInv, DataIn, InHand, Pending, Working,
              DaemonTakesAll, LibraryTakesAll, Waiting
<1> QED
  BY <1>1, <1>2, <1>3, <1>4, <1>5, <1>6, <1>7, <1>8, MovedMain, MovedProgress, MovedAnswer,
     MovedTaking, MovedGiving, NothingTorn, ZenonT(30)
     DEF Next, CallerStep, DaemonStep

LEMMA InitMoved == Init => MovedInv
  BY EmptyQueue, Zenon
     DEF Init, MovedInv, Pending, Working, TakingFile, GivingFile, Waiting, LibraryTakesAll, NoProc,
         FileIn, FileOut

\* When every handler keeps to the protocol, besides what IInv says each chunk
\* is counted, someone has the turn, and a failure has its error.
THEOREM FullInvariance ==
  ASSUME Procs \subseteq Disciplined
  PROVE  Spec => []FInv
<1>1. Init => FInv
  BY InitInv, InitFlow, InitMoved, InitError, Zenon DEF FInv
<1>2. FInv /\ [Next]_vars => FInv'
  <2> SUFFICES ASSUME FInv, [Next]_vars  PROVE FInv'
    OBVIOUS
  <2>1. IInv /\ IInv' /\ TypeOK /\ FlowInv /\ FlagInv /\ MovedInv /\ ErrorInv
    BY NextInv, Zenon DEF FInv, IInv, FlowInv
  <2>2. FlowInv'
    BY <2>1, FlowStep, Zenon
  <2>3. MovedInv'
    BY <2>1, MovedStep, Zenon
  <2>4. ErrorInv'
    BY <2>1, ErrorStep, Zenon
  <2> QED
    BY <2>1, <2>2, <2>3, <2>4, Zenon DEF FInv
<1> QED
  BY <1>1, <1>2, PTL DEF Spec

\* When every handler keeps to the protocol, an upload or a download that
\* returns success moved the whole file: every chunk that one side sent was
\* written by the other, whatever failed and whoever cancelled meanwhile.
THEOREM WholeFilesMoved ==
  ASSUME Procs \subseteq Disciplined
  PROVE  Spec => []WholeFileMoved
<1>1. FInv => WholeFileMoved
  BY Zenon DEF FInv, MovedInv, WholeFileMoved
<1> QED
  BY <1>1, FullInvariance, PTL
=============================================================================
