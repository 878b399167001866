---------------------------- MODULE ProtocolCall ----------------------------
(***************************************************************************)
(* Theorems about Protocol for every value of the constants and all        *)
(* handlers, those included that lose synchronization: type correctness,   *)
(* that a failed call has an error, that CallInv is inductive and that     *)
(* Protocol implements RPC.                                                *)
(***************************************************************************)
EXTENDS ProtocolRPC, TLAPS

\* The words and chunks that either side writes are messages.
LEMMA WordsAreMessages ==
  /\ \A t \in MessageTypes, p \in AllProcs \cup {NoProc}, s \in Nat :
       Message(t, p, s) \in Messages
  /\ CANCEL \in Messages /\ LAUNCH \in Messages /\ PROGRESS \in Messages
  /\ DataChunk \in Messages /\ EofChunk \in Messages /\ CancelChunk \in Messages
  /\ Word("request") \in Messages /\ TORN \in Messages
BY Zenon DEF Message, Word, Messages, MessageTypes, Chunks, Replies, CANCEL, LAUNCH,
       PROGRESS, DataChunk, EofChunk, CancelChunk, TORN

LEMMA WordTypes ==
  /\ CANCEL.type = "CANCEL" /\ LAUNCH.type = "LAUNCH" /\ PROGRESS.type = "PROGRESS"
  /\ DataChunk.type = "data" /\ EofChunk.type = "eof" /\ CancelChunk.type = "cancel"
  /\ TORN.type = "torn" /\ TORN.serial = 0
  /\ \A t, p, s : /\ Message(t, p, s).type = t
                  /\ Message(t, p, s).proc = p
                  /\ Message(t, p, s).serial = s
BY Zenon DEF CANCEL, LAUNCH, PROGRESS, DataChunk, EofChunk, CancelChunk, TORN, Word, Message

LEMMA ProcKinds ==
  /\ Disciplined \cap FileIn = {"upload"}
  /\ Disciplined \cap FileOut = {"download"}
  /\ FileIn \cap FileOut = {}
  /\ NoProc \notin FileIn \cup FileOut \cup Disciplined
BY Zenon DEF Disciplined, FileIn, FileOut, NoProc

LEMMA NoMessages ==
  ASSUME NEW q \in Seq(Messages), Len(q) = 0
  PROVE  q = <<>>
OBVIOUS

\* Taking the first message of a queue, as every read does.
LEMMA TakeType ==
  ASSUME NEW q \in Seq(Messages), q # <<>>
  PROVE  Head(q) \in Messages /\ Tail(q) \in Seq(Messages)
OBVIOUS

\* Reading at a torn message or reading one word of a message: what is left are
\* the last messages of the queue, the first of them torn perhaps.
Shifted(q, r) ==
  \E d \in 0 .. Len(q) :
    /\ Len(r) = Len(q) - d
    /\ \A i \in 1 .. Len(r) :
         \/ i = 1 /\ r[i] = TORN
         \/ i + d \in 1 .. Len(q) /\ r[i] = q[i + d]

LEMMA SuffixShifts ==
  ASSUME NEW q \in Seq(Messages), q # <<>>, NEW k \in 2 .. Len(q) + 1,
         NEW s, s = SubSeq(q, k, Len(q))
  PROVE  /\ s \in Seq(Messages) /\ Shifted(q, s)
         /\ <<TORN>> \o s \in Seq(Messages) /\ Shifted(q, <<TORN>> \o s)
<1>1. /\ Len(q) \in Nat /\ s \in Seq(Messages) /\ Len(s) = Len(q) - (k - 1)
      /\ \A i \in 1 .. Len(s) : s[i] = q[i + (k - 1)]
  OBVIOUS
<1>2. k - 1 \in 0 .. Len(q) /\ \A i \in 1 .. Len(s) : i + (k - 1) \in 1 .. Len(q)
  BY <1>1
<1> DEFINE t == <<TORN>> \o s
<1>3. /\ t \in Seq(Messages) /\ Len(t) = Len(s) + 1
      /\ \A i \in 1 .. Len(t) : \/ i = 1 /\ t[i] = TORN
                                \/ i - 1 \in 1 .. Len(s) /\ t[i] = s[i - 1]
  BY <1>1, WordsAreMessages
<1> HIDE DEF t
<1>4. k - 2 \in 0 .. Len(q) /\ Len(t) = Len(q) - (k - 2)
  BY <1>1, <1>3
<1>5. \A i \in 1 .. Len(t) : \/ i = 1 /\ t[i] = TORN
                             \/ i + (k - 2) \in 1 .. Len(q) /\ t[i] = q[i + (k - 2)]
  <2> TAKE i \in 1 .. Len(t)
  <2>1. CASE i - 1 \in 1 .. Len(s) /\ t[i] = s[i - 1]
    <3>1. (i - 1) + (k - 1) = i + (k - 2)
      BY <1>3
    <3> QED  BY <1>1, <1>2, <2>1, <3>1, Zenon
  <2> QED  BY <1>3, <2>1, Zenon
<1>6. Shifted(q, s)
  BY <1>1, <1>2, Zenon DEF Shifted
<1>7. Shifted(q, t)
  BY <1>4, <1>5, Zenon DEF Shifted
<1> QED  BY <1>1, <1>3, <1>6, <1>7, Zenon DEF t

LEMMA ReadShifts ==
  ASSUME NEW q \in Seq(Messages), q # <<>>,
         NEW r \in Leftover(q) \cup Rest(q) \cup RestOfWord(q)
  PROVE  r \in Seq(Messages) /\ Shifted(q, r)
<1>1. 2 \in 2 .. Len(q) + 1 /\ Tail(q) = SubSeq(q, 2, Len(q))
  OBVIOUS
<1>2. CASE r \in Leftover(q)
  BY <1>2, SuffixShifts, Zenon DEF Leftover
<1>3. CASE r \in {Tail(q), <<TORN>> \o Tail(q)}
  BY <1>1, <1>3, SuffixShifts, Zenon
<1> QED  BY <1>2, <1>3, Zenon DEF Rest, RestOfWord

\* Adding a message to a queue, as every write does.
LEMMA PutType ==
  ASSUME NEW q \in Seq(Messages), NEW m \in Messages
  PROVE  Append(q, m) \in Seq(Messages)
OBVIOUS

-----------------------------------------------------------------------------
(* Type correctness. *)

LEMMA ChildCleanupType ==
  ASSUME TypeOK, child_cleanup
  PROVE  /\ state' \in {"CONFIG", "LAUNCHING", "READY"}
         /\ up' \in Seq(Messages) /\ down' \in Seq(Messages)
         /\ dpc' \in DaemonAt
         /\ UNCHANGED <<proc_nr, dserial, outcome, count_progress, status, chunk, dmoved>>
BY DEF TypeOK, child_cleanup, DaemonAt, job

LEMMA LibraryStepType ==
  ASSUME TypeOK, LibraryStep
  PROVE  TypeOK'
<1>0. \A r \in Leftover(down) \cup Rest(down) \cup RestOfWord(down) :
        TypeOK /\ down # <<>> => r \in Seq(Messages)
  BY ReadShifts, Zenon DEF TypeOK
<1> USE WordsAreMessages, TakeType, PutType
    DEF LibraryAt, Goto, Error, Return, Reads
<1>1. CASE launch_recv
  BY ZenonT(30), <1>1, ChildCleanupType DEF TypeOK, launch_recv, daemonVars, job, ReadsEof
<1>2. CASE check_daemon_socket
  <2>1. CASE CheckNothing
    BY <1>2, <2>1, Zenon DEF TypeOK, check_daemon_socket, CheckNothing, daemonVars, job
  <2>2. CASE CheckProgress
    BY <1>2, <2>2, Zenon DEF TypeOK, check_daemon_socket, CheckProgress, daemonVars, job
  <2>3. CASE CheckCancel
    BY <1>2, <2>3, ZenonT(30) DEF TypeOK, check_daemon_socket, CheckCancel, DaemonCancelled,
                                  daemonVars, job
  <2>4. CASE CheckLost \/ CheckTorn
    <3>1. /\ down # <<>> /\ down' \in Leftover(down) \cup Rest(down) \cup RestOfWord(down)
          /\ UNCHANGED <<state, up, daemonVars>>
          /\ UNCHANGED <<pc, msg, after, ret>> \/ (DaemonCancelled /\ UNCHANGED ret)
               \/ (Unwind /\ UNCHANGED <<msg, after>>)
          /\ errnum' \in {errnum, "error"}
      BY <2>4, Zenon DEF CheckLost, CheckTorn
    <3>2. down' \in Seq(Messages)
      BY <1>0, <3>1, Zenon
    <3> QED  BY <1>2, <3>1, <3>2, ZenonT(30) DEF TypeOK, check_daemon_socket, DaemonCancelled,
                                                  Unwind, daemonVars, job
  <2>5. CASE CheckEof
    BY <1>2, <2>5, ChildCleanupType, Zenon
       DEF TypeOK, check_daemon_socket, CheckEof, Unwind
  <2> QED  BY <1>2, <2>1, <2>2, <2>3, <2>4, <2>5, Zenon DEF check_daemon_socket
<1>3. CASE write_data
  BY ZenonT(30), <1>3, ChildCleanupType DEF TypeOK, write_data, daemonVars, job, Unwind, Written
<1>4. CASE send_file_open
  BY ZenonT(30), <1>4 DEF TypeOK, send_file_open, CancelTransfer, daemonVars, job
<1>5. CASE send_file_read
  BY <1>5 DEF TypeOK, send_file_read, CancelTransfer, daemonVars, job
<1>6. CASE send_file_eof
  BY <1>6, Zenon DEF TypeOK, send_file_eof, CancelTransfer, daemonVars, job
<1>7. CASE guestfs_int_recv
  <2>1. CASE RecvProgress \/ RecvSkipCancel
    BY ZenonT(30), <1>7, <2>1 DEF TypeOK, guestfs_int_recv, RecvProgress, RecvSkipCancel,
       daemonVars, job
  <2>2. CASE RecvReply
    BY <1>7, <2>2, Zenon DEF TypeOK, guestfs_int_recv, RecvReply, daemonVars, job
  <2>3. CASE RecvUnexpected(Chunks \cup {"LAUNCH"})
    BY <1>7, <2>3, Zenon DEF TypeOK, guestfs_int_recv, RecvUnexpected, daemonVars, job
  <2>4. CASE RecvFails
    BY <1>7, <2>4, ChildCleanupType, Zenon DEF TypeOK, guestfs_int_recv, RecvFails, daemonVars, job
  <2>5. CASE RecvTorn
    BY <1>0, <1>7, <2>5, Zenon DEF TypeOK, guestfs_int_recv, RecvTorn, daemonVars, job
  <2> QED  BY <1>7, <2>1, <2>2, <2>3, <2>4, <2>5, Zenon DEF guestfs_int_recv
<1>8. CASE guestfs_int_recv_discard
  BY ZenonT(30), <1>0, <1>8, ChildCleanupType
     DEF TypeOK, guestfs_int_recv_discard, RecvProgress, RecvSkipCancel, RecvTorn, RecvFails,
         daemonVars, job
<1>9. CASE recv_file_open
  BY ZenonT(30), <1>9 DEF TypeOK, recv_file_open, daemonVars, job
<1>10. CASE recv_file
  <2>1. CASE RecvProgress /\ UNCHANGED moved
    BY <1>10, <2>1, Zenon DEF TypeOK, recv_file, RecvProgress, daemonVars, job
  <2>2. CASE RecvUnexpected(Replies \cup {"LAUNCH", "CANCEL"}) /\ UNCHANGED moved
    BY <1>10, <2>2, Zenon DEF TypeOK, recv_file, RecvUnexpected, daemonVars, job
  <2>3. CASE RecvFails /\ UNCHANGED moved
    BY <1>10, <2>3, ChildCleanupType, Zenon DEF TypeOK, recv_file, RecvFails, daemonVars, job
  <2>4. CASE RecvData
    BY <1>10, <2>4 DEF TypeOK, recv_file, RecvData, daemonVars, job
  <2>5. CASE RecvEnd
    BY <1>10, <2>5, Zenon DEF TypeOK, recv_file, RecvEnd, CancelledError, daemonVars, job
  <2> QED  BY <1>10, <2>1, <2>2, <2>3, <2>4, <2>5, Zenon DEF recv_file
<1>11. CASE recv_file_cancel
  BY <1>11, ZenonT(30) DEF TypeOK, recv_file_cancel, daemonVars, job
<1>12. CASE recv_file_drain
  BY ZenonT(30), <1>12, ChildCleanupType
     DEF TypeOK, recv_file_drain, RecvProgress, RecvUnexpected, RecvFails,
         CancelledError, daemonVars, job
<1> QED
  BY <1>1, <1>2, <1>3, <1>4, <1>5, <1>6, <1>7, <1>8, <1>9, <1>10, <1>11, <1>12, Zenon
     DEF LibraryStep

LEMMA CallerStepType ==
  ASSUME TypeOK, CallerStep
  PROVE  TypeOK'
<1> USE DEF Goto, Error
<1>1. CASE launch
  BY <1>1 DEF TypeOK, launch, LibraryAt, DaemonAt
<1>2. ASSUME NEW p \in Procs, guestfs_int_send(p)
      PROVE  TypeOK'
  <2>1. p \in AllProcs /\ "request" \in MessageTypes /\ serial \in Nat
    BY ConstantsAssumption, Zenon DEF MessageTypes, TypeOK
  <2>2. Message("request", p, serial) \in Messages
    BY <2>1, WordsAreMessages, Zenon
  <2> QED
    BY <1>2, <2>1, <2>2 DEF TypeOK, guestfs_int_send, LibraryAt, daemonVars, job
<1>3. CASE guestfs_user_cancel
  BY <1>3, Zenon DEF TypeOK, guestfs_user_cancel, daemonVars, job
<1> QED  BY <1>1, <1>2, <1>3, Zenon DEF CallerStep

LEMMA DaemonStepType ==
  ASSUME TypeOK, DaemonStep \/ appliance_dies
  PROVE  TypeOK'
<1>0. \A r \in Leftover(up) \cup Rest(up) \cup RestOfWord(up) :
        TypeOK /\ up # <<>> => r \in Seq(Messages)
  BY ReadShifts, Zenon DEF TypeOK
<1> USE WordsAreMessages, TakeType, PutType
    DEF TypeOK, DaemonAt, DGoto, libVars, job, Finished
<1>1. CASE daemon_start
  BY <1>1, Zenon DEF daemon_start
<1>2. CASE main_loop
  <2> DEFINE m == Head(up)
  <2>1. /\ up' \in Seq(Messages)
        /\ m.proc \in AllProcs \cup {NoProc} /\ m.serial \in Nat
    BY ZenonT(30), <1>2 DEF main_loop, Messages
  <2>2. /\ dpc' \in DaemonAt /\ status' \in Replies
        /\ proc_nr' \in AllProcs \cup {NoProc} /\ dserial' \in Nat
        /\ count_progress' \in Nat /\ dmoved' \in Nat /\ UNCHANGED <<chunk, outcome>>
    <3> HIDE DEF m
    <3> QED  BY <1>2, <2>1, SMTT(30) DEF main_loop, Reply, Replies, daemonVars, job, m
  <2> QED  BY <1>2, <2>1, <2>2, Zenon DEF main_loop
<1>3. CASE notify_progress \/ notify_progress_no_ratelimit
  <2>1. AfterProgress \in DaemonAt  BY Zenon DEF AfterProgress
  <2>2. CASE notify_progress
    BY <2>1, <2>2 DEF notify_progress
  <2>3. CASE notify_progress_no_ratelimit
    <3>1. down' \in Seq(Messages) /\ count_progress' \in Nat
      BY <2>3 DEF notify_progress_no_ratelimit
    <3> QED  BY <2>1, <2>3, <3>1 DEF notify_progress_no_ratelimit
  <2> QED  BY <1>3, <2>2, <2>3, Zenon
<1>4. CASE dispatch_plain \/ dispatch_filein \/ dispatch_fileout
  <2>1. CASE dispatch_plain
    BY SMTT(30), <2>1 DEF dispatch_plain, Reply, Replies
  <2>2. CASE dispatch_filein
    BY SMTT(30), <2>2 DEF dispatch_filein, Reply, Replies
  <2>3. CASE dispatch_fileout
    BY SMTT(30), <2>3 DEF dispatch_fileout, Reply, Replies
  <2> QED  BY ONLY <1>4, <2>1, <2>2, <2>3, Zenon
<1>5. CASE receive_file
  BY <1>5 DEF receive_file, Reply, Replies
<1>6. CASE received
  BY <1>6 DEF received, Reply, Replies
<1>7. CASE cancel_receive \/ cancel_receive_discard
  BY ZenonT(30), <1>7 DEF cancel_receive, cancel_receive_discard, Reply, Replies
<1>8. CASE reply
  <2>1. Message(status, proc_nr, dserial) \in Messages
    BY WordsAreMessages, Zenon DEF MessageTypes
  <2>2. outcome' \in [serial : Nat, status : Replies] /\ dpc' \in DaemonAt
    BY <1>8 DEF reply
  <2> QED  BY <1>8, <2>1, <2>2, Zenon DEF reply
<1>9. CASE send_file_write
  BY ZenonT(30), <1>0, <1>9 DEF send_file_write, SendChunk, Receives
<1>10. CASE send_file_write_too_long \/ send_file_end
  BY <1>10, ZenonT(30) DEF send_file_write_too_long, send_file_end, SendChunk
<1>11. CASE send_chunk
  <2>1. down' \in Seq(Messages)  BY <1>11, Zenon DEF send_chunk
  <2>2. outcome' \in [serial : Nat, status : Replies] /\ dpc' \in DaemonAt
    BY <1>11, SMTT(30) DEF send_chunk, Replies
  <2> QED  BY <1>11, <2>1, <2>2 DEF send_chunk
<1>12. CASE appliance_dies
  BY <1>12 DEF appliance_dies
<1>13. CASE main_loop_torn
  <2>1. up' \in Seq(Messages)
    BY <1>0, <1>13, Zenon DEF main_loop_torn, Receives
  <2>2. count_progress' \in Nat
    BY <1>13 DEF main_loop_torn
  <2>3. dpc' \in DaemonAt /\ status' \in Replies
    BY <1>13, Zenon DEF main_loop_torn, Reply, Replies
  <2> QED  BY <1>13, <2>1, <2>2, <2>3, Zenon DEF main_loop_torn
<1> HIDE DEF TypeOK
<1> QED
  BY ONLY DaemonStep \/ appliance_dies, <1>1, <1>2, <1>3, <1>4, <1>5, <1>6, <1>7, <1>8,
          <1>9, <1>10, <1>11, <1>12, <1>13, Zenon DEF DaemonStep

LEMMA InitType ==
  ASSUME Init
  PROVE  TypeOK
<1>1. user_cancel \in BOOLEAN  BY ZenonT(30) DEF Init
<1>2. up \in Seq(Messages) /\ down \in Seq(Messages)  BY DEF Init
<1>3. msg \in Messages /\ chunk \in Messages  BY WordsAreMessages, Zenon DEF Init
<1> QED
  BY <1>1, <1>2, <1>3, Zenon DEF Init, TypeOK, LibraryAt, DaemonAt, Replies

LEMMA NextType ==
  ASSUME TypeOK, [Next]_vars
  PROVE  TypeOK'
BY LibraryStepType, CallerStepType, DaemonStepType, Zenon
   DEF Next, vars, libVars, daemonVars, job, TypeOK

\* Every variable of the library, the socket and the daemon keeps its type.
THEOREM TypeCorrect == Spec => []TypeOK
<1>1. Init => TypeOK
  BY InitType, Zenon
<1>2. TypeOK /\ [Next]_vars => TypeOK'
  BY NextType, Zenon
<1> QED  BY <1>1, <1>2, PTL DEF Spec

-----------------------------------------------------------------------------
(* Errors. *)

LEMMA ErrorLibrary ==
  ASSUME TypeOK, ErrorInv, LibraryStep
  PROVE  ErrorInv'
<1> USE DEF ErrorInv, FailureHasError, Goto, Error, Return, Chunks
<1>1. CASE launch_recv
  BY <1>1, Zenon DEF launch_recv
<1>2. CASE check_daemon_socket
  <2>1. after \in {"reply", "discard"} /\ user_cancel' = user_cancel
    BY <1>2, Zenon DEF TypeOK, check_daemon_socket
  <2>2. CASE CheckNothing \/ CheckProgress
    BY <1>2, <2>1, <2>2, Zenon DEF check_daemon_socket, CheckNothing, CheckProgress
  <2>3. CASE CheckCancel \/ CheckTorn
    BY <1>2, <2>1, <2>3, WordTypes, Zenon DEF check_daemon_socket, CheckCancel, CheckTorn,
                                              DaemonCancelled
  <2>4. CASE CheckEof \/ CheckLost
    BY <1>2, <2>1, <2>4, Zenon DEF check_daemon_socket, CheckEof, CheckLost, Unwind
  <2> QED
    BY <1>2, <2>2, <2>3, <2>4, Zenon DEF check_daemon_socket
<1>3. CASE write_data
  <2>1. after \in {"reply", "discard"} /\ user_cancel' = user_cancel
    BY <1>3, Zenon DEF TypeOK, write_data
  <2>2. CASE pc' = Written /\ UNCHANGED <<state, errnum, ret>>
    BY <1>3, <2>1, <2>2, Zenon DEF write_data, Written
  <2>3. CASE Error("error") /\ Unwind
    BY <1>3, <2>1, <2>3, Zenon DEF write_data, Unwind
  <2> QED
    BY <1>3, <2>2, <2>3, Zenon DEF write_data
<1>4. CASE send_file_open \/ send_file_read \/ send_file_eof
  BY <1>4, WordTypes, Zenon DEF send_file_open, send_file_read, send_file_eof, CancelTransfer
<1>5. CASE guestfs_int_recv
  BY <1>5, Zenon DEF guestfs_int_recv, RecvProgress, RecvSkipCancel, RecvReply, RecvUnexpected,
                     RecvTorn, RecvFails
<1>6. CASE guestfs_int_recv_discard
  BY <1>6, Zenon DEF guestfs_int_recv_discard, RecvProgress, RecvSkipCancel, RecvTorn, RecvFails
<1>7. CASE recv_file_open \/ recv_file_cancel
  BY <1>7, Zenon DEF recv_file_open, recv_file_cancel
<1>8. CASE recv_file
  BY <1>8, Zenon DEF recv_file, RecvData, RecvEnd, RecvProgress, RecvUnexpected, RecvFails,
              CancelledError
<1>9. CASE recv_file_drain
  BY <1>9, Zenon DEF recv_file_drain, RecvProgress, RecvUnexpected, RecvFails, CancelledError
<1> QED
  BY <1>1, <1>2, <1>3, <1>4, <1>5, <1>6, <1>7, <1>8, <1>9, Zenon DEF LibraryStep

LEMMA DaemonLeaves ==
  ASSUME DaemonStep \/ appliance_dies
  PROVE  UNCHANGED libVars
  BY Zenon DEF DaemonStep, daemon_start, main_loop, main_loop_torn, notify_progress,
       notify_progress_no_ratelimit, dispatch_plain, dispatch_filein, dispatch_fileout,
       receive_file, received, cancel_receive, cancel_receive_discard, reply, send_file_write,
       send_file_write_too_long, send_file_end, send_chunk, appliance_dies

LEMMA ErrorStep == TypeOK /\ ErrorInv /\ [Next]_vars => ErrorInv'
<1> SUFFICES ASSUME TypeOK, ErrorInv, [Next]_vars  PROVE ErrorInv'
  OBVIOUS
<1>1. CASE LibraryStep
  BY <1>1, ErrorLibrary, Zenon
<1>2. CASE CallerStep
  BY <1>2, WordTypes DEF CallerStep, launch, guestfs_int_send, guestfs_user_cancel, Goto, Error,
                         ErrorInv, FailureHasError, Chunks
<1>3. CASE UNCHANGED libVars
  BY <1>3, Zenon DEF libVars, ErrorInv, FailureHasError
<1>4. DaemonStep \/ appliance_dies \/ UNCHANGED vars => UNCHANGED libVars
  BY DaemonLeaves, Zenon DEF vars
<1> QED
  BY <1>1, <1>2, <1>3, <1>4, Zenon DEF Next

LEMMA InitError == Init => ErrorInv
  BY Zenon DEF Init, ErrorInv, FailureHasError

\* A call that fails has recorded an error, whatever its handler does, unless
\* the user cancelled it.
THEOREM FailuresHaveErrors == Spec => []FailureHasError
<1>1. ErrorInv => FailureHasError
  BY Zenon DEF ErrorInv
<1> QED
  BY <1>1, InitError, ErrorStep, TypeCorrect, PTL DEF Spec

-----------------------------------------------------------------------------
\* The messages that one side takes from a queue, and those that stay.
LEMMA Shift ==
  ASSUME NEW q \in Seq(Messages), q # <<>>
  PROVE  /\ Tail(q) \in Seq(Messages) /\ Head(q) = q[1] /\ 1 \in 1 .. Len(q)
         /\ Len(q) \in Nat /\ Len(Tail(q)) = Len(q) - 1
         /\ \A i \in 1 .. Len(Tail(q)) : i + 1 \in 1 .. Len(q) /\ Tail(q)[i] = q[i + 1]
OBVIOUS

\* The messages on a queue after one is added.
LEMMA Grow ==
  ASSUME NEW q \in Seq(Messages), NEW m \in Messages, NEW a, a = Append(q, m)
  PROVE  /\ Len(q) \in Nat /\ Len(a) = Len(q) + 1 /\ a[Len(q) + 1] = m
         /\ \A i \in 1 .. Len(q) : a[i] = q[i]
         /\ \A i \in 1 .. Len(a) : i = Len(q) + 1 \/ i \in 1 .. Len(q)
OBVIOUS

LEMMA FollowsTail ==
  ASSUME NEW q \in Seq(Messages), q # <<>>, NEW T, NEW o \in BOOLEAN
  PROVE  /\ Follows(q, 1, T, o) =>
              /\ Head(q).type \in T /\ Follows(Tail(q), 1, T, o)
              /\ Head(q).type \in EndOfFile => Tail(q) = <<>> /\ o
         /\ \A i \in 0 .. Len(Tail(q)) :
              Follows(q, (i + 1) + 1, T, o) => Follows(Tail(q), i + 1, T, o)
<1> DEFINE t == Tail(q)
<1>1. /\ t \in Seq(Messages) /\ Head(q) = q[1] /\ 1 \in 1 .. Len(q) /\ Len(q) \in Nat
      /\ Len(t) = Len(q) - 1
      /\ \A i \in 1 .. Len(t) : i + 1 \in 1 .. Len(q) /\ t[i] = q[i + 1]
  BY Shift, Zenon
<1>2. Len(t) = 0 => t = <<>>
  BY <1>1, NoMessages, Zenon
<1> HIDE DEF t
<1>3. ASSUME NEW i \in 0 .. Len(t), Follows(q, (i + 1) + 1, T, o) PROVE Follows(t, i + 1, T, o)
  BY <1>1, <1>3 DEF Follows
<1>4. ASSUME Follows(q, 1, T, o)
      PROVE  /\ Head(q).type \in T /\ Follows(t, 1, T, o)
             /\ Head(q).type \in EndOfFile => t = <<>> /\ o
  <2>1. Head(q).type \in T /\ (Head(q).type \in EndOfFile => 1 = Len(q) /\ o)
    BY <1>1, <1>4, Zenon DEF Follows
  <2>2. Follows(t, 1, T, o)
    <3> SUFFICES ASSUME NEW j \in 1 .. Len(t)
                 PROVE  t[j].type \in T /\ (t[j].type \in EndOfFile => j = Len(t) /\ o)
      BY Zenon DEF Follows
    <3>1. j + 1 \in 1 .. Len(q) /\ t[j] = q[j + 1] /\ (j + 1 = Len(q) => j = Len(t))
      BY <1>1
    <3> QED  BY <1>4, <3>1, Zenon DEF Follows
  <2>3. 1 = Len(q) => Len(t) = 0
    BY <1>1
  <2> QED  BY <1>2, <2>1, <2>2, <2>3, Zenon
<1> QED  BY <1>3, <1>4, Zenon DEF t

LEMMA FollowsAppend ==
  ASSUME NEW q \in Seq(Messages), NEW m \in Messages, NEW T, m.type \in T,
         NEW o \in BOOLEAN, NEW o2 \in BOOLEAN, NEW i \in Nat, i >= 1,
         Follows(q, i, T, o), ~o \/ T \cap EndOfFile = {}, m.type \in EndOfFile => o2
  PROVE  Follows(Append(q, m), i, T, o2)
<1> DEFINE a == Append(q, m)
<1>1. /\ Len(q) \in Nat /\ Len(a) = Len(q) + 1 /\ a[Len(q) + 1] = m
      /\ \A j \in 1 .. Len(q) : a[j] = q[j]
      /\ \A j \in 1 .. Len(a) : j = Len(q) + 1 \/ j \in 1 .. Len(q)
  BY Grow, Zenon
<1> HIDE DEF a
<1> SUFFICES ASSUME NEW j \in i .. Len(a)
             PROVE  a[j].type \in T /\ (a[j].type \in EndOfFile => j = Len(a) /\ o2)
  BY Zenon DEF Follows, a
<1>2. j \in 1 .. Len(a)
  BY <1>1
<1>3. CASE j = Len(q) + 1
  BY <1>1, <1>3, Zenon
<1>4. CASE j \in 1 .. Len(q)
  <2>1. j \in i .. Len(q) /\ a[j] = q[j]
    BY <1>1, <1>4
  <2> QED  BY <2>1, Zenon DEF Follows
<1> QED  BY <1>1, <1>2, <1>3, <1>4, Zenon

-----------------------------------------------------------------------------
(* The request on its way to the daemon. *)

LEMMA SameRequest ==
  ASSUME RequestOnce, UNCHANGED <<serial, proc, up, dserial, proc_nr>>,
         Sending' => Sending, Unsent' => Unsent
  PROVE  RequestOnce'
<1>1. ASSUME NEW i, Follows(up, i, Sends(proc), ~Sending)
      PROVE  Follows(up, i, Sends(proc), ~Sending')
  BY <1>1, Zenon DEF Follows
<1> QED  BY <1>1, Zenon DEF RequestOnce, Current

LEMMA ClearedRequest ==
  ASSUME RequestOnce, up' = <<>>, UNCHANGED <<serial, proc, dserial, proc_nr>>,
         Unsent' => Unsent
  PROVE  RequestOnce'
<1>1. \A i \in 1 .. Len(<<>>) : FALSE
  OBVIOUS
<1>2. \A T, o : Follows(<<>>, 1, T, o)
  BY <1>1, Zenon DEF Follows
<1>3. Current' = Current
  BY Zenon DEF Current
<1> QED  BY <1>1, <1>2, <1>3, Zenon DEF RequestOnce

LEMMA WroteRequest ==
  ASSUME TypeOK, PlaceInv, RequestOnce, pc = "write", Unsent, up' = Append(up, msg),
         UNCHANGED <<serial, proc, dserial, proc_nr>>, ~Unsent'
  PROVE  RequestOnce'
<1>1. /\ Len(up) \in Nat /\ Len(up') = Len(up) + 1 /\ up'[Len(up) + 1] = msg
      /\ \A j \in 1 .. Len(up) : up'[j] = up[j]
      /\ \A j \in 1 .. Len(up') : j = Len(up) + 1 \/ j \in 1 .. Len(up)
  <2>1. up \in Seq(Messages) /\ msg \in Messages
    BY Zenon DEF TypeOK
  <2> QED  BY <2>1, Grow
<1>2. msg.proc = proc /\ msg.serial = Current
  <2>1. msg = Message("request", proc, Current)
    <3>1. msg.type = "request" /\ (msg = Message("request", proc, Current)
                                   \/ msg \in {DataChunk, EofChunk, CancelChunk})
      BY Zenon DEF PlaceInv, Unsent
    <3>2. msg \notin {DataChunk, EofChunk, CancelChunk}
      BY <3>1, WordTypes, Zenon
    <3> QED  BY <3>1, <3>2, Zenon
  <2> QED  BY <2>1, Zenon DEF Message
<1>3. dserial # Current /\ \A i \in 1 .. Len(up) : ~Requests(up[i], Current)
  BY Zenon DEF RequestOnce
<1>4. \A T, o : Follows(up', (Len(up) + 1) + 1, T, o)
  BY <1>1 DEF Follows
<1>5. ASSUME NEW i \in 1 .. Len(up'), Requests(up'[i], Current)
      PROVE  up'[i].proc = proc /\ Follows(up', i + 1, Sends(proc), ~Sending')
  <2>1. i = Len(up) + 1
    BY <1>1, <1>3, <1>5, Zenon
  <2> QED  BY <1>1, <1>2, <1>4, <2>1, Zenon
<1>6. Current' = Current
  BY Zenon DEF Current
<1> QED  BY <1>3, <1>5, <1>6, Zenon DEF RequestOnce

LEMMA WroteMore ==
  ASSUME TypeOK, RequestOnce, NEW m \in Messages, m.type \in Sends(proc),
         up' = Append(up, m), UNCHANGED <<serial, proc, dserial, proc_nr>>, ~Unsent',
         Sending \/ proc \notin FileIn, m.type \in EndOfFile => ~Sending'
  PROVE  RequestOnce'
<1>1. /\ Len(up) \in Nat /\ Len(up') = Len(up) + 1 /\ up'[Len(up) + 1] = m
      /\ \A j \in 1 .. Len(up) : up'[j] = up[j]
      /\ \A j \in 1 .. Len(up') : j = Len(up) + 1 \/ j \in 1 .. Len(up)
  <2>1. up \in Seq(Messages) /\ m \in Messages
    BY Zenon DEF TypeOK
  <2> QED  BY <2>1, Grow
<1>2. m.type # "request" /\ (Sending \/ Sends(proc) \cap EndOfFile = {})
  BY Zenon DEF Sends, Chunks, EndOfFile
<1>3. ASSUME NEW i \in Nat, i >= 1, Follows(up, i, Sends(proc), ~Sending)
      PROVE  Follows(up', i, Sends(proc), ~Sending')
  <2>1. up \in Seq(Messages) /\ (~Sending) \in BOOLEAN /\ (~Sending') \in BOOLEAN
    BY Zenon DEF TypeOK
  <2> QED  BY <1>2, <1>3, <2>1, FollowsAppend, Zenon
<1>4. ASSUME NEW i \in 1 .. Len(up'), Requests(up'[i], Current)
      PROVE  /\ dserial # Current /\ up'[i].proc = proc
             /\ Follows(up', i + 1, Sends(proc), ~Sending')
  <2>1. i \in 1 .. Len(up) /\ up'[i] = up[i]
    BY <1>1, <1>2, <1>4, Zenon DEF Requests
  <2>2. i + 1 \in Nat /\ i + 1 >= 1
    BY <1>1, <2>1
  <2> QED  BY <1>3, <1>4, <2>1, <2>2, Zenon DEF RequestOnce
<1>5. 1 \in Nat /\ 1 >= 1
  OBVIOUS
<1>6. Current' = Current
  BY Zenon DEF Current
<1> QED  BY <1>3, <1>4, <1>5, <1>6, Zenon DEF RequestOnce

LEMMA TookMessage ==
  ASSUME TypeOK, RequestOnce, up # <<>>, up' = Tail(up),
         UNCHANGED <<serial, proc, pc, msg>>,
         \/ UNCHANGED <<dserial, proc_nr>>
         \/ /\ Head(up).type = "request"
            /\ dserial' = Head(up).serial /\ proc_nr' = Head(up).proc
  PROVE  RequestOnce'
<1> DEFINE T == Sends(proc)
           o == ~Sending
<1>1. /\ Head(up) = up[1] /\ 1 \in 1 .. Len(up) /\ Len(up) \in Nat
      /\ Len(up') = Len(up) - 1
      /\ \A i \in 1 .. Len(up') : i + 1 \in 1 .. Len(up) /\ up'[i] = up[i + 1]
  BY Shift, Zenon DEF TypeOK
<1>2. /\ Follows(up, 1, T, o) => Head(up).type \in T /\ Follows(up', 1, T, o)
      /\ \A i \in 0 .. Len(up') : Follows(up, (i + 1) + 1, T, o) => Follows(up', i + 1, T, o)
  <2>1. up \in Seq(Messages) /\ o \in BOOLEAN
    BY Zenon DEF TypeOK
  <2> QED  BY <2>1, FollowsTail, Zenon
<1>3. Current' = Current /\ (Sending' <=> Sending) /\ (Unsent' <=> Unsent)
  BY Zenon DEF Current, Sending, Unsent
<1>4. "request" \notin T
  BY Zenon DEF Sends, Chunks
<1>5. (1 + 1) \in 1 .. Len(up) \/ Len(up') = 0
  BY <1>1
<1>6. ASSUME NEW i \in 1 .. Len(up'), Requests(up'[i], Current)
      PROVE  /\ dserial # Current /\ dserial' # Current
             /\ up'[i].proc = proc /\ Follows(up', i + 1, T, o)
  <2>1. i + 1 \in 1 .. Len(up) /\ up'[i] = up[i + 1] /\ i \in 0 .. Len(up')
    BY <1>1
  <2>2. dserial # Current /\ up'[i].proc = proc /\ Follows(up', i + 1, T, o)
    BY <1>2, <1>6, <2>1, Zenon DEF RequestOnce
  <2>3. ~Requests(Head(up), Current)
    <3> SUFFICES ASSUME Requests(Head(up), Current) PROVE FALSE
      OBVIOUS
    <3>1. Follows(up, 1 + 1, T, o)
      BY <1>1, Zenon DEF RequestOnce
    <3>2. i + 1 \in (1 + 1) .. Len(up)
      BY <1>1, <2>1
    <3> QED  BY <1>4, <1>6, <2>1, <3>1, <3>2, Zenon DEF Follows, Requests
  <2> QED  BY <2>2, <2>3, Zenon DEF Requests
<1>7. ASSUME dserial' = Current PROVE proc_nr' = proc /\ Follows(up', 1, T, o)
  <2>1. CASE UNCHANGED <<dserial, proc_nr>>
    BY <1>2, <1>7, <2>1, Zenon DEF RequestOnce
  <2>2. CASE Requests(Head(up), Current) /\ proc_nr' = Head(up).proc
    <3>1. Head(up).proc = proc /\ Follows(up, 1 + 1, T, o)
      BY <1>1, <2>2, Zenon DEF RequestOnce
    <3>2. 0 \in 0 .. Len(up') /\ 0 + 1 = 1
      BY <1>1
    <3>3. Follows(up', 0 + 1, T, o)
      BY <1>2, <3>1, <3>2, Zenon
    <3> QED  BY <2>2, <3>1, <3>2, <3>3, Zenon
  <2> QED  BY <1>7, <2>1, <2>2, Zenon DEF Requests
<1>8. ASSUME Unsent'
      PROVE  dserial' # Current /\ \A i \in 1 .. Len(up') : ~Requests(up'[i], Current)
  <2>1. dserial # Current /\ \A i \in 1 .. Len(up) : ~Requests(up[i], Current)
    BY <1>3, <1>8, Zenon DEF RequestOnce
  <2> QED  BY <1>1, <2>1, Zenon DEF Requests
<1> QED  BY <1>3, <1>6, <1>7, <1>8, Zenon DEF RequestOnce

\* The daemon reads in a queue that is torn then, while the request is not in
\* hand: what is left of the call is behind its request.
LEMMA SlidRequest ==
  ASSUME TypeOK, RequestOnce, dserial # Current, Shifted(up, up'),
         UNCHANGED <<serial, proc, pc, msg, dserial, proc_nr>>
  PROVE  RequestOnce'
<1> DEFINE T == Sends(proc)
           o == ~Sending
<1>1. PICK d \in 0 .. Len(up) :
        /\ Len(up') = Len(up) - d
        /\ \A i \in 1 .. Len(up') :
             \/ i = 1 /\ up'[i] = TORN
             \/ i + d \in 1 .. Len(up) /\ up'[i] = up[i + d]
  BY Zenon DEF Shifted
<1>2. Len(up) \in Nat
  BY DEF TypeOK
<1>3. Current' = Current /\ (Sending' <=> Sending) /\ (Unsent' <=> Unsent)
  BY Zenon DEF Current, Sending, Unsent
<1>4. ~Requests(TORN, Current)
  BY WordTypes, Zenon DEF Requests
<1>5. ASSUME NEW i \in 1 .. Len(up'), Requests(up'[i], Current)
      PROVE  up'[i].proc = proc /\ Follows(up', i + 1, T, o)
  <2>1. i + d \in 1 .. Len(up) /\ up'[i] = up[i + d]
    BY <1>1, <1>4, <1>5, Zenon
  <2>2. up'[i].proc = proc /\ Follows(up, (i + d) + 1, T, o)
    BY <1>5, <2>1, Zenon DEF RequestOnce
  <2>3. ASSUME NEW j \in i + 1 .. Len(up')
        PROVE  up'[j].type \in T /\ (up'[j].type \in EndOfFile => j = Len(up') /\ o)
    <3>1. j \in 1 .. Len(up') /\ j # 1 /\ j + d \in (i + d) + 1 .. Len(up)
          /\ (j + d = Len(up) => j = Len(up'))
      BY <1>1, <1>2
    <3>2. up'[j] = up[j + d]
      BY <1>1, <3>1, Zenon
    <3> QED  BY <2>2, <3>1, <3>2, Zenon DEF Follows
  <2> QED  BY <2>2, <2>3, Zenon DEF Follows
<1>6. ASSUME Unsent PROVE \A i \in 1 .. Len(up') : ~Requests(up'[i], Current)
  BY <1>1, <1>4, <1>6, Zenon DEF RequestOnce
<1> QED  BY <1>3, <1>5, <1>6, Zenon DEF RequestOnce

-----------------------------------------------------------------------------
(* The answers on their way to the library. *)

LEMMA Fields ==
  \A a, b : [serial |-> a, status |-> b].serial = a /\ [serial |-> a, status |-> b].status = b
OBVIOUS

LEMMA CarriedIs ==
  ASSUME TypeOK
  PROVE  Carried <=> outcome.serial = Current /\ outcome.status = "ok"
<1>1. outcome \in [serial : Nat, status : Replies]
  BY Zenon DEF TypeOK
<1> QED  BY <1>1 DEF Carried

LEMMA SameAnswers ==
  ASSUME AnswerIsTrue, UNCHANGED <<serial, proc, down>>, AwaitsFile' => AwaitsFile,
         dserial = Current => dserial' = Current, Carried => Carried'
  PROVE  AnswerIsTrue'
<1>1. Current' = Current
  BY Zenon DEF Current
<1> QED  BY <1>1, Zenon DEF AnswerIsTrue

LEMMA ClearedAnswers ==
  ASSUME down' = <<>>, ~AwaitsFile'
  PROVE  AnswerIsTrue'
<1>1. \A i \in 1 .. Len(<<>>) : FALSE
  OBVIOUS
<1> QED  BY <1>1, Zenon DEF AnswerIsTrue

LEMMA TookAnswer ==
  ASSUME TypeOK, AnswerIsTrue, down # <<>>, down' = Tail(down),
         UNCHANGED <<serial, proc, dserial, outcome>>,
         AwaitsFile' => AwaitsFile \/ Confirms(Head(down), Current)
  PROVE  AnswerIsTrue'
<1>1. /\ Head(down) = down[1] /\ 1 \in 1 .. Len(down) /\ Len(down) \in Nat
      /\ Len(down') = Len(down) - 1
      /\ \A i \in 1 .. Len(down') : i + 1 \in 1 .. Len(down) /\ down'[i] = down[i + 1]
  BY Shift, Zenon DEF TypeOK
<1>2. Current' = Current /\ (Carried' <=> Carried)
  BY Zenon DEF Current, Carried
<1>3. AwaitsFile' => dserial' = Current'
  BY <1>1, <1>2, Zenon DEF AnswerIsTrue, Confirms, Answers, Replies
<1>4. ASSUME NEW i \in 1 .. Len(down')
      PROVE  /\ Answers(down'[i], Current) => dserial = Current
             /\ Confirms(down'[i], Current) => Carried \/ proc \in FileOut
             /\ /\ down'[i].type = "eof"
                /\ AwaitsFile' \/ \E j \in 1 .. i - 1 : Confirms(down'[j], Current)
                => Carried
  <2>1. i + 1 \in 1 .. Len(down) /\ down'[i] = down[i + 1]
    BY <1>1, Zenon
  <2>2. ASSUME Confirms(Head(down), Current)
        PROVE  \E j \in 1 .. (i + 1) - 1 : Confirms(down[j], Current)
    <3>1. 1 \in 1 .. (i + 1) - 1
      BY <1>1
    <3> QED  BY <1>1, <2>2, <3>1, Zenon
  <2>3. ASSUME NEW j \in 1 .. i - 1, Confirms(down'[j], Current)
        PROVE  \E k \in 1 .. (i + 1) - 1 : Confirms(down[k], Current)
    <3>1. j + 1 \in 1 .. (i + 1) - 1 /\ j \in 1 .. Len(down')
      BY <1>1
    <3> QED  BY <1>1, <2>3, <3>1, Zenon
  <2> QED  BY <2>1, <2>2, <2>3, Zenon DEF AnswerIsTrue
<1> QED  BY <1>2, <1>3, <1>4, Zenon DEF AnswerIsTrue

LEMMA SlidAnswers ==
  ASSUME TypeOK, AnswerIsTrue, Shifted(down, down'),
         UNCHANGED <<serial, proc, dserial, outcome>>, ~AwaitsFile'
  PROVE  AnswerIsTrue'
<1>1. PICK d \in 0 .. Len(down) :
        /\ Len(down') = Len(down) - d
        /\ \A i \in 1 .. Len(down') :
             \/ i = 1 /\ down'[i] = TORN
             \/ i + d \in 1 .. Len(down) /\ down'[i] = down[i + d]
  BY Zenon DEF Shifted
<1>2. Len(down) \in Nat
  BY DEF TypeOK
<1>3. Current' = Current /\ (Carried' <=> Carried)
  BY Zenon DEF Current, Carried
<1>4. ~Answers(TORN, Current) /\ ~Confirms(TORN, Current) /\ TORN.type # "eof"
  BY WordTypes, Zenon DEF Answers, Confirms, Replies
<1>5. ASSUME NEW i \in 1 .. Len(down'), down'[i] # TORN
      PROVE  /\ Answers(down'[i], Current) => dserial = Current
             /\ Confirms(down'[i], Current) => Carried \/ proc \in FileOut
             /\ /\ down'[i].type = "eof"
                /\ \E j \in 1 .. i - 1 : Confirms(down'[j], Current)
                => Carried
  <2>1. i + d \in 1 .. Len(down) /\ down'[i] = down[i + d]
    BY <1>1, <1>5, Zenon
  <2>2. ASSUME NEW j \in 1 .. i - 1, Confirms(down'[j], Current)
        PROVE  \E k \in 1 .. (i + d) - 1 : Confirms(down[k], Current)
    <3>1. j \in 1 .. Len(down') /\ j + d \in 1 .. (i + d) - 1
      BY <1>1, <1>2
    <3>2. down'[j] = down[j + d]
      BY <1>1, <1>4, <2>2, <3>1, Zenon
    <3> QED  BY <2>2, <3>1, <3>2, Zenon
  <2> QED  BY <2>1, <2>2, Zenon DEF AnswerIsTrue
<1> QED  BY <1>3, <1>4, <1>5, Zenon DEF AnswerIsTrue

LEMMA WroteAnswer ==
  ASSUME TypeOK, AnswerIsTrue, NEW m \in Messages, down' = Append(down, m),
         UNCHANGED <<serial, proc, pc, dserial>>, Carried => Carried',
         Answers(m, Current) => dserial = Current,
         Confirms(m, Current) => Carried' \/ proc \in FileOut,
         m.type = "eof" /\ dserial = Current => Carried'
  PROVE  AnswerIsTrue'
<1>1. /\ Len(down) \in Nat /\ Len(down') = Len(down) + 1 /\ down'[Len(down) + 1] = m
      /\ \A j \in 1 .. Len(down) : down'[j] = down[j]
      /\ \A j \in 1 .. Len(down') : j = Len(down) + 1 \/ j \in 1 .. Len(down)
  <2>1. down \in Seq(Messages) /\ m \in Messages
    BY Zenon DEF TypeOK
  <2> QED  BY <2>1, Grow
<1>2. Current' = Current /\ (AwaitsFile' <=> AwaitsFile)
  BY Zenon DEF Current, AwaitsFile
<1>3. ASSUME NEW i \in 1 .. Len(down'), NEW j \in 1 .. i - 1
      PROVE  j \in 1 .. Len(down) /\ down'[j] = down[j]
  <2>1. j \in 1 .. Len(down)
    BY <1>1
  <2> QED  BY <1>1, <2>1, Zenon
<1>4. ASSUME NEW i \in 1 .. Len(down')
      PROVE  /\ Answers(down'[i], Current) => dserial = Current
             /\ Confirms(down'[i], Current) => Carried' \/ proc \in FileOut
             /\ /\ down'[i].type = "eof"
                /\ AwaitsFile \/ \E j \in 1 .. i - 1 : Confirms(down'[j], Current)
                => Carried'
  <2>1. CASE i \in 1 .. Len(down)
    BY <1>1, <1>3, <2>1, Zenon DEF AnswerIsTrue
  <2>2. CASE i = Len(down) + 1
    <3>1. AwaitsFile \/ (\E j \in 1 .. i - 1 : Confirms(down'[j], Current)) => dserial = Current
      BY <1>3, Zenon DEF AnswerIsTrue, Confirms, Answers, Replies
    <3> QED  BY <1>1, <2>2, <3>1, Zenon
  <2> QED  BY <1>1, <2>1, <2>2, Zenon
<1> QED  BY <1>2, <1>4, Zenon DEF AnswerIsTrue

-----------------------------------------------------------------------------
(* Torn messages. *)

LEMMA TornKept ==
  ASSUME NEW q \in Seq(Messages), TornFirst(q)
  PROVE  /\ Whole(<<>>) /\ TornFirst(<<>>)
         /\ q # <<>> => Whole(Tail(q)) /\ TornFirst(Tail(q))
         /\ \A r : Shifted(q, r) => TornFirst(r)
         /\ \A m \in Messages : m.type # "torn" =>
              TornFirst(Append(q, m)) /\ (Whole(q) => Whole(Append(q, m)))
<1>1. Whole(<<>>) /\ TornFirst(<<>>)
  BY DEF Whole, TornFirst
<1>2. ASSUME q # <<>> PROVE Whole(Tail(q)) /\ TornFirst(Tail(q))
  <2>1. ASSUME NEW i \in 1 .. Len(Tail(q)) PROVE Tail(q)[i].type # "torn"
    <3>1. i + 1 \in 1 .. Len(q) /\ Tail(q)[i] = q[i + 1] /\ i + 1 # 1
      BY <1>2
    <3> QED  BY <3>1, Zenon DEF TornFirst
  <2> QED  BY <2>1, Zenon DEF Whole, TornFirst
<1>3. ASSUME NEW r, Shifted(q, r) PROVE TornFirst(r)
  <2>1. PICK d \in 0 .. Len(q) :
          \A i \in 1 .. Len(r) :
            \/ i = 1 /\ r[i] = TORN
            \/ i + d \in 1 .. Len(q) /\ r[i] = q[i + d]
    BY <1>3, Zenon DEF Shifted
  <2>2. ASSUME NEW i \in 1 .. Len(r), i + d = 1 PROVE i = 1
    BY <2>2
  <2> QED  BY <2>1, <2>2, Zenon DEF TornFirst
<1>4. ASSUME NEW m \in Messages, m.type # "torn"
      PROVE  TornFirst(Append(q, m)) /\ (Whole(q) => Whole(Append(q, m)))
  <2> DEFINE a == Append(q, m)
  <2>1. /\ a[Len(q) + 1] = m /\ \A i \in 1 .. Len(q) : a[i] = q[i]
        /\ \A i \in 1 .. Len(a) : i = Len(q) + 1 \/ i \in 1 .. Len(q)
    BY <1>4, Grow
  <2> HIDE DEF a
  <2>2. ASSUME NEW i \in 1 .. Len(a), a[i].type = "torn"
        PROVE  i \in 1 .. Len(q) /\ q[i].type = "torn"
    BY <1>4, <2>1, <2>2, Zenon
  <2>3. TornFirst(a) /\ (Whole(q) => Whole(a))
    BY <2>2, Zenon DEF TornFirst, Whole
  <2> QED  BY <2>3, Zenon DEF a
<1> QED  BY <1>1, <1>2, <1>3, <1>4, Zenon

-----------------------------------------------------------------------------
(* The steps of the library. *)

\* The numbers on the queues.
LEMMA SameSerials ==
  ASSUME TypeOK, SerialsInv, UNCHANGED serial, dserial' < serial, outcome'.serial < serial,
         \/ up' = up \/ up' = <<>> \/ (up # <<>> /\ up' = Tail(up)) \/ Shifted(up, up')
         \/ \E m \in Messages : m.serial < serial /\ up' = Append(up, m),
         \/ down' = down \/ down' = <<>> \/ (down # <<>> /\ down' = Tail(down))
         \/ Shifted(down, down')
         \/ \E m \in Messages : m.serial < serial /\ down' = Append(down, m)
  PROVE  SerialsInv'
<1>1. ASSUME NEW q \in Seq(Messages), \A i \in 1 .. Len(q) : q[i].serial < serial,
             NEW r, \/ r = q \/ r = <<>> \/ (q # <<>> /\ r = Tail(q)) \/ Shifted(q, r)
                    \/ \E m \in Messages : m.serial < serial /\ r = Append(q, m)
      PROVE  \A i \in 1 .. Len(r) : r[i].serial < serial
  <2>1. CASE r = q
    BY <1>1, <2>1, Zenon
  <2>2. CASE r = <<>>
    BY <2>2
  <2>3. CASE q # <<>> /\ r = Tail(q)
    BY <1>1, <2>3, Shift, Zenon
  <2>4. ASSUME NEW m \in Messages, m.serial < serial, r = Append(q, m)
        PROVE  \A i \in 1 .. Len(r) : r[i].serial < serial
    <3>1. /\ Len(q) \in Nat /\ r[Len(q) + 1] = m
          /\ \A i \in 1 .. Len(q) : r[i] = q[i]
          /\ \A i \in 1 .. Len(r) : i = Len(q) + 1 \/ i \in 1 .. Len(q)
      BY <2>4, Grow
    <3> QED  BY <1>1, <2>4, <3>1, Zenon
  <2>5. CASE Shifted(q, r)
    <3>1. 0 < serial
      BY DEF SerialsInv, TypeOK
    <3> QED  BY <1>1, <2>5, <3>1, WordTypes, Zenon DEF Shifted
  <2> QED  BY <1>1, <2>1, <2>2, <2>3, <2>4, <2>5, Zenon
<1>2. \A i \in 1 .. Len(up') : up'[i].serial < serial
  BY <1>1, Zenon DEF TypeOK, SerialsInv
<1>3. \A i \in 1 .. Len(down') : down'[i].serial < serial
  BY <1>1, Zenon DEF TypeOK, SerialsInv
<1> QED  BY <1>2, <1>3, Zenon DEF SerialsInv

\* A word carries no number.
LEMMA WordSerials ==
  ASSUME SerialsInv, TypeOK
  PROVE  \A m \in {CANCEL, LAUNCH, PROGRESS, DataChunk, EofChunk, CancelChunk} :
           m \in Messages /\ m.serial < serial
<1>1. 0 < serial
  <2>1. serial \in Nat /\ serial >= 1
    BY Zenon DEF SerialsInv, TypeOK
  <2> QED  BY <2>1
<1>2. \A m \in {CANCEL, LAUNCH, PROGRESS, DataChunk, EofChunk, CancelChunk} : m.serial = 0
  BY DEF CANCEL, LAUNCH, PROGRESS, DataChunk, EofChunk, CancelChunk, Word, Message
<1> QED  BY <1>1, <1>2, WordsAreMessages, Zenon

\* What a step of the library does to the queues, and where it leaves it.
ReadsOn ==
  /\ UNCHANGED <<up, dpc>>
  /\ Sending' => Sending
  /\ Unsent' => Unsent
  /\ \/ down' = down /\ (AwaitsFile' => AwaitsFile) /\ (Receiving' => Receiving)
     \/ /\ down # <<>> /\ down' = Tail(down)
        /\ AwaitsFile' => AwaitsFile \/ Confirms(Head(down), Current)
     \/ Shifted(down, down') /\ ~Receiving'
GivesUp ==
  /\ up' = <<>> /\ down' = <<>> /\ dpc' = "off"
  /\ ~Sending' /\ ~Unsent' /\ ~AwaitsFile'
WritesOn ==
  /\ pc = "write" /\ up' = Append(up, msg) /\ pc' = Written
  /\ UNCHANGED <<down, dpc>>
Cancels ==
  /\ pc = "recv_cancel" /\ up' = Append(up, CANCEL) /\ pc' = "drain"
  /\ UNCHANGED <<down, dpc>>

LEMMA LibraryCases ==
  ASSUME TypeOK, PlaceInv, LibraryStep
  PROVE  /\ UNCHANGED <<serial, proc, proc_nr, dserial, outcome, status, chunk>>
         /\ ReadsOn \/ GivesUp \/ WritesOn \/ Cancels
<1>0. \A r \in Leftover(down) \cup Rest(down) \cup RestOfWord(down) :
        down # <<>> => Shifted(down, r)
  BY ReadShifts, Zenon DEF TypeOK
<1> USE DEF Goto, Return, Error, daemonVars, job, Receiving
<1>1. CASE launch_recv
  BY <1>1, Zenon DEF launch_recv, child_cleanup, ReadsOn, GivesUp, Sending, Unsent,
                     AwaitsFile, Reads
<1>2. CASE check_daemon_socket
  <2>1. pc = "check" /\ UNCHANGED <<serial, proc>> /\ after \in {"reply", "discard"}
    BY <1>2, Zenon DEF check_daemon_socket, TypeOK
  <2>2. CASE CheckNothing \/ CheckProgress
    BY <2>1, <2>2, Zenon DEF CheckNothing, CheckProgress, ReadsOn, Sending, Unsent,
                             AwaitsFile, Reads
  <2>3. CASE CheckCancel
    BY <2>1, <2>3, WordTypes, Zenon DEF CheckCancel, DaemonCancelled, ReadsOn, Sending, Unsent,
                                        AwaitsFile, Reads
  <2>4. CASE CheckEof
    BY <2>1, <2>4, Zenon DEF CheckEof, Unwind, child_cleanup, GivesUp, Sending, Unsent,
                             AwaitsFile
  <2>5. CASE CheckLost
    BY <1>0, <2>1, <2>5, Zenon DEF CheckLost, Unwind, ReadsOn, Sending, Unsent, Reads
  <2>6. CASE CheckTorn
    BY <1>0, <2>1, <2>6, WordTypes, Zenon DEF CheckTorn, DaemonCancelled, ReadsOn, Sending,
                                              Unsent, Reads
  <2> QED  BY <1>2, <2>2, <2>3, <2>4, <2>5, <2>6, Zenon DEF check_daemon_socket
<1>3. CASE write_data
  BY <1>3, Zenon DEF write_data, Unwind, child_cleanup, GivesUp, WritesOn, Sending, Unsent,
                     AwaitsFile, TypeOK
<1>4. CASE send_file_open \/ send_file_read \/ send_file_eof
  BY <1>4, WordTypes, Zenon
     DEF send_file_open, send_file_read, send_file_eof, CancelTransfer, ReadsOn, Sending,
         Unsent, AwaitsFile
<1>5. CASE guestfs_int_recv
  <2>1. pc = "reply" /\ UNCHANGED <<serial, proc>>
    BY <1>5, Zenon DEF guestfs_int_recv
  <2>2. CASE RecvProgress \/ RecvSkipCancel \/ RecvUnexpected(Chunks \cup {"LAUNCH"})
    BY <2>1, <2>2, Zenon DEF RecvProgress, RecvSkipCancel, RecvUnexpected, ReadsOn, Sending,
                             Unsent, AwaitsFile, Reads
  <2>3. CASE RecvReply
    BY <2>1, <2>3, Zenon DEF RecvReply, ReadsOn, Sending, Unsent, AwaitsFile, Reads, Replies,
                             Confirms, Current
  <2>4. CASE RecvFails
    BY <2>1, <2>4, Zenon DEF RecvFails, child_cleanup, ReadsOn, GivesUp, Sending, Unsent,
                             AwaitsFile
  <2>5. CASE RecvTorn
    BY <1>0, <2>1, <2>5, Zenon DEF RecvTorn, ReadsOn, Sending, Unsent, Reads
  <2> QED  BY <1>5, <2>2, <2>3, <2>4, <2>5, Zenon DEF guestfs_int_recv
<1>6. CASE guestfs_int_recv_discard
  BY <1>0, <1>6, Zenon DEF guestfs_int_recv_discard, RecvProgress, RecvSkipCancel, RecvTorn,
                     RecvFails, child_cleanup, ReadsOn, GivesUp, Sending, Unsent, AwaitsFile, Reads
<1>7. CASE recv_file_open
  BY <1>7, Zenon DEF recv_file_open, ReadsOn, Sending, Unsent, AwaitsFile
<1>8. CASE recv_file
  <2>1. pc = "recv" /\ UNCHANGED <<serial, proc>>
    BY <1>8, Zenon DEF recv_file
  <2>2. CASE RecvData \/ RecvEnd
    BY <2>1, <2>2, Zenon DEF RecvData, RecvEnd, ReadsOn, Sending, Unsent, AwaitsFile, Reads
  <2>3. CASE RecvProgress \/ RecvUnexpected(Replies \cup {"LAUNCH", "CANCEL"})
    BY <2>1, <2>3, Zenon DEF RecvProgress, RecvUnexpected, ReadsOn, Sending, Unsent,
                             AwaitsFile, Reads
  <2>4. CASE RecvFails
    BY <2>1, <2>4, Zenon DEF RecvFails, child_cleanup, ReadsOn, GivesUp, Sending, Unsent,
                             AwaitsFile
  <2> QED  BY <1>8, <2>2, <2>3, <2>4, Zenon DEF recv_file
<1>9. CASE recv_file_cancel
  BY <1>9, Zenon DEF recv_file_cancel, ReadsOn, Cancels, Sending, Unsent, AwaitsFile
<1>10. CASE recv_file_drain
  BY <1>10, Zenon DEF recv_file_drain, RecvProgress, RecvUnexpected, RecvFails,
                      child_cleanup, ReadsOn, GivesUp, Sending, Unsent, AwaitsFile, Reads
<1> QED
  BY <1>1, <1>2, <1>3, <1>4, <1>5, <1>6, <1>7, <1>8, <1>9, <1>10, Zenon DEF LibraryStep

LEMMA LibraryPlace ==
  ASSUME TypeOK, PlaceInv, LibraryStep
  PROVE  PlaceInv'
<1>0. /\ UNCHANGED <<serial, proc, proc_nr, chunk>> /\ (dpc' = dpc \/ dpc' = "off")
      /\ Current' = Current
  BY LibraryCases, Zenon DEF ReadsOn, GivesUp, WritesOn, Cancels, Current
<1> USE <1>0 DEF PlaceInv, Sending, Receiving, Goto, Return
<1>1. CASE launch_recv
  BY <1>1, Zenon DEF launch_recv
<1>2. CASE check_daemon_socket
  <2>1. pc = "check" /\ after \in {"reply", "discard"}
    BY <1>2, Zenon DEF check_daemon_socket, TypeOK
  <2>2. CASE CheckNothing \/ CheckProgress
    BY <2>1, <2>2, Zenon DEF CheckNothing, CheckProgress
  <2>3. CASE CheckCancel \/ CheckTorn
    BY <2>1, <2>3, WordTypes, Zenon DEF CheckCancel, CheckTorn, DaemonCancelled
  <2>4. CASE CheckEof \/ CheckLost
    BY <2>1, <2>4, Zenon DEF CheckEof, CheckLost, Unwind
  <2> QED  BY <1>2, <2>2, <2>3, <2>4, Zenon DEF check_daemon_socket
<1>3. CASE write_data
  <2>1. pc = "write" /\ after \in {"reply", "discard"} /\ msg' = msg
    BY <1>3, Zenon DEF write_data, TypeOK
  <2>2. pc' = Written \/ pc' \in {"idle", "reply", "discard"}
    BY <1>3, <2>1, Zenon DEF write_data, Unwind
  <2> QED  BY <2>1, <2>2, Zenon DEF Written
<1>4. CASE send_file_open \/ send_file_read \/ send_file_eof
  BY <1>4, WordTypes, Zenon DEF send_file_open, send_file_read, send_file_eof, CancelTransfer
<1>5. CASE guestfs_int_recv
  BY <1>5, Zenon DEF guestfs_int_recv, RecvProgress, RecvSkipCancel, RecvReply,
                     RecvUnexpected, RecvTorn, RecvFails
<1>6. CASE guestfs_int_recv_discard
  BY <1>6, Zenon DEF guestfs_int_recv_discard, RecvProgress, RecvSkipCancel, RecvTorn, RecvFails
<1>7. CASE recv_file_open \/ recv_file_cancel
  BY <1>7, Zenon DEF recv_file_open, recv_file_cancel
<1>8. CASE recv_file
  BY <1>8, Zenon DEF recv_file, RecvData, RecvEnd, RecvProgress, RecvUnexpected, RecvFails
<1>9. CASE recv_file_drain
  BY <1>9, Zenon DEF recv_file_drain, RecvProgress, RecvUnexpected, RecvFails
<1> QED
  BY <1>1, <1>2, <1>3, <1>4, <1>5, <1>6, <1>7, <1>8, <1>9, Zenon DEF LibraryStep

LEMMA LibraryTorn ==
  ASSUME TypeOK, PlaceInv, TornInv, LibraryStep
  PROVE  TornInv'
<1>0. /\ UNCHANGED proc_nr /\ up \in Seq(Messages) /\ down \in Seq(Messages)
      /\ TornFirst(up) /\ TornFirst(down)
  BY LibraryCases, Zenon DEF TypeOK, TornInv
<1>1. CASE ReadsOn
  <2>1. TornFirst(down') /\ (Whole(down') \/ ~Receiving')
    BY <1>0, <1>1, TornKept, Zenon DEF ReadsOn, TornInv
  <2> QED  BY <1>0, <1>1, <2>1, Zenon DEF ReadsOn, TornInv
<1>2. CASE GivesUp
  BY <1>0, <1>2, TornKept, Zenon DEF GivesUp, TornInv
<1>3. CASE WritesOn \/ Cancels
  <2>1. PICK m \in Messages : m.type # "torn" /\ up' = Append(up, m)
    <3>1. CASE WritesOn
      <4>1. msg \in Messages /\ pc = "write" /\ up' = Append(up, msg)
        BY <3>1, Zenon DEF WritesOn, TypeOK
      <4>2. msg.type # "torn"
        <5>1. Message("request", proc, Current).type # "torn"
          BY Zenon DEF Message
        <5> QED  BY <4>1, <5>1, WordTypes, Zenon DEF PlaceInv
      <4> QED  BY <4>1, <4>2, Zenon
    <3>2. CASE Cancels
      BY <3>2, WordsAreMessages, WordTypes, Zenon DEF Cancels
    <3> QED  BY <1>3, <3>1, <3>2, Zenon
  <2>2. TornFirst(up') /\ (Whole(up') \/ proc_nr' \notin FileIn)
    BY <1>0, <2>1, TornKept, Zenon DEF TornInv
  <2>3. down' = down /\ (Receiving' => Receiving)
    BY <1>3, Zenon DEF WritesOn, Cancels, Written, Receiving, TypeOK
  <2> QED  BY <1>0, <2>2, <2>3, Zenon DEF TornInv
<1> QED  BY <1>1, <1>2, <1>3, LibraryCases, Zenon

LEMMA LibraryCall ==
  ASSUME CallInv, TypeOK', LibraryStep
  PROVE  CallInv'
<1> TypeOK /\ SerialsInv /\ TornInv /\ PlaceInv
  BY Zenon DEF CallInv
<1>0. /\ UNCHANGED <<serial, proc, proc_nr, dserial, outcome, status, chunk>>
      /\ TornInv' /\ PlaceInv' /\ dserial' < serial /\ outcome'.serial < serial
  BY LibraryCases, LibraryPlace, LibraryTorn, Zenon DEF SerialsInv
<1>1. Current' = Current /\ (Carried' <=> Carried)
  BY <1>0, Zenon DEF Current, Carried
<1>2. CASE ReadsOn
  <2>1. SerialsInv'
    BY <1>0, <1>2, SameSerials, Zenon DEF ReadsOn
  <2>2. ASSUME proc # NoProc PROVE RequestOnce' /\ FinishedOnce' /\ AnswerIsTrue'
    <3>0. RequestOnce /\ FinishedOnce /\ AnswerIsTrue
      BY <2>2, Zenon DEF CallInv
    <3>1. RequestOnce'
      BY <1>0, <1>2, <3>0, SameRequest, Zenon DEF ReadsOn
    <3>2. FinishedOnce'
      BY <1>0, <1>1, <1>2, <3>0, Zenon DEF ReadsOn, FinishedOnce
    <3>3. AnswerIsTrue'
      BY <1>0, <1>1, <1>2, <3>0, SameAnswers, TookAnswer, SlidAnswers, Zenon
         DEF ReadsOn, AwaitsFile, Receiving
    <3> QED  BY <3>1, <3>2, <3>3, Zenon
  <2> QED  BY <1>0, <2>1, <2>2, Zenon DEF CallInv
<1>3. CASE GivesUp
  <2>1. SerialsInv'
    BY <1>0, <1>3, SameSerials, Zenon DEF GivesUp
  <2>2. ASSUME proc # NoProc PROVE RequestOnce' /\ FinishedOnce' /\ AnswerIsTrue'
    <3>0. RequestOnce /\ FinishedOnce /\ AnswerIsTrue
      BY <2>2, Zenon DEF CallInv
    <3>1. RequestOnce'
      BY <1>0, <1>3, <3>0, ClearedRequest, Zenon DEF GivesUp
    <3>2. FinishedOnce'
      BY <1>0, <1>1, <1>3, <3>0, Zenon DEF GivesUp, FinishedOnce
    <3>3. AnswerIsTrue'
      BY <1>3, ClearedAnswers, Zenon DEF GivesUp
    <3> QED  BY <3>1, <3>2, <3>3, Zenon
  <2> QED  BY <1>0, <2>1, <2>2, Zenon DEF CallInv
<1>4. CASE WritesOn
  <2>0. /\ pc = "write" /\ msg \in Messages /\ after \in {"reply", "discard"}
        /\ \/ msg = Message("request", proc, Current)
           \/ msg \in {DataChunk, EofChunk, CancelChunk}
    BY <1>4, Zenon DEF WritesOn, TypeOK, PlaceInv
  <2>1. SerialsInv'
    <3>1. Current < serial
      BY DEF Current, TypeOK
    <3>2. msg.serial < serial
      <4>1. CASE msg = Message("request", proc, Current)
        <5>1. msg.serial = Current
          BY <4>1, Zenon DEF Message
        <5> QED  BY <3>1, <5>1, Zenon
      <4>2. CASE msg \in {DataChunk, EofChunk, CancelChunk}
        BY <4>2, WordSerials, Zenon
      <4> QED  BY <2>0, <4>1, <4>2, Zenon
    <3> QED  BY <1>0, <1>4, <2>0, <3>2, SameSerials, Zenon DEF WritesOn
  <2>2. ASSUME proc # NoProc PROVE RequestOnce' /\ FinishedOnce' /\ AnswerIsTrue'
    <3>0. RequestOnce /\ FinishedOnce /\ AnswerIsTrue
      BY <2>2, Zenon DEF CallInv
    <3>1. ~Unsent' /\ ~AwaitsFile' /\ (msg.type \in EndOfFile => ~Sending')
      BY <1>4, <2>0, WordTypes, Zenon DEF WritesOn, Written, Unsent, AwaitsFile, EndOfFile, Sending
    <3>2. CASE Unsent
      <4>1. RequestOnce'
        BY <1>0, <1>4, <3>0, <3>1, <3>2, WroteRequest, Zenon DEF WritesOn
      <4>2. dserial # Current
        BY <3>0, <3>2, Zenon DEF RequestOnce
      <4>3. FinishedOnce'
        BY <1>0, <1>1, <1>4, <3>0, <4>2, Zenon DEF WritesOn, FinishedOnce
      <4> QED  BY <1>0, <1>1, <1>4, <3>0, <3>1, <4>1, <4>3, SameAnswers, Zenon DEF WritesOn
    <3>3. CASE ~Unsent
      <4>0. msg.type # "request"
        BY <2>0, <3>3, Zenon DEF Unsent
      <4>1. Sending /\ proc \in FileIn /\ msg.type \in Chunks
        <5>1. msg \in {DataChunk, EofChunk, CancelChunk}
          <6>1. Message("request", proc, Current).type = "request"
            BY Zenon DEF Message
          <6> QED  BY <2>0, <4>0, <6>1, Zenon
        <5>2. msg.type \in Chunks
          BY <5>1, WordTypes, Zenon DEF Chunks
        <5> QED  BY <2>0, <4>0, <5>2, Zenon DEF Sending, PlaceInv
      <4>2. RequestOnce'
        BY <1>0, <1>4, <2>0, <3>0, <3>1, <4>1, WroteMore, Zenon DEF WritesOn, Sends
      <4>3. FinishedOnce'
        BY <1>0, <1>1, <1>4, <3>0, <4>1, Zenon DEF WritesOn, FinishedOnce
      <4> QED  BY <1>0, <1>1, <1>4, <3>0, <3>1, <4>2, <4>3, SameAnswers, Zenon DEF WritesOn
    <3> QED  BY <3>2, <3>3, Zenon
  <2> QED  BY <1>0, <2>1, <2>2, Zenon DEF CallInv
<1>5. CASE Cancels
  <2>1. SerialsInv'
    BY <1>0, <1>5, SameSerials, WordSerials, Zenon DEF Cancels
  <2>2. ASSUME proc # NoProc PROVE RequestOnce' /\ FinishedOnce' /\ AnswerIsTrue'
    <3>0. RequestOnce /\ FinishedOnce /\ AnswerIsTrue
      BY <2>2, Zenon DEF CallInv
    <3>1. proc \notin FileIn /\ ~Unsent' /\ ~AwaitsFile' /\ ~Sending'
      BY <1>5, ProcKinds, Zenon DEF Cancels, PlaceInv, Receiving, Unsent, AwaitsFile, Sending
    <3>2. CANCEL \in Messages /\ CANCEL.type \in Sends(proc)
      BY <3>1, WordsAreMessages, WordTypes, Zenon DEF Sends
    <3>3. RequestOnce'
      BY <1>0, <1>5, <3>0, <3>1, <3>2, WroteMore, Zenon DEF Cancels
    <3>4. FinishedOnce'
      BY <1>0, <1>1, <1>5, <3>0, <3>1, Zenon DEF Cancels, FinishedOnce
    <3> QED  BY <1>0, <1>1, <1>5, <3>0, <3>1, <3>3, <3>4, SameAnswers, Zenon DEF Cancels
  <2> QED  BY <1>0, <2>1, <2>2, Zenon DEF CallInv
<1> QED  BY <1>2, <1>3, <1>4, <1>5, LibraryCases, Zenon

\* A step that leaves alone what the invariant is about.
LEMMA SameCall ==
  ASSUME CallInv, TypeOK',
         UNCHANGED <<serial, pc, proc, msg, up, down, dpc, proc_nr, dserial, outcome, status,
                     chunk>>
  PROVE  CallInv'
<1>1. SerialsInv' /\ TornInv' /\ PlaceInv'
  BY Zenon DEF CallInv, SerialsInv, TornInv, PlaceInv, Sending, Receiving, Current
<1>2. /\ Current' = Current /\ (Carried' <=> Carried) /\ (Sending' <=> Sending)
      /\ (Unsent' <=> Unsent) /\ (AwaitsFile' <=> AwaitsFile)
  BY Zenon DEF Current, Carried, Sending, Unsent, AwaitsFile
<1>3. RequestOnce /\ FinishedOnce /\ AnswerIsTrue
        => RequestOnce' /\ FinishedOnce' /\ AnswerIsTrue'
  BY <1>2, SameRequest, SameAnswers, Zenon DEF FinishedOnce
<1> QED  BY <1>1, <1>3, Zenon DEF CallInv

LEMMA CallerCall ==
  ASSUME CallInv, TypeOK', CallerStep
  PROVE  CallInv'
<1> TypeOK /\ SerialsInv /\ TornInv /\ PlaceInv
  BY Zenon DEF CallInv
<1>1. CASE launch
  <2>1. proc' = NoProc /\ pc' = "launch" /\ dpc' = "boot" /\ dserial' = 0
        /\ UNCHANGED <<serial, up, down, outcome>>
    BY <1>1, Zenon DEF launch, Goto
  <2>2. SerialsInv'
    <3>1. 0 < serial
      <4>1. serial \in Nat /\ serial >= 1
        BY Zenon DEF SerialsInv, TypeOK
      <4> QED  BY <4>1
    <3> QED  BY <2>1, <3>1, Zenon DEF SerialsInv
  <2>3. PlaceInv'
    BY <2>1, Zenon DEF PlaceInv, Sending, Receiving
  <2>4. TornInv'
    BY <1>1, <2>1, ProcKinds, Zenon DEF launch, TornInv, Receiving
  <2> QED  BY <2>1, <2>2, <2>3, <2>4, Zenon DEF CallInv
<1>2. ASSUME NEW p \in Procs, guestfs_int_send(p) PROVE CallInv'
  <2>1. /\ proc' = p /\ pc' = "check" /\ msg' = Message("request", p, serial)
        /\ UNCHANGED <<up, down, dpc, proc_nr, dserial, outcome, status, chunk>>
        /\ serial' = serial + 1
    BY <1>2, Zenon DEF guestfs_int_send, Goto, daemonVars, job
  <2>2. Current' = serial /\ serial \in Nat
    BY <2>1 DEF Current, TypeOK
  <2>3. ASSUME NEW n \in Nat, n < serial PROVE n # serial /\ n < serial'
    BY <2>1, <2>2, <2>3
  <2>4. /\ dserial \in Nat /\ outcome.serial \in Nat
        /\ \A i \in 1 .. Len(up) : up[i].serial \in Nat
        /\ \A i \in 1 .. Len(down) : down[i].serial \in Nat
    <3>1. \A m \in Messages : m.serial \in Nat
      BY Zenon DEF Messages
    <3>2. /\ \A i \in 1 .. Len(up) : up[i] \in Messages
          /\ \A i \in 1 .. Len(down) : down[i] \in Messages
      <4>1. up \in Seq(Messages) /\ down \in Seq(Messages)
        BY Zenon DEF TypeOK
      <4> QED  BY <4>1
    <3>3. dserial \in Nat /\ outcome.serial \in Nat
      BY Zenon DEF TypeOK
    <3> QED  BY <3>1, <3>2, <3>3, Zenon
  <2>5. /\ dserial # serial /\ outcome.serial # serial
        /\ \A i \in 1 .. Len(up) : up[i].serial # serial
        /\ \A i \in 1 .. Len(down) : down[i].serial # serial
    BY <2>3, <2>4, Zenon DEF SerialsInv
  <2>10. SerialsInv'
    <3>1. serial' >= 1
      BY <2>1, <2>2
    <3> QED  BY <2>1, <2>3, <2>4, <3>1, Zenon DEF SerialsInv
  <2>11. PlaceInv'
    <3>1. msg'.type = "request" /\ msg' = Message("request", proc', Current')
      BY <2>1, <2>2, Zenon DEF Message
    <3>2. p # NoProc
      BY ConstantsAssumption, Zenon DEF AllProcs, FileIn, FileOut, NoProc
    <3> QED  BY <2>1, <3>1, <3>2, Zenon DEF PlaceInv, Sending, Receiving
  <2>6. ~AwaitsFile' /\ up' = up /\ down' = down /\ dserial' = dserial /\ outcome' = outcome
    BY <2>1, Zenon DEF AwaitsFile
  <2>7. RequestOnce'
    BY <2>2, <2>5, <2>6, Zenon DEF RequestOnce, Requests
  <2>8. FinishedOnce'
    BY <2>2, <2>5, <2>6, Zenon DEF FinishedOnce
  <2>9. AnswerIsTrue'
    <3>1. ASSUME NEW i \in 1 .. Len(down)
          PROVE  /\ ~Answers(down[i], serial) /\ ~Confirms(down[i], serial)
                 /\ ~(\E j \in 1 .. i - 1 : Confirms(down[j], serial))
      <4>1. \A j \in 1 .. i - 1 : j \in 1 .. Len(down)
        BY DEF TypeOK
      <4> QED  BY <2>5, <4>1, Zenon DEF Answers, Confirms
    <3> QED  BY <2>2, <2>6, <3>1, Zenon DEF AnswerIsTrue
  <2>12. TornInv'
    BY <2>1, Zenon DEF TornInv, Receiving
  <2> QED  BY <2>10, <2>11, <2>12, <2>7, <2>8, <2>9, Zenon DEF CallInv
<1>3. CASE guestfs_user_cancel
  <2>1. UNCHANGED <<serial, pc, proc, msg, up, down, dpc, proc_nr, dserial, outcome, status,
                    chunk>>
    BY <1>3, Zenon DEF guestfs_user_cancel, daemonVars, job
  <2> QED  BY <2>1, SameCall, Zenon
<1> QED  BY <1>1, <1>2, <1>3, Zenon DEF CallerStep

-----------------------------------------------------------------------------
(* The steps of the daemon. *)

\* What a step of the daemon does to the queues and to its request.
WorksOn ==
  /\ dpc \in {"written", "sent", "stub", "received", "send"}
  /\ UNCHANGED <<up, down, proc_nr, dserial, outcome>>
  /\ dpc' = "received" \/ (dpc' = "reply" /\ status' = "ok") =>
       dpc = "received" \/ proc_nr \notin FileIn
SaysWord ==
  /\ dpc \in {"boot", "notify", "cancel"} /\ dpc' \notin {"received", "reply"}
  /\ UNCHANGED <<up, proc_nr, dserial, outcome>>
  /\ \E m \in {LAUNCH, PROGRESS, CANCEL} : down' = Append(down, m)
TakesOne ==
  /\ dpc \in {"recv", "discard", "send"} /\ up # <<>> /\ up' = Tail(up)
  /\ UNCHANGED <<down, proc_nr, dserial, outcome>>
  /\ dpc' = "received" => Head(up).type = "eof"
  /\ dpc' = "reply" => status' = "error"

Tears ==
  /\ up # <<>> /\ Shifted(up, up')
  /\ UNCHANGED <<down, proc_nr, dserial, outcome>>
  /\ \/ dpc = "send" /\ Head(up).type # "CANCEL" /\ dpc' \in {"chunk", "cancelled"}
     \/ /\ dpc = "main" /\ Head(up).type = "torn"
        /\ dpc' \in {"main", "dead"} \/ (dpc' = "reply" /\ status' = "error")

LEMMA DaemonCases ==
  ASSUME TypeOK, DaemonStep
  PROVE  \/ WorksOn \/ SaysWord \/ TakesOne \/ Tears
         \/ main_loop \/ reply \/ send_chunk
<1>0. \A r \in Leftover(up) \cup Rest(up) \cup RestOfWord(up) : up # <<>> => Shifted(up, r)
  BY ReadShifts, Zenon DEF TypeOK
<1> USE DEF DGoto, Reply, job, daemonVars
<1>1. CASE notify_progress
  BY <1>1, Zenon DEF notify_progress, AfterProgress, WorksOn
<1>2. CASE dispatch_plain
  BY <1>2, Zenon DEF dispatch_plain, WorksOn, FileIn
<1>3. CASE dispatch_filein
  BY <1>3, Zenon DEF dispatch_filein, WorksOn
<1>4. CASE dispatch_fileout
  BY <1>4, ProcKinds, Zenon DEF dispatch_fileout, WorksOn
<1>5. CASE received
  BY <1>5, Zenon DEF received, WorksOn
<1>6. CASE send_file_write
  <2>1. CASE up = <<>>
    BY <1>6, <2>1, Zenon DEF send_file_write, SendChunk, Receives, WorksOn
  <2>2. CASE up # <<>> /\ Head(up).type = "CANCEL"
    <3>1. dpc = "send" /\ up' = Tail(up) /\ dpc' = "cancelled"
          /\ UNCHANGED <<down, proc_nr, dserial, outcome>>
      BY <1>6, <2>2, Zenon DEF send_file_write, SendChunk, Receives, Rest
    <3> QED  BY <2>2, <3>1, Zenon DEF TakesOne
  <2>3. CASE up # <<>> /\ Head(up).type # "CANCEL"
    BY <1>0, <1>6, <2>3, Zenon DEF send_file_write, SendChunk, Receives, Tears
  <2> QED  BY <2>1, <2>2, <2>3, Zenon
<1>7. CASE send_file_write_too_long \/ send_file_end
  BY <1>7, Zenon DEF send_file_write_too_long, send_file_end, SendChunk, WorksOn
<1>8. CASE daemon_start \/ cancel_receive
  BY <1>8, Zenon DEF daemon_start, cancel_receive, SaysWord
<1>9. CASE notify_progress_no_ratelimit
  BY <1>9, Zenon DEF notify_progress_no_ratelimit, AfterProgress, SaysWord
<1>10. CASE receive_file
  BY <1>10, Zenon DEF receive_file, TakesOne
<1>11. CASE cancel_receive_discard
  BY <1>11, Zenon DEF cancel_receive_discard, TakesOne
<1>12. CASE main_loop_torn
  BY <1>0, <1>12, Zenon DEF main_loop_torn, Receives, Tears
<1> QED
  BY <1>1, <1>2, <1>3, <1>4, <1>5, <1>6, <1>7, <1>8, <1>9, <1>10, <1>11, <1>12, Zenon
     DEF DaemonStep

LEMMA DaemonPlace ==
  ASSUME TypeOK, PlaceInv, DaemonStep \/ appliance_dies
  PROVE  PlaceInv'
<1>0. UNCHANGED <<serial, pc, proc, msg>>
  BY DaemonLeaves, Zenon DEF libVars
<1>1. /\ dpc' = "chunk" => chunk' \in {DataChunk, EofChunk, CancelChunk}
      /\ dpc' = "cancelled" => chunk' = CancelChunk
      /\ dpc' \in {"send", "chunk", "cancelled", "sent"} => proc_nr' \in FileOut
      /\ dpc' \in {"recv", "written", "received", "cancel", "discard"} => proc_nr' \in FileIn
  <2> USE DEF PlaceInv, DGoto, Reply, job, daemonVars
  <2>1. CASE notify_progress \/ notify_progress_no_ratelimit
    BY <2>1, Zenon DEF notify_progress, notify_progress_no_ratelimit, AfterProgress
  <2>2. CASE dispatch_plain \/ dispatch_filein \/ dispatch_fileout \/ received
    BY <2>2, Zenon DEF dispatch_plain, dispatch_filein, dispatch_fileout, received
  <2>3. CASE send_file_write
    BY <2>3, Zenon DEF send_file_write, SendChunk
  <2>4. CASE send_file_write_too_long \/ send_file_end
    BY <2>4, Zenon DEF send_file_write_too_long, send_file_end, SendChunk
  <2>5. CASE daemon_start \/ cancel_receive \/ appliance_dies
    BY <2>5, Zenon DEF daemon_start, cancel_receive, appliance_dies
  <2>6. CASE receive_file
    BY <2>6, Zenon DEF receive_file
  <2>7. CASE cancel_receive_discard
    BY <2>7, Zenon DEF cancel_receive_discard
  <2>8. CASE main_loop \/ main_loop_torn
    BY <2>8, Zenon DEF main_loop, main_loop_torn
  <2>9. CASE reply
    BY <2>9, Zenon DEF reply
  <2>10. CASE send_chunk
    BY <2>10, Zenon DEF send_chunk
  <2> QED
    BY <2>1, <2>2, <2>3, <2>4, <2>5, <2>6, <2>7, <2>8, <2>9, <2>10, Zenon DEF DaemonStep
<1> QED  BY <1>0, <1>1, Zenon DEF PlaceInv, Sending, Receiving, Current

\* The daemon goes on with a request that it has not finished.
LEMMA NotFinished ==
  ASSUME FinishedOnce, UNCHANGED <<serial, proc, pc, msg, dserial, outcome>>,
         dpc \notin {"main", "dead", "off", "reply", "chunk"},
         /\ dserial = Current /\ proc \in FileIn
         /\ dpc' = "received" \/ (dpc' = "reply" /\ status' = "ok")
         => up' = <<>> /\ ~Sending
  PROVE  FinishedOnce'
<1>1. outcome.serial # Current
  BY Zenon DEF FinishedOnce
<1>2. Current' = Current /\ (Sending' <=> Sending)
  BY Zenon DEF Current, Sending
<1>3. ~Carried'
  BY <1>1, <1>2, Fields, Zenon DEF Carried
<1> QED  BY <1>1, <1>2, <1>3, Zenon DEF FinishedOnce

\* The daemon between requests: nothing of the last one makes it think again.
LEMMA MainLoopCall ==
  ASSUME TypeOK, RequestOnce, FinishedOnce, main_loop
  PROVE  FinishedOnce'
<1>0. /\ dpc = "main" /\ up # <<>> /\ UNCHANGED <<serial, proc, pc, msg>>
  BY Zenon DEF main_loop, libVars
<1>1. Current' = Current /\ (Sending' <=> Sending)
  BY <1>0, Zenon DEF Current, Sending
<1>2. dserial = Current => Head(up).type \in Sends(proc)
  <2>1. up \in Seq(Messages) /\ (~Sending) \in BOOLEAN
    BY Zenon DEF TypeOK
  <2> QED  BY <1>0, <2>1, FollowsTail, Zenon DEF RequestOnce
<1>3. dserial = Current /\ proc \in FileIn => ~Carried
  BY <1>0, Zenon DEF FinishedOnce
<1>4. CASE Head(up).type = "request"
  <2>1. dserial # Current
    BY <1>2, <1>4, Zenon DEF Sends, Chunks
  <2>2. outcome.serial # Current /\ dpc' = "stub" /\ outcome' = outcome
    BY <1>4, <2>1, Zenon DEF FinishedOnce, main_loop, DGoto
  <2>3. ~Carried'
    BY <1>1, <2>2, Fields, Zenon DEF Carried
  <2> QED  BY <1>1, <2>2, <2>3, Zenon DEF FinishedOnce
<1>5. CASE Head(up).type # "request"
  <2>1. /\ UNCHANGED <<dserial, outcome>>
        /\ \/ dpc' \in {"main", "dead"}
           \/ Head(up).type = "data" /\ dpc' = "reply" /\ status' = "error"
    BY <1>0, <1>5, Zenon DEF main_loop, DGoto, Reply, job, daemonVars
  <2>2. Carried' <=> Carried
    BY <1>1, <2>1, Zenon DEF Carried
  <2>3. dserial = Current /\ Head(up).type = "data" => proc \in FileIn
    BY <1>2, Zenon DEF Sends
  <2>4. outcome.serial = Current /\ ~Carried => outcome.status = "error"
    BY CarriedIs, Zenon DEF TypeOK, Replies
  <2> QED  BY <1>0, <1>1, <1>3, <2>1, <2>2, <2>3, <2>4, Zenon DEF FinishedOnce
<1> QED  BY <1>4, <1>5, Zenon

\* The daemon answers.
LEMMA ReplyCall ==
  ASSUME TypeOK, RequestOnce, FinishedOnce, AnswerIsTrue, reply, TypeOK'
  PROVE  FinishedOnce' /\ AnswerIsTrue'
<1>0. /\ dpc = "reply" /\ UNCHANGED <<serial, proc, pc, msg, up, dserial, status>>
      /\ down' = Append(down, Message(status, proc_nr, dserial))
  BY Zenon DEF reply, libVars
<1>1. Current' = Current /\ (Sending' <=> Sending)
  BY <1>0, Zenon DEF Current, Sending
<1>2. ~Carried /\ (outcome.serial = Current => status = "error")
  BY <1>0, CarriedIs, Zenon DEF FinishedOnce
<1>3. \/ /\ proc_nr \in FileOut /\ status = "ok" /\ dpc' = "send" /\ outcome' = outcome
      \/ /\ proc_nr \notin FileOut \/ status # "ok"
         /\ dpc' = "main" /\ outcome'.serial = dserial /\ outcome'.status = status
  BY Fields, Zenon DEF reply, DGoto, Finished
<1>4. Carried' <=> outcome'.serial = Current /\ outcome'.status = "ok"
  <2>1. outcome' \in [serial : Nat, status : Replies]
    BY Zenon DEF TypeOK
  <2> QED  BY <1>1, <2>1 DEF Carried
<1>5. FinishedOnce'
  BY <1>0, <1>1, <1>2, <1>3, <1>4, Zenon DEF FinishedOnce
<1>6. AnswerIsTrue'
  <2> DEFINE m == Message(status, proc_nr, dserial)
  <2>1. m \in Messages /\ m.type = status /\ m.serial = dserial
    <3>1. status \in MessageTypes
      BY Zenon DEF TypeOK, MessageTypes
    <3>2. m \in Messages
      BY <3>1, WordsAreMessages, Zenon DEF TypeOK
    <3> QED  BY <3>2, Zenon DEF Message
  <2>2. status # "eof"
    BY Zenon DEF TypeOK, Replies
  <2>3. Confirms(m, Current) => Carried' \/ proc \in FileOut
    BY <1>3, <1>4, <2>1, Zenon DEF Confirms, RequestOnce
  <2> HIDE DEF m
  <2>4. down' = Append(down, m)
    BY <1>0, Zenon DEF m
  <2> QED  BY <1>0, <1>2, <2>1, <2>2, <2>3, <2>4, WroteAnswer, Zenon DEF Answers
<1> QED  BY <1>5, <1>6, Zenon

\* The daemon sends a chunk.
LEMMA SendChunkCall ==
  ASSUME TypeOK, PlaceInv, RequestOnce, FinishedOnce, AnswerIsTrue, send_chunk, TypeOK'
  PROVE  FinishedOnce' /\ AnswerIsTrue'
<1>0. /\ dpc \in {"chunk", "cancelled"}
      /\ UNCHANGED <<serial, proc, pc, msg, up, dserial, chunk>>
      /\ down' = Append(down, chunk)
  BY Zenon DEF send_chunk, libVars
<1>1. Current' = Current /\ (Sending' <=> Sending)
  BY <1>0, Zenon DEF Current, Sending
<1>2. /\ chunk \in {DataChunk, EofChunk, CancelChunk} /\ chunk \in Messages
      /\ dpc = "cancelled" => chunk = CancelChunk
      /\ proc_nr \in FileOut
  BY <1>0, WordsAreMessages, Zenon DEF PlaceInv
<1>3. ~Carried /\ (outcome.serial = Current => chunk = CancelChunk)
  BY <1>0, CarriedIs, Zenon DEF FinishedOnce
<1>4. \/ chunk.type = "data" /\ dpc' = "sent" /\ outcome' = outcome
      \/ /\ chunk.type = "eof" /\ dpc' = "main"
         /\ outcome'.serial = dserial /\ outcome'.status = "ok"
      \/ /\ chunk = CancelChunk /\ dpc' \in {"main", "chunk"}
         /\ outcome'.serial = dserial /\ outcome'.status = "error"
  <2>1. CASE chunk = DataChunk
    BY <2>1, WordTypes, Zenon DEF send_chunk, DGoto
  <2>2. CASE chunk = EofChunk
    <3>1. chunk.type = "eof" /\ dpc # "cancelled"
      BY <1>2, <2>2, WordTypes, Zenon
    <3>2. dpc' = "main" /\ outcome' = [serial |-> dserial, status |-> "ok"]
      BY <3>1, Zenon DEF send_chunk, DGoto, Finished
    <3> QED  BY <3>1, <3>2, Zenon
  <2>3. CASE chunk = CancelChunk
    <3>1. chunk.type = "cancel"
      BY <2>3, WordTypes, Zenon
    <3>2. dpc' \in {"main", "chunk"} /\ outcome' = [serial |-> dserial, status |-> "error"]
      BY <3>1, Zenon DEF send_chunk, DGoto, Finished
    <3> QED  BY <2>3, <3>2, Zenon
  <2> QED  BY <1>2, <2>1, <2>2, <2>3, Zenon
<1>5. Carried' <=> outcome'.serial = Current /\ outcome'.status = "ok"
  <2>1. outcome' \in [serial : Nat, status : Replies]
    BY Zenon DEF TypeOK
  <2> QED  BY <1>1, <2>1 DEF Carried
<1>6. dserial = Current => proc \notin FileIn
  BY <1>2, ProcKinds, Zenon DEF RequestOnce
<1>7. FinishedOnce'
  BY <1>0, <1>1, <1>2, <1>3, <1>4, <1>6, WordTypes, Zenon DEF FinishedOnce
<1>8. AnswerIsTrue'
  <2>1. chunk.type \notin Replies
    BY <1>2, WordTypes, Zenon DEF Replies
  <2>2. chunk.type = "eof" /\ dserial = Current => Carried'
    BY <1>4, <1>5, WordTypes, Zenon
  <2>3. ~Answers(chunk, Current) /\ ~Confirms(chunk, Current)
    BY <2>1, Zenon DEF Answers, Confirms, Replies
  <2> QED  BY <1>0, <1>2, <1>3, <2>2, <2>3, WroteAnswer, Zenon
<1> QED  BY <1>7, <1>8, Zenon

LEMMA DaemonSerials ==
  ASSUME TypeOK, SerialsInv, PlaceInv, DaemonStep \/ appliance_dies
  PROVE  SerialsInv'
<1>0. serial' = serial /\ dserial < serial /\ outcome.serial < serial
  BY DaemonLeaves, Zenon DEF libVars, SerialsInv
<1>1. CASE WorksOn \/ TakesOne \/ Tears
  BY <1>0, <1>1, SameSerials, Zenon DEF WorksOn, TakesOne, Tears
<1>2. CASE SaysWord
  <2>1. PICK m \in {LAUNCH, PROGRESS, CANCEL} : down' = Append(down, m)
    BY <1>2, Zenon DEF SaysWord
  <2>2. m \in Messages /\ m.serial < serial
    BY WordSerials, Zenon
  <2> QED  BY <1>0, <1>2, <2>1, <2>2, SameSerials, Zenon DEF SaysWord
<1>3. CASE main_loop
  <2>1. up # <<>> /\ up' = Tail(up) /\ down' = down
    BY <1>3, Zenon DEF main_loop
  <2>2. Head(up).serial < serial
    BY <2>1, Shift, Zenon DEF SerialsInv, TypeOK
  <2>3. dserial' \in {dserial, Head(up).serial} /\ outcome' = outcome
    BY <1>3, Zenon DEF main_loop, job, daemonVars
  <2>4. dserial' < serial
    BY <1>0, <2>2, <2>3, Zenon
  <2> QED  BY <1>0, <2>1, <2>3, <2>4, SameSerials, Zenon
<1>4. CASE reply
  <2>1. /\ down' = Append(down, Message(status, proc_nr, dserial)) /\ UNCHANGED <<up, dserial>>
        /\ outcome' = outcome \/ outcome' = [serial |-> dserial, status |-> status]
    BY <1>4, Zenon DEF reply, Finished
  <2>2. outcome'.serial \in {outcome.serial, dserial}
    BY <2>1, Fields, Zenon
  <2>3. Message(status, proc_nr, dserial) \in Messages
    BY WordsAreMessages, Zenon DEF TypeOK, MessageTypes
  <2>4. outcome'.serial < serial /\ Message(status, proc_nr, dserial).serial < serial
    <3>1. Message(status, proc_nr, dserial).serial = dserial
      BY Zenon DEF Message
    <3> QED  BY <1>0, <2>2, <3>1, Zenon
  <2> QED  BY <1>0, <2>1, <2>3, <2>4, SameSerials, Zenon
<1>5. CASE send_chunk
  <2>1. /\ down' = Append(down, chunk) /\ UNCHANGED <<up, dserial>>
        /\ \/ outcome' = outcome
           \/ \E s : outcome' = [serial |-> dserial, status |-> s]
    BY <1>5, Zenon DEF send_chunk, Finished
  <2>2. outcome'.serial \in {outcome.serial, dserial}
    BY <2>1, Fields, Zenon
  <2>3. chunk \in Messages /\ chunk.serial < serial
    BY <1>5, WordSerials, Zenon DEF send_chunk, PlaceInv
  <2>4. outcome'.serial < serial
    BY <1>0, <2>2, Zenon
  <2> QED  BY <1>0, <2>1, <2>3, <2>4, SameSerials, Zenon
<1>6. CASE appliance_dies
  BY <1>0, <1>6, SameSerials, Zenon DEF appliance_dies, job
<1> QED  BY <1>1, <1>2, <1>3, <1>4, <1>5, <1>6, DaemonCases, Zenon

LEMMA DaemonTorn ==
  ASSUME TypeOK, PlaceInv, TornInv, DaemonStep \/ appliance_dies
  PROVE  TornInv'
<1>0. /\ UNCHANGED pc /\ up \in Seq(Messages) /\ down \in Seq(Messages)
      /\ TornFirst(up) /\ TornFirst(down) /\ (Receiving' <=> Receiving)
  BY DaemonLeaves, Zenon DEF TypeOK, TornInv, libVars, Receiving
<1>1. CASE up' = up /\ proc_nr' = proc_nr /\ down' = down
  BY <1>0, <1>1, Zenon DEF TornInv
<1>2. ASSUME up' = up, proc_nr' = proc_nr,
             NEW m \in Messages, m.type # "torn", down' = Append(down, m)
      PROVE  TornInv'
  BY <1>0, <1>2, TornKept, Zenon DEF TornInv
<1>3. CASE up # <<>> /\ up' = Tail(up) /\ down' = down
  BY <1>0, <1>3, TornKept, Zenon DEF TornInv
<1>4. CASE Tears
  <2>1. proc_nr' \notin FileIn
    <3>1. CASE dpc = "send"
      BY <1>4, <3>1, ProcKinds, Zenon DEF Tears, PlaceInv
    <3>2. CASE Head(up).type = "torn"
      <4>1. ~Whole(up)
        BY <1>0, <1>4, <3>2, Shift, Zenon DEF Tears, Whole
      <4> QED  BY <1>4, <4>1, Zenon DEF Tears, TornInv
    <3> QED  BY <1>4, <3>1, <3>2, Zenon DEF Tears
  <2> QED  BY <1>0, <1>4, <2>1, TornKept, Zenon DEF Tears, TornInv
<1>5. CASE up' = <<>> /\ UNCHANGED <<down, proc_nr>>
  BY <1>0, <1>5, TornKept, Zenon DEF TornInv
<1>6. CASE SaysWord
  <2>1. PICK m \in {LAUNCH, PROGRESS, CANCEL} : down' = Append(down, m)
    BY <1>6, Zenon DEF SaysWord
  <2>2. m \in Messages /\ m.type # "torn"
    BY WordsAreMessages, WordTypes, Zenon
  <2> QED  BY <1>2, <1>6, <2>1, <2>2, Zenon DEF SaysWord
<1>7. CASE reply
  <2>1. /\ down' = Append(down, Message(status, proc_nr, dserial)) /\ UNCHANGED <<up, proc_nr>>
        /\ status \in Replies
    BY <1>7, Zenon DEF reply, TypeOK
  <2>2. Message(status, proc_nr, dserial) \in Messages
    BY WordsAreMessages, Zenon DEF TypeOK, MessageTypes
  <2>3. Message(status, proc_nr, dserial).type # "torn"
    BY <2>1, Zenon DEF Replies, Message
  <2> QED  BY <1>2, <2>1, <2>2, <2>3, Zenon
<1>8. CASE send_chunk
  <2>1. /\ down' = Append(down, chunk) /\ UNCHANGED <<up, proc_nr>>
        /\ chunk \in {DataChunk, EofChunk, CancelChunk}
    BY <1>8, Zenon DEF send_chunk, PlaceInv
  <2>2. chunk \in Messages /\ chunk.type # "torn"
    BY <2>1, WordsAreMessages, WordTypes, Zenon
  <2> QED  BY <1>2, <2>1, <2>2, Zenon
<1>9. CASE main_loop
  BY <1>3, <1>9, Zenon DEF main_loop
<1>10. CASE appliance_dies
  BY <1>5, <1>10, Zenon DEF appliance_dies, job
<1> QED
  BY <1>1, <1>3, <1>4, <1>6, <1>7, <1>8, <1>9, <1>10, DaemonCases, Zenon DEF WorksOn, TakesOne

LEMMA DaemonCall ==
  ASSUME CallInv, TypeOK', DaemonStep \/ appliance_dies
  PROVE  CallInv'
<1>0. /\ TypeOK /\ SerialsInv /\ PlaceInv
      /\ UNCHANGED <<serial, proc, pc, msg>>
      /\ SerialsInv' /\ TornInv' /\ PlaceInv'
  BY DaemonLeaves, DaemonSerials, DaemonTorn, DaemonPlace, Zenon DEF CallInv, libVars
<1>1. /\ Current' = Current /\ (Sending' <=> Sending) /\ (Unsent' <=> Unsent)
      /\ (AwaitsFile' <=> AwaitsFile)
  BY <1>0, Zenon DEF Current, Sending, Unsent, AwaitsFile
<1> SUFFICES ASSUME proc # NoProc PROVE RequestOnce' /\ FinishedOnce' /\ AnswerIsTrue'
  BY <1>0, Zenon DEF CallInv
<1>2. RequestOnce /\ FinishedOnce /\ AnswerIsTrue
  BY Zenon DEF CallInv
<1>3. CASE WorksOn
  <2>1. RequestOnce'
    BY <1>0, <1>1, <1>2, <1>3, SameRequest, Zenon DEF WorksOn
  <2>2. AnswerIsTrue'
    <3>1. Carried => Carried'
      BY <1>1, <1>3, Zenon DEF WorksOn, Carried
    <3> QED  BY <1>0, <1>1, <1>2, <1>3, <3>1, SameAnswers, Zenon DEF WorksOn
  <2>3. ASSUME dserial = Current, proc \in FileIn,
               dpc' = "received" \/ (dpc' = "reply" /\ status' = "ok")
        PROVE  up' = <<>> /\ ~Sending
    BY <1>2, <1>3, <2>3, Zenon DEF WorksOn, RequestOnce, FinishedOnce
  <2>4. FinishedOnce'
    BY <1>0, <1>2, <1>3, <2>3, NotFinished, Zenon DEF WorksOn
  <2> QED  BY <2>1, <2>2, <2>4, Zenon
<1>4. CASE SaysWord
  <2>1. RequestOnce'
    BY <1>0, <1>1, <1>2, <1>4, SameRequest, Zenon DEF SaysWord
  <2>2. AnswerIsTrue'
    <3>1. PICK m \in {LAUNCH, PROGRESS, CANCEL} : down' = Append(down, m)
      BY <1>4, Zenon DEF SaysWord
    <3>2. m \in Messages /\ m.type \notin {"ok", "error", "eof"}
      BY WordsAreMessages, WordTypes, Zenon
    <3>3. ~Answers(m, Current) /\ ~Confirms(m, Current) /\ m.type # "eof"
      BY <3>2, Zenon DEF Answers, Confirms, Replies
    <3>4. Carried => Carried'
      BY <1>1, <1>4, Zenon DEF SaysWord, Carried
    <3> QED  BY <1>0, <1>2, <1>4, <3>1, <3>2, <3>3, <3>4, WroteAnswer, Zenon DEF SaysWord
  <2>3. FinishedOnce'
    BY <1>0, <1>2, <1>4, NotFinished, Zenon DEF SaysWord
  <2> QED  BY <2>1, <2>2, <2>3, Zenon
<1>5. CASE TakesOne
  <2>1. RequestOnce'
    BY <1>0, <1>2, <1>5, TookMessage, Zenon DEF TakesOne
  <2>2. AnswerIsTrue'
    <3>1. Carried => Carried'
      BY <1>1, <1>5, Zenon DEF TakesOne, Carried
    <3> QED  BY <1>0, <1>1, <1>2, <1>5, <3>1, SameAnswers, Zenon DEF TakesOne
  <2>3. dserial = Current /\ dpc' = "received" => up' = <<>> /\ ~Sending
    <3>1. up \in Seq(Messages) /\ (~Sending) \in BOOLEAN
      BY <1>0, Zenon DEF TypeOK
    <3> QED  BY <1>2, <1>5, <3>1, FollowsTail, Zenon DEF TakesOne, RequestOnce, EndOfFile
  <2>4. FinishedOnce'
    BY <1>0, <1>2, <1>5, <2>3, NotFinished, Zenon DEF TakesOne
  <2> QED  BY <2>1, <2>2, <2>4, Zenon
<1>6. CASE main_loop
  <2>1. /\ up # <<>> /\ up' = Tail(up) /\ UNCHANGED <<down, outcome>>
        /\ \/ UNCHANGED <<dserial, proc_nr>>
           \/ /\ Head(up).type = "request"
              /\ dserial' = Head(up).serial /\ proc_nr' = Head(up).proc
    BY <1>6, Zenon DEF main_loop, job, daemonVars
  <2>2. RequestOnce'
    BY <1>0, <1>2, <2>1, TookMessage, Zenon
  <2>3. AnswerIsTrue'
    <3>1. Carried => Carried'
      BY <1>1, <2>1, Zenon DEF Carried
    <3>2. dserial = Current => dserial' = Current
      <4>1. up \in Seq(Messages) /\ (~Sending) \in BOOLEAN
        BY <1>0, Zenon DEF TypeOK
      <4>2. dserial = Current => Head(up).type \in Sends(proc)
        BY <1>2, <2>1, <4>1, FollowsTail, Zenon DEF RequestOnce
      <4> QED  BY <2>1, <4>2, Zenon DEF Sends, Chunks
    <3> QED  BY <1>0, <1>1, <1>2, <2>1, <3>1, <3>2, SameAnswers, Zenon
  <2> QED  BY <1>0, <1>2, <1>6, <2>2, <2>3, MainLoopCall, Zenon
<1>7. CASE reply
  <2>1. RequestOnce'
    <3>1. UNCHANGED <<up, dserial, proc_nr>>
      BY <1>7, Zenon DEF reply
    <3> QED  BY <1>0, <1>1, <1>2, <3>1, SameRequest, Zenon
  <2> QED  BY <1>0, <1>2, <1>7, <2>1, ReplyCall, Zenon
<1>8. CASE send_chunk
  <2>1. RequestOnce'
    <3>1. UNCHANGED <<up, dserial, proc_nr>>
      BY <1>8, Zenon DEF send_chunk
    <3> QED  BY <1>0, <1>1, <1>2, <3>1, SameRequest, Zenon
  <2> QED  BY <1>0, <1>2, <1>8, <2>1, SendChunkCall, Zenon
<1>9. CASE appliance_dies
  <2>1. up' = <<>> /\ dpc' = "dead" /\ UNCHANGED <<down, proc_nr, dserial, outcome>>
    BY <1>9, Zenon DEF appliance_dies, job, DGoto
  <2>2. RequestOnce'
    BY <1>0, <1>1, <1>2, <2>1, ClearedRequest, Zenon
  <2>3. Carried' <=> Carried
    BY <1>1, <2>1, Zenon DEF Carried
  <2>4. FinishedOnce'
    BY <1>0, <1>1, <1>2, <2>1, <2>3, Zenon DEF FinishedOnce
  <2>5. AnswerIsTrue'
    BY <1>0, <1>1, <1>2, <2>1, <2>3, SameAnswers, Zenon
  <2> QED  BY <2>2, <2>4, <2>5, Zenon
<1>10. CASE Tears
  <2>1. dserial # Current
    <3> SUFFICES ASSUME dserial = Current PROVE FALSE
      OBVIOUS
    <3>1. proc_nr = proc /\ Head(up).type \in Sends(proc)
      <4>1. up \in Seq(Messages) /\ (~Sending) \in BOOLEAN
        BY <1>0, Zenon DEF TypeOK
      <4> QED  BY <1>2, <1>10, <4>1, FollowsTail, Zenon DEF RequestOnce, Tears
    <3>2. Head(up).type # "torn"
      BY <3>1, Zenon DEF Sends, Chunks
    <3>3. dpc = "send" => Head(up).type = "CANCEL"
      BY <1>0, <3>1, ProcKinds, Zenon DEF PlaceInv, Sends
    <3> QED  BY <1>10, <3>2, <3>3, Zenon DEF Tears
  <2>2. RequestOnce'
    BY <1>0, <1>2, <1>10, <2>1, SlidRequest, Zenon DEF Tears
  <2>3. outcome.serial # Current /\ outcome' = outcome /\ dserial' = dserial
    BY <1>2, <1>10, <2>1, Zenon DEF FinishedOnce, Tears
  <2>4. ~Carried /\ ~Carried'
    BY <1>1, <2>3, Fields, Zenon DEF Carried
  <2>5. FinishedOnce'
    BY <1>0, <1>1, <2>1, <2>3, <2>4, Zenon DEF FinishedOnce
  <2>6. AnswerIsTrue'
    BY <1>0, <1>1, <1>2, <1>10, <2>3, <2>4, SameAnswers, Zenon DEF Tears
  <2> QED  BY <2>2, <2>5, <2>6, Zenon
<1> QED  BY <1>0, <1>3, <1>4, <1>5, <1>6, <1>7, <1>8, <1>9, <1>10, DaemonCases, Zenon

\* Whatever the handlers do, the call in progress and its answer belong together.
THEOREM CallInvariance == Spec => []CallInv
<1>1. Init => CallInv
  <2> SUFFICES ASSUME Init PROVE CallInv
    OBVIOUS
  <2>1. SerialsInv
    BY DEF Init, SerialsInv
  <2>2. PlaceInv
    BY Zenon DEF Init, PlaceInv, Sending, Receiving
  <2>3. proc = NoProc
    BY Zenon DEF Init
  <2>4. TornInv
    BY DEF Init, TornInv, TornFirst, Whole
  <2> QED  BY <2>1, <2>2, <2>3, <2>4, InitType, Zenon DEF CallInv
<1>2. CallInv /\ [Next]_vars => CallInv'
  <2> SUFFICES ASSUME CallInv, [Next]_vars PROVE CallInv'
    OBVIOUS
  <2>1. TypeOK'
    BY NextType, Zenon DEF CallInv
  <2>2. CASE Next
    BY <2>1, <2>2, LibraryCall, CallerCall, DaemonCall, Zenon DEF Next
  <2>3. CASE UNCHANGED vars
    BY <2>1, <2>3, SameCall, Zenon DEF vars, libVars, daemonVars, job
  <2> QED  BY <2>2, <2>3, Zenon
<1> QED  BY <1>1, <1>2, PTL DEF Spec

-----------------------------------------------------------------------------
(* Each step is a step of RPC. *)

\* A step that makes no difference to the abstract variables.
LEMMA Stutters ==
  ASSUME UNCHANGED <<serial, proc, outcome>>, Calling' <=> Calling,
         ~Calling => (proc = NoProc \/ UNCHANGED ret)
  PROVE  UNCHANGED rpc!vars
BY Zenon DEF rpc!vars

\* A step of the library that ends a call.
LEMMA Returns ==
  ASSUME PlaceInv, Calling, pc' = "idle", UNCHANGED <<serial, proc, outcome>>,
         ret' \in Replies, ret' = "ok" => Carried
  PROVE  \E s \in rpc!Results : rpc!Return(s)
<1>1. proc # NoProc /\ ~Calling' /\ proc' # NoProc
  BY Zenon DEF Calling, PlaceInv
<1>2. ret' \in rpc!Results
  BY Zenon DEF Replies, rpc!Results
<1>3. rpc!Return(ret')
  BY <1>1 DEF rpc!Return, Carried, Current
<1> QED  BY <1>2, <1>3, Zenon

\* What a library step may return.
LEMMA LibraryReturns ==
  ASSUME CallInv, TypeOK', LibraryStep, pc # "launch"
  PROVE  Calling' \/ (pc' = "idle" /\ ret' \in Replies /\ (ret' = "ok" => Carried))
<1> USE DEF Calling, Goto, Return, Replies
<1>0. TypeOK /\ PlaceInv
  BY Zenon DEF CallInv
<1>1. CASE check_daemon_socket
  BY <1>0, <1>1, Zenon DEF check_daemon_socket, CheckNothing, CheckProgress, CheckCancel,
              CheckLost, CheckTorn, CheckEof, DaemonCancelled, Unwind, TypeOK
<1>2. CASE write_data
  BY <1>0, <1>2, Zenon DEF write_data, Unwind, Written, TypeOK
<1>3. CASE send_file_open \/ send_file_read \/ send_file_eof
  BY <1>3, Zenon DEF send_file_open, send_file_read, send_file_eof, CancelTransfer
<1>4. CASE guestfs_int_recv
  <2>0. pc = "reply"
    BY <1>4, Zenon DEF guestfs_int_recv
  <2>1. CASE RecvProgress \/ RecvSkipCancel
    BY <2>0, <2>1, Zenon DEF RecvProgress, RecvSkipCancel
  <2>2. CASE RecvFails \/ RecvUnexpected(Chunks \cup {"LAUNCH"}) \/ RecvTorn
    BY <2>0, <2>2, Zenon DEF RecvFails, RecvUnexpected, RecvTorn
  <2>3. CASE RecvReply
    <3>1. down # <<>> /\ Head(down).type \in {"ok", "error"}
      BY <2>3, Zenon DEF RecvReply, Reads
    <3>2. \/ pc' = "idle" /\ ret' = "error"
          \/ pc' = "recv_open"
          \/ /\ pc' = "idle" /\ ret' = "ok" /\ proc \notin FileOut
             /\ Confirms(Head(down), Current)
      BY <2>3, <3>1, Zenon DEF RecvReply, Confirms, Current
    <3>3. proc \notin FileOut /\ Confirms(Head(down), Current) => Carried
      <4>1. Head(down) = down[1] /\ 1 \in 1 .. Len(down)
        BY <1>0, <3>1, Shift, Zenon DEF TypeOK
      <4>2. proc # NoProc
        BY <1>0, <2>0, Zenon DEF PlaceInv
      <4> QED  BY <4>1, <4>2, Zenon DEF CallInv, AnswerIsTrue
    <3> QED  BY <3>2, <3>3, Zenon
  <2> QED  BY <1>4, <2>1, <2>2, <2>3, Zenon DEF guestfs_int_recv
<1>5. CASE guestfs_int_recv_discard
  BY <1>5, Zenon DEF guestfs_int_recv_discard, RecvProgress, RecvSkipCancel, RecvTorn, RecvFails
<1>6. CASE recv_file_open \/ recv_file_cancel
  BY <1>6, Zenon DEF recv_file_open, recv_file_cancel
<1>7. CASE recv_file
  <2>0. pc = "recv"
    BY <1>7, Zenon DEF recv_file
  <2>1. CASE RecvProgress \/ RecvData
    BY <2>0, <2>1, Zenon DEF RecvProgress, RecvData
  <2>2. CASE RecvFails \/ RecvUnexpected(Replies \cup {"LAUNCH", "CANCEL"})
    BY <2>2, Zenon DEF RecvFails, RecvUnexpected
  <2>3. CASE RecvEnd
    <3>1. \/ pc' = "idle" /\ ret' = "error"
          \/ down # <<>> /\ Head(down).type = "eof" /\ pc' = "idle" /\ ret' = "ok"
      BY <2>3, Zenon DEF RecvEnd, Reads
    <3>2. down # <<>> /\ Head(down).type = "eof" => Carried
      <4>1. down # <<>> => Head(down) = down[1] /\ 1 \in 1 .. Len(down)
        BY <1>0, Shift, Zenon DEF TypeOK
      <4>2. proc # NoProc /\ AwaitsFile
        BY <1>0, <2>0, Zenon DEF PlaceInv, AwaitsFile
      <4> QED  BY <4>1, <4>2, Zenon DEF CallInv, AnswerIsTrue
    <3> QED  BY <3>1, <3>2, Zenon
  <2> QED  BY <1>7, <2>1, <2>2, <2>3, Zenon DEF recv_file
<1>8. CASE recv_file_drain
  BY <1>8, Zenon DEF recv_file_drain, RecvProgress, RecvUnexpected, RecvFails
<1>9. ~launch_recv
  BY Zenon DEF launch_recv
<1> QED
  BY <1>1, <1>2, <1>3, <1>4, <1>5, <1>6, <1>7, <1>8, <1>9, Zenon DEF LibraryStep

LEMMA LibrarySimulates ==
  ASSUME CallInv, TypeOK', LibraryStep
  PROVE  rpc!Next \/ UNCHANGED rpc!vars
<1>0. PlaceInv /\ UNCHANGED <<serial, proc, outcome>>
  BY LibraryCases, Zenon DEF CallInv
<1>1. CASE pc = "launch"
  <2>1. pc' \in {"launch", "idle"}
    BY ZenonT(30), <1>1
       DEF LibraryStep, launch_recv, check_daemon_socket, write_data, send_file_open,
           send_file_read, send_file_eof, guestfs_int_recv, guestfs_int_recv_discard,
           recv_file_open, recv_file, recv_file_cancel, recv_file_drain, Return
  <2>2. proc = NoProc /\ ~Calling /\ ~Calling'
    BY <1>0, <1>1, <2>1, Zenon DEF PlaceInv, Calling
  <2> QED  BY <1>0, <2>2, Stutters, Zenon
<1>2. CASE pc # "launch"
  <2>1. Calling
    BY ZenonT(30), <1>2
       DEF LibraryStep, launch_recv, check_daemon_socket, write_data, send_file_open,
           send_file_read, send_file_eof, guestfs_int_recv, guestfs_int_recv_discard,
           recv_file_open, recv_file, recv_file_cancel, recv_file_drain, Calling
  <2> QED  BY <1>0, <1>2, <2>1, LibraryReturns, Returns, Stutters, Zenon DEF rpc!Next
<1> QED  BY <1>1, <1>2, Zenon

LEMMA CallerSimulates ==
  ASSUME CallInv, CallerStep
  PROVE  rpc!Next \/ UNCHANGED rpc!vars
<1>1. CASE launch
  <2>1. ~Calling /\ ~Calling' /\ proc' = NoProc
    BY <1>1, Zenon DEF launch, Goto, Calling
  <2>2. rpc!Launch
    BY <2>1, Zenon DEF rpc!Launch
  <2> QED  BY <2>2, Zenon DEF rpc!Next
<1>2. ASSUME NEW p \in Procs, guestfs_int_send(p) PROVE rpc!Next
  <2>1. /\ ~Calling /\ Calling' /\ serial' = serial + 1 /\ outcome' = outcome
    BY <1>2, Zenon DEF guestfs_int_send, Goto, Calling, daemonVars, job
  <2>2. outcome'.serial # serial' - 1
    BY <2>1 DEF CallInv, SerialsInv, TypeOK
  <2>3. rpc!Call
    BY <2>1, <2>2, Zenon DEF rpc!Call
  <2> QED  BY <2>3, Zenon DEF rpc!Next
<1>3. CASE guestfs_user_cancel
  <2>1. UNCHANGED <<serial, proc, outcome, pc, ret>>
    BY <1>3, Zenon DEF guestfs_user_cancel, daemonVars, job
  <2> QED  BY <2>1, Stutters, Zenon DEF Calling
<1> QED  BY <1>1, <1>2, <1>3, Zenon DEF CallerStep

\* What the daemon finishes is new to the caller, or it is an older request, or
\* it ends like the first time.
LEMMA DaemonSimulates ==
  ASSUME CallInv, TypeOK', DaemonStep \/ appliance_dies
  PROVE  rpc!Next \/ UNCHANGED rpc!vars
<1>0. UNCHANGED <<serial, proc, pc, ret>> /\ TypeOK /\ PlaceInv
  BY DaemonLeaves, Zenon DEF libVars, CallInv
<1>1. CASE UNCHANGED outcome
  BY <1>0, <1>1, Stutters, Zenon DEF Calling
<1>2. CASE proc = NoProc
  BY <1>0, <1>2, Zenon DEF rpc!vars, Calling
<1>3. CASE outcome' # outcome /\ proc # NoProc
  <2>0. FinishedOnce /\ (Calling' <=> Calling)
    BY <1>0, <1>3, Zenon DEF CallInv, Calling
  <2>1. \/ dpc = "reply" /\ outcome' = [serial |-> dserial, status |-> status]
        \/ /\ dpc \in {"chunk", "cancelled"}
           /\ outcome' = [serial |-> dserial,
                          status |-> IF chunk.type = "eof" THEN "ok" ELSE "error"]
    <3>1. reply \/ send_chunk
      BY <1>0, <1>3, DaemonCases, Zenon
         DEF WorksOn, SaysWord, TakesOne, Tears, main_loop, appliance_dies, job, daemonVars
    <3> QED  BY <1>3, <3>1, Zenon DEF reply, send_chunk, Finished
  <2>2. PICK s \in Replies : outcome' = [serial |-> dserial, status |-> s]
    BY <1>0, <2>1, Zenon DEF TypeOK, Replies
  <2>3. CASE dserial # Current
    <3>1. outcome.serial # serial - 1 /\ outcome'.serial # serial' - 1
      BY <1>0, <2>0, <2>2, <2>3, Zenon DEF FinishedOnce, Current
    <3> QED  BY <1>0, <2>0, <3>1, Zenon DEF rpc!vars
  <2>4. CASE dserial = Current /\ outcome.serial # Current
    <3>1. rpc!Execute(s)
      BY <1>0, <1>3, <2>0, <2>2, <2>4, Zenon DEF rpc!Execute, Current
    <3> QED  BY <3>1, Zenon DEF rpc!Next, rpc!Results, Replies
  <2>5. CASE dserial = Current /\ outcome.serial = Current
    <3>1. outcome.status = "error" /\ s = "error"
      BY <2>0, <2>1, <2>2, <2>5, WordTypes, Zenon DEF FinishedOnce
    <3>2. outcome' = outcome
      BY <1>0, <2>2, <2>5, <3>1, Zenon DEF TypeOK
    <3> QED  BY <1>3, <3>2, Zenon
  <2> QED  BY <2>3, <2>4, <2>5, Zenon
<1> QED  BY <1>1, <1>2, <1>3, Zenon

\* Whatever the handlers do, whatever fails and whatever is left on the socket,
\* a request is carried out at most once and a call returns success only when
\* the daemon carried out that very request successfully.
THEOREM Refinement == Spec => ImplementsRPC
<1>1. Init => rpc!Init
  BY Zenon DEF Init, rpc!Init, Calling
<1>2. CallInv /\ [Next]_vars => [rpc!Next]_rpc!vars
  <2> SUFFICES ASSUME CallInv, [Next]_vars PROVE rpc!Next \/ UNCHANGED rpc!vars
    OBVIOUS
  <2>1. TypeOK'
    BY NextType, Zenon DEF CallInv
  <2>2. CASE Next
    BY <2>1, <2>2, LibrarySimulates, CallerSimulates, DaemonSimulates, Zenon DEF Next
  <2>3. CASE UNCHANGED vars
    BY <2>3, Stutters, Zenon DEF vars, libVars, daemonVars, job, Calling
  <2> QED  BY <2>2, <2>3, Zenon
<1> QED  BY <1>1, <1>2, CallInvariance, PTL DEF Spec, ImplementsRPC, rpc!Spec
=============================================================================
