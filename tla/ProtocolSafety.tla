--------------------------- MODULE ProtocolSafety ---------------------------
(***************************************************************************)
(* Theorems about Protocol when every handler keeps to the protocol: the   *)
(* invariant IInv is inductive, so the two sides stay synchronized, and    *)
(* neither waits in vain unless both cancel, for every value of the        *)
(* constants.                                                              *)
(***************************************************************************)
EXTENDS ProtocolCall

(* Queues. *)

\* An empty queue.
LEMMA EmptyQueue ==
  /\ Types(<<>>) = {}
  /\ \A S : LastOnly(<<>>, S)
  /\ \A p, s : RequestInOrder(<<>>, p, s) /\ RepliesTo(<<>>, p, s)
BY DEF Types, LastOnly, RequestInOrder, RepliesTo

\* The only message of a queue is taken from it.
LEMMA TakeOnly ==
  ASSUME NEW q \in Seq(Messages), q # <<>>, Len(q) <= 1
  PROVE  Tail(q) = <<>>
<1>1. Tail(q) \in Seq(Messages) /\ Len(Tail(q)) = Len(q) - 1 /\ Len(q) \in Nat /\ Len(q) # 0
  OBVIOUS
<1>2. Len(q) = 1
  BY <1>1
<1>3. Len(Tail(q)) = 0
  BY <1>1, <1>2
<1> QED
  BY <1>1, <1>3, NoMessages, Zenon

\* A queue after a message is taken from it.
LEMMA Take ==
  ASSUME NEW q \in Seq(Messages), q # <<>>
  PROVE  /\ Types(q) = {Head(q).type} \cup Types(Tail(q))
         /\ \A S : LastOnly(q, S) => /\ LastOnly(Tail(q), S)
                                     /\ Head(q).type \in S => Tail(q) = <<>>
         /\ \A p, s : RepliesTo(q, p, s) =>
              /\ RepliesTo(Tail(q), p, s)
              /\ Head(q).type \in Replies => Head(q).proc = p /\ Head(q).serial = s
         /\ \A p, s : RequestInOrder(q, p, s) =>
              /\ RequestInOrder(Tail(q), p, s)
              /\ Head(q).type = "request" =>
                   /\ Head(q).proc = p /\ Head(q).serial = s
                   /\ Types(Tail(q)) \subseteq Chunks
              /\ Head(q).type \notin {"request", "CANCEL"} =>
                   "request" \notin Types(Tail(q))
<1>1. /\ Head(q) = q[1] /\ Len(q) \in Nat /\ Len(q) >= 1
      /\ Tail(q) \in Seq(Messages) /\ Len(Tail(q)) = Len(q) - 1
      /\ \A i \in 1 .. Len(Tail(q)) : Tail(q)[i] = q[i + 1]
  OBVIOUS
<1>2. \A i \in 1 .. Len(q) : i = 1 \/ (i - 1 \in 1 .. Len(Tail(q)) /\ q[i] = Tail(q)[i - 1])
  BY <1>1
<1>3. Len(Tail(q)) = 0 => Tail(q) = <<>>
  BY ZenonT(30), <1>1, NoMessages
<1> HIDE DEF Messages
<1>4. Types(q) = {Head(q).type} \cup Types(Tail(q))
  <2>1. ASSUME NEW t \in Types(q) PROVE t \in {Head(q).type} \cup Types(Tail(q))
    <3>1. PICK i \in 1 .. Len(q) : t = q[i].type  BY Zenon DEF Types
    <3>2. CASE i = 1  BY <1>1, <3>1, <3>2, Zenon
    <3>3. CASE i # 1
      <4>1. i - 1 \in 1 .. Len(Tail(q)) /\ t = Tail(q)[i - 1].type  BY <1>2, <3>1, <3>3, Zenon
      <4> QED  BY ZenonT(30), <4>1 DEF Types
    <3> QED  BY <3>2, <3>3, Zenon
  <2>2. ASSUME NEW t \in Types(Tail(q)) PROVE t \in Types(q)
    <3>1. PICK i \in 1 .. Len(Tail(q)) : t = Tail(q)[i].type  BY ZenonT(30) DEF Types
    <3>2. i + 1 \in 1 .. Len(q) /\ t = q[i + 1].type  BY <1>1, <3>1
    <3> QED  BY <3>2, Zenon DEF Types
  <2>3. Head(q).type \in Types(q)
    BY <1>1 DEF Types
  <2> QED  BY <2>1, <2>2, <2>3, Zenon
<1>5. ASSUME NEW S, LastOnly(q, S)
      PROVE  LastOnly(Tail(q), S) /\ (Head(q).type \in S => Tail(q) = <<>>)
  <2>1. \A i \in 1 .. Len(Tail(q)) - 1 : Tail(q)[i].type \notin S
    BY <1>1, <1>5 DEF LastOnly
  <2>2. Head(q).type \in S => Len(Tail(q)) = 0
    BY <1>1, <1>5 DEF LastOnly
  <2> QED  BY <1>3, <2>1, <2>2, Zenon DEF LastOnly
<1>6. ASSUME NEW p, NEW s, RepliesTo(q, p, s)
      PROVE  /\ RepliesTo(Tail(q), p, s)
             /\ Head(q).type \in Replies => Head(q).proc = p /\ Head(q).serial = s
  BY <1>1, <1>6 DEF RepliesTo
<1>7. ASSUME NEW p, NEW s, RequestInOrder(q, p, s)
      PROVE  /\ RequestInOrder(Tail(q), p, s)
             /\ Head(q).type = "request" =>
                  /\ Head(q).proc = p /\ Head(q).serial = s
                  /\ Types(Tail(q)) \subseteq Chunks
             /\ Head(q).type \notin {"request", "CANCEL"} =>
                  "request" \notin Types(Tail(q))
  <2>1. ASSUME NEW i \in 1 .. Len(Tail(q)), Tail(q)[i].type = "request"
        PROVE  /\ Tail(q)[i].proc = p /\ Tail(q)[i].serial = s
               /\ \A j \in 1 .. i - 1 : Tail(q)[j].type = "CANCEL"
               /\ \A j \in i + 1 .. Len(Tail(q)) : Tail(q)[j].type \in Chunks
               /\ Head(q).type = "CANCEL"
    <3>1. i + 1 \in 1 .. Len(q) /\ q[i + 1] = Tail(q)[i]  BY <1>1
    <3>2. /\ q[i + 1].proc = p /\ q[i + 1].serial = s
          /\ \A j \in 1 .. i : q[j].type = "CANCEL"
          /\ \A j \in i + 2 .. Len(q) : q[j].type \in Chunks
      BY <1>1, <1>7, <2>1, <3>1 DEF RequestInOrder
    <3> QED  BY <1>1, <3>1, <3>2
  <2>2. RequestInOrder(Tail(q), p, s)
    BY <2>1, Zenon DEF RequestInOrder
  <2>3. Head(q).type = "request" =>
          /\ Head(q).proc = p /\ Head(q).serial = s
          /\ \A j \in 2 .. Len(q) : q[j].type \in Chunks
    BY <1>1, <1>7 DEF RequestInOrder
  <2>4. Head(q).type = "request" => Types(Tail(q)) \subseteq Chunks
    BY <1>1, <2>3 DEF Types
  <2>5. Head(q).type \notin {"request", "CANCEL"} => "request" \notin Types(Tail(q))
    BY <2>1, Zenon DEF Types
  <2> QED  BY <2>2, <2>3, <2>4, <2>5, Zenon
<1> QED  BY <1>4, <1>5, <1>6, <1>7, Zenon

\* A queue after a message is added to it.
LEMMA Put ==
  ASSUME NEW q \in Seq(Messages), NEW m \in Messages
  PROVE  /\ Types(Append(q, m)) = Types(q) \cup {m.type}
         /\ Append(q, m) # <<>>
         /\ q = <<>> => Head(Append(q, m)) = m /\ Tail(Append(q, m)) = <<>>
         /\ q # <<>> => /\ Head(Append(q, m)) = Head(q)
                        /\ Types(Tail(Append(q, m))) = Types(Tail(q)) \cup {m.type}
         /\ \A S : Types(q) \cap S = {} => LastOnly(Append(q, m), S)
         /\ \A p, s : RepliesTo(q, p, s) /\ (m.type \in Replies => m.proc = p /\ m.serial = s)
                        => RepliesTo(Append(q, m), p, s)
         /\ \A p, s : RequestInOrder(q, p, s) /\ m.type \in Chunks
                        => RequestInOrder(Append(q, m), p, s)
         /\ \A p, s : Types(q) \subseteq {"CANCEL"} /\ m = Message("request", p, s)
                        => RequestInOrder(Append(q, m), p, s)
         /\ \A p, s : "request" \notin Types(q) /\ m.type # "request"
                        => RequestInOrder(Append(q, m), p, s)
<1> DEFINE a == Append(q, m)
<1>1. /\ a \in Seq(Messages) /\ Len(q) \in Nat /\ Len(a) = Len(q) + 1
      /\ a[Len(q) + 1] = m
      /\ \A i \in 1 .. Len(q) : a[i] = q[i]
  OBVIOUS
<1>2. \A i \in 1 .. Len(a) : i = Len(q) + 1 \/ i \in 1 .. Len(q)
  BY <1>1
<1>3. Types(a) = Types(q) \cup {m.type}
  <2>1. ASSUME NEW t \in Types(a) PROVE t \in Types(q) \cup {m.type}
    BY <1>1, <1>2, Zenon DEF Types
  <2>2. ASSUME NEW t \in Types(q) PROVE t \in Types(a)
    <3>1. PICK i \in 1 .. Len(q) : t = q[i].type  BY Zenon DEF Types
    <3>2. i \in 1 .. Len(a) /\ t = a[i].type  BY <1>1, <3>1
    <3> QED  BY <3>2, Zenon DEF Types
  <2>3. Len(a) \in 1 .. Len(a) /\ a[Len(a)].type = m.type  BY <1>1
  <2>4. m.type \in Types(a)  BY <2>3, Zenon DEF Types
  <2> HIDE DEF a
  <2> QED  BY <2>1, <2>2, <2>4, Zenon
<1>4. a # <<>> /\ (q = <<>> => Head(a) = m /\ Tail(a) = <<>>)
  OBVIOUS
<1>5. ASSUME q # <<>>
      PROVE  Head(a) = Head(q) /\ Types(Tail(a)) = Types(Tail(q)) \cup {m.type}
  <2>1. Head(a) = Head(q)  BY <1>5
  <2>2. /\ Len(q) >= 1 /\ Len(Tail(q)) = Len(q) - 1 /\ Len(Tail(a)) = Len(q)
        /\ \A i \in 1 .. Len(q) - 1 : Tail(a)[i] = Tail(q)[i]
        /\ Tail(a)[Len(q)] = m
    <3>1. /\ Len(q) >= 1 /\ Len(Tail(q)) = Len(q) - 1
          /\ \A i \in 1 .. Len(q) - 1 : Tail(q)[i] = q[i + 1]
      BY <1>1, <1>5
    <3>2. /\ Len(Tail(a)) = Len(q)
          /\ \A i \in 1 .. Len(q) : Tail(a)[i] = a[i + 1]
      BY <1>1, <1>4
    <3> HIDE DEF a
    <3> QED  BY <1>1, <3>1, <3>2
  <2> HIDE DEF a
  <2>3. ASSUME NEW t \in Types(Tail(a)) PROVE t \in Types(Tail(q)) \cup {m.type}
    <3>1. PICK i \in 1 .. Len(Tail(a)) : t = Tail(a)[i].type  BY ZenonT(30) DEF Types
    <3>2. i = Len(q) \/ i \in 1 .. Len(Tail(q))  BY <1>1, <2>2, <3>1
    <3> QED  BY <2>2, <3>1, <3>2, Zenon DEF Types
  <2>4. ASSUME NEW t \in Types(Tail(q)) PROVE t \in Types(Tail(a))
    <3>1. PICK i \in 1 .. Len(Tail(q)) : t = Tail(q)[i].type  BY Zenon DEF Types
    <3>2. i \in 1 .. Len(Tail(a)) /\ t = Tail(a)[i].type  BY <1>1, <2>2, <3>1
    <3> QED  BY <3>2, Zenon DEF Types
  <2>5. Len(q) \in 1 .. Len(Tail(a)) /\ m.type = Tail(a)[Len(q)].type  BY <1>1, <2>2
  <2>6. m.type \in Types(Tail(a))  BY <2>5, Zenon DEF Types
  <2> QED  BY <2>1, <2>3, <2>4, <2>6, Zenon
<1> HIDE DEF a
<1>6. ASSUME NEW S, Types(q) \cap S = {} PROVE LastOnly(a, S)
  BY <1>1, <1>2, <1>6 DEF LastOnly, Types
<1>7. ASSUME NEW p, NEW s, RepliesTo(q, p, s),
             m.type \in Replies => m.proc = p /\ m.serial = s
      PROVE  RepliesTo(a, p, s)
  BY <1>1, <1>2, <1>7, Zenon DEF RepliesTo
<1>8. ASSUME NEW p, NEW s, RequestInOrder(q, p, s), m.type \in Chunks
      PROVE  RequestInOrder(a, p, s)
  <2> SUFFICES ASSUME NEW i \in 1 .. Len(a), a[i].type = "request"
               PROVE  /\ a[i].proc = p /\ a[i].serial = s
                      /\ \A j \in 1 .. i - 1 : a[j].type = "CANCEL"
                      /\ \A j \in i + 1 .. Len(a) : a[j].type \in Chunks
    BY Zenon DEF RequestInOrder
  <2>1. i \in 1 .. Len(q)  BY <1>1, <1>2, <1>8, Zenon DEF Chunks
  <2>2. /\ q[i].proc = p /\ q[i].serial = s
        /\ \A j \in 1 .. i - 1 : q[j].type = "CANCEL"
        /\ \A j \in i + 1 .. Len(q) : q[j].type \in Chunks
    BY <1>1, <1>8, <2>1, Zenon DEF RequestInOrder
  <2> QED  BY <1>1, <1>2, <1>8, <2>1, <2>2
<1>9. ASSUME NEW p, NEW s, Types(q) \subseteq {"CANCEL"}, m = Message("request", p, s)
      PROVE  RequestInOrder(a, p, s)
  <2>1. \A i \in 1 .. Len(q) : a[i].type = "CANCEL"  BY ZenonT(30), <1>1, <1>9 DEF Types
  <2>2. m.proc = p /\ m.serial = s  BY <1>9, Zenon DEF Message
  <2> QED  BY <1>1, <1>2, <2>1, <2>2 DEF RequestInOrder
<1>10. ASSUME NEW p, NEW s, "request" \notin Types(q), m.type # "request"
       PROVE  RequestInOrder(a, p, s)
  BY <1>1, <1>2, <1>10, Zenon DEF RequestInOrder, Types
<1> QED  BY <1>3, <1>4, <1>5, <1>6, <1>7, <1>8, <1>9, <1>10, Zenon DEF a

-----------------------------------------------------------------------------
(* The steps of the caller and of the library preserve IInv. *)

\* After child_cleanup nothing is left of the appliance.
LEMMA CleanupInv ==
  ASSUME IInv, TypeOK', child_cleanup, UNCHANGED <<serial, proc>>,
         pc' \in {"idle", "reply", "discard"},
         pc' # "idle" => pc # "launch" /\ pc # "idle",
         pc' = "discard" => proc \in FileIn
  PROVE  IInv'
<1> TypeOK /\ LifeInv /\ LibraryInv /\ UpInv /\ DownInv /\ DaemonInv
  BY Zenon DEF IInv
<1> USE EmptyQueue DEF child_cleanup, job
<1>1. LifeInv'
  BY Zenon DEF LifeInv, Dead
<1>2. LibraryInv'
  BY Zenon DEF LibraryInv, Sending, Receiving
<1>3. UpInv' /\ DownInv'
  BY Zenon DEF UpInv, DownInv, Pending, Waiting
<1>4. DaemonInv'
  BY Zenon DEF DaemonInv, Sending, Quiet, Working, TakingFile, GivingFile
<1> QED  BY ONLY TypeOK', <1>1, <1>2, <1>3, <1>4, Zenon DEF IInv

LEMMA CallerInv ==
  ASSUME Procs \subseteq Disciplined, IInv, TypeOK', CallerStep
  PROVE  IInv'
<1> USE EmptyQueue, ProcKinds DEF IInv, Goto, Error, job
<1>1. CASE launch
  <2> USE <1>1 DEF launch
  <2>0. state = "CONFIG" /\ up = <<>> /\ down = <<>> /\ up' = up /\ down' = down
    BY Zenon DEF LifeInv
  <2>1. LifeInv' /\ LibraryInv'
    BY <2>0 DEF LifeInv, LibraryInv, Sending, Receiving, Dead
  <2>2. UpInv' /\ DownInv'
    BY SMTT(30), <2>0 DEF UpInv, DownInv, Pending, Waiting
  <2>3. DaemonInv'
    BY <2>0, Zenon DEF DaemonInv, Pending, Working, Sending,
                Quiet, TakingFile, GivingFile
  <2> QED  BY <2>1, <2>2, <2>3, Zenon
<1>2. ASSUME NEW p \in Procs, guestfs_int_send(p) PROVE IInv'
  <2> USE <1>2, WordTypes DEF guestfs_int_send, daemonVars
  <2>0. /\ down = <<>> /\ ~Pending /\ Types(up) \subseteq {"CANCEL"}
        /\ dpc \in {"main", "dead"} /\ up' = up /\ down' = down
        /\ serial \in Nat
    BY Zenon DEF DownInv, DaemonInv, UpInv, LifeInv, Quiet, TypeOK, Dead
  <2>1. LifeInv' /\ LibraryInv'
    BY <2>0 DEF LifeInv, LibraryInv, Sending, Receiving, Dead, Types
  <2>2. RequestInOrder(up, proc', serial' - 1)
    BY <2>0 DEF RequestInOrder, Pending, Types
  <2>3. UpInv' /\ DownInv'
    BY SMTT(30), <2>0, <2>2 DEF UpInv, DownInv, Pending, Waiting, Sending, Receiving, EndOfFile,
       Chunks
  <2>4. DaemonInv'
    BY <2>0 DEF DaemonInv, Pending, Working, Sending, Quiet, TakingFile, GivingFile
  <2> QED  BY <2>1, <2>3, <2>4, Zenon
<1>3. CASE guestfs_user_cancel
  <2> UNCHANGED <<state, serial, pc, proc, msg, up, down, dpc, proc_nr, dserial,
                  chunk>>
    BY <1>3, Zenon DEF guestfs_user_cancel, daemonVars
  <2>1. /\ Quiet' <=> Quiet
        /\ Sending' <=> Sending
        /\ Waiting' <=> Waiting
        /\ Receiving' <=> Receiving
        /\ Pending' <=> Pending
        /\ Working' <=> Working
        /\ Final' = Final
        /\ Dead' <=> Dead
    BY Zenon DEF Pending, Waiting, Sending, Receiving, Quiet, Working, Final, Dead
  <2>2. LifeInv' /\ LibraryInv' /\ UpInv'
    <3>1. LifeInv'
      BY <2>1, Zenon DEF LifeInv
    <3>2. LibraryInv'
      BY <2>1, Zenon DEF LibraryInv
    <3>3. UpInv'
      BY <2>1, Zenon DEF UpInv
    <3> QED
      BY <3>1, <3>2, <3>3, Zenon
  <2>3. DownInv'
    BY <2>1, Zenon DEF DownInv
  <2>4. DaemonInv'
    BY <2>1, ZenonT(30) DEF DaemonInv
  <2> QED  BY <2>2, <2>3, <2>4, Zenon
<1> QED  BY <1>1, <1>2, <1>3, Zenon DEF CallerStep

\* What a read from the socket takes away.
LEMMA ReadDown ==
  ASSUME TypeOK, down # <<>>
  PROVE  /\ Types(down) = {Head(down).type} \cup Types(Tail(down))
         /\ LastOnly(down, Final) => /\ LastOnly(Tail(down), Final)
                                     /\ Head(down).type \in Final => Tail(down) = <<>>
         /\ RepliesTo(down, proc, serial - 1) =>
              /\ RepliesTo(Tail(down), proc, serial - 1)
              /\ Head(down).type \in Replies =>
                   Head(down).proc = proc /\ Head(down).serial = serial - 1
BY Take, Zenon DEF TypeOK

\* Reading a progress message, a flag or data in the middle of a call.
LEMMA ReadOne ==
  ASSUME IInv, TypeOK', state = "READY", Reads({"PROGRESS", "CANCEL", "data"}),
         down' = Tail(down),
         UNCHANGED <<state, serial, pc, proc, msg, up, dpc, proc_nr, dserial, chunk>>
  PROVE  IInv'
<1> TypeOK /\ LifeInv /\ LibraryInv /\ UpInv /\ DownInv /\ DaemonInv
  BY Zenon DEF IInv
<1> USE ReadDown DEF Reads
<1>1. LifeInv' /\ LibraryInv'
  BY Zenon DEF LifeInv, LibraryInv, Sending, Receiving, Dead
<1>2. UpInv'
  BY Zenon DEF UpInv, Pending, Sending, Waiting
<1>3. DownInv'
  BY Zenon DEF DownInv, Quiet, Sending, Waiting, Receiving, Final, Replies, EndOfFile
<1>4. DaemonInv'
  BY Zenon DEF DaemonInv, DownInv, Quiet, Sending, Waiting, Receiving, Working, Pending, Replies
<1> QED  BY ONLY TypeOK', <1>1, <1>2, <1>3, <1>4, Zenon DEF IInv

\* Reading the last message of a call.
LEMMA ReadLast ==
  ASSUME IInv, TypeOK', state = "READY", Reads(Final), down' = Tail(down),
         Waiting \/ Receiving, pc' = "idle",
         UNCHANGED <<state, serial, proc, up, dpc, proc_nr, dserial, chunk>>
  PROVE  IInv'
<1> TypeOK /\ LifeInv /\ LibraryInv /\ UpInv /\ DownInv /\ DaemonInv
  BY Zenon DEF IInv
<1> USE ReadDown, EmptyQueue DEF Reads
<1>1. /\ down' = <<>> /\ dpc \in {"main", "dead"} /\ ~Pending
      /\ Types(up) \subseteq {"CANCEL"} /\ RequestInOrder(up, proc, serial - 1)
  BY Zenon DEF DownInv, UpInv, Waiting, Receiving, LifeInv, Dead, Pending
<1>2. LifeInv' /\ LibraryInv'
  BY <1>1, Zenon DEF LifeInv, LibraryInv, Sending, Receiving, Dead
<1>3. UpInv' /\ DownInv'
  BY ZenonT(30), <1>1 DEF UpInv, DownInv, Pending, Waiting, Sending, Receiving, EndOfFile, Chunks
<1>4. ~Pending' /\ ~Working' /\ ~Sending' /\ Types(down') = {}
  BY <1>1, Zenon DEF Pending, Working, Sending, TakingFile, GivingFile
<1>5. DaemonInv'
  BY <1>1, <1>4, Zenon DEF DaemonInv
<1> QED  BY ONLY TypeOK', <1>2, <1>3, <1>5, Zenon DEF IInv

LEMMA LaunchRecvInv ==
  ASSUME IInv, TypeOK', launch_recv
  PROVE  IInv'
<1> TypeOK /\ LifeInv /\ LibraryInv /\ UpInv /\ DownInv /\ DaemonInv
  BY Zenon DEF IInv
<1> USE EmptyQueue DEF launch_recv, Return, Error
<1>1. CASE ReadsEof /\ child_cleanup
  BY <1>1, CleanupInv, Zenon
<1>2. CASE /\ Reads({"LAUNCH"}) /\ down' = Tail(down)
           /\ state' = "READY" /\ pc' = "idle" /\ UNCHANGED <<up, daemonVars>>
  <2> USE <1>2 DEF daemonVars, job
  <2>1. state = "LAUNCHING" /\ up = <<>> /\ dpc \in {"main", "dead"} /\ Len(down) <= 1
    BY Zenon DEF LifeInv, Reads, LibraryInv, TypeOK
  <2>2. down' = <<>> /\ state' = "READY" /\ pc' = "idle"
    <3>1. down \in Seq(Messages) /\ down # <<>> /\ Tail(down) \in Seq(Messages)
      BY TakeType, Zenon DEF Reads, TypeOK
    <3> QED
      BY <2>1, <3>1, TakeOnly, Zenon
  <2>3. LifeInv' /\ LibraryInv'
    BY <2>1, <2>2, Zenon DEF LifeInv, LibraryInv, Sending, Receiving, Dead
  <2>4. UpInv' /\ DownInv'
    <3>1. up' = <<>> /\ down' = <<>> /\ pc' = "idle"  BY <2>1, <2>2, Zenon
    <3>2. UpInv'
      BY ONLY <3>1, EmptyQueue, Zenon DEF UpInv, Pending
    <3> QED
      BY ONLY <3>1, <3>2, EmptyQueue, Zenon DEF DownInv, Waiting, Sending, Receiving
  <2>5. DaemonInv'
    BY ZenonT(30), <2>1, <2>2 DEF DaemonInv, Pending, Working,
       Sending,
                      Quiet, TakingFile, GivingFile
  <2> QED  BY ONLY TypeOK', <2>3, <2>4, <2>5, Zenon DEF IInv
<1> QED  BY <1>1, <1>2, Zenon

\* Nothing on the socket is torn, so nothing torn is ever read.
LEMMA Synced ==
  ASSUME IInv
  PROVE  InSync
<1> TypeOK /\ LifeInv /\ LibraryInv /\ UpInv /\ DownInv /\ DaemonInv
  BY Zenon DEF IInv
<1>1. "torn" \notin Types(up)
  BY Zenon DEF UpInv, EndOfFile
<1>2. "torn" \notin Types(down)
  <2>1. CASE state # "READY"
    BY <2>1, EmptyQueue, Zenon DEF LifeInv, TypeOK
  <2>2. CASE down = <<>>
    BY <2>2, EmptyQueue, Zenon
  <2>3. CASE state = "READY" /\ down # <<>>
    <3>1. Sending \/ Waiting \/ Receiving
      BY <2>3, Zenon DEF LifeInv, DownInv, TypeOK, LibraryAt, Quiet, Sending, Waiting, Receiving
    <3>2. Types(down) = {Head(down).type} \cup Types(Tail(down))
      BY <2>3, Take, Zenon DEF TypeOK
    <3> QED
      BY <2>3, <3>1, <3>2, Zenon DEF DownInv, Chunks, Replies
  <2> QED  BY <2>1, <2>2, <2>3, Zenon
<1> QED  BY <1>1, <1>2, Zenon DEF InSync, Whole, Types

LEMMA NothingTorn ==
  ASSUME IInv
  PROVE  /\ ~Reads({"torn"}) /\ ~Receives({"torn"})
         /\ down # <<>> => Rest(down) = {Tail(down)}
         /\ up # <<>> => Rest(up) = {Tail(up)}
         /\ ~CheckTorn /\ ~RecvTorn /\ ~main_loop_torn
<1>1. TypeOK /\ Whole(up) /\ Whole(down)
  BY Synced, Zenon DEF IInv, InSync
<1>2. ASSUME NEW q \in Seq(Messages), q # <<>>, Whole(q)
      PROVE  Head(q).type # "torn"
  BY <1>2 DEF Whole
<1>3. /\ down # <<>> => Head(down).type # "torn"
      /\ up # <<>> => Head(up).type # "torn"
  BY <1>1, <1>2, Zenon DEF TypeOK
<1>4. ~Reads({"torn"}) /\ ~Receives({"torn"})
  BY <1>3, Zenon DEF Reads, Receives
<1> QED
  BY <1>3, <1>4, Zenon DEF Rest, CheckTorn, RecvTorn, main_loop_torn

\* While the socket is in step a write never meets anything but the flags.
LEMMA NothingLost ==
  ASSUME IInv, pc = "check"
  PROVE  ~CheckLost
<1> TypeOK /\ LifeInv /\ DownInv
  BY Zenon DEF IInv
<1>1. state = "READY" /\ (Quiet \/ Sending)
  <2>1. state \in {"CONFIG", "LAUNCHING", "READY"}  BY Zenon DEF TypeOK
  <2> QED  BY <2>1, Zenon DEF LifeInv, Quiet, Sending
<1> QED
  BY ZenonT(30), <1>1, ReadDown DEF CheckLost, DownInv, Reads

LEMMA CheckForm ==
  ASSUME IInv, check_daemon_socket
  PROVE  /\ CheckNothing \/ CheckProgress \/ CheckCancel \/ CheckEof
         /\ pc = "check" /\ UNCHANGED <<serial, user_cancel, proc, moved, launches>>
BY NothingTorn, NothingLost, Zenon DEF check_daemon_socket

LEMMA RecvForm ==
  ASSUME IInv, guestfs_int_recv
  PROVE  /\ RecvProgress \/ RecvSkipCancel \/ RecvReply \/ RecvFails
              \/ RecvUnexpected(Chunks \cup {"LAUNCH"})
         /\ pc = "reply" /\ UNCHANGED <<serial, user_cancel, proc, msg, after, moved, launches>>
BY NothingTorn, Zenon DEF guestfs_int_recv

\* The reply that guestfs_int_recv_discard throws away.
RecvAny ==
  /\ conn
  /\ Reads(MessageTypes \ {"PROGRESS", "CANCEL"})
  /\ down' = Tail(down)
  /\ Return("error")
  /\ UNCHANGED <<state, errnum, up, daemonVars>>

LEMMA DiscardForm ==
  ASSUME IInv, guestfs_int_recv_discard
  PROVE  /\ RecvProgress \/ RecvSkipCancel \/ RecvAny \/ RecvFails
         /\ pc = "discard" /\ UNCHANGED <<serial, user_cancel, proc, msg, after, moved, launches>>
<1>1. Reads(MessageTypes \ {"PROGRESS", "CANCEL"}) /\ down' \in Rest(down) => down' = Tail(down)
  BY NothingTorn, Zenon DEF Reads
<1> QED
  BY <1>1, NothingTorn, Zenon DEF guestfs_int_recv_discard, RecvAny

LEMMA CheckInv ==
  ASSUME IInv, TypeOK', check_daemon_socket
  PROVE  IInv'
<1> TypeOK /\ LifeInv /\ LibraryInv /\ UpInv /\ DownInv /\ DaemonInv
  BY Zenon DEF IInv
<1> pc = "check" /\ UNCHANGED <<serial, proc>>
  BY Zenon DEF check_daemon_socket
<1> USE DEF Goto, Error
<1>0. state = "READY" /\ (Quiet \/ Sending)
  <2>1. state \in {"CONFIG", "LAUNCHING", "READY"}  BY Zenon DEF TypeOK
  <2> QED  BY <2>1, Zenon DEF LifeInv, Quiet, Sending
<1>1. CASE CheckNothing
  <2> UNCHANGED <<state, serial, proc, msg, up, down, dpc, proc_nr, dserial, chunk>>
    BY <1>1, Zenon DEF CheckNothing, daemonVars, job
  <2> pc = "check" /\ pc' = "write"  BY <1>1, Zenon DEF CheckNothing
  <2>1. /\ Quiet' <=> Quiet
        /\ Sending' <=> Sending
        /\ ~Waiting /\ ~Waiting' /\ ~Receiving /\ ~Receiving'
    BY Zenon DEF Quiet, Sending, Waiting, Receiving
  <2>2. /\ Pending' <=> Pending
        /\ Working' <=> Working
        /\ Final' = Final
        /\ Dead' <=> Dead
    BY Zenon DEF Pending, Working, Final, Dead
  <2>3. LifeInv' /\ LibraryInv' /\ UpInv'
    BY <2>1, <2>2, Zenon DEF LifeInv, LibraryInv, UpInv
  <2>4. DownInv' /\ DaemonInv'
    BY <2>1, <2>2, Zenon DEF DownInv, DaemonInv
  <2> QED  BY ONLY TypeOK', <2>3, <2>4, Zenon DEF IInv
<1>2. CASE CheckProgress
  BY <1>0, <1>2, ReadOne, Zenon DEF CheckProgress, daemonVars, job, Reads
<1>3. CASE CheckCancel
  <2>1. Reads({"PROGRESS", "CANCEL", "data"}) /\ Sending /\ down # <<>>
    BY <1>0, <1>3, Zenon DEF CheckCancel, Reads, DownInv
  <2>2. /\ msg.type # "request" /\ down' = Tail(down) /\ pc = "check"
        /\ UNCHANGED <<state, serial, proc, up, dpc, proc_nr, dserial, chunk>>
    BY <2>1, <1>3, Zenon DEF CheckCancel, daemonVars, job, Sending
  <2>3. \/ pc' = after /\ after \in {"reply", "discard"} /\ UNCHANGED msg
        \/ pc' = pc /\ msg' = CancelChunk
    BY <1>3, <2>2, Zenon DEF CheckCancel, DaemonCancelled, TypeOK
  <2> USE <1>0, <2>1, <2>2, <2>3, ReadDown, WordTypes
  <2>4. LifeInv' /\ LibraryInv'
    BY Zenon DEF LifeInv, LibraryInv, Sending, Receiving, Dead
  <2>5. UpInv'
    BY Zenon DEF UpInv, Pending, Sending, Waiting
  <2>a. /\ ~Quiet' /\ ~Receiving' /\ (Sending' \/ Waiting')
        /\ Pending' <=> Pending
        /\ Working' <=> Working
        /\ Final' = Final
    BY Zenon DEF Quiet, Sending, Waiting, Receiving, Pending, Working, Final
  <2>b. /\ proc \in FileIn /\ proc \notin FileOut
        /\ Types(down') \subseteq {"PROGRESS", "CANCEL"}
        /\ Types(down') \subseteq Types(down)
    BY ProcKinds, Zenon DEF LibraryInv, DownInv
  <2>6. DownInv'
    BY <2>a, <2>b, Zenon DEF DownInv
  <2>c. dpc \notin {"received", "reply"}
    BY Zenon DEF DaemonInv, Working, Sending, Waiting, TakingFile, Pending, UpInv
  <2>7. DaemonInv'
    BY <2>a, <2>b, <2>c, Zenon DEF DaemonInv
  <2> QED  BY ONLY TypeOK', <2>4, <2>5, <2>6, <2>7, Zenon DEF IInv
<1>4. CASE CheckEof
  <2>1. pc' \in {"idle", "reply", "discard"} /\ (pc' = "discard" => proc \in FileIn)
    BY <1>4, Zenon DEF CheckEof, Unwind, Return, LibraryInv, Sending, TypeOK
  <2> QED  BY <1>4, <2>1, CleanupInv, Zenon DEF CheckEof
<1> QED  BY <1>1, <1>2, <1>3, <1>4, CheckForm, Zenon

-----------------------------------------------------------------------------
LEMMA WriteInv ==
  ASSUME IInv, TypeOK', write_data
  PROVE  IInv'
<1> TypeOK /\ LifeInv /\ LibraryInv /\ UpInv /\ DownInv /\ DaemonInv
  BY Zenon DEF IInv
<1> pc = "write" /\ UNCHANGED <<serial, proc, msg>>
  BY Zenon DEF write_data
<1> USE DEF Goto, Error
<1>0. state = "READY" /\ (Quiet \/ Sending) /\ pc = "write"
  <2>1. state \in {"CONFIG", "LAUNCHING", "READY"}  BY Zenon DEF TypeOK
  <2> QED  BY <2>1, Zenon DEF LifeInv, Quiet, Sending
<1>1. CASE Dead /\ child_cleanup /\ Unwind
  <2>1. pc' \in {"idle", "reply", "discard"} /\ (pc' = "discard" => proc \in FileIn)
    BY <1>0, <1>1, Zenon DEF Unwind, Return, LibraryInv, Sending, TypeOK
  <2> QED  BY <1>0, <1>1, <2>1, CleanupInv, Zenon
<1>2. CASE /\ CanWrite /\ up' = Append(up, msg) /\ pc' = Written
           /\ UNCHANGED <<state, down, daemonVars>>
  <2>0. /\ up \in Seq(Messages) /\ msg \in Messages /\ dpc # "dead"
        /\ UNCHANGED <<state, serial, proc, msg, down, dpc, proc_nr, dserial, chunk>>
    BY <1>2, Zenon DEF TypeOK, CanWrite, daemonVars, job, Dead
  <2>1. CASE Quiet
    <3>1. msg = Message("request", proc, serial - 1) /\ msg.type = "request"
      BY <1>0, <2>1, WordTypes, Zenon DEF Quiet, LibraryInv
    <3>2. pc' = IF proc \in FileIn THEN "open" ELSE "reply"
      BY <1>2, <3>1, Zenon DEF Written
    <3>3. /\ down = <<>> /\ dpc = "main" /\ Types(up) \subseteq {"CANCEL"}
          /\ proc \in Disciplined
      BY <1>0, <2>0, <2>1, Zenon DEF DownInv, DaemonInv, UpInv, LibraryInv
    <3>4. /\ Types(up') = Types(up) \cup {"request"}
          /\ RequestInOrder(up', proc, serial - 1) /\ LastOnly(up', EndOfFile)
      BY SMTT(30), <1>2, <2>0, <3>1, <3>3, Put DEF EndOfFile
    <3> USE <1>0, <2>0, <3>1, <3>2, <3>3, <3>4, ProcKinds, EmptyQueue
    <3>5. LifeInv' /\ LibraryInv'
      BY Zenon DEF LifeInv, LibraryInv, Sending, Receiving, Dead
    <3>a. /\ ~Quiet' /\ ~Receiving' /\ Pending' /\ ~Working'
          /\ Sending' \/ Waiting'
          /\ proc \notin FileIn => pc' = "reply"
      BY Zenon DEF Pending, Sending, Waiting, Receiving, Quiet, Working, TakingFile, GivingFile
    <3>b. /\ Types(up') \subseteq {"CANCEL", "request"} /\ Types(up') \cap EndOfFile = {}
          /\ Types(up') \cap Chunks = {}
      BY Zenon DEF EndOfFile, Chunks
    <3>c. UpInv'
      BY <3>a, <3>b, Zenon DEF UpInv
    <3>6. UpInv' /\ DownInv'
      BY <3>a, <3>c, Zenon DEF DownInv
    <3>7. DaemonInv'
      BY <3>a, Zenon DEF DaemonInv
    <3> QED  BY ONLY TypeOK', <3>5, <3>6, <3>7, Zenon DEF IInv
  <2>2. CASE Sending
    <3>1. msg.type \in Chunks /\ proc \in FileIn /\ proc \in Disciplined
      BY SMTT(30), <1>0, <2>2, WordTypes DEF Sending, LibraryInv, Chunks
    <3>2. /\ pc' \in {"read", "reply", "discard"}
          /\ msg.type = "data" <=> pc' = "read"
      BY <1>2, <2>0, <3>1, Zenon DEF Written, Chunks, TypeOK
    <3>3. /\ Types(up) \cap EndOfFile = {}
          /\ Types(down) \subseteq {"PROGRESS", "CANCEL"}
          /\ Pending \/ dpc \in TakingFile
          /\ RequestInOrder(up, proc, serial - 1)
      BY <1>0, <2>0, <2>2, Zenon DEF UpInv, DownInv, DaemonInv, Sending, Waiting
    <3>4. /\ Types(up') = Types(up) \cup {msg.type}
          /\ RequestInOrder(up', proc, serial - 1) /\ LastOnly(up', EndOfFile)
      BY <1>2, <2>0, <3>1, <3>3, Put, Zenon
    <3> USE <1>0, <2>0, <2>2, <3>1, <3>2, <3>3, <3>4, ProcKinds
    <3>a. /\ ~Quiet' /\ ~Receiving' /\ (Sending' \/ Waiting')
          /\ pc' = "read" => Sending'
          /\ pc' # "read" => ~Sending'
          /\ pc' \in {"reply", "discard"} <=> Waiting'
          /\ Pending' <=> Pending
          /\ Working' <=> Working
          /\ ~Dead'
      BY Zenon DEF Quiet, Sending, Waiting, Receiving, Pending, Working, Dead, Chunks
    <3>5. LifeInv' /\ LibraryInv'
      BY <3>a, Zenon DEF LifeInv, LibraryInv
    <3>6. UpInv'
      BY Zenon DEF UpInv, Pending, Sending, Waiting, EndOfFile, Chunks, TakingFile
    <3>7. DownInv'
      BY Zenon DEF DownInv, Sending, Waiting, Receiving, Quiet, Final, Replies
    <3>b. dpc \in TakingFile => Types(up') \subseteq Chunks
      BY Zenon DEF DaemonInv, Working, TakingFile
    <3>c. Working => dpc \in TakingFile
      BY Zenon DEF UpInv, Working, TakingFile, GivingFile
    <3>d. dpc \notin {"chunk", "cancelled"} \/ ~Working
      BY <3>c, Zenon DEF TakingFile
    <3>8. DaemonInv'
      BY <3>a, <3>b, <3>c, <3>d, Zenon DEF DaemonInv, Working, GivingFile
    <3> QED  BY ONLY TypeOK', <3>5, <3>6, <3>7, <3>8, Zenon DEF IInv
  <2> QED  BY <1>0, <2>1, <2>2, Zenon
<1> QED  BY <1>1, <1>2, Zenon DEF write_data

\* The library moves on in a transfer without touching the socket.
LEMMA SameSocket ==
  ASSUME IInv, TypeOK', state = "READY",
         UNCHANGED <<state, serial, proc, up, down, dpc, proc_nr, dserial, chunk>>,
         \/ Sending /\ Sending'
         \/ Receiving /\ pc # "drain" /\ pc' \in {"recv", "recv_cancel"},
         pc' \in {"check", "write"} => msg' \in {DataChunk, EofChunk, CancelChunk}
  PROVE  IInv'
<1> TypeOK /\ LifeInv /\ LibraryInv /\ UpInv /\ DownInv /\ DaemonInv
  BY Zenon DEF IInv
<1> USE WordTypes
<1>1. LifeInv' /\ LibraryInv'
  BY Zenon DEF LifeInv, LibraryInv, Sending, Receiving, Dead
<1>2. /\ Sending' <=> Sending
      /\ Receiving' <=> Receiving
      /\ ~Waiting /\ ~Waiting' /\ ~Quiet /\ ~Quiet'
      /\ Pending' <=> Pending
      /\ Working' <=> Working
      /\ Final' = Final
  BY Zenon DEF Pending, Sending, Waiting, Receiving, Quiet, Working, Final
<1>3. pc \notin {"reply", "drain"} /\ pc' \notin {"reply", "drain"}
  BY Zenon DEF Sending, Receiving
<1>4. UpInv'
  BY <1>2, <1>3, Zenon DEF UpInv
<1>5. DownInv'
  BY <1>2, Zenon DEF DownInv
<1>6. DaemonInv'
  BY <1>2, <1>3, Zenon DEF DaemonInv
<1>7. ~(pc' \in {"check", "write"} /\ msg'.type = "request")
  BY <1>2, Zenon DEF Quiet
<1> QED  BY ONLY TypeOK', <1>1, <1>4, <1>5, <1>6, Zenon DEF IInv

LEMMA SendFileInv ==
  ASSUME IInv, TypeOK', send_file_open \/ send_file_read \/ send_file_eof
  PROVE  IInv'
<1> TypeOK /\ LifeInv /\ LibraryInv /\ UpInv /\ DownInv /\ DaemonInv
  BY Zenon DEF IInv
<1>1. state = "READY" /\ Sending
  BY Zenon DEF send_file_open, send_file_read, send_file_eof, Sending, LifeInv, TypeOK
<1>2. /\ UNCHANGED <<state, serial, proc, up, down, dpc, proc_nr, dserial, chunk>>
      /\ \/ pc' \in {"read", "eof"}
         \/ pc' = "check" /\ msg' \in {DataChunk, EofChunk, CancelChunk}
  BY Zenon DEF send_file_open, send_file_read, send_file_eof, CancelTransfer, Goto,
     daemonVars, job
<1> QED  BY <1>1, <1>2, SameSocket, WordTypes, Zenon DEF Sending

LEMMA RecvFailsInv ==
  ASSUME IInv, TypeOK', RecvFails, UNCHANGED <<serial, proc, msg>>
  PROVE  IInv'
<1> TypeOK /\ LifeInv /\ LibraryInv /\ UpInv /\ DownInv /\ DaemonInv
  BY Zenon DEF IInv
<1>1. CASE ReadsEof /\ child_cleanup
  BY <1>1, CleanupInv, Zenon DEF RecvFails, Return
<1>2. CASE ~conn /\ UNCHANGED <<state, up, down, daemonVars>>
  <2> state = "CONFIG" /\ pc' = "idle"
    BY <1>2, Zenon DEF conn, RecvFails, Return
  <2> UNCHANGED <<state, serial, proc, up, down, dpc, proc_nr, dserial, chunk>>
    BY <1>2, Zenon DEF daemonVars, job
  <2> USE EmptyQueue
  <2>1. LifeInv' /\ LibraryInv'
    BY Zenon DEF LifeInv, LibraryInv, Sending, Receiving, Dead
  <2>2. UpInv' /\ DownInv'
    BY Zenon DEF UpInv, DownInv, LifeInv, Pending
  <2>3. dpc = "off" /\ ~Pending' /\ ~Working' /\ ~Sending'
    BY Zenon DEF LifeInv, Pending, Working, Sending, TakingFile, GivingFile
  <2>4. DaemonInv'
    BY <2>3, Zenon DEF DaemonInv
  <2> QED  BY ONLY TypeOK', <2>1, <2>2, <2>4, Zenon DEF IInv
<1> QED  BY <1>1, <1>2, Zenon DEF RecvFails

LEMMA RecvProgressInv ==
  ASSUME IInv, TypeOK', pc \notin {"idle", "launch"}, RecvProgress \/ RecvSkipCancel,
         UNCHANGED <<serial, proc, msg>>
  PROVE  IInv'
<1> TypeOK /\ LifeInv /\ LibraryInv /\ UpInv /\ DownInv /\ DaemonInv
  BY Zenon DEF IInv
<1>1. state = "READY"
  BY Zenon DEF RecvProgress, RecvSkipCancel, conn, LifeInv, TypeOK
<1> QED
  BY <1>1, ReadOne, Zenon DEF RecvProgress, RecvSkipCancel, Reads, daemonVars, job

LEMMA RecvInv ==
  ASSUME IInv, TypeOK', guestfs_int_recv
  PROVE  IInv'
<1> TypeOK /\ LifeInv /\ LibraryInv /\ UpInv /\ DownInv /\ DaemonInv
  BY Zenon DEF IInv
<1>0. UNCHANGED <<serial, proc, msg>> /\ pc = "reply"
  BY Zenon DEF guestfs_int_recv
<1>1. CASE RecvProgress \/ RecvSkipCancel
  BY <1>0, <1>1, RecvProgressInv, Zenon
<1>2. CASE RecvFails
  BY <1>0, <1>2, RecvFailsInv, Zenon
<1>3. CASE RecvUnexpected(Chunks \cup {"LAUNCH"})
  BY ZenonT(30), <1>0, <1>3, ReadDown
     DEF RecvUnexpected, conn, Reads, DownInv, LifeInv, Waiting, Replies, Chunks, TypeOK
<1>4. CASE RecvReply
  <2>0. /\ state = "READY" /\ Reads(Replies) /\ down # <<>> /\ down' = Tail(down)
        /\ Waiting /\ pc = "reply" /\ Head(down).type \in Replies
        /\ UNCHANGED <<state, serial, proc, msg, up, dpc, proc_nr, dserial, chunk>>
    BY <1>0, <1>4, Zenon DEF RecvReply, conn, Reads, LifeInv, TypeOK, Waiting, daemonVars, job
  <2>1. Head(down).proc = proc /\ Head(down).serial = serial - 1
    BY <2>0, ReadDown, Zenon DEF DownInv
  <2>2. CASE Head(down).type \in Final
    <3>1. pc' = "idle"
      BY <1>4, <2>0, <2>2, Zenon DEF RecvReply, Return, Final, EndOfFile, Replies
    <3> QED  BY <2>0, <2>2, <3>1, ReadLast, Zenon DEF Reads
  <2>3. CASE Head(down).type \notin Final
    <3>1. proc \in FileOut /\ Head(down).type = "ok" /\ pc' = "recv_open"
      BY <1>4, <2>0, <2>1, <2>3, Zenon DEF RecvReply, Goto, Final, Replies
    <3>2. Types(down') \subseteq Chunks \cup {"PROGRESS"}
      BY <2>0, <3>1, Zenon DEF DownInv
    <3>3. ~Pending
      BY <2>0, Zenon DEF UpInv
    <3> USE <2>0, <3>1, <3>2, <3>3, ReadDown, ProcKinds
    <3>a. ~Sending' /\ Receiving' /\ (Dead' <=> Dead)
      BY Zenon DEF Sending, Receiving, Dead
    <3>4. LifeInv' /\ LibraryInv'
      BY <3>a, Zenon DEF LifeInv, LibraryInv
    <3>5. UpInv'
      BY ZenonT(30) DEF UpInv, Pending, Waiting, Sending, EndOfFile, Chunks
    <3>6. DownInv'
      BY Zenon DEF DownInv, Quiet, Sending, Waiting, Receiving, Final
    <3>7. DaemonInv'
      BY ZenonT(30) DEF DaemonInv, Pending, Quiet, Sending, Waiting, Receiving, Working,
         TakingFile,
             GivingFile
    <3> QED  BY ONLY TypeOK', <3>4, <3>5, <3>6, <3>7, Zenon DEF IInv
  <2> QED  BY <2>2, <2>3, Zenon
<1> QED  BY <1>1, <1>2, <1>3, <1>4, RecvForm, Zenon

LEMMA RecvDiscardInv ==
  ASSUME IInv, TypeOK', guestfs_int_recv_discard
  PROVE  IInv'
<1> TypeOK /\ LifeInv /\ LibraryInv /\ UpInv /\ DownInv /\ DaemonInv
  BY Zenon DEF IInv
<1> USE DiscardForm
<1>1. CASE RecvProgress \/ RecvSkipCancel
  BY <1>1, RecvProgressInv, Zenon
<1>2. CASE RecvFails
  BY <1>2, RecvFailsInv, Zenon
<1>3. CASE RecvAny
  <2> USE DEF RecvAny, Return
  <2>1. state = "READY" /\ Waiting /\ proc \in FileIn /\ down # <<>>
    BY <1>3, Zenon DEF conn, LifeInv, LibraryInv, TypeOK, Waiting, Reads
  <2>2. Types(down) \subseteq {"PROGRESS", "CANCEL"} \cup Replies /\ Final = Replies
    BY <2>1, ProcKinds, Zenon DEF DownInv, Final
  <2>3. Reads(Final)
    BY <1>3, <2>1, <2>2, ReadDown, Zenon DEF Reads
  <2> QED  BY <1>3, <2>1, <2>3, ReadLast, Zenon DEF daemonVars, job
<1> QED  BY <1>1, <1>2, <1>3, Zenon

LEMMA RecvFileInv ==
  ASSUME IInv, TypeOK', recv_file_open \/ recv_file \/ recv_file_drain
  PROVE  IInv'
<1> TypeOK /\ LifeInv /\ LibraryInv /\ UpInv /\ DownInv /\ DaemonInv
  BY Zenon DEF IInv
<1>0. /\ state = "READY" /\ Receiving /\ proc \in FileOut /\ serial' = serial /\ proc' = proc
      /\ msg' = msg /\ conn
      /\ Types(down) \subseteq Chunks \cup {"PROGRESS"}
  BY ZenonT(30) DEF recv_file_open, recv_file, recv_file_drain, Receiving, LifeInv, LibraryInv,
         DownInv, TypeOK, conn
<1>1. CASE recv_file_open
  BY <1>0, <1>1, SameSocket, Zenon
     DEF recv_file_open, Goto, Receiving, Sending, Error, daemonVars, job
<1>2. CASE RecvProgress
  BY <1>0, <1>2, RecvProgressInv, Zenon DEF Receiving
<1>3. CASE RecvFails
  BY <1>0, <1>3, RecvFailsInv, Zenon
<1>4. CASE RecvUnexpected(Replies \cup {"LAUNCH", "CANCEL"})
  BY ZenonT(30), <1>0, <1>4, ReadDown DEF RecvUnexpected, Reads, Replies, Chunks
<1>5. CASE RecvEnd \/ (pc = "drain" /\ Reads(EndOfFile) /\ down' = Tail(down)
                        /\ pc' = "idle" /\ UNCHANGED <<state, up, daemonVars>>)
  <2>1. Reads(Final) /\ down' = Tail(down) /\ pc' = "idle" /\ UNCHANGED <<state, up, daemonVars>>
    BY <1>0, <1>5, Zenon DEF RecvEnd, Reads, Final, EndOfFile, Return
  <2> QED  BY <1>0, <2>1, ReadLast, Zenon DEF daemonVars, job
<1>6. CASE pc = "drain" /\ Reads({"data"}) /\ down' = Tail(down)
           /\ UNCHANGED <<pc, state, up, daemonVars>>
  BY <1>0, <1>6, ReadOne, Zenon DEF Reads, daemonVars, job
<1>7. CASE RecvData /\ pc = "recv"
  <2>0. /\ down' = Tail(down) /\ pc' \in {"recv", "recv_cancel"} /\ down # <<>>
        /\ Head(down).type = "data"
        /\ UNCHANGED <<state, serial, proc, msg, up, dpc, proc_nr, dserial, chunk>>
    BY <1>0, <1>7, Zenon DEF RecvData, Goto, Reads, daemonVars, job
  <2> USE <1>0, <1>7, <2>0, ReadDown
  <2>1. LifeInv' /\ LibraryInv'
    BY Zenon DEF LifeInv, LibraryInv, Sending, Receiving, Dead
  <2>2. UpInv' /\ DownInv'
    BY Zenon DEF UpInv, DownInv, Pending, Sending, Waiting, Receiving, Quiet, Final
  <2>3. DaemonInv'
    BY Zenon DEF DaemonInv, Pending, Sending, Waiting, Receiving,
           Quiet, Working
  <2> QED  BY ONLY TypeOK', <2>1, <2>2, <2>3, Zenon DEF IInv
<1> QED
  BY <1>1, <1>2, <1>3, <1>4, <1>5, <1>6, <1>7, Zenon
     DEF recv_file, recv_file_drain, Return, EndOfFile

LEMMA RecvCancelInv ==
  ASSUME IInv, TypeOK', recv_file_cancel
  PROVE  IInv'
<1> TypeOK /\ LifeInv /\ LibraryInv /\ UpInv /\ DownInv /\ DaemonInv
  BY Zenon DEF IInv
<1>0. /\ state = "READY" /\ pc = "recv_cancel" /\ pc' = "drain" /\ proc \in FileOut
      /\ UNCHANGED <<state, serial, proc, msg, down, dpc, proc_nr, dserial, chunk>>
      /\ up \in Seq(Messages)
  BY Zenon DEF recv_file_cancel, Receiving, LifeInv, LibraryInv, TypeOK, Goto, daemonVars, job
<1>1. ~Pending /\ Types(up) \subseteq {"CANCEL"}
  <2>1. dpc = "main" \/ dpc = "dead" \/ Working
    <3>1. dpc \in DaemonAt /\ dpc \notin {"off", "boot"}
      BY <1>0, Zenon DEF TypeOK, LifeInv, DaemonInv
    <3> QED
      BY <3>1, Zenon DEF DaemonAt, Working, TakingFile, GivingFile
  <2>2. ~Pending
    BY <1>0, Zenon DEF UpInv, Sending, Waiting
  <2> QED
    BY <1>0, <2>1, <2>2, EmptyQueue, ProcKinds, Zenon
       DEF UpInv, LifeInv, DaemonInv, Dead
<1>2. /\ Types(up') \subseteq {"CANCEL"} /\ LastOnly(up', EndOfFile)
      /\ RequestInOrder(up', proc, serial - 1)
      /\ Dead => up' = <<>>
  <2>1. CASE up' = up
    BY <1>0, <1>1, <2>1, Zenon DEF UpInv, LifeInv
  <2>2. CASE CanWrite /\ up' = Append(up, CANCEL)
    BY SMTT(30), <1>0, <1>1, <2>2, Put, WordTypes, WordsAreMessages DEF Pending, EndOfFile,
       CanWrite
  <2> QED  BY <2>1, <2>2, Zenon DEF recv_file_cancel
<1> USE <1>0, <1>1, <1>2
<1>3. LifeInv' /\ LibraryInv'
  BY Zenon DEF LifeInv, LibraryInv, Sending, Receiving, Dead
<1>4. UpInv' /\ DownInv'
  <2>1. Types(up') \cap EndOfFile = {} /\ Types(up') \cap Chunks = {} /\ ~Pending'
    BY Zenon DEF EndOfFile, Chunks, Pending
  <2>2. UpInv'
    BY <2>1, Zenon DEF UpInv
  <2>3. DownInv'
    BY Zenon DEF DownInv, Sending, Waiting, Receiving, Quiet, Final
  <2> QED
    BY <2>2, <2>3, Zenon
<1>5. DaemonInv'
  BY ProcKinds, Zenon
     DEF DaemonInv, Pending, Sending, Waiting, Receiving, Quiet, Working, TakingFile, GivingFile
<1> QED  BY ONLY TypeOK', <1>3, <1>4, <1>5, Zenon DEF IInv

LEMMA LibraryInvStep ==
  ASSUME IInv, TypeOK', LibraryStep
  PROVE  IInv'
BY LaunchRecvInv, CheckInv, WriteInv, SendFileInv, RecvInv, RecvDiscardInv, RecvFileInv,
   RecvCancelInv, Zenon
   DEF LibraryStep

-----------------------------------------------------------------------------
(* The steps of the daemon: first what its messages do to the socket and   *)
(* to whose turn it is, then its steps.                                    *)


\* What the daemon takes from the socket.
LEMMA ReadUp ==
  ASSUME TypeOK, UpInv, up # <<>>
  PROVE  /\ Types(up) = {Head(up).type} \cup Types(Tail(up))
         /\ LastOnly(Tail(up), EndOfFile)
         /\ Head(up).type \in EndOfFile => Tail(up) = <<>>
         /\ RequestInOrder(Tail(up), proc, serial - 1)
         /\ Head(up).type = "request" =>
              /\ Head(up).proc = proc /\ Head(up).serial = serial - 1
              /\ Types(Tail(up)) \subseteq Chunks
BY Take, Zenon DEF TypeOK, UpInv

\* A working daemon moves on and leaves the socket alone.
LEMMA SameWork ==
  ASSUME IInv, TypeOK', Working, UNCHANGED <<libVars, up, down, job>>,
         \/ dpc' = dpc
         \/ proc \in FileIn /\ dpc \in TakingFile /\ dpc' \in TakingFile
         \/ proc \in FileIn /\ up = <<>> /\ Waiting /\ dpc' \in {"received", "reply"}
         \/ proc \notin FileIn \cup FileOut /\ dpc' \in {"stub", "notify", "reply"}
         \/ proc \in FileOut /\ dpc \in {"stub", "reply"} /\ dpc' = "reply"
         \/ proc \in FileOut /\ dpc \in GivingFile \ {"stub", "reply"}
              /\ dpc' \in GivingFile \ {"cancelled"},
         dpc' = "chunk" => chunk' \in {DataChunk, EofChunk, CancelChunk},
         dpc' = "cancelled" => dpc = "cancelled" /\ chunk' = chunk
  PROVE  IInv'
<1> TypeOK /\ LifeInv /\ LibraryInv /\ UpInv /\ DownInv /\ DaemonInv
  BY Zenon DEF IInv
<1> USE ProcKinds DEF libVars, job
<1>0. dpc' \in TakingFile \cup GivingFile \cup {"received", "reply"}
  BY Zenon DEF Working, TakingFile, GivingFile
<1>1. LifeInv' /\ LibraryInv'
  BY SMTT(30), <1>0 DEF LifeInv, LibraryInv, Sending, Receiving, Dead, Working, TakingFile,
     GivingFile
<1>2. UpInv' /\ DownInv'
  BY <1>0 DEF UpInv, DownInv, Pending, Sending, Waiting, Receiving, Quiet, Final, Working,
         TakingFile, GivingFile
<1>3. DaemonInv'
  BY <1>0 DEF DaemonInv, Pending, Sending, Waiting, Receiving, Quiet, Working, TakingFile,
         GivingFile
<1> QED  BY ONLY TypeOK', <1>1, <1>2, <1>3, Zenon DEF IInv

LEMMA DaemonStartInv ==
  ASSUME IInv, TypeOK', daemon_start
  PROVE  IInv'
<1> TypeOK /\ LifeInv /\ LibraryInv /\ UpInv /\ DownInv /\ DaemonInv
  BY Zenon DEF IInv
<1>0. /\ state = "LAUNCHING" /\ up = <<>> /\ down = <<>> /\ pc = "launch" /\ dpc' = "main"
      /\ UNCHANGED <<libVars, up, proc_nr, dserial, chunk>>
  BY Zenon DEF daemon_start, LifeInv, TypeOK, DGoto, job
<1>1. down' = <<LAUNCH>> /\ Len(down') = 1 /\ Types(down') = {"LAUNCH"}
  <2>1. down' = Append(<<>>, LAUNCH)  BY <1>0, Zenon DEF daemon_start
  <2>2. <<>> \in Seq(Messages)  OBVIOUS
  <2>3. Types(down') = Types(<<>>) \cup {LAUNCH.type}
    BY ZenonT(30), <2>1, <2>2, Put, WordsAreMessages
  <2> QED  BY <2>1, <2>3, WordTypes, EmptyQueue
<1> USE <1>0, <1>1, EmptyQueue DEF libVars
<1>2. LifeInv' /\ LibraryInv'
  BY DEF LifeInv, LibraryInv, Sending, Receiving, Dead
<1>3. UpInv' /\ DownInv'
  BY Zenon DEF UpInv, DownInv, Pending
<1>4. DaemonInv'
  BY Zenon DEF DaemonInv, Pending, Sending, Quiet, Working,
         TakingFile, GivingFile
<1> QED  BY ONLY TypeOK', <1>2, <1>3, <1>4, Zenon DEF IInv

LEMMA MainLoopInv ==
  ASSUME IInv, TypeOK', main_loop
  PROVE  IInv'
<1> TypeOK /\ LifeInv /\ LibraryInv /\ UpInv /\ DownInv /\ DaemonInv
  BY Zenon DEF IInv
<1>0. /\ dpc = "main" /\ up # <<>> /\ up' = Tail(up) /\ state = "READY"
      /\ UNCHANGED <<libVars, down>>
  BY Zenon DEF main_loop, LifeInv, TypeOK
<1>1. CASE Head(up).type = "request"
  <2>1. /\ dpc' = "stub" /\ proc_nr' = Head(up).proc /\ dserial' = Head(up).serial
        /\ UNCHANGED chunk
    BY <1>1, Zenon DEF main_loop, DGoto
  <2>2. /\ Pending /\ Types(up') \subseteq Chunks /\ down = <<>>
        /\ Sending \/ Waiting
        /\ proc \notin FileIn => pc = "reply"
        /\ proc \in Disciplined
    BY <1>0, <1>1, ReadUp, Zenon
       DEF UpInv, Pending, LibraryInv, Sending, Waiting
  <2>3. Types(up) \cap Chunks # {} => proc \in FileIn
    BY Zenon DEF UpInv
  <2>4. proc \notin FileIn => up' = <<>>
    <3>1. proc \notin FileIn => Types(up') = {}
      BY <1>0, <2>2, <2>3, ReadUp, Zenon
    <3>2. up' \in Seq(Messages)  BY Zenon DEF TypeOK
    <3> QED  BY <3>1, <3>2, Take, Zenon
  <2> USE <1>0, <1>1, <2>1, <2>2, <2>4, ReadUp, ProcKinds, EmptyQueue DEF libVars
  <2>5. LifeInv' /\ LibraryInv'
    BY Zenon DEF LifeInv, LibraryInv, Sending, Receiving, Dead
  <2>6. UpInv' /\ DownInv'
    BY ZenonT(30) DEF UpInv, DownInv, Pending, Sending, Waiting, Receiving, Quiet, Final, Chunks,
       EndOfFile
  <2>7. DaemonInv'
    BY Zenon DEF DaemonInv, Pending, Sending, Waiting, Receiving, Quiet, Working, TakingFile,
           GivingFile, Chunks
  <2> QED  BY ONLY TypeOK', <2>5, <2>6, <2>7, Zenon DEF IInv
<1>2. CASE Head(up).type # "request"
  <2>1. Head(up).type = "CANCEL"
    <3>1. CASE ~Pending
      BY ZenonT(30), <1>0, <3>1, ReadUp DEF UpInv
    <3>2. CASE Pending
      <4>1. "request" \in Types(Tail(up))
        BY <1>0, <1>2, <3>2, ReadUp, Zenon DEF Pending
      <4> QED  BY <1>0, <1>2, <4>1, Take, Zenon DEF TypeOK, UpInv
    <3> QED  BY <3>1, <3>2, Zenon
  <2>2. UNCHANGED <<dpc, proc_nr, dserial, chunk>>
    BY <2>1, Zenon DEF main_loop, daemonVars, job
  <2>3. Pending' <=> Pending
    BY <1>0, <2>1, ReadUp, Zenon DEF Pending
  <2> USE <1>0, <2>1, <2>2, <2>3, ReadUp DEF libVars
  <2>4. LifeInv' /\ LibraryInv'
    BY Zenon DEF LifeInv, LibraryInv, Sending, Receiving, Dead
  <2>5. UpInv' /\ DownInv'
    BY Zenon DEF UpInv, DownInv, Sending, Waiting, Receiving, Quiet, Final
  <2>6. DaemonInv'
    BY Zenon DEF DaemonInv, Sending, Waiting, Receiving, Quiet,
           Working, TakingFile, GivingFile
  <2> QED  BY ONLY TypeOK', <2>4, <2>5, <2>6, Zenon DEF IInv
<1> QED  BY <1>1, <1>2, Zenon

\* A working daemon writes a message that does not end the call.
LEMMA SaysMore ==
  ASSUME IInv, TypeOK', Working, UNCHANGED <<libVars, up, job>>,
         NEW m \in Messages, down' = Append(down, m),
         \/ proc \in FileIn /\ dpc \in TakingFile /\ dpc' \in TakingFile
              /\ m.type \in {"PROGRESS", "CANCEL"}
         \/ proc \notin FileIn \cup FileOut /\ dpc' = "stub" /\ m.type = "PROGRESS"
         \/ proc \in FileOut /\ dpc \in GivingFile /\ dpc' \in {"send", "sent"}
              /\ m.type \in {"PROGRESS", "data"}
  PROVE  IInv'
<1> TypeOK /\ LifeInv /\ LibraryInv /\ UpInv /\ DownInv /\ DaemonInv
  BY Zenon DEF IInv
<1>0. /\ state = "READY" /\ dpc' \in TakingFile \cup GivingFile
      /\ down \in Seq(Messages) /\ up \in Seq(Messages)
  BY Zenon DEF LifeInv, TypeOK, Working, TakingFile, GivingFile
<1>1. /\ Types(down') = Types(down) \cup {m.type}
      /\ down # <<>> => /\ Head(down') = Head(down)
                        /\ Types(Tail(down')) = Types(Tail(down)) \cup {m.type}
      /\ Types(down) \cap Final = {} => LastOnly(down', Final)
      /\ RepliesTo(down, proc, serial - 1) => RepliesTo(down', proc, serial - 1)
  BY <1>0, Put, Zenon DEF Replies
<1>2. /\ Types(down') \cap Final = {} /\ LastOnly(down', Final)
      /\ m.type \notin Replies \cup EndOfFile /\ ~Pending /\ dpc # "dead"
  BY <1>0, <1>1, ProcKinds, ZenonT(30)
     DEF DownInv, UpInv, Working, TakingFile, GivingFile, Final, Replies, EndOfFile
<1> USE <1>0, <1>1, <1>2, ProcKinds DEF libVars, job
<1>3. LifeInv' /\ LibraryInv'
  BY Zenon DEF LifeInv, LibraryInv, Sending, Receiving, Dead, TakingFile, GivingFile
<1>4. UpInv'
  BY Zenon DEF UpInv, Pending, Sending, Waiting, TakingFile, GivingFile
<1>5. DownInv'
  <2>1. /\ Waiting /\ proc \in FileOut => down # <<>> /\ m.type \in {"PROGRESS", "data"}
        /\ proc \notin FileOut => ~Receiving /\ m.type \in {"PROGRESS", "CANCEL"}
        /\ Sending => m.type \in {"PROGRESS", "CANCEL"}
        /\ Receiving => m.type \in {"PROGRESS", "data"}
        /\ Sending \/ Waiting \/ Receiving
    BY Zenon DEF DaemonInv, LibraryInv, Waiting, Receiving, GivingFile
  <2>2. UNCHANGED <<pc, msg, proc, serial, state>>  BY Zenon
  <2> QED  BY <2>1, <2>2, ZenonT(30) DEF DownInv, Sending, Waiting, Receiving, Quiet, Final, Chunks
<1>6. DaemonInv'
  BY Put, SMTT(30) DEF DaemonInv, Pending, Sending, Waiting, Receiving, Quiet, Working,
     TakingFile,
         GivingFile
<1> QED  BY ONLY TypeOK', <1>3, <1>4, <1>5, <1>6, Zenon DEF IInv

\* A working daemon writes the last message of the call.
LEMMA SaysLast ==
  ASSUME IInv, TypeOK', Working, UNCHANGED <<libVars, up, proc_nr, dserial, chunk>>,
         dpc \notin {"chunk", "cancelled"} => dpc = "reply",
         dpc' = "main",
         NEW m \in Messages, down' = Append(down, m), m.type \in Final,
         m.type \in Replies => m.proc = proc /\ m.serial = serial - 1 /\ dpc = "reply",
         m.type \in EndOfFile => dpc \in {"chunk", "cancelled"}
  PROVE  IInv'
<1> TypeOK /\ LifeInv /\ LibraryInv /\ UpInv /\ DownInv /\ DaemonInv
  BY Zenon DEF IInv
<1>0. /\ state = "READY" /\ down \in Seq(Messages) /\ dpc # "dead"
      /\ proc \in Disciplined /\ dserial = serial - 1
      /\ Sending \/ Waiting \/ Receiving
  BY Zenon DEF LifeInv, TypeOK, DaemonInv, Working, TakingFile, GivingFile
<1>1. /\ Types(down') = Types(down) \cup {m.type}
      /\ down' # <<>>
      /\ down = <<>> => Head(down') = m /\ Tail(down') = <<>>
      /\ down # <<>> => /\ Head(down') = Head(down)
                        /\ Types(Tail(down')) = Types(Tail(down)) \cup {m.type}
      /\ Types(down) \cap Final = {} => LastOnly(down', Final)
      /\ RepliesTo(down, proc, serial - 1) => RepliesTo(down', proc, serial - 1)
  BY Put, <1>0, Zenon
<1>2. Types(down) \cap Final = {} /\ LastOnly(down', Final) /\ ~Pending
  BY <1>0, <1>1, Zenon
     DEF DownInv, UpInv, Working, TakingFile, GivingFile
<1>3. /\ proc \in FileIn => dpc = "reply" /\ up = <<>> /\ Waiting
      /\ proc \notin FileIn \cup FileOut => dpc = "reply" /\ up = <<>> /\ pc = "reply"
      /\ proc \in FileOut /\ dpc = "reply" => up = <<>> /\ down = <<>> /\ pc = "reply"
      /\ proc \in FileOut /\ dpc # "reply" =>
           /\ Types(up) \subseteq {"CANCEL"}
           /\ up # <<>> => pc = "drain"
           /\ pc = "reply" => down # <<>>
           /\ pc = "reply" \/ Receiving
  BY <1>0, ProcKinds, Zenon DEF DaemonInv, TakingFile, GivingFile
<1> USE <1>0, <1>1, <1>2, <1>3, ProcKinds, EmptyQueue DEF libVars
<1>4. LifeInv' /\ LibraryInv'
  BY Zenon DEF LifeInv, LibraryInv, Sending, Receiving, Dead
<1>5. UpInv'
  BY Zenon DEF UpInv, Pending, Sending, Waiting
<1>6. DownInv'
  BY ZenonT(30) DEF DownInv, Sending, Waiting, Receiving, Quiet, Final, Chunks, Replies, EndOfFile
<1>7. DaemonInv'
  BY Zenon DEF DaemonInv, Pending, Sending, Waiting, Receiving, Quiet, Working, TakingFile,
         GivingFile
<1> QED  BY ONLY TypeOK', <1>4, <1>5, <1>6, <1>7, Zenon DEF IInv

\* The daemon takes part of the file from the socket.
LEMMA TakesFile ==
  ASSUME IInv, TypeOK', Working, proc \in FileIn, dpc \in {"recv", "discard"},
         up # <<>>, up' = Tail(up), UNCHANGED <<libVars, down, job, chunk>>,
         \/ dpc' \in TakingFile /\ Head(up).type = "data"
         \/ dpc' \in {"received", "reply"} /\ Head(up).type \in EndOfFile
  PROVE  IInv'
<1> TypeOK /\ LifeInv /\ LibraryInv /\ UpInv /\ DownInv /\ DaemonInv
  BY Zenon DEF IInv
<1>0. state = "READY" /\ Types(up) \subseteq Chunks /\ ~Pending /\ (Sending \/ Waiting)
  BY ProcKinds, Zenon DEF LifeInv, TypeOK, DaemonInv, UpInv, Working, TakingFile, GivingFile,
                   Receiving, LibraryInv
<1>1. /\ Head(up).type \in EndOfFile => up' = <<>> /\ Waiting
      /\ Head(up).type = "data" => Head(up).type \notin EndOfFile
      /\ dpc' \in TakingFile \cup {"received", "reply"}
  BY ReadUp, Zenon DEF UpInv, EndOfFile
<1> USE <1>0, <1>1, ReadUp, EmptyQueue, ProcKinds DEF libVars, job
<1>2. LifeInv' /\ LibraryInv'
  BY Zenon DEF LifeInv, LibraryInv, Sending, Receiving, Dead, TakingFile, GivingFile
<1>3. UpInv'
  BY Zenon DEF UpInv, Pending, Sending, Waiting, TakingFile
<1>4. DownInv'
  BY Zenon DEF DownInv, Sending, Waiting, Receiving, Quiet, Final, TakingFile
<1>5. DaemonInv'
  BY Zenon DEF DaemonInv, Pending, Sending, Waiting, Receiving, Quiet, Working, TakingFile,
         GivingFile, EndOfFile
<1> QED  BY ONLY TypeOK', <1>2, <1>3, <1>4, <1>5, Zenon DEF IInv

-----------------------------------------------------------------------------
(* The steps of the daemon. *)

LEMMA NotifyInv ==
  ASSUME IInv, TypeOK', notify_progress \/ notify_progress_no_ratelimit
  PROVE  IInv'
<1> TypeOK /\ LifeInv /\ LibraryInv /\ UpInv /\ DownInv /\ DaemonInv
  BY Zenon DEF IInv
<1>0. Working /\ proc_nr = proc /\ proc \in Disciplined
  BY Zenon DEF notify_progress, notify_progress_no_ratelimit, Working, TakingFile, GivingFile, IInv,
         DaemonInv
<1>1. CASE notify_progress
  <2>0. /\ UNCHANGED <<libVars, up, down, job, chunk>>
        /\ dpc' \in {AfterProgress, "notify"}
        /\ dpc \in {"written", "sent"} \/ (dpc = "stub" /\ proc = "checksum" /\ dpc' = "notify")
    BY <1>0, <1>1, Zenon DEF notify_progress, DGoto
  <2>1. CASE proc \in FileIn
    <3>1. dpc \in TakingFile
      <4>1. dpc \in TakingFile \/ dpc \in {"received", "reply"}
        BY <1>0, <2>1, Zenon DEF DaemonInv
      <4> QED  BY <2>0, <4>1, Zenon
    <3>2. dpc' \in {"recv", "notify"}
      BY <1>0, <2>0, <2>1, ProcKinds, Zenon DEF AfterProgress
    <3> QED  BY <1>0, <2>0, <2>1, <3>1, <3>2, SameWork, Zenon DEF TakingFile
  <2>2. CASE proc \in FileOut
    BY <1>0, <2>0, <2>2, SameWork, ProcKinds, Zenon
       DEF AfterProgress, DaemonInv, GivingFile
  <2>3. CASE proc \notin FileIn \cup FileOut
    BY <1>0, <2>0, <2>3, SameWork, Zenon
       DEF AfterProgress, DaemonInv
  <2> QED  BY <2>1, <2>2, <2>3, Zenon
<1>2. CASE notify_progress_no_ratelimit
  <2>0. /\ UNCHANGED <<libVars, up, job>> /\ dpc' = AfterProgress /\ dpc = "notify"
        /\ down' = Append(down, PROGRESS) /\ PROGRESS \in Messages
        /\ PROGRESS.type = "PROGRESS"
    BY <1>2, WordsAreMessages, WordTypes, Zenon DEF notify_progress_no_ratelimit, DGoto
  <2> QED
    BY <1>0, <2>0, SaysMore, ProcKinds, Zenon
       DEF AfterProgress, DaemonInv, TakingFile, GivingFile
<1> QED  BY <1>1, <1>2, Zenon

LEMMA DispatchInv ==
  ASSUME IInv, TypeOK', dispatch_plain \/ dispatch_filein \/ dispatch_fileout \/ received
  PROVE  IInv'
<1> TypeOK /\ LifeInv /\ LibraryInv /\ UpInv /\ DownInv /\ DaemonInv
  BY Zenon DEF IInv
<1>0. /\ Working /\ proc_nr = proc /\ proc \in Disciplined
      /\ UNCHANGED <<libVars, up, down, job, chunk>>
  BY Zenon DEF dispatch_plain, dispatch_filein, dispatch_fileout, received, Working, TakingFile,
         DaemonInv
<1> USE ProcKinds DEF DGoto, Reply
<1>1. CASE dispatch_plain
  <2>1. dpc' = "reply" /\ proc = "checksum"  BY <1>0, <1>1, Zenon DEF dispatch_plain
  <2> QED  BY <1>0, <2>1, SameWork, Zenon DEF FileIn, FileOut
<1>2. CASE dispatch_filein
  <2>1. dpc = "stub" /\ dpc' \in {"recv", "cancel"} /\ proc \in FileIn
    BY <1>0, <1>2, Zenon DEF dispatch_filein, Disciplined
  <2> QED  BY <1>0, <2>1, SameWork, Zenon DEF TakingFile
<1>3. CASE dispatch_fileout
  <2>1. dpc = "stub" /\ dpc' = "reply" /\ proc \in FileOut
    BY <1>0, <1>3, Zenon DEF dispatch_fileout
  <2> QED  BY <1>0, <2>1, SameWork, Zenon
<1>4. CASE received
  <2>1. dpc = "received" /\ dpc' = "reply"
    BY <1>0, <1>4, Zenon DEF received, Disciplined
  <2>2. proc \in FileIn /\ up = <<>> /\ Waiting
    BY <1>0, <2>1, Zenon DEF DaemonInv, TakingFile, GivingFile
  <2> QED  BY <1>0, <2>1, <2>2, SameWork, Zenon
<1> QED  BY <1>1, <1>2, <1>3, <1>4, Zenon

LEMMA ReceiveInv ==
  ASSUME IInv, TypeOK', receive_file \/ cancel_receive \/ cancel_receive_discard
  PROVE  IInv'
<1> TypeOK /\ LifeInv /\ LibraryInv /\ UpInv /\ DownInv /\ DaemonInv
  BY Zenon DEF IInv
<1>0. /\ Working /\ dpc \in {"recv", "cancel", "discard"} /\ proc \in FileIn
      /\ Types(up) \subseteq Chunks /\ UNCHANGED <<libVars, job, chunk>>
  BY Zenon DEF receive_file, cancel_receive, cancel_receive_discard, Working, TakingFile,
         GivingFile, DaemonInv
<1>1. CASE cancel_receive
  <2>1. /\ dpc' = "discard" /\ UNCHANGED up
        /\ down' = Append(down, CANCEL) /\ CANCEL \in Messages
        /\ CANCEL.type = "CANCEL"
    BY <1>1, WordsAreMessages, WordTypes, Zenon DEF cancel_receive, DGoto
  <2> QED  BY <1>0, <2>1, SaysMore, Zenon DEF TakingFile
<1>2. CASE receive_file \/ cancel_receive_discard
  <2>1. up # <<>> /\ Head(up).type \in Chunks
    BY <1>0, <1>2, ReadUp, Zenon DEF receive_file, cancel_receive_discard
  <2>2. /\ up' = Tail(up) /\ UNCHANGED down /\ dpc \in {"recv", "discard"}
        /\ \/ dpc' \in {"written", "cancel", "discard"} /\ Head(up).type = "data"
           \/ dpc' \in {"received", "reply"} /\ Head(up).type \in {"eof", "cancel"}
    BY <1>2, <2>1, Zenon DEF receive_file, cancel_receive_discard, DGoto, Reply, Receives, Chunks
  <2> QED  BY <1>0, <2>1, <2>2, TakesFile, Zenon DEF TakingFile, EndOfFile
<1> QED  BY <1>1, <1>2, Zenon

LEMMA ReplyInv ==
  ASSUME IInv, TypeOK', reply
  PROVE  IInv'
<1> TypeOK /\ LifeInv /\ LibraryInv /\ UpInv /\ DownInv /\ DaemonInv
  BY Zenon DEF IInv
<1>0. /\ Working /\ dpc = "reply" /\ proc_nr = proc /\ dserial = serial - 1
      /\ proc \in Disciplined /\ status \in Replies
      /\ UNCHANGED <<libVars, up, proc_nr, dserial, chunk>>
  BY Zenon DEF reply, Working, DaemonInv, TypeOK
<1>1. PICK m \in Messages : /\ m.type = status /\ m.proc = proc /\ m.serial = serial - 1
                            /\ down' = Append(down, m)
  <2>1. Message(status, proc_nr, dserial) \in Messages
    BY <1>0, Zenon DEF Message, Messages, MessageTypes, Replies, TypeOK
  <2> QED  BY SMTT(30), <1>0, <2>1, WordTypes DEF reply
<1>2. CASE proc \in FileOut /\ status = "ok"
  <2>1. /\ dpc' = "send"
        /\ up = <<>> /\ down = <<>> /\ pc = "reply" /\ state = "READY" /\ ~Pending
    BY <1>0, <1>2, EmptyQueue, Zenon
       DEF reply, DGoto, DaemonInv, GivingFile, LifeInv, TypeOK, Pending
  <2>2. /\ down' # <<>> /\ Head(down') = m /\ Tail(down') = <<>>
        /\ Types(down') = {"ok"}
        /\ LastOnly(down', Final) /\ RepliesTo(down', proc, serial - 1)
    <3>1. down \in Seq(Messages)  BY Zenon DEF TypeOK
    <3>2. /\ down' # <<>> /\ Head(down') = m /\ Tail(down') = <<>>
          /\ Types(down') = Types(down) \cup {m.type}
          /\ Types(down) \cap Final = {} => LastOnly(down', Final)
          /\ RepliesTo(down, proc, serial - 1) => RepliesTo(down', proc, serial - 1)
      BY ZenonT(30), <1>1, <2>1, <3>1, Put
    <3> QED  BY <1>1, <1>2, <2>1, <3>2, EmptyQueue, Zenon
  <2>3. Types(down') \cap Final = {}
    BY <1>2, <2>2, Zenon DEF Final, EndOfFile
  <2> USE <1>0, <1>1, <1>2, <2>1, <2>2, <2>3, EmptyQueue, ProcKinds DEF libVars
  <2>4. LifeInv' /\ LibraryInv'
    BY Zenon DEF LifeInv, LibraryInv, Sending, Receiving, Dead
  <2>5. UpInv' /\ DownInv'
    <3>1. UpInv'
      BY Zenon DEF UpInv, Pending, Sending, Waiting
    <3>2. DownInv'
      BY Zenon DEF DownInv, Sending, Waiting, Receiving, Quiet, Final, Replies
    <3> QED  BY <3>1, <3>2, Zenon
  <2>6. DaemonInv'
    BY Zenon DEF DaemonInv, Pending, Sending, Waiting, Receiving, Quiet, Working, TakingFile,
           GivingFile
  <2> QED  BY ONLY TypeOK', <2>4, <2>5, <2>6, Zenon DEF IInv
<1>3. CASE ~(proc \in FileOut /\ status = "ok")
  <2>1. dpc' = "main"
    BY <1>0, <1>3, Zenon DEF reply, DGoto, Finished
  <2>2. m.type \in Final /\ m.type \notin EndOfFile
    BY <1>0, <1>1, <1>3, Zenon DEF Final, Replies, EndOfFile
  <2> QED  BY <1>0, <1>1, <2>1, <2>2, SaysLast, Zenon
<1> QED  BY <1>2, <1>3, Zenon

\* Before a chunk send_file_write meets nothing, or a flag.
LEMMA SendWriteForm ==
  ASSUME IInv, send_file_write
  PROVE  /\ \/ up = <<>> /\ SendChunk(DataChunk) /\ UNCHANGED up
            \/ /\ Receives({"CANCEL"}) /\ up' = Tail(up)
               /\ chunk' = CancelChunk /\ DGoto("cancelled")
         /\ dpc = "send" /\ dmoved < FileLen
         /\ UNCHANGED <<libVars, down, job, count_progress, status, dmoved>>
<1> TypeOK /\ UpInv /\ DaemonInv
  BY Zenon DEF IInv
<1>1. Types(up) \subseteq {"CANCEL"}
  <2>1. Working /\ dpc = "send"
    BY Zenon DEF send_file_write, Working, GivingFile
  <2> QED  BY <2>1, ProcKinds, Zenon DEF DaemonInv, GivingFile, TakingFile
<1>2. up # <<>> => Head(up).type = "CANCEL"
  BY <1>1, ReadUp, Zenon
<1>3. ~Receives(MessageTypes \ {"CANCEL"})
  BY <1>2, Zenon DEF Receives
<1>4. Receives({"CANCEL", "torn"}) /\ up' \in Rest(up) => Receives({"CANCEL"}) /\ up' = Tail(up)
  BY <1>2, NothingTorn, Zenon DEF Receives
<1> QED
  BY <1>3, <1>4, Zenon DEF send_file_write

LEMMA SendWriteInv ==
  ASSUME IInv, TypeOK', send_file_write \/ send_file_end
  PROVE  IInv'
<1> TypeOK /\ LifeInv /\ LibraryInv /\ UpInv /\ DownInv /\ DaemonInv
  BY Zenon DEF IInv
<1>0. /\ Working /\ dpc = "send" /\ proc \in FileOut /\ state = "READY"
      /\ Types(up) \subseteq {"CANCEL"}
      /\ up # <<>> => pc = "drain"
      /\ pc = "reply" => down # <<>>
      /\ UNCHANGED <<libVars, down, job>>
  <2>1. Working /\ dpc = "send" /\ UNCHANGED <<libVars, down, job>>
    BY Zenon DEF send_file_write, send_file_end, Working, GivingFile
  <2> QED  BY <2>1, Zenon DEF DaemonInv, GivingFile, TakingFile, LifeInv, TypeOK
<1> USE ProcKinds DEF DGoto, SendChunk
<1>1. CASE up' = up /\ dpc' = "chunk" /\ chunk' \in {DataChunk, EofChunk, CancelChunk}
  BY <1>0, <1>1, SameWork, Zenon DEF GivingFile
<1>2. CASE up # <<>> /\ up' = Tail(up) /\ dpc' = "cancelled" /\ chunk' = CancelChunk
  <2>1. pc = "drain" /\ ~Pending /\ Types(up') \subseteq {"CANCEL"}
    BY <1>0, <1>2, ReadUp, Zenon DEF UpInv
  <2> USE <1>0, <1>2, <2>1, ReadUp DEF libVars, job
  <2>2. LifeInv' /\ LibraryInv'
    BY Zenon DEF LifeInv, LibraryInv, Sending, Receiving, Dead
  <2>3. UpInv'
    BY Zenon DEF UpInv, Pending, Sending, Waiting, EndOfFile, Chunks
  <2>a. Receiving' /\ ~Quiet' /\ ~Sending' /\ dpc' \in GivingFile /\ proc \notin FileIn
    BY Zenon DEF Receiving, Quiet, Sending, GivingFile
  <2>b. /\ Receiving /\ ~Quiet /\ ~Sending /\ ~Waiting /\ ~Waiting' /\ Final' = Final
        /\ UNCHANGED <<down, proc, serial>>
    BY Zenon DEF Receiving, Quiet, Sending, Waiting, Final
  <2>c. Types(down) \cap Final = {}
    BY <1>0, Zenon DEF DownInv
  <2>4. DownInv'
    BY <2>a, <2>b, <2>c, Zenon DEF DownInv
  <2>5. DaemonInv'
    BY <2>a, Zenon DEF DaemonInv
  <2> QED  BY ONLY TypeOK', <2>2, <2>3, <2>4, <2>5, Zenon DEF IInv
<1>3. up # <<>> => Receives({"CANCEL"})
  BY <1>0, ReadUp, Zenon DEF Receives
<1>4. CASE send_file_end
  BY <1>1, <1>2, <1>3, <1>4, Zenon DEF send_file_end
<1>5. CASE send_file_write
  BY <1>1, <1>2, <1>5, SendWriteForm, Zenon DEF Receives
<1> QED  BY <1>4, <1>5, Zenon

LEMMA SendChunkInv ==
  ASSUME IInv, TypeOK', send_chunk
  PROVE  IInv'
<1> TypeOK /\ LifeInv /\ LibraryInv /\ UpInv /\ DownInv /\ DaemonInv
  BY Zenon DEF IInv
<1>0. /\ Working /\ dpc \in {"chunk", "cancelled"} /\ proc \in FileOut /\ proc_nr = proc
      /\ chunk \in {DataChunk, EofChunk, CancelChunk}
      /\ dpc = "cancelled" => chunk = CancelChunk
      /\ proc = "download" /\ dpc \in GivingFile
      /\ UNCHANGED <<libVars, up, proc_nr, dserial, chunk>>
  <2>1. Working /\ dpc \in {"chunk", "cancelled"}
        /\ UNCHANGED <<libVars, up, proc_nr, dserial, chunk>>
    BY Zenon DEF send_chunk, Working, GivingFile
  <2> QED  BY <2>1, ProcKinds, Zenon DEF DaemonInv, GivingFile, TakingFile
<1>1. PICK m \in Messages : m = chunk /\ down' = Append(down, m)
  BY <1>0, WordsAreMessages, Zenon DEF send_chunk
<1>2. CASE chunk.type = "data"
  <2>1. dpc' = "sent" /\ UNCHANGED outcome
    BY <1>2, Zenon DEF send_chunk, DGoto
  <2> QED  BY <1>0, <1>1, <1>2, <2>1, SaysMore, Zenon DEF job
<1>3. CASE chunk.type # "data"
  <2>1. dpc' = "main"
    BY <1>0, <1>3, Zenon DEF send_chunk, DGoto
  <2>2. m.type \in EndOfFile /\ m.type \in Final /\ m.type \notin Replies
    BY <1>0, <1>1, <1>3, WordTypes, Zenon DEF EndOfFile, Final, Replies
  <2> QED  BY <1>0, <1>1, <2>1, <2>2, SaysLast, Zenon
<1> QED  BY <1>2, <1>3, Zenon

LEMMA ApplianceDiesInv ==
  ASSUME IInv, TypeOK', appliance_dies
  PROVE  IInv'
<1> TypeOK /\ LifeInv /\ LibraryInv /\ UpInv /\ DownInv /\ DaemonInv
  BY Zenon DEF IInv
<1> dpc' = "dead" /\ up' = <<>> /\ dpc # "off" /\ UNCHANGED <<libVars, down, job, chunk>>
  BY Zenon DEF appliance_dies, DGoto
<1> USE EmptyQueue DEF libVars, job
<1>1. LifeInv' /\ LibraryInv'
  BY Zenon DEF LifeInv, LibraryInv, Sending, Receiving, Dead, TypeOK
<1>2. UpInv' /\ DownInv'
  BY Zenon DEF UpInv, DownInv, Pending, Sending, Waiting, Receiving, Quiet, Final
<1>3. /\ ~Pending' /\ ~Working'
      /\ Quiet' <=> Quiet
      /\ Sending' <=> Sending
  BY Zenon DEF Pending, Sending, Quiet, Working, TakingFile, GivingFile
<1>4. DaemonInv'
  BY <1>3, Zenon DEF DaemonInv
<1> QED  BY ONLY TypeOK', <1>1, <1>2, <1>4, Zenon DEF IInv

LEMMA DaemonInvStep ==
  ASSUME IInv, TypeOK', DaemonStep \/ appliance_dies
  PROVE  IInv'
<1> TypeOK /\ LifeInv /\ LibraryInv /\ UpInv /\ DownInv /\ DaemonInv
  BY Zenon DEF IInv
<1>1. ~send_file_write_too_long
  <2> SUFFICES ASSUME send_file_write_too_long PROVE FALSE
    OBVIOUS
  <2>1. Working /\ proc_nr = "journal_get"
    BY Zenon DEF send_file_write_too_long, Working, GivingFile
  <2> QED  BY <2>1, Zenon DEF DaemonInv, Disciplined
<1> QED
  BY <1>1, DaemonStartInv, MainLoopInv, NotifyInv, DispatchInv, ReceiveInv, ReplyInv,
     SendWriteInv, SendChunkInv, ApplianceDiesInv, NothingTorn, Zenon
     DEF DaemonStep

-----------------------------------------------------------------------------
(* IInv is inductive, and what it implies. *)

LEMMA InitInv == Init => IInv
<1> SUFFICES ASSUME Init PROVE IInv
  OBVIOUS
<1>1. TypeOK
  BY InitType, Zenon
<1> USE EmptyQueue DEF Init
<1>2. LifeInv /\ LibraryInv
  BY DEF LifeInv, LibraryInv, Sending, Receiving, Dead
<1>3. UpInv /\ DownInv
  BY Zenon DEF UpInv, DownInv, Pending
<1>4. DaemonInv
  BY Zenon DEF DaemonInv, Pending, Sending, Quiet, Working,
         TakingFile, GivingFile
<1> QED  BY <1>1, <1>2, <1>3, <1>4, Zenon DEF IInv

LEMMA NextInv ==
  ASSUME Procs \subseteq Disciplined, IInv, [Next]_vars
  PROVE  IInv'
<1>1. TypeOK'
  BY NextType, Zenon DEF IInv
<1>2. CASE Next
  BY <1>1, <1>2, CallerInv, LibraryInvStep, DaemonInvStep, Zenon DEF Next
<1>3. CASE UNCHANGED vars
  <2> UNCHANGED <<libVars, up, down, dpc, proc_nr, dserial, chunk, outcome>>
    BY <1>3, Zenon DEF vars, daemonVars, job
  <2> USE DEF IInv, libVars
  <2>1. LifeInv' /\ LibraryInv'
    BY Zenon DEF LifeInv, LibraryInv, Sending, Receiving, Dead
  <2>2. UpInv' /\ DownInv'
    BY ZenonT(30) DEF UpInv, DownInv, Pending, Sending, Waiting, Receiving, Quiet, Final
  <2>3. DaemonInv'
    BY DEF DaemonInv, Pending, Sending, Waiting, Receiving,
           Quiet, Working
  <2> QED  BY <1>1, <2>1, <2>2, <2>3, Zenon
<1> QED  BY <1>2, <1>3, Zenon

\* When every handler keeps to the protocol, the state of the library, of the
\* daemon and of the socket always agree in the way IInv says.
THEOREM Invariance ==
  ASSUME Procs \subseteq Disciplined
  PROVE  Spec => []IInv
<1>1. Init => IInv
  BY InitInv, Zenon
<1>2. IInv /\ [Next]_vars => IInv'
  BY NextInv, Zenon
<1> QED  BY <1>1, <1>2, PTL DEF Spec

\* When every handler keeps to the protocol, neither side ever loses
\* synchronization, whatever fails on either side and whoever cancels.
THEOREM StaysInSync ==
  ASSUME Procs \subseteq Disciplined
  PROVE  Spec => []InSync
<1>1. IInv => InSync
  BY Synced, Zenon
<1> QED  BY <1>1, Invariance, PTL

\* Then every call leaves the socket and the daemon ready for the next one.
THEOREM StaysQuietBetweenCalls ==
  ASSUME Procs \subseteq Disciplined
  PROVE  Spec => []QuietBetweenCalls
<1>1. IInv => QuietBetweenCalls
  <2> SUFFICES ASSUME IInv, pc = "idle", state = "READY", ~Dead
               PROVE  dpc = "main" /\ down = <<>> /\ \A i \in 1 .. Len(up) : up[i].type = "CANCEL"
    BY Zenon DEF QuietBetweenCalls
  <2>1. dpc = "main" /\ ~Pending /\ down = <<>>
    BY Zenon DEF IInv, DaemonInv, DownInv, Quiet, Dead
  <2>2. Types(up) \subseteq {"CANCEL"}
    BY <2>1, Zenon DEF IInv, UpInv
  <2> QED  BY ZenonT(30), <2>1, <2>2 DEF Types
<1> QED  BY <1>1, Invariance, PTL

\* Then the library only ever waits for the reply to its own request.
THEOREM RepliesAreMine ==
  ASSUME Procs \subseteq Disciplined
  PROVE  Spec => []ReplyIsMine
<1>1. IInv => ReplyIsMine
  <2> SUFFICES ASSUME IInv, Waiting, conn, NEW i \in 1 .. Len(down)
               PROVE  \/ down[i].type \in {"PROGRESS", "CANCEL"}
                      \/ /\ down[i].type \in Replies
                         /\ down[i].proc = proc /\ down[i].serial = serial - 1
                      \/ down[i].type \in Chunks /\ \E j \in 1 .. i - 1 : down[j].type = "ok"
    BY Zenon DEF ReplyIsMine, Waiting
  <2>1. state = "READY" /\ down \in Seq(Messages) /\ down # <<>> /\ i \in Nat /\ Len(down) \in Nat
    BY SMTT(30) DEF IInv, LifeInv, TypeOK, conn, Waiting
  <2>2. /\ down[i].type \in Types(down)
        /\ down[i].type \in Replies => down[i].proc = proc /\ down[i].serial = serial - 1
    BY <2>1, Zenon DEF IInv, DownInv, RepliesTo, Types
  <2>3. CASE proc \notin FileOut
    BY <2>1, <2>2, <2>3, Zenon DEF IInv, DownInv
  <2>4. CASE proc \in FileOut
    <3>1. Head(down).type \in Replies /\ Types(Tail(down)) \subseteq Chunks \cup {"PROGRESS"}
      BY <2>1, <2>4, Zenon DEF IInv, DownInv
    <3>2. CASE i = 1
      BY <2>1, <2>2, <3>1, <3>2
    <3>3. CASE i # 1
      <4>1. Tail(down)[i - 1] = down[i] /\ i - 1 \in 1 .. Len(Tail(down)) /\ 1 \in 1 .. i - 1
        BY <2>1, <3>3
      <4>2. down[i].type \in Chunks \cup {"PROGRESS"}
        BY ZenonT(30), <3>1, <4>1 DEF Types
      <4>3. down[1].type # "error"
        <5>1. down[1].type \notin Final
          BY <2>1, <3>3 DEF IInv, DownInv, LastOnly
        <5> QED  BY <2>4, <5>1, Zenon DEF Final
      <4>4. down[1].type = "ok"
        BY <2>1, <3>1, <4>3 DEF Replies
      <4> QED  BY <4>1, <4>2, <4>4, Zenon
    <3> QED  BY <3>2, <3>3, Zenon
  <2> QED  BY <2>3, <2>4, Zenon
<1> QED  BY <1>1, Invariance, PTL

\* Then a flag left over from an earlier transfer never cancels a later one.
THEOREM CancelsAreForThisTransfer ==
  ASSUME Procs \subseteq Disciplined
  PROVE  Spec => []CancelIsForThisTransfer
<1>1. IInv => CancelIsForThisTransfer
  <2> SUFFICES ASSUME IInv, dpc \in {"send", "chunk", "cancelled", "sent"}, up # <<>>
               PROVE  pc = "drain"
    BY Zenon DEF CancelIsForThisTransfer
  <2>1. Working /\ dpc \notin TakingFile /\ dpc \notin {"received", "reply", "stub", "notify"}
    BY Zenon DEF Working, TakingFile, GivingFile
  <2> QED  BY <2>1, Zenon DEF IInv, DaemonInv
<1> QED  BY <1>1, Invariance, PTL

-----------------------------------------------------------------------------
(* Neither side waits in vain: the steps of the library. *)

\* What a library step that keeps its appliance leaves alone.
LEMMA LibraryKeeps ==
  ASSUME IInv, LibraryStep, state' = "READY", pc # "launch"
  PROVE  UNCHANGED <<state, proc, serial, dpc, proc_nr, dserial, status, chunk, dmoved>>
<1> USE DEF child_cleanup, daemonVars, job
<1>1. CASE check_daemon_socket \/ write_data
  BY <1>1, CheckForm, Zenon DEF CheckNothing, CheckProgress, CheckCancel, CheckEof, write_data
<1>2. CASE send_file_open \/ send_file_read \/ send_file_eof
  BY <1>2, Zenon DEF send_file_open, send_file_read, send_file_eof
<1>3. CASE guestfs_int_recv \/ guestfs_int_recv_discard
  BY <1>3, RecvForm, DiscardForm, Zenon
     DEF RecvProgress, RecvSkipCancel, RecvReply, RecvAny, RecvUnexpected, RecvFails
<1>4. CASE recv_file_open \/ recv_file \/ recv_file_cancel \/ recv_file_drain
  BY <1>4, Zenon DEF recv_file_open, recv_file, recv_file_cancel, recv_file_drain, RecvProgress, RecvData,
              RecvEnd, RecvUnexpected, RecvFails
<1> QED
  BY <1>1, <1>2, <1>3, <1>4, Zenon DEF LibraryStep, launch_recv

\* How a library step comes to wait for the daemon, or goes on waiting.
LEMMA LibraryWaits ==
  ASSUME IInv, LibraryStep, state' = "READY", Waiting' \/ Receiving'
  PROVE  /\ state = "READY" /\ pc # "launch"
         /\ \/ /\ pc = "write" /\ pc' \in {"reply", after} /\ CanWrite
               /\ up' = Append(up, msg) /\ UNCHANGED <<down, msg>>
            \/ /\ pc = "check" /\ pc' = after /\ msg.type = "cancel" /\ Reads({"CANCEL"})
               /\ down' = Tail(down) /\ UNCHANGED <<up, msg>>
            \/ /\ Waiting \/ Receiving
               /\ up' = up \/ (pc = "recv_cancel" /\ up' = Append(up, CANCEL))
               /\ \/ down' = down
                  \/ /\ Reads({"PROGRESS", "CANCEL", "data"}) /\ down' = Tail(down)
                     /\ Waiting => pc' = pc
                  \/ /\ Reads({"ok"}) /\ down' = Tail(down) /\ proc \in FileOut
                     /\ pc = "reply" /\ pc' = "recv_open"
               /\ UNCHANGED msg /\ (Waiting' => Waiting /\ pc' = pc)
<1> USE DEF Waiting, Receiving, Goto, Return
<1>1. CASE launch_recv
  BY <1>1, Zenon DEF launch_recv
<1>2. CASE check_daemon_socket
  <2>1. CheckCancel /\ pc = "check"
    BY <1>2, CheckForm, Zenon DEF CheckNothing, CheckProgress, CheckEof, child_cleanup
  <2>2. state = "READY" /\ msg.type = "cancel" /\ pc' = after
    BY <2>1, Zenon DEF CheckCancel, DaemonCancelled
  <2> QED
    BY <2>1, <2>2, Zenon DEF CheckCancel, DaemonCancelled
<1>3. CASE write_data
  <2>1. pc = "write" /\ CanWrite /\ up' = Append(up, msg) /\ pc' = Written /\ UNCHANGED <<state, down>>
    BY <1>3, Zenon DEF write_data, child_cleanup
  <2> QED
    BY <1>3, <2>1, Zenon DEF write_data, Written
<1>4. CASE send_file_open \/ send_file_read \/ send_file_eof
  BY <1>4, Zenon DEF send_file_open, send_file_read, send_file_eof, CancelTransfer
<1>5. CASE guestfs_int_recv
  <2>1. CASE RecvProgress \/ RecvSkipCancel
    BY <1>5, <2>1, Zenon DEF guestfs_int_recv, RecvProgress, RecvSkipCancel, Reads
  <2>2. CASE RecvReply
    BY <1>5, <2>2, Zenon DEF guestfs_int_recv, RecvReply, Reads, Replies
  <2> QED
    BY <1>5, <2>1, <2>2, RecvForm, Zenon DEF RecvFails, RecvUnexpected
<1>6. CASE guestfs_int_recv_discard
  BY <1>6, DiscardForm, Zenon DEF RecvProgress, RecvSkipCancel, RecvAny, RecvFails, Reads
<1>7. CASE recv_file_open \/ recv_file_cancel
  BY <1>7, Zenon DEF recv_file_open, recv_file_cancel
<1>8. CASE recv_file
  BY <1>8, Zenon DEF recv_file, RecvProgress, RecvData, RecvEnd, RecvUnexpected, RecvFails, Reads
<1>9. CASE recv_file_drain
  BY <1>9, Zenon DEF recv_file_drain, RecvProgress, RecvUnexpected, RecvFails, Reads
<1> QED
  BY <1>1, <1>2, <1>3, <1>4, <1>5, <1>6, <1>7, <1>8, <1>9, Zenon DEF LibraryStep

LEMMA TurnLibrary ==
  ASSUME IInv, IInv', TurnInv, LibraryStep
  PROVE  TurnInv'
<1> SUFFICES ASSUME state' = "READY", ~Dead', Waiting' \/ Receiving'
             PROVE  Pending' \/ Working' \/ Types(down') \cap Final' # {}
  BY Zenon DEF TurnInv
<1>1. state = "READY" /\ pc # "launch"
  BY LibraryWaits, Zenon
<1>2. UNCHANGED <<proc, dpc>> /\ ~Dead
  BY <1>1, LibraryKeeps, Zenon DEF Dead
<1>3. TypeOK /\ (Working' <=> Working) /\ Final' = Final
  BY <1>2, Zenon DEF IInv, Working, Final
<1>4. CASE /\ pc = "write" /\ up' = Append(up, msg)
  <2>1. Types(up') = Types(up) \cup {msg.type}
    BY <1>3, <1>4, Put, Zenon DEF TypeOK
  <2>2. CASE msg.type = "request"
    BY <2>1, <2>2, Zenon DEF Pending
  <2>3. CASE msg.type # "request"
    <3>1. Pending \/ dpc \in TakingFile
      BY <1>2, <1>4, <2>3, ZenonT(30) DEF IInv, DaemonInv, Sending, Dead
    <3> QED
      BY <1>3, <2>1, <3>1, Zenon DEF Pending, Working
  <2> QED
    BY <2>2, <2>3, Zenon
<1>5. CASE pc = "check" /\ msg.type = "cancel" /\ up' = up
  <2>1. Pending \/ dpc \in TakingFile
    BY <1>2, <1>5, Zenon DEF IInv, DaemonInv, Sending, Dead
  <2> QED
    BY <1>3, <1>5, <2>1, Zenon DEF Pending, Working
<1>6. ASSUME Waiting \/ Receiving, up' = up \/ up' = Append(up, CANCEL),
             \/ down' = down
             \/ Reads({"PROGRESS", "CANCEL", "data"}) /\ down' = Tail(down)
             \/ Reads({"ok"}) /\ down' = Tail(down) /\ proc \in FileOut
      PROVE  Pending' \/ Working' \/ Types(down') \cap Final' # {}
  <2>1. Pending \/ Working \/ Types(down) \cap Final # {}
    BY <1>1, <1>2, <1>6, Zenon DEF TurnInv
  <2>2. Types(up) \subseteq Types(up')
    BY <1>3, <1>6, Put, WordsAreMessages, ZenonT(30) DEF TypeOK
  <2>3. Types(down) \cap Final \subseteq Types(down')
    <3>1. CASE down' = down
      BY <3>1, Zenon
    <3>2. CASE down # <<>> /\ down' = Tail(down) /\ Head(down).type \notin Final
      BY <1>3, <3>2, Take, Zenon DEF TypeOK
    <3> QED
      BY <1>6, <3>1, <3>2, Zenon DEF Reads, Final, EndOfFile, Replies
  <2> QED
    BY <1>3, <2>1, <2>2, <2>3, Zenon DEF Pending
<1> QED
  BY <1>4, <1>5, <1>6, LibraryWaits, Zenon

LEMMA RoomLibrary ==
  ASSUME IInv, TypeOK, TypeOK', RoomInv, LibraryStep
  PROVE  RoomInv'
<1> USE DEF Goto, Return, child_cleanup
<1>0. UpCap \in Nat /\ Len(up) \in Nat
  BY ConstantsAssumption DEF TypeOK
<1>1. ASSUME NEW m \in Messages, CanWrite, up' = Append(up, m)
      PROVE  Len(up') <= UpCap
  BY <1>0, <1>1 DEF CanWrite, TypeOK
<1>2. CASE check_daemon_socket
  <2>1. Len(up') <= UpCap
    <3>1. up' = up \/ up' = <<>>
      BY <1>2, CheckForm, Zenon DEF CheckNothing, CheckProgress, CheckCancel, CheckEof
    <3> QED
      BY <1>0, <3>1 DEF RoomInv
  <2>2. ASSUME pc' = "write", msg'.type # "request"  PROVE down' = <<>>
    BY <1>2, <2>2, CheckForm, Zenon
       DEF CheckNothing, CheckProgress, CheckCancel, DaemonCancelled, CheckEof, Unwind, TypeOK,
           can_read_data
  <2> QED
    BY <2>1, <2>2, Zenon DEF RoomInv
<1>3. CASE write_data
  <2>1. pc' # "write"
    BY <1>3, Zenon DEF write_data, Written, Unwind, TypeOK
  <2>2. Len(up') <= UpCap
    BY <1>0, <1>1, <1>3 DEF write_data, TypeOK
  <2> QED
    BY <2>1, <2>2, Zenon DEF RoomInv
<1>4. CASE send_file_open \/ send_file_read \/ send_file_eof
  BY <1>4, Zenon DEF send_file_open, send_file_read, send_file_eof, CancelTransfer, RoomInv
<1>5. CASE guestfs_int_recv \/ guestfs_int_recv_discard
  <2>1. pc' # "write" /\ (up' = up \/ up' = <<>>)
    BY <1>5, RecvForm, DiscardForm, Zenon
       DEF RecvProgress, RecvSkipCancel, RecvReply, RecvAny, RecvUnexpected, RecvFails
  <2> QED
    BY <1>0, <2>1 DEF RoomInv
<1>6. CASE recv_file_cancel
  BY <1>0, <1>1, <1>6, WordsAreMessages, Zenon DEF recv_file_cancel, RoomInv
<1>7. CASE launch_recv \/ recv_file_open \/ recv_file \/ recv_file_drain
  BY <1>0, <1>7 DEF launch_recv, recv_file_open, recv_file, recv_file_drain, RecvProgress,
                    RecvData, RecvEnd, RecvUnexpected, RecvFails, RoomInv
<1> QED
  BY <1>2, <1>3, <1>4, <1>5, <1>6, <1>7, Zenon DEF LibraryStep

\* How a library step goes on sending a file.
LEMMA LibrarySends ==
  ASSUME IInv, LibraryStep, Sending'
  PROVE  /\ state = "READY" /\ state' = "READY" /\ pc # "launch"
         /\ \/ pc = "write" /\ msg.type = "request" /\ pc' = "open" /\ UNCHANGED <<down, msg>>
            \/ /\ Sending
               /\ \/ down' = down /\ UNCHANGED <<msg, after>> /\ (pc' \in {"check", "write"} => pc = "check")
                  \/ /\ down' = down /\ pc' = "check"
                     /\ msg'.type = "cancel" => after' = "discard"
                  \/ /\ pc = "check" /\ pc' = pc /\ Reads({"PROGRESS"}) /\ down' = Tail(down)
                     /\ UNCHANGED <<msg, after>>
                  \/ pc = "check" /\ Reads({"CANCEL"}) /\ down' = Tail(down)
<1> USE DEF Sending, Goto, Return, child_cleanup
<1>0. pc \in {"check", "write", "open", "read", "eof"} => state = "READY"
  BY Zenon DEF IInv, LifeInv, TypeOK
<1>1. CASE launch_recv \/ recv_file_open \/ recv_file_cancel
  BY <1>1, Zenon DEF launch_recv, recv_file_open, recv_file_cancel
<1>2. CASE check_daemon_socket
  <2>1. CASE CheckNothing \/ CheckProgress
    BY <1>0, <1>2, <2>1, Zenon DEF check_daemon_socket, CheckNothing, CheckProgress
  <2>2. CASE CheckCancel
    BY <1>0, <1>2, <2>2, CheckForm, Zenon DEF CheckCancel, DaemonCancelled
  <2> QED
    BY <1>2, <2>1, <2>2, CheckForm, Zenon DEF CheckEof, Unwind, IInv, TypeOK
<1>3. CASE write_data
  <2>1. pc = "write" /\ pc' = Written /\ UNCHANGED <<state, down, msg, after>>
    BY <1>3, Zenon DEF write_data, Unwind, IInv, TypeOK
  <2> QED
    BY <1>0, <2>1, Zenon DEF Written, IInv, TypeOK
<1>4. CASE send_file_open \/ send_file_read \/ send_file_eof
  BY <1>0, <1>4, WordTypes, Zenon DEF send_file_open, send_file_read, send_file_eof, CancelTransfer
<1>5. CASE guestfs_int_recv \/ guestfs_int_recv_discard
  BY <1>5, RecvForm, DiscardForm, Zenon
     DEF RecvProgress, RecvSkipCancel, RecvReply, RecvAny, RecvUnexpected, RecvFails
<1>6. CASE recv_file \/ recv_file_drain
  BY <1>6, Zenon DEF recv_file, recv_file_drain, RecvProgress, RecvData, RecvEnd, RecvUnexpected,
              RecvFails
<1> QED
  BY <1>1, <1>2, <1>3, <1>4, <1>5, <1>6, ZenonT(30) DEF LibraryStep

LEMMA FlagLibrary ==
  ASSUME IInv, IInv', FlagInv, LibraryStep
  PROVE  FlagInv'
<1> DEFINE LastFlag == pc \in {"check", "write"} /\ msg.type = "cancel" /\ after = "reply"
<1> SUFFICES ASSUME Sending'
             PROVE  /\ LastOnly(down', {"CANCEL"})
                    /\ "CANCEL" \in Types(down') => dpc' \in {"discard", "dead"}
                    /\ LastFlag' => "CANCEL" \notin Types(down') /\ dpc' \in {"discard", "dead"}
  BY Zenon DEF FlagInv
<1>1. state = "READY" /\ state' = "READY" /\ pc # "launch" /\ TypeOK
  BY LibrarySends, Zenon DEF IInv
<1>2. dpc' = dpc
  BY <1>1, LibraryKeeps, Zenon
<1>3. CASE pc = "write" /\ msg.type = "request" /\ pc' = "open" /\ UNCHANGED <<down, msg>>
  <2>1. down = <<>>
    BY <1>1, <1>3, Zenon DEF IInv, DownInv, Quiet
  <2> QED
    BY <1>3, <2>1, EmptyQueue, Zenon
<1>4. ASSUME Sending
      PROVE  /\ LastOnly(down, {"CANCEL"})
             /\ "CANCEL" \in Types(down) => dpc \in {"discard", "dead"}
             /\ LastFlag => "CANCEL" \notin Types(down) /\ dpc \in {"discard", "dead"}
  BY <1>4, Zenon DEF FlagInv
<1>5. CASE Sending /\ down' = down /\ UNCHANGED <<msg, after>> /\ (pc' \in {"check", "write"} => pc = "check")
  BY <1>2, <1>4, <1>5, Zenon
<1>6. CASE Sending /\ down' = down /\ pc' = "check" /\ (msg'.type = "cancel" => after' = "discard")
  BY <1>2, <1>4, <1>6, Zenon
<1>7. CASE Sending /\ pc = "check" /\ Reads({"PROGRESS"}) /\ down' = Tail(down) /\ UNCHANGED <<pc, msg, after>>
  <2>1. LastOnly(down', {"CANCEL"}) /\ Types(down') \subseteq Types(down)
    BY <1>1, <1>4, <1>7, Take, Zenon DEF TypeOK, Reads
  <2> QED
    BY <1>2, <1>4, <1>7, <2>1, Zenon
<1>8. CASE Sending /\ pc = "check" /\ Reads({"CANCEL"}) /\ down' = Tail(down)
  <2>1. Head(down).type = "CANCEL" /\ down # <<>>
    BY <1>8, Zenon DEF Reads
  <2>2. "CANCEL" \in Types(down) /\ down' = <<>>
    BY <1>1, <1>4, <1>8, <2>1, Take, Zenon DEF TypeOK
  <2> QED
    BY <1>2, <1>4, <1>8, <2>2, EmptyQueue, Zenon
<1> QED
  BY <1>3, <1>5, <1>6, <1>7, <1>8, LibrarySends, Zenon

LEMMA EndLibrary ==
  ASSUME IInv, IInv', FlagInv, EndInv, LibraryStep
  PROVE  EndInv'
<1> DEFINE Needed == Pending \/ dpc \in {"stub", "recv", "written", "notify", "cancel"}
           Coming == Types(up) \cap EndOfFile # {}
<1> SUFFICES ASSUME Waiting', proc' \in FileIn
             PROVE  /\ Needed' => Coming'
                    /\ dpc' = "discard" => Coming' \/ (pc' = "discard" /\ msg' = CancelChunk)
  BY Zenon DEF EndInv
<1>1. CASE state' # "READY"
  <2>1. dpc' = "off" /\ up' = <<>>
    BY <1>1, Zenon DEF IInv, LifeInv, TypeOK, Waiting
  <2> QED
    BY <2>1, EmptyQueue, Zenon DEF Pending
<1>2. CASE state' = "READY"
  <2>1. state = "READY" /\ pc # "launch" /\ TypeOK
    BY <1>2, LibraryWaits, Zenon DEF IInv
  <2>2. UNCHANGED <<proc, dpc>>
    BY <1>2, <2>1, LibraryKeeps, Zenon
  <2>3. CASE pc = "write" /\ up' = Append(up, msg) /\ pc' \in {"reply", after} /\ UNCHANGED <<down, msg>>
    <3>1. Types(up') = Types(up) \cup {msg.type}
      BY <2>1, <2>3, Put, ZenonT(30) DEF TypeOK
    <3>2. msg.type # "data" /\ msg.type # "request"
      <4>1. write_data
        BY <2>3, Zenon
           DEF LibraryStep, launch_recv, check_daemon_socket, send_file_open, send_file_read,
               send_file_eof, guestfs_int_recv, guestfs_int_recv_discard, recv_file_open,
               recv_file, recv_file_cancel, recv_file_drain
      <4>2. pc' = Written
        BY <1>2, <4>1, Zenon DEF write_data, child_cleanup, Goto
      <4>3. pc' \in {"reply", "discard"} /\ proc \in FileIn
        BY <2>2, Zenon DEF Waiting
      <4>4. msg.type # "request"
        BY <4>2, <4>3, Zenon DEF Written
      <4>5. msg.type # "data"
        BY <4>2, <4>3, Zenon DEF Written
      <4> QED  BY <4>4, <4>5, Zenon
    <3>3. msg.type \in EndOfFile
      BY <2>3, <3>2, WordTypes DEF IInv, LibraryInv, EndOfFile
    <3> QED
      BY <3>1, <3>3, Zenon
  <2>4. CASE pc = "check" /\ pc' = after /\ msg.type = "cancel" /\ Reads({"CANCEL"}) /\ UNCHANGED <<up, msg>>
    <3>1. Sending /\ msg = CancelChunk /\ after \in {"reply", "discard"}
      <4>1. Message("request", proc, serial - 1).type = "request" /\ DataChunk.type = "data"
            /\ EofChunk.type = "eof"
        BY WordTypes
      <4>2. msg = CancelChunk
        BY <2>4, <4>1, Zenon DEF IInv, LibraryInv
      <4> QED  BY <2>1, <2>4, <4>2, Zenon DEF Sending, Waiting
    <3>2. "CANCEL" \in Types(down) /\ down # <<>>
      BY <2>1, <2>4, Take, Zenon DEF Reads, TypeOK
    <3>3. after = "discard" /\ dpc \in {"discard", "dead"} /\ ~Pending
      BY <2>4, <3>1, <3>2, Zenon DEF FlagInv, IInv, UpInv
    <3> QED
      BY <2>2, <2>4, <3>1, <3>3, ZenonT(30) DEF Pending
  <2>5. CASE Waiting /\ pc' = pc /\ up' = up /\ UNCHANGED msg
    BY <2>2, <2>5, Zenon DEF EndInv, Pending
  <2> QED
    <3>1. Waiting' => ~(pc = "recv_cancel" /\ pc' = pc)
      BY Zenon DEF Waiting
    <3> QED
      BY <1>2, <2>3, <2>4, <2>5, <3>1, LibraryWaits, Zenon
<1> QED
  BY <1>1, <1>2, Zenon

-----------------------------------------------------------------------------
(* Neither side waits in vain: the steps of the daemon. *)

\* Where the daemon is, and for what kind of procedure.
LEMMA DaemonKnows ==
  ASSUME IInv
  PROVE  /\ Working => proc_nr = proc /\ proc \in Disciplined
         /\ dpc \in {"recv", "written", "cancel", "discard", "received"} =>
              proc_nr \in FileIn /\ proc \in FileIn
         /\ dpc \in {"send", "chunk", "sent", "cancelled"} =>
              proc_nr \in FileOut /\ proc \in FileOut
         /\ dpc \in TakingFile /\ proc \in FileIn => Types(up) \subseteq Chunks
<1>1. Working => proc_nr = proc /\ proc \in Disciplined
  BY Zenon DEF IInv, DaemonInv
<1>2. dpc \in {"recv", "written", "cancel", "discard", "received"} => Working /\ proc \in FileIn
  BY Zenon DEF IInv, DaemonInv, Working, TakingFile, GivingFile
<1>3. dpc \in {"send", "chunk", "sent", "cancelled"} => Working /\ proc \in FileOut
  BY Zenon DEF IInv, DaemonInv, Working, TakingFile, GivingFile
<1>4. dpc \in TakingFile /\ proc \in FileIn => Types(up) \subseteq Chunks
  BY Zenon DEF IInv, DaemonInv, Working, TakingFile, EmptyQueue
<1> QED
  BY <1>1, <1>2, <1>3, <1>4, Zenon

\* main_loop reads the request of this call, or a flag of an earlier one.
LEMMA MainLoopReads ==
  ASSUME IInv, main_loop
  PROVE  /\ dpc = "main" /\ up # <<>> /\ up' = Tail(up) /\ UNCHANGED <<libVars, down>>
         /\ Types(up) = {Head(up).type} \cup Types(up')
         /\ \/ /\ Head(up).type = "request" /\ Pending
               /\ proc_nr' = proc /\ dpc' = "stub" /\ dmoved' = 0
               /\ Types(up') \subseteq Chunks
            \/ Head(up).type = "CANCEL" /\ UNCHANGED daemonVars
<1>1. dpc = "main" /\ up # <<>> /\ up' = Tail(up) /\ UNCHANGED <<libVars, down>> /\ TypeOK
  BY Zenon DEF main_loop, IInv
<1>2. /\ Types(up) = {Head(up).type} \cup Types(up')
      /\ Head(up).type = "request" => Head(up).proc = proc /\ Types(up') \subseteq Chunks
      /\ Head(up).type \notin {"request", "CANCEL"} => "request" \notin Types(up')
  BY <1>1, Take, Zenon DEF TypeOK, IInv, UpInv
<1>3. Head(up).type \in {"request", "CANCEL"}
  BY <1>1, <1>2, Zenon DEF IInv, UpInv, Pending
<1>4. CASE Head(up).type = "request"
  BY <1>1, <1>2, <1>4, Zenon DEF main_loop, DGoto, Pending
<1>5. CASE Head(up).type = "CANCEL"
  BY <1>1, <1>2, <1>5, Zenon DEF main_loop
<1> QED
  BY <1>1, <1>2, <1>3, <1>4, <1>5, Zenon

LEMMA TurnDaemon ==
  ASSUME IInv, IInv', TurnInv, DaemonStep
  PROVE  TurnInv'
<1>0. UNCHANGED libVars
  BY DaemonLeaves, Zenon
<1> SUFFICES ASSUME state = "READY", ~Dead', Waiting \/ Receiving
             PROVE  Pending' \/ Working' \/ Types(down') \cap Final # {}
  BY <1>0, Zenon DEF TurnInv, libVars, Waiting, Receiving, Final
<1> USE DEF DGoto, Reply, SendChunk, Finished
<1>1. CASE daemon_start
  BY <1>1, Zenon DEF daemon_start, IInv, LifeInv
<1>2. CASE main_loop
  <2>1. CASE dpc' = "stub"
    BY <2>1, Zenon DEF Working, TakingFile
  <2>2. CASE Head(up).type = "CANCEL" /\ UNCHANGED daemonVars
    <3>1. ~Dead /\ ~Working
      BY <1>2, MainLoopReads, Zenon DEF Working, Dead, TakingFile, GivingFile
    <3>2. Pending \/ Types(down) \cap Final # {}
      BY <3>1, Zenon DEF TurnInv
    <3> QED
      BY <1>2, <2>2, <3>2, MainLoopReads, Zenon DEF Pending
  <2> QED
    BY <1>2, <2>1, <2>2, MainLoopReads, Zenon
<1>3. CASE notify_progress \/ notify_progress_no_ratelimit
  BY <1>3, Zenon DEF notify_progress, notify_progress_no_ratelimit, AfterProgress, Working, TakingFile,
              GivingFile
<1>4. CASE dispatch_plain \/ dispatch_filein \/ dispatch_fileout
  BY <1>4, Zenon DEF dispatch_plain, dispatch_filein, dispatch_fileout, Working, TakingFile
<1>5. CASE receive_file
  BY <1>5, Zenon DEF receive_file, Working, TakingFile
<1>6. CASE received
  <2>1. proc_nr # "yara_load"
    BY <1>6, DaemonKnows, Zenon DEF received, Working, Disciplined
  <2> QED
    BY <1>6, <2>1, Zenon DEF received, Working
<1>7. CASE cancel_receive \/ cancel_receive_discard
  BY <1>7, Zenon DEF cancel_receive, cancel_receive_discard, Working, TakingFile
<1>8. CASE reply
  <2>1. proc_nr = proc /\ Message(status, proc_nr, dserial) \in Messages /\ status \in Replies
    BY <1>8, DaemonKnows, WordsAreMessages, Zenon DEF reply, Working, IInv, TypeOK, MessageTypes
  <2>2. status \in Types(down')
    <3>1. down \in Seq(Messages) /\ down' = Append(down, Message(status, proc_nr, dserial))
      BY <1>8, Zenon DEF reply, IInv, TypeOK
    <3>2. Types(down') = Types(down) \cup {Message(status, proc_nr, dserial).type}
      BY <2>1, <3>1, Put, Zenon
    <3> QED
      BY <3>2, WordTypes
  <2>3. dpc' = "send" \/ status \in Final
    BY <1>8, <2>1, Zenon DEF reply, Final, Replies
  <2> QED
    BY <2>2, <2>3, Zenon DEF Working, GivingFile
<1>9. CASE send_file_write \/ send_file_end
  BY <1>9, SendWriteForm, Zenon DEF send_file_end, Working, GivingFile
<1>10. CASE send_file_write_too_long
  BY <1>10, DaemonKnows, Zenon DEF send_file_write_too_long, Working, GivingFile, Disciplined
<1>11. CASE send_chunk
  <2>1. proc \in FileOut /\ chunk \in {DataChunk, EofChunk, CancelChunk} /\ chunk \in Messages
    BY <1>11, DaemonKnows, ZenonT(30) DEF send_chunk, IInv, DaemonInv, TypeOK
  <2>2. chunk.type \in Types(down')
    <3>1. down' = Append(down, chunk) /\ down \in Seq(Messages)
      BY <1>11, Zenon DEF send_chunk, IInv, TypeOK
    <3>2. Types(Append(down, chunk)) = Types(down) \cup {chunk.type}
      BY <2>1, <3>1, Put, Zenon
    <3> QED
      BY <3>1, <3>2, Zenon
  <2>3. CASE chunk.type = "data"
    BY <1>11, <2>3, Zenon DEF send_chunk, Working, GivingFile
  <2>4. CASE chunk.type \in EndOfFile
    BY <2>1, <2>2, <2>4, Zenon DEF Final
  <2> QED
    BY <2>1, <2>3, <2>4, WordTypes, Zenon DEF EndOfFile
<1> QED
  BY <1>1, <1>2, <1>3, <1>4, <1>5, <1>6, <1>7, <1>8, <1>9, <1>10, <1>11, NothingTorn, Zenon
     DEF DaemonStep

LEMMA RoomDaemon ==
  ASSUME IInv, IInv', RoomInv, DaemonStep \/ appliance_dies
  PROVE  RoomInv'
<1>0. UNCHANGED libVars /\ UpCap \in Nat /\ Len(up) \in Nat /\ Len(up) <= UpCap /\ TypeOK
  <2>1. UNCHANGED libVars /\ TypeOK /\ up \in Seq(Messages)
    BY DaemonLeaves, Zenon DEF IInv, TypeOK
  <2>2. UpCap \in Nat /\ Len(up) <= UpCap
    BY ConstantsAssumption, Zenon DEF RoomInv
  <2>3. Len(up) \in Nat
    BY <2>1
  <2> QED  BY <2>1, <2>2, <2>3, Zenon
<1> DEFINE Room == down = <<>> \/ dpc \in {"recv", "discard", "dead"} \/ Len(up) < UpCap
<1> SUFFICES Len(up') <= UpCap /\ (pc = "write" /\ msg.type # "request" => Room')
  BY <1>0, Zenon DEF RoomInv, libVars
<1> USE DEF DGoto
<1>1. CASE up # <<>> /\ up' = Tail(up)
  <2>1. Len(up') = Len(up) - 1
    BY <1>0, <1>1 DEF TypeOK
  <2> QED
    BY <1>0, <2>1
<1>2. CASE appliance_dies
  BY <1>0, <1>2 DEF appliance_dies
<1>3. ASSUME up' = up, pc = "write" /\ msg.type # "request" => Room'
      PROVE  Len(up') <= UpCap /\ (pc = "write" /\ msg.type # "request" => Room')
  BY <1>0, <1>3, ZenonT(30)
<1>4. ASSUME pc = "write", msg.type # "request"
      PROVE  /\ proc \in FileIn /\ state = "READY" /\ Room
             /\ dpc \in TakingFile \cup {"main", "dead"}
  <2>1. Sending
    BY <1>4, Zenon DEF Sending
  <2> QED
    BY <1>4, <2>1, ZenonT(30) DEF IInv, LibraryInv, DaemonInv, LifeInv, UpInv, TypeOK, RoomInv
<1>5. CASE daemon_start
  BY <1>3, <1>4, <1>5, Zenon DEF daemon_start, TakingFile
<1>6. CASE main_loop \/ receive_file \/ cancel_receive_discard
  BY <1>1, <1>6, Zenon DEF main_loop, receive_file, cancel_receive_discard
<1>7. CASE notify_progress \/ dispatch_plain \/ dispatch_filein \/ dispatch_fileout \/ received
  BY <1>3, <1>4, <1>7, Zenon DEF notify_progress, dispatch_plain, dispatch_filein, dispatch_fileout,
                          received
<1>8. CASE notify_progress_no_ratelimit
  <2>1. Working
    BY <1>8, Zenon DEF notify_progress_no_ratelimit, Working, TakingFile
  <2>2. pc = "write" /\ msg.type # "request" => dpc' = "recv"
    <3>1. proc \in FileIn => proc_nr \in FileIn /\ proc_nr \notin FileOut
      BY <2>1, DaemonKnows, ProcKinds, Zenon
    <3>2. proc \in FileIn => dpc' = "recv"
      BY <1>8, <3>1, Zenon DEF notify_progress_no_ratelimit, AfterProgress
    <3> QED
      BY <1>4, <3>2, Zenon
  <2> QED
    BY <1>3, <1>8, <2>2, Zenon DEF notify_progress_no_ratelimit
<1>9. CASE cancel_receive
  BY <1>3, <1>9, Zenon DEF cancel_receive
<1>10. CASE reply \/ send_file_write_too_long \/ send_file_end \/ send_chunk
  BY <1>3, <1>4, <1>10, Zenon DEF reply, send_file_write_too_long, send_file_end, send_chunk, TakingFile
<1>11. CASE send_file_write
  BY <1>1, <1>3, <1>4, <1>11, SendWriteForm, Zenon DEF Receives, TakingFile
<1> QED
  BY <1>2, <1>5, <1>6, <1>7, <1>8, <1>9, <1>10, <1>11, NothingTorn, ZenonT(30) DEF DaemonStep

LEMMA FlagDaemon ==
  ASSUME IInv, FlagInv, DaemonStep \/ appliance_dies
  PROVE  FlagInv'
<1>0. UNCHANGED libVars /\ TypeOK
  BY DaemonLeaves, Zenon DEF IInv
<1> DEFINE LastFlag == pc \in {"check", "write"} /\ msg.type = "cancel" /\ after = "reply"
<1> SUFFICES ASSUME Sending
             PROVE  /\ LastOnly(down', {"CANCEL"})
                    /\ "CANCEL" \in Types(down') => dpc' \in {"discard", "dead"}
                    /\ LastFlag => "CANCEL" \notin Types(down') /\ dpc' \in {"discard", "dead"}
  BY <1>0, Zenon DEF FlagInv, libVars, Sending
<1>1. /\ LastOnly(down, {"CANCEL"})
      /\ "CANCEL" \in Types(down) => dpc \in {"discard", "dead"}
      /\ LastFlag => "CANCEL" \notin Types(down) /\ dpc \in {"discard", "dead"}
  BY Zenon DEF FlagInv
<1>2. proc \in FileIn /\ (Pending \/ dpc \in TakingFile \cup {"dead"})
  BY ZenonT(30) DEF IInv, LibraryInv, DaemonInv
<1>3. state = "READY" /\ (Pending => dpc = "main")
  BY Zenon DEF IInv, LifeInv, UpInv, TypeOK, Sending
<1> HIDE DEF LastFlag
<1> USE DEF DGoto, Reply
<1>4. CASE down' = down /\ dpc \notin {"discard", "dead"}
  BY <1>1, <1>4, Zenon
<1>5. CASE appliance_dies
  BY <1>1, <1>5, Zenon DEF appliance_dies
<1>6. CASE main_loop \/ notify_progress \/ dispatch_plain \/ dispatch_filein \/ dispatch_fileout
             \/ receive_file \/ received
  BY <1>4, <1>6, Zenon DEF main_loop, notify_progress, dispatch_plain, dispatch_filein, dispatch_fileout,
                    receive_file, received
<1>7. CASE notify_progress_no_ratelimit
  <2>1. "CANCEL" \notin Types(down) /\ dpc = "notify" /\ ~LastFlag
    BY <1>1, <1>7, Zenon DEF notify_progress_no_ratelimit
  <2>2. Types(down') = Types(down) \cup {"PROGRESS"} /\ LastOnly(down', {"CANCEL"})
    <3>1. down \in Seq(Messages) /\ PROGRESS \in Messages /\ down' = Append(down, PROGRESS)
      BY <1>0, <1>7, WordsAreMessages, Zenon DEF notify_progress_no_ratelimit, TypeOK
    <3>2. Types(down') = Types(down) \cup {PROGRESS.type}
      BY <3>1, Put, ZenonT(30)
    <3>3. LastOnly(down', {"CANCEL"})
      <4>1. Types(down) \cap {"CANCEL"} = {}
        BY <2>1, Zenon
      <4> QED  BY <3>1, <4>1, Put, ZenonT(30)
    <3> QED  BY <3>2, <3>3, WordTypes, Zenon
  <2> QED
    BY <2>1, <2>2, Zenon
<1>8. CASE cancel_receive
  <2>1. "CANCEL" \notin Types(down) /\ dpc = "cancel" /\ ~LastFlag /\ dpc' = "discard"
    BY <1>1, <1>8, Zenon DEF cancel_receive
  <2>2. LastOnly(down', {"CANCEL"})
    <3>1. down \in Seq(Messages) /\ CANCEL \in Messages /\ down' = Append(down, CANCEL)
      BY <1>0, <1>8, WordsAreMessages, Zenon DEF cancel_receive, TypeOK
    <3>2. Types(down) \cap {"CANCEL"} = {}
      BY <2>1, Zenon
    <3> QED  BY <3>1, <3>2, Put, ZenonT(30)
  <2> QED
    BY <2>1, <2>2, Zenon
<1>9. CASE cancel_receive_discard
  <2>1. Head(up).type \in Types(up) /\ up # <<>>
    BY <1>0, <1>9, Take, Zenon DEF cancel_receive_discard, TypeOK
  <2>2. Types(up) \cap EndOfFile = {} /\ "request" \notin Types(up)
    BY <1>3, <1>9, Zenon DEF cancel_receive_discard, IInv, UpInv, Pending, Waiting, Sending
  <2>3. dpc' = dpc /\ down' = down
    BY <1>9, <2>1, <2>2, Zenon DEF cancel_receive_discard, Receives, EndOfFile
  <2> QED
    BY <1>1, <2>3, Zenon
<1>10. ~(daemon_start \/ reply \/ send_file_write \/ send_file_write_too_long \/ send_file_end
           \/ send_chunk)
  BY <1>2, <1>3, Zenon DEF daemon_start, reply, send_file_write, send_file_write_too_long, send_file_end,
                    send_chunk, TakingFile
<1> QED
  BY <1>5, <1>6, <1>7, <1>8, <1>9, <1>10, NothingTorn, Zenon DEF DaemonStep

LEMMA EndDaemon ==
  ASSUME IInv, IInv', EndInv, DaemonStep \/ appliance_dies
  PROVE  EndInv'
<1>0. UNCHANGED libVars /\ TypeOK
  BY DaemonLeaves, Zenon DEF IInv
<1> DEFINE Stopped == pc = "discard" /\ msg = CancelChunk
           Coming == Types(up) \cap EndOfFile # {}
           Needs == {"stub", "recv", "written", "notify", "cancel"}
<1> SUFFICES ASSUME Waiting, proc \in FileIn
             PROVE  /\ Pending' \/ dpc' \in Needs => Coming'
                    /\ dpc' = "discard" => Coming' \/ Stopped
  BY <1>0, Zenon DEF EndInv, libVars, Waiting
<1>1. /\ Pending \/ dpc \in Needs => Coming
      /\ dpc = "discard" => Coming \/ Stopped
  BY Zenon DEF EndInv
<1>2. Working => proc_nr \in FileIn /\ dpc \in TakingFile \cup {"received", "reply"}
  BY DaemonKnows, Zenon DEF IInv, DaemonInv
<1>3. FileIn \cap FileOut = {} /\ "checksum" \notin FileIn
  BY Zenon DEF FileIn, FileOut
<1> HIDE DEF Stopped, Coming
<1> USE DEF DGoto, Reply
<1>4. up' = up => (Coming' <=> Coming) /\ (Pending' <=> Pending)
  BY Zenon DEF Coming, Pending
<1>5. CASE dpc \in Needs /\ up' = up
  BY <1>1, <1>4, <1>5, Zenon
<1>6. CASE dpc' \in {"reply", "received", "dead"}
  <2>1. ~Pending'
    BY <1>6, Zenon DEF IInv, UpInv
  <2> QED
    BY <1>6, <2>1, Zenon
<1>7. CASE main_loop
  <2>1. Head(up).type \in {"request", "CANCEL"} /\ Types(up) = {Head(up).type} \cup Types(up')
    BY <1>7, MainLoopReads, Zenon
  <2>2. Coming => Coming'
    BY <2>1, Zenon DEF Coming, EndOfFile
  <2>3. CASE Pending
    BY <1>1, <1>7, <2>2, <2>3, MainLoopReads, Zenon DEF daemonVars
  <2>4. CASE ~Pending
    BY <1>7, <2>1, <2>4, MainLoopReads, Zenon DEF daemonVars, Pending
  <2> QED
    BY <2>3, <2>4, Zenon
<1>8. CASE notify_progress \/ notify_progress_no_ratelimit \/ dispatch_filein \/ cancel_receive
  <2>1. dpc \in Needs /\ up' = up
    BY <1>2, <1>8, Zenon DEF notify_progress, notify_progress_no_ratelimit, dispatch_filein,
                      cancel_receive, Working, TakingFile, GivingFile
  <2> QED
    BY <1>5, <2>1, Zenon
<1>9. CASE receive_file \/ cancel_receive_discard
  <2>1. /\ up # <<>> /\ up' = Tail(up) /\ dpc \in {"recv", "discard"}
        /\ Types(up) = {Head(up).type} \cup Types(up')
    BY <1>0, <1>9, Take, Zenon DEF receive_file, cancel_receive_discard, TypeOK
  <2>2. "request" \notin Types(up)
    BY <2>1, Zenon DEF IInv, UpInv, Pending
  <2>3. ~Pending'
    BY <2>1, <2>2, Zenon DEF Pending
  <2>4. CASE Head(up).type \in EndOfFile
    <3>1. dpc' \in {"reply", "received"}
      BY <1>9, <2>1, <2>4, Zenon DEF receive_file, cancel_receive_discard, EndOfFile, Receives
    <3> QED
      BY <1>6, <3>1, Zenon
  <2>5. CASE Head(up).type \notin EndOfFile
    <3>1. Coming => Coming'
      BY <2>1, <2>5, Zenon DEF Coming
    <3>2. dpc = "discard" => dpc' = "discard"
      BY <1>9, <2>1, <2>2, <2>5, Zenon DEF receive_file, cancel_receive_discard, Receives, EndOfFile
    <3>3. dpc = "recv" => Coming
      BY <1>1, Zenon
    <3> QED
      BY <1>1, <2>1, <2>3, <3>1, <3>2, <3>3, Zenon
  <2> QED
    BY <2>4, <2>5, Zenon
<1>10. CASE received \/ reply
  <2>1. up = <<>> /\ up' = up /\ dpc' \in {"reply", "main"}
    <3>1. Working /\ dpc \in {"received", "reply"}
      BY <1>10, Zenon DEF received, reply, Working
    <3>2. up = <<>>
      BY <3>1, Zenon DEF IInv, DaemonInv, TakingFile
    <3> QED
      BY <1>2, <1>3, <1>10, <3>1, <3>2, Zenon DEF received, reply
  <2> QED
    BY <2>1, EmptyQueue, Zenon DEF Pending
<1>11. CASE appliance_dies
  BY <1>6, <1>11, Zenon DEF appliance_dies
<1>12. CASE daemon_start
  BY <1>12, Zenon DEF daemon_start, IInv, LifeInv, Waiting, TypeOK
<1>13. ~(dispatch_plain \/ dispatch_fileout \/ send_file_write \/ send_file_write_too_long
           \/ send_file_end \/ send_chunk)
  BY <1>2, <1>3, Zenon DEF dispatch_plain, dispatch_fileout, send_file_write, send_file_write_too_long,
                    send_file_end, send_chunk, Working, TakingFile, GivingFile
<1> QED
  BY <1>7, <1>8, <1>9, <1>10, <1>11, <1>12, <1>13, NothingTorn, Zenon DEF DaemonStep

LEMMA FlowStep ==
  ASSUME IInv, IInv', FlowInv, [Next]_vars
  PROVE  FlowInv'
<1> USE DEF FlowInv
<1>1. CASE LibraryStep
  BY <1>1, TurnLibrary, RoomLibrary, FlagLibrary, EndLibrary, Zenon DEF IInv
<1>2. CASE CallerStep
  <2>1. CASE guestfs_user_cancel
    BY <2>1, Zenon DEF guestfs_user_cancel, daemonVars, TurnInv, RoomInv, FlagInv, EndInv, Dead, Pending,
                Working, Final, Waiting, Receiving, Sending
  <2>2. CASE launch \/ \E p \in Procs : guestfs_int_send(p)
    <3>1. /\ UNCHANGED <<up, down>> /\ ~Waiting' /\ ~Receiving' /\ ~Sending' /\ pc' # "write"
      BY <2>2, WordTypes DEF launch, guestfs_int_send, Goto, Waiting, Receiving, Sending
    <3> QED
      BY <3>1, Zenon DEF TurnInv, RoomInv, FlagInv, EndInv
  <2> QED
    BY <1>2, <2>1, <2>2, Zenon DEF CallerStep
<1>3. CASE DaemonStep
  BY <1>3, TurnDaemon, RoomDaemon, FlagDaemon, EndDaemon, Zenon
<1>4. CASE appliance_dies
  <2>1. TurnInv'
    BY <1>4, Zenon DEF appliance_dies, DGoto, TurnInv, Dead
  <2> QED
    BY <1>4, <2>1, RoomDaemon, FlagDaemon, EndDaemon, Zenon
<1>5. CASE UNCHANGED vars
  BY <1>5, Zenon DEF vars, libVars, daemonVars, TurnInv, RoomInv, FlagInv, EndInv, Dead, Pending,
              Working, Final, Waiting, Receiving, Sending
<1> QED
  BY <1>1, <1>2, <1>3, <1>4, <1>5, Zenon DEF Next

LEMMA InitFlow == Init => FlowInv
  BY EmptyQueue, ConstantsAssumption
     DEF Init, FlowInv, TurnInv, RoomInv, FlagInv, EndInv, Waiting, Sending

\* When every handler keeps to the protocol, the two programs wait for each
\* other only after both have cancelled the same upload, however little room
\* there is on the socket and whatever fails.
THEOREM StuckOnlyWhenBothCancel ==
  ASSUME Procs \subseteq Disciplined
  PROVE  Spec => []StuckOnlyIfBothCancel
<1>1. IInv /\ FlowInv => StuckOnlyIfBothCancel
  <2> SUFFICES ASSUME IInv, FlowInv, LibraryBlocked, DaemonBlocked
               PROVE  BothCancel
    BY Zenon DEF StuckOnlyIfBothCancel
  <2>0. /\ UpCap \in Nat /\ UpCap >= 1 /\ DownCap \in Nat /\ DownCap >= 1
        /\ TypeOK /\ Len(<<>>) = 0
    BY ConstantsAssumption DEF IInv
  <2>1. CASE Waiting /\ conn /\ ~can_read_data
    <3>1. state = "READY" /\ down = <<>> /\ ~Dead /\ Types(down) = {}
      BY <2>1, EmptyQueue, Zenon DEF conn, can_read_data, IInv, LifeInv, TypeOK, Waiting
    <3>2. dpc \in {"main", "recv", "discard"} /\ up = <<>> /\ ~Pending /\ Types(up) = {}
      BY <2>0, <3>1, EmptyQueue DEF DaemonBlocked, CanReply, Pending
    <3>3. Working
      BY <2>1, <3>1, <3>2, Zenon DEF FlowInv, TurnInv
    <3>4. dpc \in {"recv", "discard"} /\ proc \in FileIn
      BY <3>2, <3>3, DaemonKnows, Zenon DEF Working, TakingFile, GivingFile
    <3> QED
      BY <2>1, <3>2, <3>4, Zenon DEF FlowInv, EndInv, BothCancel
  <2>2. CASE pc \in {"recv", "drain"} /\ conn /\ ~can_read_data
    <3>1. state = "READY" /\ down = <<>> /\ ~Dead /\ Types(down) = {} /\ Receiving
      BY <2>2, EmptyQueue, Zenon DEF conn, can_read_data, IInv, LifeInv, TypeOK, Receiving
    <3>2. dpc \in {"main", "recv", "discard"} /\ up = <<>> /\ ~Pending
      BY <2>0, <3>1, EmptyQueue DEF DaemonBlocked, CanReply, Pending
    <3>3. Working /\ proc \in FileOut
      BY <3>1, <3>2, Zenon DEF FlowInv, TurnInv, IInv, LibraryInv
    <3> QED
      BY <3>2, <3>3, DaemonKnows, ProcKinds, Zenon DEF Working, TakingFile, GivingFile
  <2>3. CASE pc \in {"write", "recv_cancel"} /\ ~Dead /\ Len(up) >= UpCap
    <3>1. up # <<>>
      BY <2>0, <2>3
    <3>2. dpc \in {"notify", "cancel", "reply", "chunk", "cancelled"} /\ down # <<>> /\ Working
      BY <2>0, <3>1 DEF DaemonBlocked, CanReply, Working, TakingFile, GivingFile
    <3>3. CASE pc = "write"
      <4>1. Sending /\ msg.type # "request"
        BY <3>2, <3>3, Zenon DEF IInv, DaemonInv, Waiting, Receiving, Sending
      <4>2. Len(up) < UpCap
        BY <3>2, <3>3, <4>1, Zenon DEF FlowInv, RoomInv
      <4>3. up \in Seq(Messages)
        BY Zenon DEF IInv, TypeOK
      <4>4. Len(up) \in Nat
        BY <4>3
      <4> QED  BY <2>0, <2>3, <4>2, <4>4
    <3>4. CASE pc = "recv_cancel"
      BY <3>1, <3>2, <3>4, ProcKinds, Zenon DEF IInv, DaemonInv, LibraryInv, Receiving, TakingFile
    <3> QED
      BY <2>3, <3>3, <3>4, Zenon
  <2> QED
    BY <2>1, <2>2, <2>3, Zenon DEF LibraryBlocked, Waiting
<1> QED
  BY <1>1, InitInv, NextInv, InitFlow, FlowStep, PTL DEF Spec
=============================================================================
