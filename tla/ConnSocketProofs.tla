-------------------------- MODULE ConnSocketProofs --------------------------
(***************************************************************************)
(* Proofs about ConnSocket: its inductive invariant CInv, and that neither *)
(* the timeout of accept_connection nor the end of read_data comes early,  *)
(* for any timeout, any resolution of the clock and any size of the data.  *)
(***************************************************************************)
EXTENDS ConnSocket, TLAPS

-----------------------------------------------------------------------------
(* Time. *)

\* time (2) rounds down by less than a second.
LEMMA SecondsIs ==
  ASSUME NEW t \in Nat
  PROVE  /\ Seconds(t) \in Nat
         /\ TicksPerSec * Seconds(t) <= t
         /\ t < TicksPerSec * Seconds(t) + TicksPerSec
  BY ConnAssumption DEF Seconds

\* The rounding of the two times that accept_connection subtracts costs the
\* appliance less than a second.
LEMMA DeadlineNotEarly ==
  ASSUME now \in Nat, start \in Nat
  PROVE  /\ timeout \in Int
         /\ now + timeout - start > TicksPerSec * (APPLIANCE_TIMEOUT - 1)
<1> DEFINE a == Seconds(now)
           b == Seconds(start)
           T == TicksPerSec
           A == APPLIANCE_TIMEOUT
<1>1. /\ a \in Nat /\ T * a <= now
      /\ b \in Nat /\ start < T * b + T
      /\ T \in Nat /\ A \in Nat
  BY SecondsIs, ConnAssumption
<1>2. timeout = T * (A - (a - b))
  BY DEF timeout
<1> HIDE DEF a, b, T, A
<1>3. T * (A - (a - b)) = T * A - T * a + T * b /\ T * (A - 1) = T * A - T
  BY <1>1
<1>4. T * a \in Int /\ T * b \in Int /\ T * A \in Int
  BY <1>1
<1>5. timeout = T * A - T * a + T * b
  BY <1>2, <1>3
<1>6. now + timeout - start > T * A - T
  BY <1>1, <1>4, <1>5
<1>7. timeout \in Int /\ now + timeout - start > T * (A - 1)
  BY <1>3, <1>4, <1>5, <1>6
<1> QED
  BY <1>7 DEF T, A

-----------------------------------------------------------------------------
(* The invariant. *)

LEMMA InitCInv == Init => CInv
<1>1. Init => perror \in BOOLEAN /\ ~perror
  BY Zenon DEF Init
<1> QED
  BY <1>1, ConnAssumption DEF Init, CInv, TypeOK, TimeoutNotEarly, Sockets, Never

\* The beginning of each operation.
LEMMA CallInv ==
  ASSUME CInv, NEW o \in {"accept", "read", "write"}, Call(o),
         start' = start \/ start' = now
  PROVE  CInv'
<1>0. perror' \in BOOLEAN /\ ~perror'
  BY Zenon DEF Call
<1>1. TypeOK'
  BY <1>0, ConnAssumption DEF Call, CInv, TypeOK, TimeoutNotEarly, appliance, fixed
<1> QED
  BY <1>0, <1>1, ConnAssumption DEF Call, CInv, TypeOK, TimeoutNotEarly, appliance, fixed

LEMMA StartPollInv ==
  ASSUME CInv, StartPoll
  PROVE  CInv'
<1>1. timeout \in Int /\ now + timeout - start > TicksPerSec * (APPLIANCE_TIMEOUT - 1)
  BY DeadlineNotEarly DEF CInv, TypeOK
<1>2. deadline' \in Int /\ deadline' # Never => /\ op = "accept" /\ deadline' = now + timeout
  BY <1>1 DEF StartPoll, CInv, TypeOK, Never
<1> HIDE DEF timeout
<1> QED
  BY <1>1, <1>2 DEF StartPoll, CInv, TypeOK, TimeoutNotEarly, appliance, fixed, Never

LEMMA PollInv ==
  ASSUME CInv, Poll
  PROVE  CInv'
<1>0. /\ pc = "poll" /\ TypeOK /\ res = "none" /\ op # "none"
      /\ UNCHANGED <<fixed, now, start, perror, deadline, connected, tx, appliance>>
      /\ Revents \subseteq Sockets
  BY DEF Poll, CInv, Revents
<1> HIDE DEF Revents
<1>1. CASE /\ ready' = Revents /\ pc' \in {"log", "io"}
           /\ UNCHANGED <<op, left, res, interrupts>>
  BY <1>0, <1>1 DEF CInv, TypeOK, TimeoutNotEarly, appliance, fixed
<1>2. CASE /\ deadline # Never /\ now >= deadline
           /\ Return("timeout") /\ ready' = {} /\ UNCHANGED interrupts
  <2>1. TypeOK'
    BY <1>0, <1>2, ConnAssumption DEF Return, TypeOK, appliance, fixed
  <2>2. TimeoutNotEarly'
    <3>1. deadline - start > TicksPerSec * (APPLIANCE_TIMEOUT - 1)
      BY <1>0, <1>2 DEF CInv
    <3>2. now' = now /\ start' = start /\ deadline \in Int /\ now \in Int /\ start \in Int
      BY <1>0 DEF TypeOK
    <3>3. TicksPerSec * (APPLIANCE_TIMEOUT - 1) \in Int
      BY ConnAssumption
    <3> QED
      BY <1>2, <3>1, <3>2, <3>3 DEF TimeoutNotEarly
  <2> QED
    BY <1>0, <1>2, <2>1, <2>2 DEF Return, CInv, appliance
<1>3. CASE /\ interrupts < MaxInterrupts /\ interrupts' = interrupts + 1 /\ pc' = "start"
           /\ UNCHANGED <<op, left, res, ready>>
  BY <1>0, <1>3, ConnAssumption DEF CInv, TypeOK, TimeoutNotEarly, appliance, fixed
<1> QED
  BY <1>1, <1>2, <1>3 DEF Poll

LEMMA SystemCallFailsInv ==
  ASSUME CInv, SystemCallFails
  PROVE  CInv'
<1>1. TypeOK'
  BY ConnAssumption DEF SystemCallFails, Return, CInv, TypeOK, TimeoutNotEarly, appliance, fixed
<1> QED
  BY <1>1, ConnAssumption DEF SystemCallFails, Return, CInv, TypeOK, TimeoutNotEarly, appliance, fixed

LEMMA LogInv ==
  ASSUME CInv, handle_log_message
  PROVE  CInv'
<1>1. TypeOK'
  BY ConnAssumption DEF handle_log_message, Return, CInv, TypeOK, TimeoutNotEarly, fixed
<1> QED
  BY <1>1, ConnAssumption DEF handle_log_message, Return, CInv, TypeOK, TimeoutNotEarly, fixed

LEMMA AcceptInv ==
  ASSUME CInv, Accept
  PROVE  CInv'
<1>1. TypeOK'
  BY ConnAssumption DEF Accept, Return, CInv, TypeOK, TimeoutNotEarly, appliance, fixed
<1> QED
  BY <1>1, ConnAssumption DEF Accept, Return, CInv, TypeOK, TimeoutNotEarly, appliance, fixed

LEMMA ReadInv ==
  ASSUME CInv, Read
  PROVE  CInv'
<1>1. TypeOK'
  BY ConnAssumption DEF Read, Return, CInv, TypeOK, TimeoutNotEarly, fixed
<1> QED
  BY <1>1, ConnAssumption DEF Read, Return, CInv, TypeOK, TimeoutNotEarly, fixed

LEMMA DrainInv ==
  ASSUME CInv, Drain
  PROVE  CInv'
<1>1. TypeOK'
  BY ConnAssumption DEF Drain, Return, CInv, TypeOK, TimeoutNotEarly, fixed
<1> QED
  BY <1>1, ConnAssumption DEF Drain, Return, CInv, TypeOK, TimeoutNotEarly, fixed

LEMMA WriteInv ==
  ASSUME CInv, Write
  PROVE  CInv'
<1>1. TypeOK'
  BY ConnAssumption DEF Write, Return, CInv, TypeOK, TimeoutNotEarly, appliance, fixed
<1> QED
  BY <1>1, ConnAssumption DEF Write, Return, CInv, TypeOK, TimeoutNotEarly, appliance, fixed

LEMMA ApplianceInv ==
  ASSUME CInv, Appliance
  PROVE  CInv'
<1> USE DEF CInv, TypeOK, TimeoutNotEarly, appliance, library, fixed
<1>1. CASE appliance_connects
  BY <1>1 DEF appliance_connects
<1>2. CASE appliance_logs
  BY <1>2, ConnAssumption DEF appliance_logs
<1>3. CASE appliance_sends
  BY <1>3, ConnAssumption DEF appliance_sends
<1>4. CASE appliance_reads
  BY <1>4, ConnAssumption DEF appliance_reads
<1>5. CASE appliance_hangs_up \/ appliance_dies \/ appliance_closes
  <2>1. /\ open' \subseteq Sockets /\ alive' \in BOOLEAN
        /\ UNCHANGED <<library, connected, rx, tx, console, sent, logged>>
    BY <1>5 DEF appliance_hangs_up, appliance_dies, appliance_closes
  <2> QED
    BY <2>1
<1> QED
  BY <1>1, <1>2, <1>3, <1>4, <1>5 DEF Appliance

LEMMA TickInv ==
  ASSUME CInv, Tick
  PROVE  CInv'
<1>1. TypeOK'
  BY ConnAssumption DEF Tick, CInv, TypeOK, TimeoutNotEarly, appliance, fixed
<1> QED
  BY <1>1, ConnAssumption DEF Tick, CInv, TypeOK, TimeoutNotEarly, appliance, fixed

LEMMA NextCInv == CInv /\ [Next]_vars => CInv'
<1> SUFFICES ASSUME CInv, [Next]_vars  PROVE CInv'
  OBVIOUS
<1>1. CASE accept_connection \/ read_data \/ write_data
  BY <1>1, CallInv DEF accept_connection, read_data, write_data
<1>2. CASE Library
  BY <1>2, StartPollInv, PollInv, LogInv, AcceptInv, ReadInv, DrainInv, WriteInv DEF Library
<1>3. CASE SystemCallFails \/ Appliance \/ Tick
  BY <1>3, SystemCallFailsInv, ApplianceInv, TickInv
<1>4. CASE UNCHANGED vars
  BY <1>4 DEF vars, CInv, TypeOK, TimeoutNotEarly
<1> QED
  BY <1>1, <1>2, <1>3, <1>4 DEF Next

(***************************************************************************)
(* The loops of lib/conn-socket.c keep their bookkeeping: nothing is read  *)
(* that was not written, an operation has a result only when it is over,   *)
(* and only accept_connection polls with a deadline.                       *)
(***************************************************************************)
THEOREM ConnInvariance == Spec => []CInv
<1> QED
  BY InitCInv, NextCInv, PTL DEF Spec

(***************************************************************************)
(* accept_connection never reports a timeout to an appliance that has not  *)
(* had more than APPLIANCE_TIMEOUT - 1 seconds, for every timeout and      *)
(* every resolution of the clock.                                          *)
(***************************************************************************)
THEOREM AcceptIsPatient == Spec => []TimeoutNotEarly
<1>1. CInv => TimeoutNotEarly
  BY DEF CInv
<1> QED
  BY <1>1, ConnInvariance, PTL

(***************************************************************************)
(* read_data in verbose mode does not say that the appliance is gone while *)
(* a message of its console is still to be passed on, unless it has        *)
(* recorded why it could not read the console.                             *)
(***************************************************************************)
THEOREM ConsoleIsReadOut == Spec => LogsDelivered
<1>1. CInv /\ [Next]_vars =>
        [op = "read" /\ res' = "closed" /\ verbose /\ has_console =>
           console' = 0 \/ perror']_vars
  <2> SUFFICES ASSUME CInv, Next, op = "read", res' = "closed", verbose, has_console
               PROVE  console' = 0 \/ perror'
    OBVIOUS
  <2>1. pc # "idle" /\ res' # res /\ console \in Nat
    BY ConnAssumption DEF CInv, TypeOK
  <2>2. ~(accept_connection \/ read_data \/ write_data)
    BY <2>1 DEF accept_connection, read_data, write_data, Call
  <2>3. ~(StartPoll \/ Poll \/ Accept \/ Write)
    BY <2>1 DEF StartPoll, Poll, Accept, Write, Return
  <2>4. ~(Appliance \/ Tick)
    BY <2>1 DEF Appliance, appliance_connects, appliance_logs, appliance_sends, appliance_reads,
                appliance_hangs_up, appliance_dies, appliance_closes, Tick, library
  <2>5. CASE Read
    BY <2>1, <2>5 DEF Read, Return
  <2>6. CASE handle_log_message \/ Drain
    BY <2>1, <2>6 DEF handle_log_message, Drain
  <2>7. CASE SystemCallFails
    BY <2>7 DEF SystemCallFails
  <2> QED
    BY <2>2, <2>3, <2>4, <2>5, <2>6, <2>7 DEF Next, Library
<1> QED
  BY <1>1, ConnInvariance, PTL DEF Spec, LogsDelivered

=============================================================================
