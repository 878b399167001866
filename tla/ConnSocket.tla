----------------------------- MODULE ConnSocket -----------------------------
(***************************************************************************)
(* The connection to the daemon (lib/conn-socket.c): accept_connection,    *)
(* read_data and write_data, each a loop around poll that also looks after *)
(* the console of the appliance, against a hypervisor that connects,       *)
(* writes to either socket, reads, and dies closing its sockets one by     *)
(* one.  Time is part of the state, because accept_connection measures its *)
(* timeout with time (2), in whole seconds.  A unit of data stands for a   *)
(* read or a write of any size.                                            *)
(***************************************************************************)
EXTENDS Integers

CONSTANTS
  APPLIANCE_TIMEOUT,    \* seconds
  TicksPerSec,          \* how finely the model sees time
  Horizon,              \* bound: ticks
  MaxLog, MaxData,      \* bounds: units the appliance writes to each socket
  MaxInterrupts,        \* bound: signals that interrupt poll
  Len, Room             \* units per call, and the size of the socket's buffer

ASSUME ConnAssumption ==
  /\ {APPLIANCE_TIMEOUT, TicksPerSec, Len, Room} \subseteq Nat \ {0}
  /\ {Horizon, MaxLog, MaxData, MaxInterrupts} \subseteq Nat
  /\ TicksPerSec <= Horizon

VARIABLES
  verbose,            \* g->verbose
  has_console,        \* conn->console_sock >= 0
  now, start,         \* the clock; when accept_connection was called
  op, pc, left, res,  \* the operation, where it is, what is left, its result
  perror,             \* the operation has recorded a failed system call
  deadline,           \* when poll gives up; Never if its timeout is negative
  ready,              \* the sockets poll has reported
  connected,          \* the daemon socket: "no", "queued" or "yes"
  rx, tx,             \* units waiting in it in each direction
  console,            \* units waiting in the console
  open,               \* the sockets the appliance still has open
  alive,              \* the hypervisor has not begun to die
  sent, logged,       \* units written to rx so far; log units written so far
  interrupts

appliance == <<rx, console, open, alive, sent, logged>>
vars == <<verbose, has_console, now, start, op, pc, left, res, perror, deadline, ready,
          connected, rx, tx, console, open, alive, sent, logged, interrupts>>
fixed == <<verbose, has_console>>

Never == -1
Sockets == {"daemon", "console"}

TypeOK ==
  /\ verbose \in BOOLEAN /\ has_console \in BOOLEAN /\ alive \in BOOLEAN
  /\ perror \in BOOLEAN
  /\ now \in 0 .. Horizon /\ start \in 0 .. Horizon
  /\ op \in {"none", "accept", "read", "write"}
  /\ pc \in {"idle", "start", "poll", "log", "io", "drain"}
  /\ left \in 0 .. Len
  /\ res \in {"none", "ok", "closed", "timeout", "error"}
  /\ deadline \in Int
  /\ ready \subseteq Sockets /\ open \subseteq Sockets
  /\ connected \in {"no", "queued", "yes"}
  /\ rx \in 0 .. MaxData /\ tx \in 0 .. Room /\ console \in 0 .. MaxLog
  /\ sent \in 0 .. MaxData /\ logged \in 0 .. MaxLog
  /\ interrupts \in 0 .. MaxInterrupts

\* Either backend: listening, or (uml, unix) connected from the beginning; the
\* clock is anywhere within its second.
Init ==
  /\ verbose \in BOOLEAN /\ has_console \in BOOLEAN
  /\ now \in 0 .. TicksPerSec - 1 /\ start = now
  /\ connected \in {"no", "yes"}
  /\ op = "none" /\ pc = "idle" /\ left = 0 /\ res = "none" /\ perror = FALSE
  /\ deadline = 0 /\ ready = {}
  /\ rx = 0 /\ tx = 0 /\ console = 0
  /\ open = Sockets /\ alive = TRUE
  /\ sent = 0 /\ logged = 0 /\ interrupts = 0

-----------------------------------------------------------------------------
(* The library.                                                            *)

\* time (2).
Seconds(t) == t \div TicksPerSec

\* Mutant: an off-by-one in the subtraction.
timeout_rounded == TicksPerSec * (APPLIANCE_TIMEOUT - 1 - (Seconds(now) - Seconds(start)))

\* How long poll may wait, in ticks.
timeout == TicksPerSec * (APPLIANCE_TIMEOUT - (Seconds(now) - Seconds(start)))

Call(o) ==
  /\ pc = "idle" /\ res \in {"none", "ok"}
  /\ op' = o /\ pc' = "start" /\ left' = Len /\ res' = "none" /\ perror' = FALSE
  /\ UNCHANGED <<fixed, now, deadline, ready, connected, tx, appliance, interrupts>>

accept_connection == Call("accept") /\ connected # "yes" /\ start' = now

read_data == Call("read") /\ connected = "yes" /\ UNCHANGED start

write_data == Call("write") /\ connected = "yes" /\ UNCHANGED start

\* The top of the loops: the timeout of the next poll.  A negative one waits
\* for ever, which is what read_data and write_data ask for.
StartPoll ==
  /\ pc = "start" /\ pc' = "poll"
  /\ deadline' = IF op = "accept" /\ timeout >= 0 THEN now + timeout ELSE Never
  /\ UNCHANGED <<fixed, now, start, op, left, res, perror, ready, connected, tx, appliance,
                 interrupts>>

\* What poll would report now.
Revents ==
  {s \in Sockets :
     IF s = "console"
     THEN has_console /\ (console > 0 \/ "console" \notin open)
     ELSE CASE op = "accept" -> connected = "queued"
            [] op = "read" -> rx > 0 \/ "daemon" \notin open
            [] op = "write" -> tx < Room \/ "daemon" \notin open}

Return(r) == pc' = "idle" /\ op' = "none" /\ res' = r /\ left' = 0

\* Mutant: the return value 0 of poll is not looked at.
Poll_no_timeout ==
  /\ pc = "poll"
  /\ \/ /\ Revents # {} /\ ready' = Revents
        /\ pc' = IF "console" \in Revents THEN "log" ELSE "io"
        /\ UNCHANGED <<op, left, res, interrupts>>
     \/ /\ interrupts < MaxInterrupts                              \* EINTR
        /\ interrupts' = interrupts + 1 /\ pc' = "start"
        /\ UNCHANGED <<op, left, res, ready>>
  /\ UNCHANGED <<fixed, now, start, perror, deadline, connected, tx, appliance>>

Poll ==
  /\ pc = "poll"
  /\ \/ /\ Revents # {} /\ ready' = Revents
        /\ pc' = IF "console" \in Revents THEN "log" ELSE "io"
        /\ UNCHANGED <<op, left, res, interrupts>>
     \/ /\ Revents = {} /\ deadline # Never /\ now >= deadline
        /\ Return("timeout") /\ ready' = {} /\ UNCHANGED interrupts
     \/ /\ interrupts < MaxInterrupts                              \* EINTR
        /\ interrupts' = interrupts + 1 /\ pc' = "start"
        /\ UNCHANGED <<op, left, res, ready>>
  /\ UNCHANGED <<fixed, now, start, perror, deadline, connected, tx, appliance>>

\* poll, or the system call after it, fails: each of the loops returns -1, but
\* for the one that reads out the console, after which read_data returns 0.
SystemCallFails ==
  /\ pc \in {"poll", "log", "io", "drain"} /\ perror' = TRUE
  /\ Return(IF pc = "drain" THEN "closed" ELSE "error")
  /\ UNCHANGED <<fixed, now, start, deadline, ready, connected, tx, appliance, interrupts>>

\* handle_log_message as the loops call it: at EOF the operation ends, and
\* what waits in the daemon socket is not looked at.
handle_log_message ==
  /\ pc = "log"
  /\ IF console > 0
     THEN /\ console' = 0
          /\ pc' = IF "daemon" \in ready THEN "io" ELSE "start"
          /\ UNCHANGED <<op, left, res>>
     ELSE Return("closed") /\ UNCHANGED console
  /\ UNCHANGED <<fixed, now, start, perror, deadline, ready, connected, rx, tx, open, alive,
                 sent, logged, interrupts>>

Accept ==
  /\ pc = "io" /\ op = "accept"
  /\ connected' = "yes" /\ Return("ok")
  /\ UNCHANGED <<fixed, now, start, perror, deadline, ready, tx, appliance, interrupts>>

\* The appliance has closed the socket without reading all of it: ECONNRESET.
Reset == "daemon" \notin open /\ tx > 0

\* Mutant: EOF ends the call at once.
Read_no_drain ==
  /\ pc = "io" /\ op = "read"
  /\ \/ \E k \in 1 .. left :
          /\ k <= rx /\ rx' = rx - k
          /\ IF k = left THEN Return("ok")
             ELSE left' = left - k /\ pc' = "start" /\ UNCHANGED <<op, res>>
     \/ rx = 0 /\ UNCHANGED rx /\ Return("closed")
  /\ UNCHANGED <<fixed, now, start, perror, deadline, ready, connected, tx, console, open, alive,
                 sent, logged, interrupts>>

\* Mutant: reads whatever there is.
Read_all ==
  /\ pc = "io" /\ op = "read"
  /\ \/ \E k \in 1 .. rx :
          /\ rx' = rx - k
          /\ IF k = left THEN Return("ok")
             ELSE left' = left - k /\ pc' = "start" /\ UNCHANGED <<op, res>>
     \/ /\ rx = 0 /\ UNCHANGED rx
        /\ IF verbose /\ has_console
           THEN pc' = "drain" /\ UNCHANGED <<op, left, res>>
           ELSE Return("closed")
  /\ UNCHANGED <<fixed, now, start, perror, deadline, ready, connected, tx, console, open, alive,
                 sent, logged, interrupts>>

Read ==
  /\ pc = "io" /\ op = "read"
  /\ \/ \E k \in 1 .. left :
          /\ k <= rx /\ rx' = rx - k
          /\ IF k = left THEN Return("ok")
             ELSE left' = left - k /\ pc' = "start" /\ UNCHANGED <<op, res>>
     \/ /\ rx = 0 \/ Reset
        /\ UNCHANGED rx
        /\ IF verbose /\ has_console
           THEN pc' = "drain" /\ UNCHANGED <<op, left, res>>
           ELSE Return("closed")
  /\ UNCHANGED <<fixed, now, start, perror, deadline, ready, connected, tx, console, open, alive,
                 sent, logged, interrupts>>

\* Mutant: the end of the console is not seen.
Drain_blocks ==
  /\ pc = "drain" /\ console > 0
  /\ console' = 0 /\ UNCHANGED <<pc, op, left, res>>
  /\ UNCHANGED <<fixed, now, start, perror, deadline, ready, connected, rx, tx, open, alive,
                 sent, logged, interrupts>>

\* Reading out the console after the daemon socket is at EOF.  An empty console
\* (EAGAIN) is no reason to stop.
Drain ==
  /\ pc = "drain"
  /\ \/ console > 0 /\ console' = 0 /\ UNCHANGED <<pc, op, left, res>>
     \/ console = 0 /\ "console" \notin open /\ UNCHANGED console /\ Return("closed")
  /\ UNCHANGED <<fixed, now, start, perror, deadline, ready, connected, rx, tx, open, alive,
                 sent, logged, interrupts>>

Write ==
  /\ pc = "io" /\ op = "write"
  /\ IF "daemon" \notin open
     THEN Return("closed") /\ UNCHANGED tx                         \* EPIPE
     ELSE \E k \in 1 .. left :
            /\ tx + k <= Room /\ tx' = tx + k
            /\ IF k = left THEN Return("ok")
               ELSE left' = left - k /\ pc' = "start" /\ UNCHANGED <<op, res>>
  /\ UNCHANGED <<fixed, now, start, perror, deadline, ready, connected, appliance, interrupts>>

Library == \/ StartPoll \/ Poll \/ handle_log_message \/ Accept \/ Read \/ Drain
           \/ Write

-----------------------------------------------------------------------------
(* The appliance, and time.                                                *)

library == <<fixed, now, start, op, pc, left, res, perror, deadline, ready, interrupts>>

appliance_connects ==
  /\ alive /\ connected = "no" /\ connected' = "queued"
  /\ UNCHANGED <<library, tx, appliance>>

appliance_logs ==
  /\ alive /\ has_console /\ logged < MaxLog
  /\ console' = console + 1 /\ logged' = logged + 1
  /\ UNCHANGED <<library, connected, rx, tx, open, alive, sent>>

appliance_sends ==
  /\ alive /\ connected # "no" /\ "daemon" \in open /\ sent < MaxData
  /\ rx' = rx + 1 /\ sent' = sent + 1
  /\ UNCHANGED <<library, connected, tx, console, open, alive, logged>>

appliance_reads ==
  /\ alive /\ "daemon" \in open /\ tx > 0 /\ tx' = tx - 1
  /\ UNCHANGED <<library, connected, appliance>>

\* The hypervisor closes its end of the daemon socket and lives on for a while.
appliance_hangs_up ==
  /\ alive /\ connected # "no" /\ "daemon" \in open
  /\ open' = open \ {"daemon"}
  /\ UNCHANGED <<library, connected, rx, tx, console, alive, sent, logged>>

appliance_dies ==
  /\ alive /\ alive' = FALSE
  /\ UNCHANGED <<library, connected, rx, tx, console, open, sent, logged>>

\* The kernel closes the sockets of a dead process one after the other.
appliance_closes ==
  /\ ~alive
  /\ \E s \in open : open' = open \ {s}
  /\ UNCHANGED <<library, connected, rx, tx, console, alive, sent, logged>>

Appliance == \/ appliance_connects \/ appliance_logs \/ appliance_sends
             \/ appliance_reads \/ appliance_hangs_up \/ appliance_dies \/ appliance_closes

\* Only accept_connection looks at the clock.  Time passes in poll and while a
\* message of the console is handled, not between time and poll.
Tick ==
  /\ op = "accept" /\ pc # "start" /\ now < Horizon /\ now' = now + 1
  /\ UNCHANGED <<fixed, start, op, pc, left, res, perror, deadline, ready, connected, tx,
                 appliance, interrupts>>

Next == \/ accept_connection \/ read_data \/ write_data
        \/ Library \/ SystemCallFails \/ Appliance \/ Tick

\* The library and the kernel are scheduled and time passes; the appliance need
\* not do anything, and no system call need fail.
Fairness == WF_vars(Library) /\ WF_vars(appliance_closes) /\ WF_vars(Tick)

Spec == Init /\ [][Next]_vars /\ Fairness

-----------------------------------------------------------------------------
(* Properties.                                                             *)

\* accept_connection reports a timeout only after the appliance has had more
\* than APPLIANCE_TIMEOUT - 1 seconds, although it counts whole seconds from a
\* start anywhere within one and starts its poll anew after every message.
TimeoutNotEarly ==
  res = "timeout" => now - start > TicksPerSec * (APPLIANCE_TIMEOUT - 1)

\* When read_data in verbose mode says that the appliance is gone, every message
\* it had written to its console has been passed on, or an error that stopped
\* the reading of the console has been recorded.
LogsDelivered ==
  [][op = "read" /\ res' = "closed" /\ verbose /\ has_console =>
       console' = 0 \/ perror']_vars

\* The death of the appliance ends whatever operation is in progress, also in
\* the middle of the console's messages: only an accept without a console, or
\* one whose timeout went negative, can miss it.
DeathEndsCall == (~alive) ~> (pc = "idle" \/ (op = "accept" /\ deadline = Never))

\* accept_connection returns, unless it polls with a negative timeout.
AcceptReturns == (op = "accept") ~> (pc = "idle" \/ deadline = Never)

\* accept_connection has a timeout.
AcceptHasTimeout == (op = "accept") ~> (pc = "idle")

\* The inductive invariant: nothing is read that was not written, an operation
\* in progress has neither a result nor an error yet, only accept_connection polls with a timeout,
\* and the time it gives the appliance, counted from its start, is never too
\* short, whatever interrupted the polls before.
CInv ==
  /\ TypeOK
  /\ rx <= sent /\ console <= logged
  /\ op = "none" <=> pc = "idle"
  /\ pc # "idle" => res = "none" /\ ~perror
  /\ res = "error" => perror
  /\ pc = "poll" /\ deadline # Never => op = "accept"
  /\ op = "accept" /\ pc # "start" /\ deadline # Never =>
       deadline - start > TicksPerSec * (APPLIANCE_TIMEOUT - 1)
  /\ TimeoutNotEarly

=============================================================================
