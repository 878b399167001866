------------------------------- MODULE Callbacks -------------------------------
(***************************************************************************)
(* What the users of a handle are promised of its events and errors        *)
(* (lib/guestfs.pod, "SETTING CALLBACKS TO HANDLE EVENTS" and "MULTIPLE    *)
(* HANDLES AND MULTIPLE THREADS"): an event is delivered to every callback *)
(* that is registered for it, once, and to none that has been deleted;     *)
(* each thread has its own last error and its own error handlers.          *)
(***************************************************************************)
EXTENDS Naturals, Sequences

CONSTANTS Threads, Regs, Classes, Levels, Errors, Handlers, Default, NoError

VARIABLES
  live,       \* the classes of events each registration is for, {} if deleted
  owed,       \* notifications still to be made: thread, nesting, registration
  lastError,  \* of each thread
  handlers    \* of each thread, the one in force last

pvars == <<live, owed, lastError, handlers>>

PInit ==
  /\ live = [r \in Regs |-> {}] /\ owed = {}
  /\ lastError = [t \in Threads |-> NoError]
  /\ handlers = [t \in Threads |-> <<Default>>]

SameEvents == UNCHANGED <<live, owed>>
SameErrors == UNCHANGED <<lastError, handlers>>

\* A callback registered during a delivery may be called in it or not.
Register(r, classes) ==
  /\ live[r] = {} /\ live' = [live EXCEPT ![r] = classes]
  /\ owed \subseteq owed' /\ \A o \in owed' \ owed : o[3] = r
  /\ SameErrors

\* Nothing that is deleted is called any more, not even in a delivery that has
\* begun.
Unregister(r) ==
  /\ live[r] # {} /\ live' = [live EXCEPT ![r] = {}]
  /\ owed' = {o \in owed : o[3] # r}
  /\ SameErrors

Replace(r, s, classes) ==
  /\ live[r] # {} /\ live[s] = {} /\ live' = [live EXCEPT ![r] = {}, ![s] = classes]
  /\ {o \in owed : o[3] # r} \subseteq owed'
  /\ \A o \in owed' : o[3] # s => o \in owed /\ o[3] # r
  /\ SameErrors

\* A thread raises an event inside a call, or in a callback of an outer event;
\* what is nested more deeply is over by then.
Raise(t, n, class) ==
  /\ \A o \in owed : o[1] = t => o[2] < n
  /\ owed' = owed \cup {<<t, n, r>> : r \in {q \in Regs : class \in live[q]}}
  /\ UNCHANGED live /\ SameErrors

Notify(t, n, r) ==
  /\ <<t, n, r>> \in owed /\ owed' = owed \ {<<t, n, r>>}
  /\ UNCHANGED live /\ SameErrors

\* A handle is closed when it has nothing more to deliver.
CloseAll ==
  /\ owed = {} /\ UNCHANGED owed
  /\ live' = [r \in Regs |-> {}]
  /\ lastError' = [t \in Threads |-> NoError]
  /\ handlers' = [t \in Threads |-> <<Default>>]

Fail(t, e) == lastError' = [lastError EXCEPT ![t] = e] /\ UNCHANGED handlers /\ SameEvents

SetHandler(t, h) ==
  /\ handlers' = [handlers EXCEPT ![t] = Append(SubSeq(@, 1, Len(@) - 1), h)]
  /\ UNCHANGED lastError /\ SameEvents

PushHandler(t, h) ==
  /\ handlers' = [handlers EXCEPT ![t] = Append(@, h)]
  /\ UNCHANGED lastError /\ SameEvents

\* Popped too many times, the stack has the default handler.
PopHandler(t) ==
  /\ handlers' = [handlers EXCEPT ![t] = IF Len(@) > 1 THEN SubSeq(@, 1, Len(@) - 1)
                                                         ELSE <<Default>>]
  /\ UNCHANGED lastError /\ SameEvents

RegistryStep ==
  \E r \in Regs :
    \/ Unregister(r)
    \/ \E classes \in SUBSET Classes :
         Register(r, classes) \/ \E q \in Regs : Replace(q, r, classes)

DeliveryStep ==
  \E t \in Threads, n \in Levels :
    \/ \E r \in Regs : Notify(t, n, r)
    \/ \E class \in Classes : Raise(t, n, class)

ErrorStep ==
  \E t \in Threads :
    \/ \E e \in Errors : Fail(t, e)
    \/ \E h \in Handlers : SetHandler(t, h) \/ PushHandler(t, h)
    \/ PopHandler(t)

PNext ==
  \/ live' # live /\ RegistryStep
  \/ owed' # owed /\ DeliveryStep
  \/ SameEvents /\ ErrorStep
  \/ CloseAll

PSpec == PInit /\ [][PNext]_pvars
================================================================================
