-------------------------------- MODULE Events --------------------------------
(***************************************************************************)
(* Event callbacks, error handlers and the lock of a handle that several   *)
(* threads use (lib/events.c, lib/errors.c, and the wrappers of the        *)
(* functions of the API that generator/c.ml writes).                       *)
(*                                                                         *)
(* The array g->events is walked while callbacks run, and callbacks may    *)
(* themselves call the API: register and delete callbacks, change error    *)
(* handlers, make calls that raise events and errors.  stack[t] has the    *)
(* frames of the library, and of the program when the library has called   *)
(* it back, in thread t.                                                   *)
(***************************************************************************)
EXTENDS Naturals, Sequences

CONSTANTS
  Threads, Regs,    \* a registration is a callback with its opaque pointer
  Classes,          \* of events: a bit each; "close" is one
  OldStyle,         \* the classes that have a function of the old interface
  Masks,            \* the sets of classes that programs register for
  Errors, Settable, \* error handlers that programs set; None stands for NULL
  MaxEvents,        \* 1000
  MaxNesting,       \* bound on the frames of a thread
  MaxPushed         \* bound on the error handlers pushed in a thread

None == "none"
Default == "default_error_cb"
Handlers == Settable \cup {Default}
Levels == 1..MaxNesting

ASSUME EventsAssumption ==
  /\ MaxEvents \in Nat \ {0} /\ MaxNesting \in Nat /\ MaxPushed \in Nat
  /\ "close" \in Classes /\ OldStyle \subseteq Classes /\ "new" \notin Classes
  /\ Masks \subseteq (SUBSET Classes) \ {{}}
  /\ None \notin Threads \cup Errors /\ Default \notin Settable

VARIABLES
  lock,       \* the thread that has g->lock
  stack,      \* frames of each thread
  events,     \* g->events up to g->nr_events
  wanted,     \* what the program has registered and not deleted
  errdata,    \* struct error_data of each thread; the stack has the newest last
  handle      \* "open", "closing", "closed"

vars == <<lock, stack, events, wanted, errdata, handle>>

Entry(mask, cb, r) == [event_bitmask |-> mask, cb |-> cb, opaque |-> r]
Frame(op, class, next) == [op |-> op, class |-> class, next |-> next]
Api == Frame("api", None, 0)                      \* a wrapper of generator/c.ml
Walk(class, i) == Frame("walk", class, i)         \* guestfs_int_call_callbacks_*
User == Frame("user", None, 0)                    \* a callback or error handler
Closing(pc) == Frame("close", pc, 0)              \* guestfs_close

\* A registration as the program sees it: for which classes, through which
\* interface ("new", or the class of the function of the old one), and the slot
\* that the returned event handle stands for.
Wants(classes, cb, slot) == [classes |-> classes, cb |-> cb, slot |-> slot]
Nothing == Wants({}, "new", 0)

NoData == [last_error |-> None, error_cb |-> Default, error_cb_stack |-> <<>>]

Init ==
  /\ lock = None /\ stack = [t \in Threads |-> <<>>]
  /\ events = <<>> /\ wanted = [r \in Regs |-> Nothing]
  /\ errdata = [t \in Threads |-> NoData] /\ handle = "open"

-----------------------------------------------------------------------------
Top(t, op) == stack[t] # <<>> /\ stack[t][Len(stack[t])].op = op
TopFrame(t) == stack[t][Len(stack[t])]
Below(t) == SubSeq(stack[t], 1, Len(stack[t]) - 1)
InApi(frames) == \E k \in DOMAIN frames : frames[k].op = "api"
Push(t, frame) == stack' = [stack EXCEPT ![t] = Append(@, frame)]
Pop(t) == stack' = [stack EXCEPT ![t] = Below(t)]

\* Thread t is in the program, and can have the recursive lock.  While a handle
\* is being closed only its callbacks may use it.
UserRuns(t) ==
  /\ Top(t, "user") \/ (stack[t] = <<>> /\ handle = "open")
  /\ lock \in {None, t}

SameErrors == UNCHANGED errdata
SameEvents == UNCHANGED <<events, wanted>>

-----------------------------------------------------------------------------
(* lib/errors.c *)

\* The struct error_data of a thread, which does not differ from NoData before
\* it is allocated.
get_error_data(t) == errdata[t]

set_last_error(t, e) == [get_error_data(t) EXCEPT !.last_error = e]

\* error and perrorf: the handler runs in the middle of the call.
Raised(t, frames, e) ==
  /\ errdata' = [errdata EXCEPT ![t] = set_last_error(t, e)]
  /\ stack' = [stack EXCEPT ![t] = @ \o frames \o
                 (IF errdata[t].error_cb \in {None, Default} THEN <<>> ELSE <<User>>)]

guestfs_int_error_errno(t, e) ==
  /\ Top(t, "api") \/ Top(t, "close")
  /\ Raised(t, <<>>, e)
  /\ UNCHANGED <<lock, handle>> /\ SameEvents

guestfs_set_error_handler(t, h) ==
  /\ UserRuns(t)
  /\ errdata' = [errdata EXCEPT ![t] = [get_error_data(t) EXCEPT !.error_cb = h]]
  /\ UNCHANGED <<lock, stack, handle>> /\ SameEvents

guestfs_push_error_handler(t, h) ==
  /\ UserRuns(t) /\ Len(errdata[t].error_cb_stack) < MaxPushed
  /\ errdata' = [errdata EXCEPT ![t] = [get_error_data(t) EXCEPT
                   !.error_cb_stack = Append(@, errdata[t].error_cb), !.error_cb = h]]
  /\ UNCHANGED <<lock, stack, handle>> /\ SameEvents

guestfs_pop_error_handler(t) ==
  /\ UserRuns(t)
  /\ errdata' = [errdata EXCEPT ![t] =
       LET d == get_error_data(t)
       IN  IF d.error_cb_stack # <<>>
           THEN [d EXCEPT !.error_cb = d.error_cb_stack[Len(d.error_cb_stack)],
                          !.error_cb_stack = SubSeq(@, 1, Len(@) - 1)]
           ELSE [d EXCEPT !.error_cb = Default]]
  /\ UNCHANGED <<lock, stack, handle>> /\ SameEvents

-----------------------------------------------------------------------------
(* lib/events.c *)

\* Mutant: the array is closed up when a callback is deleted.
without_shifting(i) == SubSeq(events, 1, i - 1) \o SubSeq(events, i + 1, Len(events))
\* Mutant: a deleted callback keeps its bitmask.
without_forgetting(i) == IF i = Len(events) THEN SubSeq(events, 1, i - 1) ELSE events
\* g->events after guestfs_delete_event_callback (g, i - 1)
without(i) ==
  LET deleted == [events EXCEPT ![i].event_bitmask = {}]
  IN  IF i = Len(events) THEN SubSeq(deleted, 1, i - 1) ELSE deleted

guestfs_set_event_callback(t, r, mask) ==
  /\ UserRuns(t) /\ wanted[r] = Nothing
  /\ Len(events) < MaxEvents
  /\ events' = Append(events, Entry(mask, "new", r))
  /\ wanted' = [wanted EXCEPT ![r] = Wants(mask, "new", Len(events) + 1)]
  /\ UNCHANGED <<lock, stack, handle>> /\ SameErrors

\* "too many event callbacks registered"
guestfs_set_event_callback_full(t, e) ==
  /\ UserRuns(t) /\ Len(stack[t]) + 3 <= MaxNesting
  /\ Len(events) >= MaxEvents
  /\ Raised(t, <<Api>>, e) /\ lock' = t
  /\ UNCHANGED handle /\ SameEvents

\* A program deletes what it has registered, once.
guestfs_delete_event_callback(t, r) ==
  /\ UserRuns(t) /\ wanted[r].slot # 0
  /\ events' = IF wanted[r].slot > Len(events) THEN events ELSE without(wanted[r].slot)
  /\ wanted' = [wanted EXCEPT ![r] = Nothing]
  /\ UNCHANGED <<lock, stack, handle>> /\ SameErrors

Wrapped(class) == {i \in DOMAIN events : events[i].cb = class}
WithoutOld(class) == [r \in Regs |-> IF wanted[r].cb = class THEN Nothing ELSE wanted[r]]
First(slots) == CHOOSE i \in slots : \A j \in slots : i <= j

\* The functions guestfs_set_..._callback of the old interface, one for each
\* class: the wrapper they install tells their slot from the others.
replace_old_style_event_callback(t, class, r) ==
  /\ UserRuns(t) /\ wanted[r] = Nothing
  /\ events' = IF Wrapped(class) = {}
               THEN Append(events, Entry({class}, class, r))
               ELSE [events EXCEPT ![First(Wrapped(class))] = Entry({class}, class, r)]
  /\ wanted' = [WithoutOld(class) EXCEPT ![r] = Wants({class}, class, 0)]
  /\ UNCHANGED <<lock, stack, handle>> /\ SameErrors

\* cb == NULL
remove_old_style_event_callback(t, class) ==
  /\ UserRuns(t) /\ Wrapped(class) # {}
  /\ events' = without(First(Wrapped(class)))
  /\ wanted' = WithoutOld(class)
  /\ UNCHANGED <<lock, stack, handle>> /\ SameErrors

\* The loop of guestfs_int_call_callbacks_void, _message and _array.
Matches(t) ==
  /\ Top(t, "walk") /\ TopFrame(t).next <= Len(events)
  /\ TopFrame(t).class \in events[TopFrame(t).next].event_bitmask

Advanced(t) == Append(Below(t), [TopFrame(t) EXCEPT !.next = @ + 1])

call_callback(t) ==
  /\ Matches(t)
  /\ stack' = [stack EXCEPT ![t] = Append(Advanced(t), User)]
  /\ UNCHANGED <<lock, handle>> /\ SameEvents /\ SameErrors

skip_callback(t) ==
  /\ Top(t, "walk") /\ TopFrame(t).next <= Len(events) /\ ~Matches(t)
  /\ stack' = [stack EXCEPT ![t] = Advanced(t)]
  /\ UNCHANGED <<lock, handle>> /\ SameEvents /\ SameErrors

walk_ends(t) ==
  /\ Top(t, "walk") /\ TopFrame(t).next > Len(events)
  /\ Pop(t)
  /\ UNCHANGED <<lock, handle>> /\ SameEvents /\ SameErrors

callback_returns(t) ==
  /\ Top(t, "user") /\ Pop(t)
  /\ UNCHANGED <<lock, handle>> /\ SameEvents /\ SameErrors

-----------------------------------------------------------------------------
(* The wrappers of generator/c.ml, and lib/handle.c. *)

guestfs_call(t) ==
  /\ UserRuns(t) /\ Len(stack[t]) + 3 <= MaxNesting
  /\ Push(t, Api) /\ lock' = t
  /\ UNCHANGED handle /\ SameEvents /\ SameErrors

\* Events of entry, trace and return, and whatever the function itself raises.
guestfs_int_call_callbacks(t, class) ==
  /\ Top(t, "api")
  /\ Push(t, Walk(class, 1))
  /\ UNCHANGED <<lock, handle>> /\ SameEvents /\ SameErrors

\* Mutant: the lock is not recursive.
unlocked_at_once(t) == None
unlocked(t) == IF InApi(Below(t)) THEN t ELSE None

guestfs_call_returns(t) ==
  /\ Top(t, "api")
  /\ Pop(t) /\ lock' = unlocked(t)
  /\ UNCHANGED handle /\ SameEvents /\ SameErrors

guestfs_close(t) ==
  /\ handle = "open" /\ MaxNesting >= 6
  /\ \A u \in Threads : stack[u] = <<>>
  /\ Push(t, Closing("trace")) /\ handle' = "closing"
  /\ UNCHANGED lock /\ SameEvents /\ SameErrors

\* The trace event and the messages of shutting down, then the close event.
close_event(t, class) ==
  /\ Top(t, "close") /\ TopFrame(t).class = "trace"
  /\ stack' = [stack EXCEPT ![t] =
                 <<Closing(IF class = "close" THEN "free" ELSE "trace"), Walk(class, 1)>>]
  /\ UNCHANGED <<lock, handle>> /\ SameEvents /\ SameErrors

close_frees(t) ==
  /\ Top(t, "close") /\ TopFrame(t).class = "free"
  /\ Pop(t) /\ handle' = "closed"
  /\ events' = <<>> /\ wanted' = [r \in Regs |-> Nothing] /\ errdata' = [u \in Threads |-> NoData]
  /\ UNCHANGED lock

guestfs_create ==
  /\ handle = "closed" /\ handle' = "open"
  /\ UNCHANGED <<lock, stack>> /\ SameEvents /\ SameErrors

-----------------------------------------------------------------------------
Next ==
  \/ \E t \in Threads :
       \/ guestfs_pop_error_handler(t)
       \/ \E h \in Settable :
            guestfs_set_error_handler(t, h) \/ guestfs_push_error_handler(t, h)
       \/ \E e \in Errors : guestfs_int_error_errno(t, e) \/ guestfs_set_event_callback_full(t, e)
       \/ \E r \in Regs, mask \in Masks : guestfs_set_event_callback(t, r, mask)
       \/ \E r \in Regs : guestfs_delete_event_callback(t, r)
       \/ \E r \in Regs, class \in OldStyle : replace_old_style_event_callback(t, class, r)
       \/ \E class \in OldStyle : remove_old_style_event_callback(t, class)
       \/ call_callback(t) \/ skip_callback(t) \/ walk_ends(t) \/ callback_returns(t)
       \/ guestfs_call(t) \/ guestfs_call_returns(t)
       \/ \E class \in Classes \ {"close"} : guestfs_int_call_callbacks(t, class)
       \/ \E class \in Classes : close_event(t, class)
       \/ guestfs_close(t) \/ close_frees(t)
  \/ guestfs_create

Spec == Init /\ [][Next]_vars

-----------------------------------------------------------------------------
FrameType == [op : {"api", "walk", "user", "close"},
              class : Classes \cup {None, "trace", "free"}, next : Nat]
EntryType == [event_bitmask : SUBSET Classes, cb : Classes \cup {"new"}, opaque : Regs]
WantsType == [classes : SUBSET Classes, cb : Classes \cup {"new"}, slot : Nat]
ErrorData == [last_error : Errors \cup {None}, error_cb : Handlers, error_cb_stack : Seq(Handlers)]

TypeOK ==
  /\ lock \in Threads \cup {None} /\ handle \in {"open", "closing", "closed"}
  /\ stack \in [Threads -> Seq(FrameType)] /\ events \in Seq(EntryType)
  /\ wanted \in [Regs -> WantsType] /\ errdata \in [Threads -> ErrorData]

(***************************************************************************)
(* A handle that set_event_callback has returned, and that has not been    *)
(* deleted since, is the slot of the callback it was returned for: whoever *)
(* registers and deletes, in whichever callback, nobody else's callback    *)
(* moves or takes the slot.                                                *)
(***************************************************************************)
HandlesAreMine ==
  \A r \in Regs : wanted[r].slot # 0 =>
    /\ wanted[r].slot \in DOMAIN events
    /\ events[wanted[r].slot] = Entry(wanted[r].classes, "new", r)

(***************************************************************************)
(* A thread that is in the library, or in a callback of it, has the lock:  *)
(* no two threads are inside a call of the same handle, although callbacks *)
(* call the API again and return from it.                                  *)
(***************************************************************************)
InsideHasLock == \A t \in Threads : InApi(stack[t]) => lock = t

\* Every slot in use is of a registration that the program wants, and that has
\* no other; a wrapper of the old interface has one slot, which outlives its use.
SlotsInv ==
  /\ \A r \in Regs :
       /\ wanted[r].slot # 0 => wanted[r].cb = "new" /\ wanted[r].classes # {}
       /\ wanted[r].classes # {} =>
            \E i \in DOMAIN events :
              /\ events[i] = Entry(wanted[r].classes, wanted[r].cb, r)
              /\ wanted[r].slot = IF wanted[r].cb = "new" THEN i ELSE 0
       /\ wanted[r].classes = {} => wanted[r] = Nothing
  /\ \A i \in DOMAIN events :
       /\ events[i].event_bitmask # {} =>
            /\ wanted[events[i].opaque].classes = events[i].event_bitmask
            /\ wanted[events[i].opaque].cb = events[i].cb
            /\ \A j \in DOMAIN events :
                 events[j].event_bitmask # {} /\ events[j].opaque = events[i].opaque => i = j
       /\ events[i].cb # "new" => \A j \in DOMAIN events : events[j].cb = events[i].cb => i = j

\* The frames of the library have room for the callback above them.
FrameOK(k, f) ==
  /\ f.op = "api" => k + 2 <= MaxNesting
  /\ f.op = "walk" => k + 1 <= MaxNesting /\ f.class \in Classes /\ f.next >= 1
  /\ f.op = "user" => k <= MaxNesting
  /\ f.op = "close" => k = 1 /\ MaxNesting >= 6
FramesInv == \A t \in Threads : \A k \in DOMAIN stack[t] : FrameOK(k, stack[t][k])

\* Only the thread that closes a handle is still in it.
ClosingInv ==
  /\ handle = "closed" => \A t \in Threads : stack[t] = <<>>
  /\ handle = "closing" => \A t, u \in Threads : t = u \/ stack[t] = <<>> \/ stack[u] = <<>>
  /\ handle = "open" => \A t \in Threads : \A k \in DOMAIN stack[t] : stack[t][k].op # "close"

(***************************************************************************)
(* The inductive invariant: besides the two properties above it says which *)
(* slots of g->events, and which frames, there can be at the same time.    *)
(***************************************************************************)
EInv == TypeOK /\ HandlesAreMine /\ InsideHasLock /\ SlotsInv /\ FramesInv /\ ClosingInv
===============================================================================
