----------------------------- MODULE EventsProofs -----------------------------
(***************************************************************************)
(* Proofs about Events: the inductive invariant EInv, which has the        *)
(* slots of g->events, the frames of the threads and the lock, and that a  *)
(* handle keeps what Callbacks promises to its users.                      *)
(***************************************************************************)
EXTENDS EventsPromise, TLAPS

-----------------------------------------------------------------------------
(* Sequences that grow and shrink at the end. *)

\* A frame or a slot added at the end leaves the others where they are.
LEMMA Appended ==
  ASSUME NEW S, NEW s \in Seq(S), NEW x \in S
  PROVE  /\ Append(s, x) \in Seq(S) /\ Len(Append(s, x)) = Len(s) + 1
         /\ DOMAIN Append(s, x) = 1..(Len(s) + 1)
         /\ \A k \in 1..Len(s) : Append(s, x)[k] = s[k]
         /\ Append(s, x)[Len(s) + 1] = x
  OBVIOUS

\* A frame or a slot removed at the end leaves the others where they are.
LEMMA Shortened ==
  ASSUME NEW S, NEW s \in Seq(S), s # <<>>
  PROVE  /\ SubSeq(s, 1, Len(s) - 1) \in Seq(S) /\ Len(SubSeq(s, 1, Len(s) - 1)) = Len(s) - 1
         /\ DOMAIN SubSeq(s, 1, Len(s) - 1) = 1..(Len(s) - 1)
         /\ \A k \in 1..(Len(s) - 1) : SubSeq(s, 1, Len(s) - 1)[k] = s[k]
<1> DEFINE n == Len(s) - 1
<1>1. n \in Nat /\ n <= Len(s)
  OBVIOUS
<1> HIDE DEF n
<1>2. SubSeq(s, 1, n) \in Seq(S)
  BY <1>1
<1>3. Len(SubSeq(s, 1, n)) = n
  BY <1>1
<1>4. \A k \in 1..n : SubSeq(s, 1, n)[k] = s[k]
  BY <1>1
<1>5. DOMAIN SubSeq(s, 1, n) = 1..n
  BY <1>2, <1>3
<1> QED
  BY <1>2, <1>3, <1>4, <1>5, Zenon DEF n

\* A slot overwritten leaves the others as they are.
LEMMA Overwritten ==
  ASSUME NEW S, NEW s \in Seq(S), NEW x \in S, NEW i \in DOMAIN s
  PROVE  /\ [s EXCEPT ![i] = x] \in Seq(S) /\ Len([s EXCEPT ![i] = x]) = Len(s)
         /\ DOMAIN [s EXCEPT ![i] = x] = 1..Len(s)
         /\ \A k \in 1..Len(s) : [s EXCEPT ![i] = x][k] = IF k = i THEN x ELSE s[k]
  OBVIOUS

-----------------------------------------------------------------------------
(* The frames of a thread. *)

\* What EInv says of the frames, the lock and whether the handle is open.
FramesPart ==
  /\ lock \in Threads \cup {None} /\ handle \in {"open", "closing", "closed"}
  /\ stack \in [Threads -> Seq(FrameType)]
  /\ InsideHasLock /\ FramesInv /\ ClosingInv

\* Frames that a thread may have, if it has the lock.
Fit(s) == s \in Seq(FrameType) /\ \A k \in DOMAIN s : FrameOK(k, s[k])

\* A thread whose new frames fit, and that has the lock if it is in a call,
\* disturbs nobody's frames.
LEMMA NewFrames ==
  ASSUME FramesPart, NEW t \in Threads, NEW s, Fit(s), stack' = [stack EXCEPT ![t] = s],
         lock' \in Threads \cup {None}, InApi(s) => lock' = t,
         \A u \in Threads : u # t /\ InApi(stack[u]) => lock' = u
  PROVE  stack' \in [Threads -> Seq(FrameType)] /\ InsideHasLock' /\ FramesInv'
<1>1. \A u \in Threads : stack'[u] = IF u = t THEN s ELSE stack[u]
  BY Zenon DEF FramesPart
<1>2. stack' \in [Threads -> Seq(FrameType)]
  BY Zenon DEF FramesPart, Fit
<1>3. InsideHasLock'
  BY <1>1 DEF InsideHasLock, InApi
<1>4. FramesInv'
  BY <1>1, Zenon DEF FramesPart, FramesInv, Fit
<1> QED
  BY <1>2, <1>3, <1>4, Zenon

\* Nobody enters a closed handle, and only the thread that closes a handle is
\* still in it.
LEMMA StaysClosed ==
  ASSUME FramesPart, NEW t \in Threads, NEW s, stack' = [stack EXCEPT ![t] = s],
         handle' = handle, handle = "open" \/ stack[t] # <<>>,
         handle = "open" => \A k \in DOMAIN s : s[k].op # "close"
  PROVE  ClosingInv'
<1>1. \A u \in Threads : stack'[u] = IF u = t THEN s ELSE stack[u]
  BY Zenon DEF FramesPart
<1> QED
  BY <1>1, Zenon DEF FramesPart, ClosingInv

\* The frames that are left when one is over, and those with another one above
\* them, fit as they did.
LEMMA FramesBelow ==
  ASSUME FramesPart, NEW t \in Threads, stack[t] # <<>>
  PROVE  /\ Fit(stack[t]) /\ Fit(Below(t)) /\ Len(Below(t)) = Len(stack[t]) - 1
         /\ DOMAIN Below(t) \subseteq DOMAIN stack[t]
         /\ \A k \in DOMAIN Below(t) : Below(t)[k] = stack[t][k]
         /\ Len(stack[t]) \in DOMAIN stack[t] /\ TopFrame(t) \in FrameType
         /\ FrameOK(Len(stack[t]), TopFrame(t))
<1>1. stack[t] \in Seq(FrameType)
  BY Zenon DEF FramesPart
<1>2. /\ Below(t) \in Seq(FrameType) /\ Len(Below(t)) = Len(stack[t]) - 1
      /\ DOMAIN Below(t) = 1..(Len(stack[t]) - 1)
      /\ \A k \in 1..(Len(stack[t]) - 1) : Below(t)[k] = stack[t][k]
  BY <1>1, Shortened, Zenon DEF Below
<1>3. DOMAIN Below(t) \subseteq DOMAIN stack[t] /\ Len(stack[t]) \in DOMAIN stack[t]
  BY <1>1, <1>2
<1>4. \A k \in DOMAIN stack[t] : FrameOK(k, stack[t][k])
  BY Zenon DEF FramesPart, FramesInv
<1>5. TopFrame(t) \in FrameType /\ FrameOK(Len(stack[t]), TopFrame(t))
  BY <1>1, <1>3, <1>4 DEF TopFrame
<1> QED
  BY <1>1, <1>2, <1>3, <1>4, <1>5, Zenon DEF Fit

LEMMA FrameAbove ==
  ASSUME NEW s, Fit(s), NEW f \in FrameType, FrameOK(Len(s) + 1, f)
  PROVE  /\ Fit(Append(s, f)) /\ Len(Append(s, f)) = Len(s) + 1
         /\ InApi(Append(s, f)) <=> InApi(s) \/ f.op = "api"
         /\ \A k \in DOMAIN Append(s, f) : Append(s, f)[k] = IF k = Len(s) + 1 THEN f ELSE s[k]
         /\ \A k \in DOMAIN Append(s, f) : k = Len(s) + 1 \/ k \in DOMAIN s
<1> DEFINE a == Append(s, f)
<1>1. s \in Seq(FrameType) /\ Len(s) \in Nat /\ DOMAIN s = 1..Len(s)
  BY DEF Fit
<1>2. /\ a \in Seq(FrameType) /\ Len(a) = Len(s) + 1 /\ DOMAIN a = 1..(Len(s) + 1)
      /\ \A k \in 1..Len(s) : a[k] = s[k]
      /\ a[Len(s) + 1] = f
  BY <1>1, Appended
<1> HIDE DEF a
<1>3. \A k \in DOMAIN a : k = Len(s) + 1 \/ k \in DOMAIN s
  BY <1>1, <1>2
<1>4. \A k \in DOMAIN a : a[k] = IF k = Len(s) + 1 THEN f ELSE s[k]
  BY <1>1, <1>2, <1>3, Zenon
<1>5. Fit(a)
  BY <1>2, <1>3, <1>4, Zenon DEF Fit
<1>6. InApi(a) <=> InApi(s) \/ f.op = "api"
  <2>1. Len(s) + 1 \in DOMAIN a /\ DOMAIN s \subseteq DOMAIN a
    BY <1>1, <1>2
  <2>2. \A k \in DOMAIN s : a[k] = s[k]
    BY <1>1, <1>2, Zenon
  <2> QED
    BY <1>2, <1>3, <2>1, <2>2, Zenon DEF InApi
<1> QED
  BY <1>2, <1>3, <1>4, <1>5, <1>6, Zenon DEF a

\* What the frames that can be on the stack are.
LEMMA FrameKinds ==
  /\ Api \in FrameType /\ User \in FrameType
  /\ Closing("trace") \in FrameType /\ Closing("free") \in FrameType
  /\ \A class \in Classes : Walk(class, 1) \in FrameType
  /\ Api.op = "api" /\ User.op = "user"
  /\ \A class \in Classes : Walk(class, 1).op = "walk"
  BY EventsAssumption, Zenon DEF Api, User, Closing, Walk, Frame, FrameType, FrameOK, None

\* A step that neither calls nor returns.
LEMMA SameFrames ==
  ASSUME FramesPart, UNCHANGED <<lock, stack, handle>>
  PROVE  FramesPart'
  BY Zenon DEF FramesPart, InsideHasLock, FramesInv, ClosingInv

\* A callback or an error handler is called: there is room for its frame.
LEMMA UserCalled ==
  ASSUME FramesPart, NEW t \in Threads, NEW s, Fit(s), Len(s) + 1 <= MaxNesting,
         InApi(s) => lock' = t, \A k \in DOMAIN s : s[k].op = "close" => handle # "open",
         stack' = [stack EXCEPT ![t] = Append(s, User)],
         lock' \in Threads \cup {None},
         \A u \in Threads : u # t /\ InApi(stack[u]) => lock' = u,
         handle = "open" \/ stack[t] # <<>>, handle' = handle
  PROVE  FramesPart'
<1>1. Len(s) \in Nat /\ FrameOK(Len(s) + 1, User)
  BY EventsAssumption DEF Fit, FrameOK, User, Frame
<1>2. /\ Fit(Append(s, User))
      /\ InApi(Append(s, User)) <=> InApi(s)
      /\ \A k \in DOMAIN Append(s, User) : Append(s, User)[k] = IF k = Len(s) + 1 THEN User ELSE s[k]
      /\ \A k \in DOMAIN Append(s, User) : k = Len(s) + 1 \/ k \in DOMAIN s
  BY <1>1, FrameAbove, FrameKinds, Zenon
<1>3. handle = "open" => \A k \in DOMAIN Append(s, User) : Append(s, User)[k].op # "close"
  BY <1>2, FrameKinds, Zenon
<1>4. stack' \in [Threads -> Seq(FrameType)] /\ InsideHasLock' /\ FramesInv'
  BY <1>2, NewFrames, Zenon
<1>5. ClosingInv'
  BY <1>3, StaysClosed, Zenon
<1> QED
  BY <1>4, <1>5, Zenon DEF FramesPart

\* A thread that can have the lock is alone in the calls of the handle.
LEMMA OthersOut ==
  ASSUME FramesPart, NEW t \in Threads, lock \in {None, t}
  PROVE  \A u \in Threads : u # t => ~InApi(stack[u])
  BY EventsAssumption, Zenon DEF FramesPart, InsideHasLock

LEMMA ProgramRuns ==
  ASSUME FramesPart, NEW t \in Threads, UserRuns(t)
  PROVE  /\ Fit(stack[t]) /\ Len(stack[t]) \in Nat
         /\ handle = "open" \/ stack[t] # <<>>
         /\ \A u \in Threads : u # t => ~InApi(stack[u])
         /\ \A k \in DOMAIN stack[t] : stack[t][k].op = "close" => handle # "open"
<1>1. \A u \in Threads : u # t => ~InApi(stack[u])
  BY OthersOut, Zenon DEF UserRuns
<1>2. Fit(stack[t]) /\ Len(stack[t]) \in Nat
  BY DEF FramesPart, FramesInv, Fit
<1> QED
  BY <1>1, <1>2, Zenon DEF UserRuns, Top, FramesPart, ClosingInv

LEMMA Popped ==
  ASSUME FramesPart, NEW t \in Threads, stack[t] # <<>>, Pop(t), handle' = handle,
         \/ lock' = lock
         \/ InApi(stack[t]) /\ lock' = unlocked(t)
  PROVE  FramesPart'
<1>1. /\ Fit(Below(t)) /\ DOMAIN Below(t) \subseteq DOMAIN stack[t]
      /\ \A k \in DOMAIN Below(t) : Below(t)[k] = stack[t][k]
  BY FramesBelow, Zenon
<1>2. InApi(Below(t)) => InApi(stack[t])
  BY <1>1, Zenon DEF InApi
<1>3. InApi(Below(t)) => lock' = t
  BY <1>2, Zenon DEF unlocked, FramesPart, InsideHasLock
<1>4. \A u \in Threads : u # t /\ InApi(stack[u]) => lock' = u
  BY Zenon DEF FramesPart, InsideHasLock
<1>5. lock' \in Threads \cup {None}
  BY Zenon DEF FramesPart, unlocked
<1>6. stack' \in [Threads -> Seq(FrameType)] /\ InsideHasLock' /\ FramesInv'
  BY <1>1, <1>3, <1>4, <1>5, NewFrames, Zenon DEF Pop
<1>7. handle = "open" => \A k \in DOMAIN Below(t) : Below(t)[k].op # "close"
  BY <1>1, Zenon DEF FramesPart, ClosingInv
<1>8. ClosingInv'
  BY <1>7, StaysClosed, Zenon DEF Pop
<1> QED
  BY <1>5, <1>6, <1>8, Zenon DEF FramesPart

\* error and perrorf inside a call of the API, and in guestfs_close.
LEMMA ErrorFrames ==
  ASSUME FramesPart, NEW t \in Threads, NEW e, guestfs_int_error_errno(t, e)
  PROVE  FramesPart'
<1>1. stack[t] # <<>> /\ TopFrame(t).op \in {"api", "close"}
  BY Zenon DEF guestfs_int_error_errno, Top, TopFrame
<1>2. /\ Fit(stack[t]) /\ Len(stack[t]) \in DOMAIN stack[t]
      /\ FrameOK(Len(stack[t]), TopFrame(t))
  BY <1>1, FramesBelow, Zenon
<1>3. stack[t] \in Seq(FrameType) /\ Len(stack[t]) \in Nat
  BY DEF FramesPart
<1>4. Len(stack[t]) + 1 <= MaxNesting
  BY <1>1, <1>2, <1>3, EventsAssumption DEF FrameOK
<1>5. stack[t] \o <<>> \o <<>> = stack[t] /\ stack[t] \o <<>> \o <<User>> = Append(stack[t], User)
  BY <1>3, FrameKinds
<1>6. CASE stack' = [stack EXCEPT ![t] = stack[t]]
  <2>1. stack' = stack
    BY <1>6, Zenon DEF FramesPart
  <2> QED
    BY <2>1, SameFrames, Zenon DEF guestfs_int_error_errno
<1>7. CASE stack' = [stack EXCEPT ![t] = Append(stack[t], User)]
  <2>1. \A u \in Threads : InApi(stack[u]) => lock = u
    BY Zenon DEF FramesPart, InsideHasLock
  <2>2. \A k \in DOMAIN stack[t] : stack[t][k].op = "close" => handle # "open"
    BY Zenon DEF FramesPart, ClosingInv
  <2> QED
    BY <1>1, <1>2, <1>4, <1>7, <2>1, <2>2, UserCalled, Zenon DEF guestfs_int_error_errno,
       FramesPart
<1> QED
  BY <1>5, <1>6, <1>7, Zenon DEF guestfs_int_error_errno, Raised

\* A frame put on top of a stack, other than that of guestfs_close.
LEMMA Pushed ==
  ASSUME FramesPart, NEW t \in Threads, NEW s, Fit(s), NEW f \in FrameType,
         FrameOK(Len(s) + 1, f), f.op # "close",
         \A k \in DOMAIN s : s[k].op = "close" => handle # "open",
         InApi(s) \/ f.op = "api" => lock' = t,
         stack' = [stack EXCEPT ![t] = Append(s, f)],
         lock' \in Threads \cup {None},
         \A u \in Threads : u # t /\ InApi(stack[u]) => lock' = u,
         handle = "open" \/ stack[t] # <<>>, handle' = handle
  PROVE  FramesPart'
<1>1. /\ Fit(Append(s, f))
      /\ InApi(Append(s, f)) <=> InApi(s) \/ f.op = "api"
      /\ \A k \in DOMAIN Append(s, f) : Append(s, f)[k] = IF k = Len(s) + 1 THEN f ELSE s[k]
      /\ \A k \in DOMAIN Append(s, f) : k = Len(s) + 1 \/ k \in DOMAIN s
  BY FrameAbove, Zenon
<1>2. handle = "open" => \A k \in DOMAIN Append(s, f) : Append(s, f)[k].op # "close"
  BY <1>1, Zenon
<1>3. stack' \in [Threads -> Seq(FrameType)] /\ InsideHasLock' /\ FramesInv'
  BY <1>1, NewFrames, Zenon
<1>4. ClosingInv'
  BY <1>2, StaysClosed, Zenon
<1> QED
  BY <1>3, <1>4, Zenon DEF FramesPart

LEMMA CallFrames ==
  ASSUME FramesPart, NEW t \in Threads, guestfs_call(t)
  PROVE  FramesPart'
<1>1. FrameOK(Len(stack[t]) + 1, Api)
  BY ProgramRuns, EventsAssumption DEF guestfs_call, FrameOK, Api, Frame
<1>2. stack' = [stack EXCEPT ![t] = Append(stack[t], Api)]
  BY Zenon DEF guestfs_call, Push
<1> QED
  BY <1>1, <1>2, FrameKinds, ProgramRuns, Pushed, Zenon DEF guestfs_call

LEMMA FullFrames ==
  ASSUME FramesPart, NEW t \in Threads, NEW e, guestfs_set_event_callback_full(t, e)
  PROVE  FramesPart'
<1>1. /\ UserRuns(t) /\ lock' = t /\ handle' = handle /\ Len(stack[t]) \in Nat
      /\ Len(stack[t]) + 3 <= MaxNesting
  BY ProgramRuns, Zenon DEF guestfs_set_event_callback_full
<1>2. FrameOK(Len(stack[t]) + 1, Api)
  BY <1>1, EventsAssumption DEF FrameOK, Api, Frame
<1> DEFINE s == Append(stack[t], Api)
<1>3. /\ Fit(s) /\ Len(s) = Len(stack[t]) + 1
      /\ \A k \in DOMAIN s : s[k] = IF k = Len(stack[t]) + 1 THEN Api ELSE stack[t][k]
      /\ \A k \in DOMAIN s : k = Len(stack[t]) + 1 \/ k \in DOMAIN stack[t]
  BY <1>1, <1>2, FrameAbove, FrameKinds, ProgramRuns
<1>4. \A k \in DOMAIN s : s[k].op = "close" => handle # "open"
  BY <1>1, <1>3, FrameKinds, ProgramRuns, Zenon
<1>5. stack[t] \in Seq(FrameType)
  BY Zenon DEF FramesPart
<1>6. stack[t] \o <<Api>> \o <<>> = s /\ stack[t] \o <<Api>> \o <<User>> = Append(s, User)
  BY <1>5, FrameKinds
<1> HIDE DEF s
<1>7. CASE stack' = [stack EXCEPT ![t] = s]
  BY <1>1, <1>2, <1>7, FrameKinds, ProgramRuns, Pushed, Zenon DEF s
<1>8. CASE stack' = [stack EXCEPT ![t] = Append(s, User)]
  <2>1. Len(s) + 1 <= MaxNesting
    BY <1>1, <1>3, EventsAssumption
  <2> QED
    BY <1>1, <1>3, <1>4, <1>8, <2>1, ProgramRuns, UserCalled, Zenon
<1> QED
  BY <1>6, <1>7, <1>8, Zenon DEF guestfs_set_event_callback_full, Raised

\* A walk that goes on to the next slot.
LEMMA AdvancedFits ==
  ASSUME FramesPart, NEW t \in Threads, Top(t, "walk")
  PROVE  LET f == [TopFrame(t) EXCEPT !.next = @ + 1]
         IN  /\ f \in FrameType /\ f.op = "walk" /\ FrameOK(Len(Below(t)) + 1, f)
             /\ Advanced(t) = Append(Below(t), f)
             /\ Len(Below(t)) + 2 <= MaxNesting
             /\ InApi(Below(t)) => InApi(stack[t])
             /\ \A k \in DOMAIN Below(t) : Below(t)[k].op = "close" => handle # "open"
             /\ f.next = TopFrame(t).next + 1 /\ f.class = TopFrame(t).class
             /\ TopFrame(t).next \in Nat \ {0}
<1>1. /\ stack[t] # <<>> /\ TopFrame(t).op = "walk" /\ TopFrame(t) \in FrameType
      /\ Len(stack[t]) \in Nat /\ Len(Below(t)) = Len(stack[t]) - 1
      /\ FrameOK(Len(stack[t]), TopFrame(t))
      /\ DOMAIN Below(t) \subseteq DOMAIN stack[t]
      /\ \A k \in DOMAIN Below(t) : Below(t)[k] = stack[t][k]
  BY FramesBelow DEF Top, TopFrame, FramesPart
<1> DEFINE f == [TopFrame(t) EXCEPT !.next = @ + 1]
<1>2. /\ f \in FrameType /\ f.op = "walk" /\ f.class = TopFrame(t).class
      /\ f.next = TopFrame(t).next + 1 /\ TopFrame(t).next \in Nat
  BY <1>1 DEF FrameType
<1>3. TopFrame(t).next >= 1 /\ Len(stack[t]) + 1 <= MaxNesting /\ TopFrame(t).class \in Classes
  BY <1>1, Zenon DEF FrameOK
<1>4. FrameOK(Len(Below(t)) + 1, f)
  BY <1>1, <1>2, <1>3, EventsAssumption DEF FrameOK
<1>5. InApi(Below(t)) => InApi(stack[t])
  BY <1>1, Zenon DEF InApi
<1>6. \A k \in DOMAIN Below(t) : Below(t)[k].op = "close" => handle # "open"
  BY <1>1, Zenon DEF FramesPart, ClosingInv
<1>7. Len(Below(t)) + 2 <= MaxNesting
  BY <1>1, <1>3, EventsAssumption
<1> QED
  BY <1>2, <1>3, <1>4, <1>5, <1>6, <1>7 DEF Advanced

LEMMA SkipFrames ==
  ASSUME FramesPart, NEW t \in Threads, skip_callback(t)
  PROVE  FramesPart'
<1> DEFINE f == [TopFrame(t) EXCEPT !.next = @ + 1]
<1>1. stack[t] # <<>> /\ Top(t, "walk")
  BY Zenon DEF skip_callback, Top
<1>2. /\ f \in FrameType /\ f.op = "walk" /\ FrameOK(Len(Below(t)) + 1, f)
      /\ Advanced(t) = Append(Below(t), f)
      /\ \A k \in DOMAIN Below(t) : Below(t)[k].op = "close" => handle # "open"
  BY <1>1, AdvancedFits, Zenon
<1> HIDE DEF f
<1>3. \A u \in Threads : InApi(stack[u]) => lock = u
  BY Zenon DEF FramesPart, InsideHasLock
<1>4. stack' = [stack EXCEPT ![t] = Append(Below(t), f)] /\ UNCHANGED <<lock, handle>>
  BY <1>2, Zenon DEF skip_callback
<1>5. InApi(Below(t)) => InApi(stack[t])
  BY <1>1, AdvancedFits, Zenon
<1> QED
  BY <1>1, <1>2, <1>3, <1>4, <1>5, FramesBelow, Pushed, Zenon DEF FramesPart

LEMMA CallbackFrames ==
  ASSUME FramesPart, NEW t \in Threads, call_callback(t)
  PROVE  FramesPart'
<1> DEFINE f == [TopFrame(t) EXCEPT !.next = @ + 1]
           s == Append(Below(t), f)
<1>1. stack[t] # <<>> /\ Top(t, "walk")
  BY Zenon DEF call_callback, Matches, Top
<1>2. /\ f \in FrameType /\ f.op = "walk" /\ FrameOK(Len(Below(t)) + 1, f)
      /\ Advanced(t) = s /\ Len(Below(t)) + 2 <= MaxNesting
      /\ \A k \in DOMAIN Below(t) : Below(t)[k].op = "close" => handle # "open"
  BY <1>1, AdvancedFits, Zenon
<1>3. InApi(Below(t)) => InApi(stack[t])
  BY <1>1, AdvancedFits, Zenon
<1>4. Fit(Below(t)) /\ Len(Below(t)) \in Nat
  BY <1>1, FramesBelow DEF Fit
<1> HIDE DEF f
<1>5. /\ Fit(s) /\ Len(s) = Len(Below(t)) + 1
      /\ \A k \in DOMAIN s : s[k] = IF k = Len(Below(t)) + 1 THEN f ELSE Below(t)[k]
      /\ \A k \in DOMAIN s : k = Len(Below(t)) + 1 \/ k \in DOMAIN Below(t)
  BY <1>2, <1>4, FrameAbove, Zenon
<1>6. InApi(s) <=> InApi(Below(t)) \/ f.op = "api"
  BY <1>2, <1>4, FrameAbove, Zenon
<1>7. \A k \in DOMAIN s : s[k].op = "close" => handle # "open"
  BY <1>2, <1>5, Zenon
<1>8. stack' = [stack EXCEPT ![t] = Append(s, User)] /\ UNCHANGED <<lock, handle>>
  BY <1>2, Zenon DEF call_callback
<1> HIDE DEF s
<1>9. \A u \in Threads : InApi(stack[u]) => lock = u
  BY Zenon DEF FramesPart, InsideHasLock
<1>10. Len(s) + 1 <= MaxNesting
  BY <1>2, <1>4, <1>5, EventsAssumption
<1> QED
  BY <1>1, <1>2, <1>3, <1>5, <1>6, <1>7, <1>8, <1>9, <1>10, UserCalled, Zenon DEF FramesPart

\* A walk or a callback that is over, and a call that returns.
LEMMA ReturnFrames ==
  ASSUME FramesPart, NEW t \in Threads,
         walk_ends(t) \/ callback_returns(t) \/ guestfs_call_returns(t)
  PROVE  FramesPart'
<1>1. stack[t] # <<>> /\ Pop(t) /\ handle' = handle
  BY Zenon DEF walk_ends, callback_returns, guestfs_call_returns, Top
<1>2. guestfs_call_returns(t) => InApi(stack[t]) /\ lock' = unlocked(t)
  BY <1>1, FramesBelow, Zenon DEF guestfs_call_returns, Top, InApi
<1>3. lock' = lock \/ guestfs_call_returns(t)
  BY Zenon DEF walk_ends, callback_returns
<1> QED
  BY <1>1, <1>2, <1>3, Popped, Zenon

LEMMA RaiseFrames ==
  ASSUME FramesPart, NEW t \in Threads, NEW class \in Classes,
         guestfs_int_call_callbacks(t, class)
  PROVE  FramesPart'
<1>1. /\ stack[t] # <<>> /\ TopFrame(t).op = "api"
      /\ stack' = [stack EXCEPT ![t] = Append(stack[t], Walk(class, 1))]
      /\ UNCHANGED <<lock, handle>>
  BY Zenon DEF guestfs_int_call_callbacks, Top, TopFrame, Push
<1>2. Fit(stack[t]) /\ FrameOK(Len(stack[t]), TopFrame(t)) /\ Len(stack[t]) \in DOMAIN stack[t]
  BY <1>1, FramesBelow, Zenon
<1>3. Len(stack[t]) \in Nat /\ \A u \in Threads : InApi(stack[u]) => lock = u
  BY DEF FramesPart, InsideHasLock
<1>4. FrameOK(Len(stack[t]) + 1, Walk(class, 1))
  BY <1>1, <1>2, <1>3, EventsAssumption DEF FrameOK, Walk, Frame
<1>5. \A k \in DOMAIN stack[t] : stack[t][k].op = "close" => handle # "open"
  BY Zenon DEF FramesPart, ClosingInv
<1> QED
  BY <1>1, <1>2, <1>3, <1>4, <1>5, FrameKinds, Pushed, Zenon DEF FramesPart

LEMMA CloseFrames ==
  ASSUME FramesPart, NEW t \in Threads, guestfs_close(t)
  PROVE  FramesPart'
<1> DEFINE s == <<Closing("trace")>>
<1>1. /\ \A u \in Threads : stack[u] = <<>>
      /\ handle' = "closing" /\ lock' = lock /\ stack' = [stack EXCEPT ![t] = s]
  <2>1. stack[t] = <<>> /\ Append(<<>>, Closing("trace")) = s
    BY DEF guestfs_close
  <2> QED
    BY <2>1, Zenon DEF guestfs_close, Push
<1>2. Fit(s) /\ ~InApi(s)
  BY FrameKinds DEF Fit, FrameOK, guestfs_close, Closing, Frame, InApi
<1> HIDE DEF s
<1>3. \A u \in Threads : ~InApi(stack[u])
  BY <1>1 DEF InApi
<1>4. stack' \in [Threads -> Seq(FrameType)] /\ InsideHasLock' /\ FramesInv'
  BY <1>1, <1>2, <1>3, NewFrames, Zenon DEF FramesPart
<1>5. ClosingInv'
  BY <1>1, Zenon DEF FramesPart, ClosingInv
<1> QED
  BY <1>1, <1>4, <1>5, Zenon DEF FramesPart

\* A handle that is being closed, by the only thread that is in it.
LEMMA Closer ==
  ASSUME FramesPart, NEW t \in Threads, Top(t, "close")
  PROVE  /\ handle = "closing" /\ Len(stack[t]) = 1 /\ MaxNesting >= 6
         /\ Below(t) = <<>> /\ \A u \in Threads : u # t => stack[u] = <<>>
         /\ \A u \in Threads : ~InApi(stack[u])
<1>1. /\ stack[t] # <<>> /\ Len(stack[t]) \in DOMAIN stack[t] /\ TopFrame(t).op = "close"
      /\ FrameOK(Len(stack[t]), TopFrame(t)) /\ TopFrame(t) = stack[t][Len(stack[t])]
      /\ stack[t] \in Seq(FrameType)
  BY FramesBelow, Zenon DEF Top, TopFrame, FramesPart
<1>2. Len(stack[t]) = 1 /\ MaxNesting >= 6
  BY <1>1, Zenon DEF FrameOK
<1>3. handle = "closing" /\ \A u \in Threads : u # t => stack[u] = <<>>
  BY <1>1, Zenon DEF FramesPart, ClosingInv
<1>4. Below(t) = <<>>
  <2>1. SubSeq(stack[t], 1, 0) = <<>>
    BY <1>1
  <2> QED
    BY <1>2, <2>1 DEF Below
<1>5. ~InApi(stack[t])
  BY <1>1, <1>2 DEF InApi
<1>6. ~InApi(<<>>)
  BY DEF InApi
<1>7. \A u \in Threads : ~InApi(stack[u])
  BY <1>3, <1>5, <1>6, Zenon
<1> QED
  BY <1>2, <1>3, <1>4, <1>7, Zenon

LEMMA CloseEventFrames ==
  ASSUME FramesPart, NEW t \in Threads, NEW class \in Classes, close_event(t, class)
  PROVE  FramesPart'
<1> DEFINE f == Closing(IF class = "close" THEN "free" ELSE "trace")
           w == Walk(class, 1)
           s == <<f, w>>
<1>1. Top(t, "close") /\ stack[t] # <<>> /\ UNCHANGED <<lock, handle>>
  BY Zenon DEF close_event, Top
<1>2. f \in FrameType /\ w \in FrameType /\ f.op = "close" /\ w.op = "walk"
  BY FrameKinds, Zenon DEF Closing, Frame
<1>3. FrameOK(1, f) /\ FrameOK(2, w)
  BY <1>1, Closer, EventsAssumption DEF FrameOK, Closing, Walk, Frame
<1>4. stack' = [stack EXCEPT ![t] = s]
  BY Zenon DEF close_event
<1> HIDE DEF f, w
<1>5. Fit(s) /\ ~InApi(s)
  BY <1>2, <1>3 DEF Fit, InApi
<1> HIDE DEF s
<1>6. stack' \in [Threads -> Seq(FrameType)] /\ InsideHasLock' /\ FramesInv'
  BY <1>1, <1>4, <1>5, Closer, NewFrames, Zenon DEF FramesPart
<1>7. ClosingInv'
  BY <1>1, <1>4, Closer, StaysClosed, Zenon
<1> QED
  BY <1>1, <1>6, <1>7, Zenon DEF FramesPart

LEMMA FreeFrames ==
  ASSUME FramesPart, NEW t \in Threads, close_frees(t)
  PROVE  FramesPart'
<1>1. Top(t, "close") /\ stack' = [stack EXCEPT ![t] = <<>>] /\ lock' = lock /\ handle' = "closed"
  BY Closer, Zenon DEF close_frees, Pop
<1>2. Fit(<<>>) /\ ~InApi(<<>>)
  BY DEF Fit, InApi
<1>3. stack' \in [Threads -> Seq(FrameType)] /\ InsideHasLock' /\ FramesInv'
  BY <1>1, <1>2, Closer, NewFrames, Zenon DEF FramesPart
<1>4. \A u \in Threads : stack'[u] = <<>>
  BY <1>1, Closer, Zenon DEF FramesPart
<1>5. ClosingInv'
  BY <1>1, <1>4, Zenon DEF ClosingInv
<1> QED
  BY <1>1, <1>3, <1>5, Zenon DEF FramesPart

LEMMA CreateFrames ==
  ASSUME FramesPart, guestfs_create
  PROVE  FramesPart'
  BY DEF FramesPart, InsideHasLock, FramesInv, ClosingInv, guestfs_create

-----------------------------------------------------------------------------
(* The array g->events and what the program wants of it. *)

RegistryPart == events \in Seq(EntryType) /\ wanted \in [Regs -> WantsType] /\ SlotsInv

\* The slots say all that has to be known of the event handles.
LEMMA SlotsGiveHandles ==
  ASSUME RegistryPart
  PROVE  HandlesAreMine
  BY Zenon DEF RegistryPart, SlotsInv, HandlesAreMine

LEMMA SameRegistry ==
  ASSUME RegistryPart, SameEvents
  PROVE  RegistryPart'
  BY Zenon DEF RegistryPart, SlotsInv, SameEvents

LEMMA Records ==
  /\ \A mask \in SUBSET Classes, cb \in Classes \cup {"new"}, r \in Regs :
       /\ Entry(mask, cb, r) \in EntryType
       /\ Entry(mask, cb, r).event_bitmask = mask /\ Entry(mask, cb, r).cb = cb
       /\ Entry(mask, cb, r).opaque = r
  /\ \A mask \in SUBSET Classes, cb \in Classes \cup {"new"}, i \in Nat :
       /\ Wants(mask, cb, i) \in WantsType
       /\ Wants(mask, cb, i).classes = mask /\ Wants(mask, cb, i).cb = cb
       /\ Wants(mask, cb, i).slot = i
  /\ Nothing \in WantsType /\ Nothing.classes = {} /\ Nothing.cb = "new" /\ Nothing.slot = 0
  BY Zenon DEF Entry, EntryType, Wants, WantsType, Nothing

LEMMA SlotTypes ==
  ASSUME events \in Seq(EntryType), NEW i \in DOMAIN events
  PROVE  /\ events[i].event_bitmask \in SUBSET Classes
         /\ events[i].cb \in Classes \cup {"new"} /\ events[i].opaque \in Regs
<1>1. events[i] \in EntryType
  OBVIOUS
<1> QED
  BY <1>1, Zenon DEF EntryType

\* guestfs_delete_event_callback clears one slot, or takes it off the end, and
\* leaves the others where they are.
LEMMA Without ==
  ASSUME events \in Seq(EntryType), NEW i \in DOMAIN events
  PROVE  /\ without(i) \in Seq(EntryType) /\ DOMAIN without(i) \subseteq DOMAIN events
         /\ \A j \in DOMAIN events : j # i => j \in DOMAIN without(i)
         /\ \A j \in DOMAIN without(i) :
              /\ j # i => without(i)[j] = events[j]
              /\ j = i => /\ without(i)[j].event_bitmask = {}
                          /\ without(i)[j].cb = events[j].cb
                          /\ without(i)[j].opaque = events[j].opaque
<1> DEFINE x == [events[i] EXCEPT !.event_bitmask = {}]
           d == [events EXCEPT ![i] = x]
<1>1. events[i] \in EntryType /\ Len(events) \in Nat /\ DOMAIN events = 1..Len(events)
  OBVIOUS
<1>2. /\ x \in EntryType /\ x.event_bitmask = {} /\ x.cb = events[i].cb
      /\ x.opaque = events[i].opaque
  BY <1>1, Zenon DEF EntryType
<1>3. [events EXCEPT ![i].event_bitmask = {}] = d
  OBVIOUS
<1> HIDE DEF x
<1>4. /\ d \in Seq(EntryType) /\ Len(d) = Len(events) /\ DOMAIN d = 1..Len(events)
      /\ \A k \in 1..Len(events) : d[k] = IF k = i THEN x ELSE events[k]
  BY <1>2, Overwritten
<1> HIDE DEF d
<1>5. CASE i = Len(events)
  <2>1. d # <<>>
    BY <1>1, <1>4
  <2>2. /\ SubSeq(d, 1, Len(d) - 1) \in Seq(EntryType)
        /\ DOMAIN SubSeq(d, 1, Len(d) - 1) = 1..(Len(d) - 1)
        /\ \A k \in 1..(Len(d) - 1) : SubSeq(d, 1, Len(d) - 1)[k] = d[k]
    BY <1>4, <2>1, Shortened, Zenon
  <2>3. without(i) = SubSeq(d, 1, Len(d) - 1)
    BY <1>3, <1>4, <1>5, Zenon DEF without
  <2> DEFINE n == Len(events)
             w == without(i)
  <2>4. /\ w \in Seq(EntryType) /\ DOMAIN w = 1..(n - 1) /\ DOMAIN events = 1..n
        /\ n \in Nat /\ i = n
        /\ \A k \in 1..(n - 1) : w[k] = d[k]
        /\ \A k \in 1..n : d[k] = IF k = i THEN x ELSE events[k]
    BY <1>1, <1>4, <1>5, <2>2, <2>3, Zenon
  <2> HIDE DEF n, w
  <2>5. \A k \in DOMAIN w : k # i /\ k \in 1..n
    BY <2>4
  <2>6. \A k \in DOMAIN w : w[k] = events[k]
    BY <2>4, <2>5, Zenon
  <2>7. \A k \in 1..n : k # i => k \in 1..(n - 1)
    BY <2>4
  <2> QED
    BY <2>4, <2>5, <2>6, <2>7, Zenon DEF w
<1>6. CASE i # Len(events)
  <2>1. without(i) = d
    BY <1>3, <1>6, Zenon DEF without
  <2> QED
    BY <1>1, <1>2, <1>4, <2>1, Zenon
<1> QED
  BY <1>5, <1>6, Zenon

LEMMA RegisterSlots ==
  ASSUME RegistryPart, NEW t \in Threads, NEW r \in Regs, NEW mask \in Masks,
         guestfs_set_event_callback(t, r, mask)
  PROVE  RegistryPart'
<1> DEFINE n == Len(events) + 1
           x == Entry(mask, "new", r)
<1>1. /\ mask \in SUBSET Classes /\ mask # {} /\ n \in Nat \ {0}
      /\ events \in Seq(EntryType) /\ DOMAIN events = 1..Len(events) /\ Len(events) \in Nat
  BY EventsAssumption DEF RegistryPart
<1>2. /\ x \in EntryType /\ x.event_bitmask = mask /\ x.cb = "new" /\ x.opaque = r
      /\ Wants(mask, "new", n) \in WantsType
  BY <1>1, Records
<1>3. /\ events' \in Seq(EntryType) /\ DOMAIN events' = 1..n /\ events'[n] = x
      /\ \A k \in DOMAIN events : events'[k] = events[k]
  BY <1>1, <1>2, Appended DEF guestfs_set_event_callback
<1>4. /\ wanted' \in [Regs -> WantsType] /\ wanted[r] = Nothing
      /\ \A q \in Regs : wanted'[q] = IF q = r THEN Wants(mask, "new", n) ELSE wanted[q]
  BY <1>2, Zenon DEF guestfs_set_event_callback, RegistryPart
<1>5. \A i \in DOMAIN events : events[i].event_bitmask # {} => events[i].opaque # r
  BY <1>4, Records DEF RegistryPart, SlotsInv
<1>6. \A k \in DOMAIN events' : k = n \/ k \in DOMAIN events
  BY <1>1, <1>3
<1> HIDE DEF x
<1>7. n \notin DOMAIN events /\ n \in DOMAIN events' /\ \A k \in DOMAIN events : k \in DOMAIN events'
  BY <1>1, <1>3
<1> HIDE DEF n
<1>8. SlotsInv'
  <2>1. ASSUME NEW q \in Regs
        PROVE  /\ wanted'[q].slot # 0 => wanted'[q].cb = "new" /\ wanted'[q].classes # {}
               /\ wanted'[q].classes # {} =>
                    \E i \in DOMAIN events' :
                      /\ events'[i] = Entry(wanted'[q].classes, wanted'[q].cb, q)
                      /\ wanted'[q].slot = IF wanted'[q].cb = "new" THEN i ELSE 0
               /\ wanted'[q].classes = {} => wanted'[q] = Nothing
    <3>1. CASE q = r
      BY <1>1, <1>3, <1>4, <1>7, <3>1, Records, SMTT(30) DEF x
    <3>2. CASE q # r
      BY <1>3, <1>4, <1>7, <3>2, SMTT(30) DEF RegistryPart, SlotsInv
    <3> QED
      BY <3>1, <3>2, Zenon
  <2>2. ASSUME NEW i \in DOMAIN events'
        PROVE  /\ events'[i].event_bitmask # {} =>
                    /\ wanted'[events'[i].opaque].classes = events'[i].event_bitmask
                    /\ wanted'[events'[i].opaque].cb = events'[i].cb
                    /\ \A j \in DOMAIN events' :
                         events'[j].event_bitmask # {} /\ events'[j].opaque = events'[i].opaque => i = j
               /\ events'[i].cb # "new" => \A j \in DOMAIN events' : events'[j].cb = events'[i].cb => i = j
    <3>1. CASE i = n
      BY <1>1, <1>2, <1>3, <1>4, <1>5, <1>6, <3>1, Records
    <3>2. CASE i \in DOMAIN events
      <4>1. events'[i] = events[i] /\ events[i].opaque \in Regs
        BY <1>3, <3>2, SlotTypes, Zenon DEF RegistryPart
      <4> QED
        BY <1>2, <1>3, <1>4, <1>5, <1>6, <3>2, <4>1, SMTT(30) DEF RegistryPart, SlotsInv
    <3> QED
      BY <1>6, <3>1, <3>2, Zenon
  <2> QED
    BY <2>1, <2>2, Zenon DEF SlotsInv
<1> QED
  BY <1>3, <1>4, <1>8, Zenon DEF RegistryPart

\* A slot that is cleared, or taken off the end, together with the wish of
\* whoever had it, and no other.
LEMMA Cleared ==
  ASSUME RegistryPart, NEW i \in DOMAIN events, events' = without(i),
         wanted' \in [Regs -> WantsType],
         \A q \in Regs : wanted'[q] \in {wanted[q], Nothing},
         \A q \in Regs : wanted'[q].classes # {} =>
           events[i] # Entry(wanted[q].classes, wanted[q].cb, q),
         \A j \in DOMAIN events : j # i /\ events[j].event_bitmask # {} =>
           wanted'[events[j].opaque] = wanted[events[j].opaque]
  PROVE  RegistryPart'
<1>1. /\ events' \in Seq(EntryType) /\ DOMAIN events' \subseteq DOMAIN events
      /\ \A j \in DOMAIN events : j # i => j \in DOMAIN events'
      /\ \A j \in DOMAIN events' :
           /\ j # i => events'[j] = events[j]
           /\ j = i => events'[j].event_bitmask = {} /\ events'[j].cb = events[j].cb
  BY Without, Zenon DEF RegistryPart
<1>2. ASSUME NEW q \in Regs
      PROVE  /\ wanted'[q].slot # 0 => wanted'[q].cb = "new" /\ wanted'[q].classes # {}
             /\ wanted'[q].classes # {} =>
                  \E k \in DOMAIN events' :
                    /\ events'[k] = Entry(wanted'[q].classes, wanted'[q].cb, q)
                    /\ wanted'[q].slot = IF wanted'[q].cb = "new" THEN k ELSE 0
             /\ wanted'[q].classes = {} => wanted'[q] = Nothing
  <2>1. CASE wanted'[q] = Nothing
    BY <2>1, Records, Zenon
  <2>2. CASE wanted'[q] = wanted[q]
    <3>1. /\ wanted[q].slot # 0 => wanted[q].cb = "new" /\ wanted[q].classes # {}
          /\ wanted[q].classes = {} => wanted[q] = Nothing
          /\ wanted[q].classes # {} =>
               \E k \in DOMAIN events :
                 /\ events[k] = Entry(wanted[q].classes, wanted[q].cb, q)
                 /\ wanted[q].slot = IF wanted[q].cb = "new" THEN k ELSE 0
      BY Zenon DEF RegistryPart, SlotsInv
    <3>2. ASSUME wanted[q].classes # {}
          PROVE  \E k \in DOMAIN events' :
                   /\ events'[k] = Entry(wanted[q].classes, wanted[q].cb, q)
                   /\ wanted[q].slot = IF wanted[q].cb = "new" THEN k ELSE 0
      BY <1>1, <2>2, <3>1, <3>2
    <3> QED
      BY <2>2, <3>1, <3>2, Zenon
  <2> QED
    BY <2>1, <2>2, Zenon
<1>3. ASSUME NEW j \in DOMAIN events'
      PROVE  /\ events'[j].event_bitmask # {} =>
                  /\ wanted'[events'[j].opaque].classes = events'[j].event_bitmask
                  /\ wanted'[events'[j].opaque].cb = events'[j].cb
                  /\ \A k \in DOMAIN events' :
                       events'[k].event_bitmask # {} /\ events'[k].opaque = events'[j].opaque => j = k
             /\ events'[j].cb # "new" => \A k \in DOMAIN events' : events'[k].cb = events'[j].cb => j = k
  <2>1. j \in DOMAIN events
    BY <1>1, Zenon
  <2>2. events'[j].cb = events[j].cb /\ \A k \in DOMAIN events' : k \in DOMAIN events /\ events'[k].cb = events[k].cb
    BY <1>1, Zenon
  <2>3. events'[j].cb # "new" => \A k \in DOMAIN events' : events'[k].cb = events'[j].cb => j = k
    BY <2>1, <2>2 DEF RegistryPart, SlotsInv
  <2>4. ASSUME events'[j].event_bitmask # {}
        PROVE  /\ wanted'[events'[j].opaque].classes = events'[j].event_bitmask
               /\ wanted'[events'[j].opaque].cb = events'[j].cb
               /\ \A k \in DOMAIN events' :
                    events'[k].event_bitmask # {} /\ events'[k].opaque = events'[j].opaque => j = k
    <3>1. j # i /\ events'[j] = events[j]
      BY <1>1, <2>4, Zenon
    <3>2. /\ wanted[events[j].opaque].classes = events[j].event_bitmask
          /\ wanted[events[j].opaque].cb = events[j].cb
          /\ \A k \in DOMAIN events :
               events[k].event_bitmask # {} /\ events[k].opaque = events[j].opaque => j = k
      BY <2>1, <2>4, <3>1, Zenon DEF RegistryPart, SlotsInv
    <3> QED
      BY <1>1, <2>1, <2>4, <3>1, <3>2
  <2> QED
    BY <2>3, <2>4, Zenon
<1> QED
  BY <1>1, <1>2, <1>3, Zenon DEF RegistryPart, SlotsInv

\* The slot of an event handle that the program still has.
LEMMA OwnSlot ==
  ASSUME RegistryPart, NEW r \in Regs, wanted[r].slot # 0
  PROVE  /\ wanted[r].slot \in DOMAIN events /\ wanted[r].slot <= Len(events)
         /\ events[wanted[r].slot] = Entry(wanted[r].classes, "new", r)
         /\ events[wanted[r].slot].event_bitmask = wanted[r].classes
         /\ events[wanted[r].slot].opaque = r
         /\ wanted[r].classes # {} /\ wanted[r].classes \subseteq Classes
<1>1. /\ wanted[r].slot \in DOMAIN events
      /\ events[wanted[r].slot] = Entry(wanted[r].classes, "new", r)
  BY SlotsGiveHandles, Zenon DEF HandlesAreMine
<1>2. wanted[r].classes # {} /\ wanted[r].classes \in SUBSET Classes
  BY Zenon DEF RegistryPart, SlotsInv, WantsType
<1>3. wanted[r].slot <= Len(events)
  BY <1>1 DEF RegistryPart
<1> QED
  BY <1>1, <1>2, <1>3, Records

LEMMA DeleteSlots ==
  ASSUME RegistryPart, NEW t \in Threads, NEW r \in Regs, guestfs_delete_event_callback(t, r)
  PROVE  RegistryPart'
<1> DEFINE i == wanted[r].slot
<1>1. /\ i \in DOMAIN events /\ i <= Len(events) /\ events[i].opaque = r
      /\ events[i].event_bitmask # {} /\ i \in Nat /\ Len(events) \in Nat
  BY OwnSlot DEF guestfs_delete_event_callback, RegistryPart, WantsType
<1> HIDE DEF i
<1>2. events' = without(i) /\ wanted' = [wanted EXCEPT ![r] = Nothing]
  BY <1>1 DEF guestfs_delete_event_callback, i
<1>3. /\ wanted' \in [Regs -> WantsType] /\ wanted'[r] = Nothing
      /\ \A q \in Regs : q # r => wanted'[q] = wanted[q]
  BY <1>2, Records, Zenon DEF RegistryPart
<1>4. \A q \in Regs : wanted'[q].classes # {} =>
        events[i] # Entry(wanted[q].classes, wanted[q].cb, q)
  BY <1>1, <1>3, Records DEF Entry
<1>5. \A j \in DOMAIN events : j # i /\ events[j].event_bitmask # {} => events[j].opaque # r
  BY <1>1, Zenon DEF RegistryPart, SlotsInv
<1>6. \A j \in DOMAIN events : events[j].opaque \in Regs
  BY SlotTypes, Zenon DEF RegistryPart
<1> QED
  BY <1>1, <1>2, <1>3, <1>4, <1>5, <1>6, Cleared, Zenon

\* A wrapper of the old interface has one slot, and whoever is registered
\* through that wrapper has it.
LEMMA WrapperSlot ==
  ASSUME RegistryPart, NEW class \in Classes, Wrapped(class) # {}
  PROVE  /\ First(Wrapped(class)) \in DOMAIN events
         /\ events[First(Wrapped(class))].cb = class
         /\ \A j \in DOMAIN events : events[j].cb = class => j = First(Wrapped(class))
<1>1. PICK i \in DOMAIN events : events[i].cb = class
  BY Zenon DEF Wrapped
<1>2. \A j \in DOMAIN events : events[j].cb = class => i = j
  BY <1>1, EventsAssumption, Zenon DEF RegistryPart, SlotsInv
<1>3. Wrapped(class) = {i} /\ i \in Nat
  BY <1>1, <1>2 DEF Wrapped, RegistryPart
<1>4. First({i}) = i
  BY <1>3 DEF First
<1> QED
  BY <1>1, <1>2, <1>3, <1>4, Zenon

LEMMA OldWishes ==
  ASSUME RegistryPart, NEW class \in Classes
  PROVE  /\ WithoutOld(class) \in [Regs -> WantsType]
         /\ \A q \in Regs : WithoutOld(class)[q] =
              IF wanted[q].cb = class THEN Nothing ELSE wanted[q]
         /\ \A q \in Regs : wanted[q].cb = class =>
              /\ wanted[q].classes # {} /\ wanted[q].slot = 0
              /\ \E i \in DOMAIN events : events[i] = Entry(wanted[q].classes, class, q)
<1>1. "new" # class
  BY EventsAssumption, Zenon
<1>2. ASSUME NEW q \in Regs, wanted[q].cb = class
      PROVE  /\ wanted[q].classes # {} /\ wanted[q].slot = 0
             /\ \E i \in DOMAIN events : events[i] = Entry(wanted[q].classes, class, q)
  <2>1. wanted[q].classes # {}
    BY <1>1, <1>2, Records, Zenon DEF RegistryPart, SlotsInv
  <2> QED
    BY <1>1, <1>2, <2>1, Zenon DEF RegistryPart, SlotsInv
<1> QED
  BY <1>2, Records, Zenon DEF RegistryPart, WithoutOld

LEMMA RemoveSlots ==
  ASSUME RegistryPart, NEW t \in Threads, NEW class \in Classes,
         remove_old_style_event_callback(t, class)
  PROVE  RegistryPart'
<1> DEFINE i == First(Wrapped(class))
<1>1. /\ i \in DOMAIN events /\ events[i].cb = class
      /\ \A j \in DOMAIN events : events[j].cb = class => j = i
  BY WrapperSlot, Zenon DEF remove_old_style_event_callback
<1>2. events' = without(i) /\ wanted' = WithoutOld(class)
  BY Zenon DEF remove_old_style_event_callback
<1> HIDE DEF i
<1>3. /\ wanted' \in [Regs -> WantsType]
      /\ \A q \in Regs : wanted'[q] = IF wanted[q].cb = class THEN Nothing ELSE wanted[q]
  BY <1>2, OldWishes, Zenon
<1>4. \A q \in Regs : wanted'[q].classes # {} =>
        events[i] # Entry(wanted[q].classes, wanted[q].cb, q)
  BY <1>1, <1>3, Records DEF Entry
<1>5. \A j \in DOMAIN events : j # i /\ events[j].event_bitmask # {} =>
        events[j].opaque \in Regs /\ wanted[events[j].opaque].cb # class
  BY <1>1, SlotTypes, Zenon DEF RegistryPart, SlotsInv
<1> QED
  BY <1>1, <1>2, <1>3, <1>4, <1>5, Cleared, Zenon

\* A slot that is given to another registration, or added for it.
LEMMA Installed ==
  ASSUME RegistryPart, NEW class \in Classes, NEW r \in Regs, wanted[r] = Nothing,
         wanted' = [WithoutOld(class) EXCEPT ![r] = Wants({class}, class, 0)],
         NEW i \in DOMAIN events', events' \in Seq(EntryType),
         events'[i] = Entry({class}, class, r),
         DOMAIN events' = DOMAIN events \cup {i},
         \A j \in DOMAIN events : j # i => events'[j] = events[j],
         \A j \in DOMAIN events : events[j].cb = class <=> j = i
  PROVE  RegistryPart'
<1>1. {class} \in SUBSET Classes /\ {class} # {} /\ class # "new"
  BY EventsAssumption, Zenon
<1>2. /\ wanted' \in [Regs -> WantsType] /\ wanted'[r] = Wants({class}, class, 0)
      /\ \A q \in Regs : q # r => wanted'[q] = IF wanted[q].cb = class THEN Nothing ELSE wanted[q]
  BY <1>1, OldWishes, Records
<1>3. \A j \in DOMAIN events : events[j].event_bitmask # {} => events[j].opaque # r
  BY Records, SMTT(30) DEF RegistryPart, SlotsInv
<1>4. /\ events'[i].event_bitmask = {class} /\ events'[i].cb = class /\ events'[i].opaque = r
      /\ wanted'[r].classes = {class} /\ wanted'[r].cb = class /\ wanted'[r].slot = 0
  BY <1>1, <1>2, Records
<1>5. ASSUME NEW q \in Regs
      PROVE  /\ wanted'[q].slot # 0 => wanted'[q].cb = "new" /\ wanted'[q].classes # {}
             /\ wanted'[q].classes # {} =>
                  \E k \in DOMAIN events' :
                    /\ events'[k] = Entry(wanted'[q].classes, wanted'[q].cb, q)
                    /\ wanted'[q].slot = IF wanted'[q].cb = "new" THEN k ELSE 0
             /\ wanted'[q].classes = {} => wanted'[q] = Nothing
  <2>1. CASE q = r
    BY <1>1, <1>4, <2>1, Zenon
  <2>2. CASE q # r /\ wanted[q].cb = class
    BY <1>2, <2>2, Records
  <2>3. CASE q # r /\ wanted[q].cb # class
    <3>1. wanted'[q] = wanted[q]
      BY <1>2, <2>3, Zenon
    <3>2. ASSUME wanted[q].classes # {}
          PROVE  \E k \in DOMAIN events' :
                   /\ events'[k] = Entry(wanted[q].classes, wanted[q].cb, q)
                   /\ wanted[q].slot = IF wanted[q].cb = "new" THEN k ELSE 0
      <4>1. PICK k \in DOMAIN events :
              /\ events[k] = Entry(wanted[q].classes, wanted[q].cb, q)
              /\ wanted[q].slot = IF wanted[q].cb = "new" THEN k ELSE 0
        BY <3>2, Zenon DEF RegistryPart, SlotsInv
      <4>2. k # i
        BY <2>3, <4>1 DEF Entry
      <4> QED
        BY <4>1, <4>2, Zenon
    <3>3. /\ wanted[q].slot # 0 => wanted[q].cb = "new" /\ wanted[q].classes # {}
          /\ wanted[q].classes = {} => wanted[q] = Nothing
      BY Zenon DEF RegistryPart, SlotsInv
    <3> QED
      BY <3>1, <3>2, <3>3, Zenon
  <2> QED
    BY <2>1, <2>2, <2>3, Zenon
<1>6. ASSUME NEW j \in DOMAIN events'
      PROVE  /\ events'[j].event_bitmask # {} =>
                  /\ wanted'[events'[j].opaque].classes = events'[j].event_bitmask
                  /\ wanted'[events'[j].opaque].cb = events'[j].cb
                  /\ \A k \in DOMAIN events' :
                       events'[k].event_bitmask # {} /\ events'[k].opaque = events'[j].opaque => j = k
             /\ events'[j].cb # "new" => \A k \in DOMAIN events' : events'[k].cb = events'[j].cb => j = k
  <2>1. CASE j = i
    BY <1>1, <1>3, <1>4, <2>1, Zenon
  <2>2. CASE j # i
    <3>1. j \in DOMAIN events /\ events'[j] = events[j] /\ events[j].cb # class /\ events[j].opaque \in Regs
      BY <2>2, SlotTypes DEF RegistryPart
    <3>2. \A k \in DOMAIN events' : k # i => k \in DOMAIN events /\ events'[k] = events[k]
      OBVIOUS
    <3> QED
      BY <1>2, <1>3, <1>4, <2>2, <3>1, <3>2, SMTT(30) DEF RegistryPart, SlotsInv
  <2> QED
    BY <2>1, <2>2, Zenon
<1> QED
  BY <1>2, <1>5, <1>6, Zenon DEF RegistryPart, SlotsInv

LEMMA ReplaceSlots ==
  ASSUME RegistryPart, NEW t \in Threads, NEW class \in Classes, NEW r \in Regs,
         replace_old_style_event_callback(t, class, r)
  PROVE  RegistryPart'
<1> DEFINE x == Entry({class}, class, r)
<1>1. /\ wanted[r] = Nothing
      /\ wanted' = [WithoutOld(class) EXCEPT ![r] = Wants({class}, class, 0)]
      /\ events' = IF Wrapped(class) = {} THEN Append(events, x)
                   ELSE [events EXCEPT ![First(Wrapped(class))] = x]
  BY Zenon DEF replace_old_style_event_callback
<1>2. x \in EntryType /\ events \in Seq(EntryType)
  BY Records DEF RegistryPart
<1> HIDE DEF x
<1>3. wanted[r] = Nothing /\ wanted' = [WithoutOld(class) EXCEPT ![r] = Wants({class}, class, 0)]
  BY <1>1, Zenon
<1>4. CASE Wrapped(class) = {}
  <2> DEFINE n == Len(events)
             i == n + 1
  <2>1. /\ events' \in Seq(EntryType) /\ DOMAIN events' = 1..i /\ events'[i] = x
        /\ n \in Nat /\ DOMAIN events = 1..n /\ \A k \in 1..n : events'[k] = events[k]
    <3>1. events' = Append(events, x)
      BY <1>1, <1>4, Zenon
    <3>2. /\ Append(events, x) \in Seq(EntryType) /\ DOMAIN Append(events, x) = 1..i
          /\ Append(events, x)[i] = x /\ \A k \in 1..n : Append(events, x)[k] = events[k]
      BY <1>2, Appended
    <3>3. n \in Nat /\ DOMAIN events = 1..n
      BY <1>2
    <3> QED
      BY <3>1, <3>2, <3>3, Zenon
  <2> HIDE DEF n
  <2>2. DOMAIN events' = DOMAIN events \cup {i} /\ i \notin DOMAIN events /\ i \in DOMAIN events'
    BY <2>1
  <2>3. \A j \in DOMAIN events : events[j].cb # class
    BY <1>4, Zenon DEF Wrapped
  <2> HIDE DEF i
  <2>4. /\ i \in DOMAIN events' /\ events'[i] = Entry({class}, class, r)
        /\ \A j \in DOMAIN events : j # i => events'[j] = events[j]
        /\ \A j \in DOMAIN events : events[j].cb = class <=> j = i
    BY <2>1, <2>2, <2>3, Zenon DEF x
  <2> QED
    BY <1>1, <2>1, <2>2, <2>3, <2>4, Installed, Zenon
<1>5. CASE Wrapped(class) # {}
  <2> DEFINE i == First(Wrapped(class))
  <2>1. /\ i \in DOMAIN events /\ events[i].cb = class
        /\ \A j \in DOMAIN events : events[j].cb = class => j = i
    BY <1>5, WrapperSlot, Zenon
  <2>2. /\ events' \in Seq(EntryType) /\ DOMAIN events' = DOMAIN events /\ events'[i] = x
        /\ \A j \in DOMAIN events : j # i => events'[j] = events[j]
    BY <1>1, <1>2, <1>5, <2>1, Overwritten, Zenon
  <2>3. DOMAIN events' = DOMAIN events \cup {i}
    BY <2>1, <2>2, Zenon
  <2> HIDE DEF i
  <2>4. /\ i \in DOMAIN events' /\ events'[i] = Entry({class}, class, r)
        /\ \A j \in DOMAIN events : j # i => events'[j] = events[j]
        /\ \A j \in DOMAIN events : events[j].cb = class <=> j = i
    BY <2>1, <2>2, <2>3, Zenon DEF x
  <2>5. events' \in Seq(EntryType)
    BY <2>2, Zenon
  <2> QED
    BY <1>3, <2>3, <2>4, <2>5, Installed, Zenon
<1> QED
  BY <1>4, <1>5, Zenon

-----------------------------------------------------------------------------
(* The error data of a thread. *)

ErrorsPart == errdata \in [Threads -> ErrorData]

LEMMA FailErrors ==
  ASSUME ErrorsPart, NEW t \in Threads, NEW e \in Errors, NEW frames, Raised(t, frames, e)
  PROVE  ErrorsPart'
  BY Zenon DEF ErrorsPart, ErrorData, Raised, set_last_error, get_error_data

LEMMA HandlerErrors ==
  ASSUME ErrorsPart, NEW t \in Threads, NEW h \in Handlers,
         \/ guestfs_set_error_handler(t, h) \/ guestfs_push_error_handler(t, h)
         \/ guestfs_pop_error_handler(t)
  PROVE  ErrorsPart'
<1>1. /\ errdata[t] \in ErrorData /\ h \in Handlers /\ Default \in Handlers
      /\ errdata[t].error_cb \in Handlers /\ errdata[t].error_cb_stack \in Seq(Handlers)
  BY Zenon DEF ErrorsPart, ErrorData, Handlers
<1>2. CASE guestfs_set_error_handler(t, h)
  BY <1>1, <1>2, Zenon DEF guestfs_set_error_handler, ErrorsPart, ErrorData, get_error_data
<1>3. CASE guestfs_push_error_handler(t, h)
  <2>1. Append(errdata[t].error_cb_stack, errdata[t].error_cb) \in Seq(Handlers)
    BY <1>1
  <2> QED
    BY <1>1, <1>3, <2>1, Zenon DEF guestfs_push_error_handler, ErrorsPart, ErrorData,
       get_error_data
<1>4. CASE guestfs_pop_error_handler(t)
  <2> DEFINE s == errdata[t].error_cb_stack
  <2>1. s # <<>> => s[Len(s)] \in Handlers /\ SubSeq(s, 1, Len(s) - 1) \in Seq(Handlers)
    BY <1>1, Shortened
  <2> QED
    BY <1>1, <1>4, <2>1, Zenon DEF guestfs_pop_error_handler, ErrorsPart, ErrorData,
       get_error_data
<1> QED
  BY <1>2, <1>3, <1>4, Zenon

-----------------------------------------------------------------------------
(* The inductive invariant. *)

LEMMA Parts == EInv <=> FramesPart /\ RegistryPart /\ ErrorsPart
<1>1. EInv => FramesPart /\ RegistryPart /\ ErrorsPart
  BY Zenon DEF EInv, TypeOK, FramesPart, RegistryPart, ErrorsPart
<1>2. FramesPart /\ RegistryPart /\ ErrorsPart => EInv
  BY SlotsGiveHandles, Zenon DEF EInv, TypeOK, FramesPart, RegistryPart, ErrorsPart
<1> QED
  BY <1>1, <1>2, Zenon

LEMMA PartsAfter == FramesPart' /\ RegistryPart' /\ ErrorsPart' => EInv'
  BY Parts, PTL

LEMMA InitEInv == Init => EInv
<1> SUFFICES ASSUME Init PROVE FramesPart /\ RegistryPart /\ ErrorsPart
  BY Parts, Zenon
<1>1. FramesPart
  BY DEF Init, FramesPart, InsideHasLock, InApi, FramesInv, ClosingInv
<1>2. RegistryPart
  BY Records DEF Init, RegistryPart, SlotsInv
<1>3. ErrorsPart
  BY DEF Init, ErrorsPart, ErrorData, NoData, Handlers, None
<1> QED
  BY <1>1, <1>2, <1>3, Zenon

LEMMA NextEInv == EInv /\ [Next]_vars => EInv'
<1> SUFFICES ASSUME EInv, [Next]_vars PROVE FramesPart' /\ RegistryPart' /\ ErrorsPart'
  BY PartsAfter, Zenon
<1>1. FramesPart /\ RegistryPart /\ ErrorsPart
  BY Parts, Zenon
<1>2. CASE UNCHANGED vars
  BY <1>1, <1>2, SameFrames, SameRegistry, Zenon DEF vars, SameEvents, ErrorsPart
<1>3. ASSUME NEW t \in Threads, NEW h \in Handlers,
             \/ guestfs_set_error_handler(t, h) \/ guestfs_push_error_handler(t, h)
             \/ guestfs_pop_error_handler(t)
      PROVE  FramesPart' /\ RegistryPart' /\ ErrorsPart'
  BY <1>1, <1>3, SameFrames, SameRegistry, HandlerErrors, Zenon
     DEF guestfs_set_error_handler, guestfs_push_error_handler, guestfs_pop_error_handler
<1>4. ASSUME NEW t \in Threads, NEW e \in Errors, guestfs_int_error_errno(t, e)
      PROVE  FramesPart' /\ RegistryPart' /\ ErrorsPart'
  BY <1>1, <1>4, ErrorFrames, SameRegistry, FailErrors, Zenon DEF guestfs_int_error_errno
<1>5. ASSUME NEW t \in Threads, NEW e \in Errors, guestfs_set_event_callback_full(t, e)
      PROVE  FramesPart' /\ RegistryPart' /\ ErrorsPart'
  BY <1>1, <1>5, FullFrames, SameRegistry, FailErrors, Zenon DEF guestfs_set_event_callback_full
<1>6. ASSUME NEW t \in Threads, NEW r \in Regs, NEW mask \in Masks,
             guestfs_set_event_callback(t, r, mask)
      PROVE  FramesPart' /\ RegistryPart' /\ ErrorsPart'
  BY <1>1, <1>6, SameFrames, RegisterSlots, Zenon DEF guestfs_set_event_callback, SameErrors,
     ErrorsPart
<1>7. ASSUME NEW t \in Threads, NEW r \in Regs, guestfs_delete_event_callback(t, r)
      PROVE  FramesPart' /\ RegistryPart' /\ ErrorsPart'
  BY <1>1, <1>7, SameFrames, DeleteSlots, Zenon DEF guestfs_delete_event_callback, SameErrors,
     ErrorsPart
<1>8. ASSUME NEW t \in Threads, NEW r \in Regs, NEW class \in OldStyle,
             replace_old_style_event_callback(t, class, r)
      PROVE  FramesPart' /\ RegistryPart' /\ ErrorsPart'
  BY <1>1, <1>8, EventsAssumption, SameFrames, ReplaceSlots, Zenon
     DEF replace_old_style_event_callback, SameErrors, ErrorsPart
<1>9. ASSUME NEW t \in Threads, NEW class \in OldStyle, remove_old_style_event_callback(t, class)
      PROVE  FramesPart' /\ RegistryPart' /\ ErrorsPart'
  BY <1>1, <1>9, EventsAssumption, SameFrames, RemoveSlots, Zenon
     DEF remove_old_style_event_callback, SameErrors, ErrorsPart
<1>10. ASSUME NEW t \in Threads, call_callback(t) \/ skip_callback(t) \/ guestfs_call(t)
       PROVE  FramesPart' /\ RegistryPart' /\ ErrorsPart'
  BY <1>1, <1>10, CallbackFrames, SkipFrames, CallFrames, SameRegistry, Zenon
     DEF call_callback, skip_callback, guestfs_call, SameErrors, ErrorsPart
<1>11. ASSUME NEW t \in Threads, walk_ends(t) \/ callback_returns(t) \/ guestfs_call_returns(t)
       PROVE  FramesPart' /\ RegistryPart' /\ ErrorsPart'
  BY <1>1, <1>11, ReturnFrames, SameRegistry, Zenon
     DEF walk_ends, callback_returns, guestfs_call_returns, SameErrors, ErrorsPart
<1>12. ASSUME NEW t \in Threads, NEW class \in Classes,
              guestfs_int_call_callbacks(t, class) \/ close_event(t, class)
       PROVE  FramesPart' /\ RegistryPart' /\ ErrorsPart'
  BY <1>1, <1>12, RaiseFrames, CloseEventFrames, SameRegistry, Zenon
     DEF guestfs_int_call_callbacks, close_event, SameErrors, ErrorsPart
<1>13. ASSUME NEW t \in Threads, guestfs_close(t)
       PROVE  FramesPart' /\ RegistryPart' /\ ErrorsPart'
  BY <1>1, <1>13, CloseFrames, SameRegistry, Zenon DEF guestfs_close, SameErrors, ErrorsPart
<1>14. ASSUME NEW t \in Threads, close_frees(t)
       PROVE  FramesPart' /\ RegistryPart' /\ ErrorsPart'
  <2>1. FramesPart'
    BY <1>1, <1>14, FreeFrames, Zenon
  <2>2. events' = <<>> /\ wanted' = [r \in Regs |-> Nothing] /\ errdata' = [u \in Threads |-> NoData]
    BY <1>14, Zenon DEF close_frees
  <2>3. RegistryPart'
    BY <2>2, Records, SMTT(30) DEF RegistryPart, SlotsInv
  <2>4. NoData \in ErrorData
    BY DEF ErrorData, NoData, Handlers, None
  <2>5. ErrorsPart'
    BY <2>2, <2>4, Zenon DEF ErrorsPart
  <2> QED
    BY <2>1, <2>3, <2>5, Zenon
<1>15. ASSUME guestfs_create
       PROVE  FramesPart' /\ RegistryPart' /\ ErrorsPart'
  BY <1>1, <1>15, CreateFrames, SameRegistry, Zenon DEF guestfs_create, SameErrors, ErrorsPart
<1> QED
  BY <1>2, <1>3, <1>4, <1>5, <1>6, <1>7, <1>8, <1>9, <1>10, <1>11, <1>12, <1>13, <1>14, <1>15, Zenon
     DEF Next, Handlers

\* Whatever threads and callbacks do, the slots, frames and error data stay
\* as EInv says.
THEOREM EventsInvariance == Spec => []EInv
<1>1. Init => EInv
  BY InitEInv, Zenon
<1>2. EInv /\ [Next]_vars => EInv'
  BY NextEInv, Zenon
<1> QED
  BY <1>1, <1>2, PTL DEF Spec

\* An event handle that has not been deleted is the slot of the callback it was
\* returned for, for every number of threads, callbacks and nested calls.
THEOREM HandlesStayMine == Spec => []HandlesAreMine
<1>1. EInv => HandlesAreMine
  BY Zenon DEF EInv
<1> QED
  BY <1>1, EventsInvariance, PTL

\* A thread that is inside a call of the handle has its lock, although the
\* callbacks of that call make calls and return from them.
THEOREM CallsExclusive == Spec => []InsideHasLock
<1>1. EInv => InsideHasLock
  BY Zenon DEF EInv
<1> QED
  BY <1>1, EventsInvariance, PTL

-----------------------------------------------------------------------------
(* The promise to the users of a handle. *)

\* A notification that is owed is that of a frame of the thread, which has a
\* level, and of a slot of the array.
LEMMA OwedIs ==
  ASSUME EInv
  PROVE  /\ \A t \in Threads, k \in Levels, r \in Regs : <<t, k, r>> \in stillOwed <=> StillOwed(t, k, r)
         /\ \A o \in stillOwed :
              /\ o[1] \in Threads /\ o[2] \in Levels /\ o[3] \in Regs
              /\ o = <<o[1], o[2], o[3]>> /\ StillOwed(o[1], o[2], o[3])
         /\ \A t \in Threads, r \in Regs : \A k : StillOwed(t, k, r) => k \in Levels
<1>1. \A t \in Threads, k \in Levels, r \in Regs : <<t, k, r>> \in stillOwed <=> StillOwed(t, k, r)
  BY Zenon DEF stillOwed
<1>2. ASSUME NEW o \in stillOwed
      PROVE  /\ o[1] \in Threads /\ o[2] \in Levels /\ o[3] \in Regs
             /\ o = <<o[1], o[2], o[3]>> /\ StillOwed(o[1], o[2], o[3])
  BY <1>2 DEF stillOwed
<1>3. ASSUME NEW t \in Threads, NEW k, NEW r \in Regs, StillOwed(t, k, r)
      PROVE  k \in Levels
  <2>1. k \in DOMAIN stack[t] /\ stack[t][k].op = "walk" /\ stack[t] \in Seq(FrameType)
    BY <1>3, Zenon DEF StillOwed, Owes, EInv, TypeOK
  <2>2. k \in Nat \ {0}
    BY <2>1
  <2>3. k + 1 <= MaxNesting
    BY <2>1, Zenon DEF EInv, FramesInv, FrameOK
  <2> QED
    BY <2>2, <2>3, EventsAssumption DEF Levels
<1> QED
  BY <1>1, <1>2, <1>3, Zenon

LEMMA OwedAfter ==
  /\ \A t \in Threads, k \in Levels, r \in Regs :
       <<t, k, r>> \in stillOwed' <=> StillOwed(t, k, r)'
  /\ \A o \in stillOwed' :
       /\ o[1] \in Threads /\ o[2] \in Levels /\ o[3] \in Regs
       /\ o = <<o[1], o[2], o[3]>> /\ StillOwed(o[1], o[2], o[3])'
<1>1. \A t \in Threads, k \in Levels, r \in Regs :
        <<t, k, r>> \in stillOwed' <=> StillOwed(t, k, r)'
  BY Zenon DEF stillOwed
<1>2. ASSUME NEW o \in stillOwed'
      PROVE  /\ o[1] \in Threads /\ o[2] \in Levels /\ o[3] \in Regs
             /\ o = <<o[1], o[2], o[3]>> /\ StillOwed(o[1], o[2], o[3])'
  BY <1>2 DEF stillOwed
<1> QED
  BY <1>1, <1>2, Zenon

\* A step that no walk notices.
LEMMA OwedSame ==
  ASSUME \A t \in Threads, k \in Levels, r \in Regs : StillOwed(t, k, r)' <=> StillOwed(t, k, r)
  PROVE  stillOwed' = stillOwed
  BY Zenon DEF stillOwed

\* The frames of one thread change.
LEMMA StillOwedAfter ==
  ASSUME EInv, events' = events, NEW t \in Threads, NEW s, stack' = [stack EXCEPT ![t] = s]
  PROVE  \A u \in Threads, r \in Regs : \A k :
           StillOwed(u, k, r)' <=> IF u = t THEN k \in DOMAIN s /\ Owes(s[k], r)
                                            ELSE StillOwed(u, k, r)
<1>1. \A u \in Threads : stack'[u] = IF u = t THEN s ELSE stack[u]
  BY Zenon DEF EInv, TypeOK
<1> QED
  BY <1>1 DEF StillOwed, Owes

\* None of them owes more or less.
LEMMA OwedFrames ==
  ASSUME EInv, events' = events, NEW t \in Threads, NEW s, stack' = [stack EXCEPT ![t] = s],
         \A k \in Levels, r \in Regs :
           k \in DOMAIN s /\ Owes(s[k], r) <=> k \in DOMAIN stack[t] /\ Owes(stack[t][k], r)
  PROVE  stillOwed' = stillOwed
  BY StillOwedAfter, OwedSame, Zenon DEF StillOwed

\* Frames other than walks are put on a stack, or taken off it.
LEMMA OwedAbove ==
  ASSUME EInv, events' = events, NEW t \in Threads, NEW f \in FrameType,
         stack' = [stack EXCEPT ![t] = Append(@, f)], f.op # "walk"
  PROVE  stillOwed' = stillOwed
<1> DEFINE s == Append(stack[t], f)
           n == Len(stack[t])
<1>1. /\ n \in Nat /\ DOMAIN stack[t] = 1..n /\ DOMAIN s = 1..(n + 1)
      /\ \A k \in 1..n : s[k] = stack[t][k]
      /\ s[n + 1] = f
  BY Appended DEF EInv, TypeOK
<1>2. stack' = [stack EXCEPT ![t] = s]
  OBVIOUS
<1> HIDE DEF s, n
<1>3. ASSUME NEW k \in Levels, NEW r \in Regs
      PROVE  k \in DOMAIN s /\ Owes(s[k], r) <=> k \in DOMAIN stack[t] /\ Owes(stack[t][k], r)
  <2>1. k = n + 1 => k \notin DOMAIN stack[t] /\ ~Owes(s[k], r)
    BY <1>1 DEF Owes
  <2>2. k # n + 1 => (k \in DOMAIN s <=> k \in DOMAIN stack[t])
    BY <1>1 DEF Levels
  <2>3. k \in DOMAIN stack[t] => s[k] = stack[t][k]
    BY <1>1, Zenon
  <2> QED
    BY <2>1, <2>2, <2>3, Zenon
<1> QED
  BY <1>2, <1>3, OwedFrames, Zenon

LEMMA OwedBelow ==
  ASSUME EInv, events' = events, NEW t \in Threads, stack[t] # <<>>, Pop(t),
         \A r \in Regs : ~Owes(TopFrame(t), r)
  PROVE  stillOwed' = stillOwed
<1> DEFINE n == Len(stack[t])
<1>1. /\ n \in Nat \ {0} /\ DOMAIN stack[t] = 1..n /\ DOMAIN Below(t) = 1..(n - 1)
      /\ \A k \in 1..(n - 1) : Below(t)[k] = stack[t][k]
      /\ TopFrame(t) = stack[t][n]
  BY Shortened DEF EInv, TypeOK, Below, TopFrame
<1> HIDE DEF n
<1>2. ASSUME NEW k \in Levels, NEW r \in Regs
      PROVE  k \in DOMAIN Below(t) /\ Owes(Below(t)[k], r)
             <=> k \in DOMAIN stack[t] /\ Owes(stack[t][k], r)
  <2>1. k = n => k \notin DOMAIN Below(t) /\ ~Owes(stack[t][k], r)
    BY <1>1
  <2>2. k # n => (k \in DOMAIN Below(t) <=> k \in DOMAIN stack[t])
    BY <1>1 DEF Levels
  <2>3. k \in DOMAIN Below(t) => Below(t)[k] = stack[t][k]
    BY <1>1, Zenon
  <2> QED
    BY <2>1, <2>2, <2>3, Zenon
<1> QED
  BY <1>2, OwedFrames, Zenon DEF Pop

\* What the users of a handle see of it.
Seen == <<[r \in Regs |-> wanted[r].classes], stillOwed,
          [t \in Threads |-> errdata[t].last_error],
          [t \in Threads |-> Append(errdata[t].error_cb_stack, errdata[t].error_cb)]>>

\* They do not see calls, returns and slots that a walk passes over.
LEMMA ReturnUnseen ==
  ASSUME EInv, NEW t \in Threads,
         walk_ends(t) \/ callback_returns(t) \/ guestfs_call_returns(t)
  PROVE  Seen' = Seen
<1>1. stack[t] # <<>> /\ Pop(t) /\ events' = events /\ wanted' = wanted /\ errdata' = errdata
  BY Zenon DEF walk_ends, callback_returns, guestfs_call_returns, Top, SameEvents, SameErrors
<1>2. ASSUME NEW r \in Regs
      PROVE  ~Owes(TopFrame(t), r)
  <2>1. CASE walk_ends(t)
    <3>1. TopFrame(t) \in FrameType /\ TopFrame(t).next \in Nat
      BY <1>1, Parts, FramesBelow, Zenon DEF FrameType
    <3>2. TopFrame(t).next > Len(events) /\ Len(events) \in Nat /\ DOMAIN events = 1..Len(events)
      BY <2>1 DEF walk_ends, EInv, TypeOK
    <3> QED
      BY <3>1, <3>2 DEF Owes
  <2>2. CASE ~walk_ends(t)
    BY <2>2, Zenon DEF callback_returns, guestfs_call_returns, Top, TopFrame, Owes
  <2> QED
    BY <2>1, <2>2, Zenon
<1>3. stillOwed' = stillOwed
  BY <1>1, <1>2, OwedBelow, Zenon
<1> QED
  BY <1>1, <1>3, Zenon DEF Seen

LEMMA CallUnseen ==
  ASSUME EInv, NEW t \in Threads, guestfs_call(t) \/ guestfs_close(t)
  PROVE  Seen' = Seen
<1>1. PICK f \in {Api, Closing("trace")} : stack' = [stack EXCEPT ![t] = Append(@, f)]
  BY Zenon DEF guestfs_call, guestfs_close, Push
<1>2. f \in FrameType /\ f.op # "walk"
  BY FrameKinds DEF Api, Closing, Frame
<1>3. events' = events /\ wanted' = wanted /\ errdata' = errdata
  BY Zenon DEF guestfs_call, guestfs_close, SameEvents, SameErrors
<1>4. stillOwed' = stillOwed
  BY <1>1, <1>2, <1>3, OwedAbove, Zenon
<1> QED
  BY <1>3, <1>4, Zenon DEF Seen

\* The frame of a walk before and after it takes a slot: what it owes to whom
\* the slot is not of, or does not concern, stays.
LEMMA WalkOwes ==
  ASSUME EInv, NEW t \in Threads, Top(t, "walk"), TopFrame(t).next <= Len(events)
  PROVE  LET f == TopFrame(t)
             g == [f EXCEPT !.next = @ + 1]
         IN  /\ f.next \in DOMAIN events
             /\ \A r \in Regs :
                  Owes(f, r) <=>
                    \/ Owes(g, r)
                    \/ events[f.next].opaque = r /\ f.class \in events[f.next].event_bitmask
             /\ f.class \in events[f.next].event_bitmask => ~Owes(g, events[f.next].opaque)
<1> DEFINE f == TopFrame(t)
           g == [f EXCEPT !.next = @ + 1]
           n == Len(events)
<1>1. /\ f \in FrameType /\ f.op = "walk" /\ g.op = "walk" /\ g.class = f.class
      /\ g.next = f.next + 1 /\ f.next \in Nat \ {0}
  BY Parts, AdvancedFits, FramesBelow, Zenon DEF Top, TopFrame
<1>2. n \in Nat /\ DOMAIN events = 1..n /\ f.next <= n
  BY DEF EInv, TypeOK
<1> HIDE DEF f, g, n
<1>3. f.next \in DOMAIN events
  BY <1>1, <1>2
<1>4. \A i \in DOMAIN events : i >= f.next <=> i = f.next \/ i >= g.next
  BY <1>1, <1>2
<1>5. ~(f.next >= g.next)
  BY <1>1
<1>6. \A r \in Regs : Owes(f, r) <=>
        \/ Owes(g, r)
        \/ events[f.next].opaque = r /\ f.class \in events[f.next].event_bitmask
  BY <1>1, <1>3, <1>4, Zenon DEF Owes
<1>7. ASSUME f.class \in events[f.next].event_bitmask
      PROVE  ~Owes(g, events[f.next].opaque)
  <2>1. \A i \in DOMAIN events :
          events[i].event_bitmask # {} /\ events[i].opaque = events[f.next].opaque => i = f.next
    BY <1>3, <1>7, Zenon DEF EInv, SlotsInv
  <2> QED
    BY <1>5, <2>1, Zenon DEF Owes
<1> QED
  BY <1>3, <1>6, <1>7, Zenon DEF f, g

LEMMA SkipUnseen ==
  ASSUME EInv, NEW t \in Threads, skip_callback(t)
  PROVE  Seen' = Seen
<1> DEFINE f == TopFrame(t)
           g == [f EXCEPT !.next = @ + 1]
           s == Append(Below(t), g)
           n == Len(stack[t])
<1>1. /\ stack[t] # <<>> /\ Top(t, "walk") /\ events' = events /\ wanted' = wanted
      /\ errdata' = errdata /\ f.class \notin events[f.next].event_bitmask
      /\ f.next <= Len(events) /\ stack' = [stack EXCEPT ![t] = s]
  BY Zenon DEF skip_callback, Matches, Top, SameEvents, SameErrors, Advanced
<1>2. \A r \in Regs : Owes(f, r) <=> Owes(g, r)
  BY <1>1, WalkOwes, Zenon
<1>3. g \in FrameType /\ Below(t) \in Seq(FrameType)
  BY <1>1, Parts, AdvancedFits, FramesBelow, Zenon DEF Fit
<1>4. /\ n \in Nat \ {0} /\ DOMAIN stack[t] = 1..n /\ Len(Below(t)) = n - 1
      /\ \A k \in 1..(n - 1) : Below(t)[k] = stack[t][k]
      /\ f = stack[t][n]
  BY <1>1, Shortened DEF EInv, TypeOK, Below, TopFrame
<1> HIDE DEF f, g, n
<1>5. /\ DOMAIN s = 1..(n - 1 + 1) /\ \A k \in 1..(n - 1) : s[k] = Below(t)[k]
      /\ s[n - 1 + 1] = g
  BY <1>3, <1>4, Appended
<1> HIDE DEF s
<1>6. DOMAIN s = 1..n /\ s[n] = g /\ \A k \in 1..n : k # n => s[k] = stack[t][k]
  BY <1>4, <1>5
<1>7. \A k \in Levels, r \in Regs :
        k \in DOMAIN s /\ Owes(s[k], r) <=> k \in DOMAIN stack[t] /\ Owes(stack[t][k], r)
  BY <1>2, <1>4, <1>6, Zenon
<1>8. stillOwed' = stillOwed
  BY <1>1, <1>7, OwedFrames, Zenon
<1> QED
  BY <1>1, <1>8, Zenon DEF Seen

\* A callback that a walk calls gets the notification it is owed.
LEMMA CallbackNotifies ==
  ASSUME EInv, NEW t \in Threads, call_callback(t)
  PROVE  \E n \in Levels, r \in Regs : Promise!Notify(t, n, r) /\ stillOwed' # stillOwed
<1> DEFINE f == TopFrame(t)
           g == [f EXCEPT !.next = @ + 1]
           a == Append(Below(t), g)
           s == Append(a, User)
           n == Len(stack[t])
           r == events[f.next].opaque
<1>1. /\ stack[t] # <<>> /\ Top(t, "walk") /\ events' = events /\ wanted' = wanted
      /\ errdata' = errdata /\ f.class \in events[f.next].event_bitmask
      /\ f.next <= Len(events) /\ stack' = [stack EXCEPT ![t] = s]
  BY Zenon DEF call_callback, Matches, Top, SameEvents, SameErrors, Advanced
<1>2. /\ f.next \in DOMAIN events /\ ~Owes(g, r)
      /\ \A q \in Regs : Owes(f, q) <=> Owes(g, q) \/ r = q
  BY <1>1, WalkOwes, Zenon
<1>3. g \in FrameType /\ Below(t) \in Seq(FrameType)
  BY <1>1, Parts, AdvancedFits, FramesBelow, Zenon DEF Fit
<1>4. /\ n \in Nat \ {0} /\ DOMAIN stack[t] = 1..n /\ Len(Below(t)) = n - 1
      /\ \A k \in 1..(n - 1) : Below(t)[k] = stack[t][k]
      /\ f = stack[t][n]
  BY <1>1, Shortened DEF EInv, TypeOK, Below, TopFrame
<1>5. r \in Regs
  BY <1>2, SlotTypes, Zenon DEF EInv, TypeOK
<1> HIDE DEF f, g, n, r
<1>6. /\ a \in Seq(FrameType) /\ Len(a) = n - 1 + 1
      /\ DOMAIN a = 1..(n - 1 + 1) /\ \A k \in 1..(n - 1) : a[k] = Below(t)[k]
      /\ a[n - 1 + 1] = g
  BY <1>3, <1>4, Appended
<1> HIDE DEF a
<1>7. Len(a) = n /\ a[n] = g /\ \A k \in 1..n : k # n => a[k] = stack[t][k]
  BY <1>4, <1>6
<1>8. /\ DOMAIN s = 1..(n + 1) /\ \A k \in 1..n : s[k] = a[k]
      /\ s[n + 1] = User
  BY <1>6, <1>7, Appended, FrameKinds
<1> HIDE DEF s
<1>9. StillOwed(t, n, r)
  BY <1>2, <1>4, <1>5 DEF StillOwed
<1>10. n \in Levels
  BY <1>5, <1>9, OwedIs, Zenon
<1>11. ASSUME NEW k \in Levels, NEW q \in Regs
       PROVE  k \in DOMAIN s /\ Owes(s[k], q) <=>
              k \in DOMAIN stack[t] /\ Owes(stack[t][k], q) /\ ~(k = n /\ q = r)
  <2>1. CASE k = n
    BY <1>2, <1>4, <1>5, <1>7, <1>8, <2>1
  <2>2. CASE k = n + 1
    BY <1>4, <1>8, <2>2, FrameKinds DEF Owes
  <2>3. CASE k # n /\ k # n + 1
    <3>1. k \in DOMAIN s <=> k \in DOMAIN stack[t]
      BY <1>4, <1>8, <2>3 DEF Levels
    <3>2. k \in DOMAIN stack[t] => s[k] = stack[t][k]
      BY <1>4, <1>7, <1>8, <2>3, Zenon
    <3> QED
      BY <2>3, <3>1, <3>2, Zenon
  <2> QED
    BY <2>1, <2>2, <2>3, Zenon
<1>12. ASSUME NEW u \in Threads, NEW k \in Levels, NEW q \in Regs
       PROVE  StillOwed(u, k, q)' <=> StillOwed(u, k, q) /\ ~(u = t /\ k = n /\ q = r)
  BY <1>1, <1>11, StillOwedAfter, Zenon DEF StillOwed
<1>13. stillOwed' = stillOwed \ {<<t, n, r>>} /\ <<t, n, r>> \in stillOwed
  BY <1>5, <1>9, <1>10, <1>12, OwedIs, OwedAfter
<1>14. Promise!Notify(t, n, r) /\ stillOwed' # stillOwed
  BY <1>1, <1>13, Zenon DEF Promise!Notify, Promise!SameErrors
<1> QED
  BY <1>5, <1>10, <1>14, Zenon

\* A walk that begins owes the event to whoever is registered for it.
LEMMA NewWalkOwes ==
  ASSUME EInv, NEW class \in Classes, NEW r \in Regs
  PROVE  Owes(Walk(class, 1), r) <=> class \in wanted[r].classes
<1>1. Walk(class, 1).op = "walk" /\ Walk(class, 1).class = class /\ Walk(class, 1).next = 1
  BY Zenon DEF Walk, Frame
<1>2. \A i \in DOMAIN events : i >= 1
  BY DEF EInv, TypeOK
<1>3. ASSUME NEW i \in DOMAIN events, events[i].opaque = r, class \in events[i].event_bitmask
      PROVE  class \in wanted[r].classes
  BY <1>3, Zenon DEF EInv, SlotsInv
<1>4. ASSUME class \in wanted[r].classes
      PROVE  \E i \in DOMAIN events : events[i].opaque = r /\ class \in events[i].event_bitmask
  <2>1. PICK i \in DOMAIN events : events[i] = Entry(wanted[r].classes, wanted[r].cb, r)
    BY <1>4, Zenon DEF EInv, SlotsInv
  <2> QED
    BY <1>4, <2>1 DEF Entry
<1> QED
  BY <1>1, <1>2, <1>3, <1>4, Zenon DEF Owes

LEMMA WalkRaises ==
  ASSUME EInv, NEW t \in Threads, NEW class \in Classes, NEW n \in Levels, NEW s,
         events' = events, wanted' = wanted, errdata' = errdata,
         stack' = [stack EXCEPT ![t] = s], n \in DOMAIN s, s[n] = Walk(class, 1),
         \A k \in DOMAIN stack[t] : k < n,
         \A k \in Levels, r \in Regs : k # n =>
           (k \in DOMAIN s /\ Owes(s[k], r) <=> k \in DOMAIN stack[t] /\ Owes(stack[t][k], r))
  PROVE  Promise!Raise(t, n, class)
<1>1. n \notin DOMAIN stack[t]
  BY DEF Levels
<1>2. ASSUME NEW u \in Threads, NEW k \in Levels, NEW r \in Regs
      PROVE  StillOwed(u, k, r)' <=>
             StillOwed(u, k, r) \/ (u = t /\ k = n /\ class \in wanted[r].classes)
  <2>1. CASE u = t /\ k = n
    <3>1. StillOwed(t, n, r)' <=> Owes(Walk(class, 1), r)
      BY StillOwedAfter, Zenon
    <3>2. ~StillOwed(t, n, r)
      BY <1>1, Zenon DEF StillOwed
    <3> QED
      BY <2>1, <3>1, <3>2, NewWalkOwes, Zenon
  <2>2. CASE u = t /\ k # n
    BY <2>2, StillOwedAfter, Zenon DEF StillOwed
  <2>3. CASE u # t
    BY <2>3, StillOwedAfter, Zenon
  <2> QED
    BY <2>1, <2>2, <2>3, Zenon
<1> DEFINE live == [r \in Regs |-> wanted[r].classes]
           new == {<<t, n, r>> : r \in {q \in Regs : class \in live[q]}}
<1>3. stillOwed' = stillOwed \cup new
  <2>1. \A o \in new : \E r \in Regs : o = <<t, n, r>> /\ class \in wanted[r].classes
    BY Zenon
  <2>2. \A r \in Regs : class \in wanted[r].classes => <<t, n, r>> \in new
    OBVIOUS
  <2> HIDE DEF new
  <2>3. ASSUME NEW o \in stillOwed' PROVE o \in stillOwed \cup new
    BY <1>2, <2>2, <2>3, OwedIs, OwedAfter
  <2>4. ASSUME NEW o \in stillOwed PROVE o \in stillOwed'
    BY <1>2, <2>4, OwedIs, OwedAfter
  <2>5. ASSUME NEW o \in new PROVE o \in stillOwed'
    BY <1>2, <2>1, <2>5, OwedAfter
  <2> QED
    BY <2>3, <2>4, <2>5, Zenon
<1>4. \A o \in stillOwed : o[1] = t => o[2] < n
  BY OwedIs, Zenon DEF StillOwed
<1> QED
  BY <1>3, <1>4, Zenon DEF Promise!Raise, Promise!SameErrors

LEMMA CallRaises ==
  ASSUME EInv, NEW t \in Threads, NEW class \in Classes,
         guestfs_int_call_callbacks(t, class) \/ close_event(t, class)
  PROVE  \E n \in Levels : Promise!Raise(t, n, class)
<1>1. /\ events' = events /\ wanted' = wanted /\ errdata' = errdata /\ stack[t] # <<>>
      /\ stack[t] \in Seq(FrameType)
  BY Zenon DEF guestfs_int_call_callbacks, close_event, Top, SameEvents, SameErrors, EInv, TypeOK
<1>2. /\ Len(stack[t]) \in DOMAIN stack[t] /\ FrameOK(Len(stack[t]), TopFrame(t))
  BY <1>1, Parts, FramesBelow, Zenon
<1> DEFINE w == Walk(class, 1)
           n == Len(stack[t]) + 1
<1>3. CASE guestfs_int_call_callbacks(t, class)
  <2> DEFINE s == Append(stack[t], w)
  <2>1. TopFrame(t).op = "api" /\ stack' = [stack EXCEPT ![t] = s]
    BY <1>3, Zenon DEF guestfs_int_call_callbacks, Top, TopFrame, Push
  <2>2. n \in Levels
    BY <1>1, <1>2, <2>1, EventsAssumption DEF FrameOK, Levels
  <2>3. w \in FrameType
    BY FrameKinds, Zenon
  <2> HIDE DEF w
  <2>4. /\ DOMAIN s = 1..n /\ DOMAIN stack[t] = 1..(n - 1) /\ n \in Nat
        /\ \A k \in 1..(n - 1) : s[k] = stack[t][k]
        /\ s[n] = w
    BY <1>1, <2>3, Appended
  <2> HIDE DEF n, s
  <2>5. \A k \in Levels, r \in Regs : k # n =>
          (k \in DOMAIN s /\ Owes(s[k], r) <=> k \in DOMAIN stack[t] /\ Owes(stack[t][k], r))
    <3>1. \A k \in Levels : k # n => (k \in DOMAIN s <=> k \in DOMAIN stack[t])
      BY <2>4 DEF Levels
    <3>2. \A k \in DOMAIN stack[t] : s[k] = stack[t][k]
      BY <2>4, Zenon
    <3> QED
      BY <3>1, <3>2, Zenon
  <2>6. n \in DOMAIN s /\ \A k \in DOMAIN stack[t] : k < n
    BY <2>2, <2>4 DEF Levels
  <2> QED
    BY <1>1, <2>1, <2>2, <2>4, <2>5, <2>6, WalkRaises, Zenon DEF w
<1>4. CASE close_event(t, class)
  <2> DEFINE f == Closing(IF class = "close" THEN "free" ELSE "trace")
             s == <<f, w>>
  <2>1. Top(t, "close") /\ stack' = [stack EXCEPT ![t] = s]
    BY <1>4, Zenon DEF close_event
  <2>2. Len(stack[t]) = 1 /\ MaxNesting >= 6 /\ TopFrame(t).op = "close" /\ TopFrame(t) = stack[t][1]
    BY <2>1, Parts, Closer, Zenon DEF Top, TopFrame
  <2>3. f.op = "close" /\ s[1] = f /\ s[2] = w /\ DOMAIN s = {1, 2} /\ DOMAIN stack[t] = {1}
    BY <1>1, <2>2 DEF Closing, Frame
  <2> HIDE DEF f, s, w
  <2>4. \A k \in Levels, r \in Regs : k # 2 =>
          (k \in DOMAIN s /\ Owes(s[k], r) <=> k \in DOMAIN stack[t] /\ Owes(stack[t][k], r))
    <3>1. \A r \in Regs : ~Owes(f, r) /\ ~Owes(stack[t][1], r)
      BY <2>2, <2>3, Zenon DEF Owes
    <3> QED
      BY <2>3, <3>1, Zenon
  <2>5. 2 \in Levels /\ 2 \in DOMAIN s /\ \A k \in DOMAIN stack[t] : k < 2
    BY <2>2, <2>3, EventsAssumption DEF Levels
  <2> QED
    BY <1>1, <2>1, <2>3, <2>4, <2>5, WalkRaises, Zenon DEF w
<1> QED
  BY <1>3, <1>4, Zenon

\* A slot that changes hands does not matter to those who have another one.
LEMMA OtherSlots ==
  ASSUME stack' = stack, NEW i,
         \A j : j # i => /\ j \in DOMAIN events' <=> j \in DOMAIN events
                         /\ j \in DOMAIN events => events'[j] = events[j],
         NEW t, NEW k, NEW q,
         i \in DOMAIN events => events[i].event_bitmask = {} \/ events[i].opaque # q,
         i \in DOMAIN events' => events'[i].event_bitmask = {} \/ events'[i].opaque # q
  PROVE  StillOwed(t, k, q)' <=> StillOwed(t, k, q)
  BY Zenon DEF StillOwed, Owes

\* Nothing is owed to those who have no slot.
LEMMA NoSlots ==
  ASSUME NEW t, NEW k, NEW q,
         \A j \in DOMAIN events : events[j].event_bitmask = {} \/ events[j].opaque # q
  PROVE  ~StillOwed(t, k, q)
  BY Zenon DEF StillOwed, Owes

LEMMA NoSlotsAfter ==
  ASSUME NEW t, NEW k, NEW q,
         \A j \in DOMAIN events' : events'[j].event_bitmask = {} \/ events'[j].opaque # q
  PROVE  ~StillOwed(t, k, q)'
  BY Zenon DEF StillOwed, Owes

LEMMA Idle ==
  ASSUME EInv, NEW r \in Regs, wanted[r].classes = {}
  PROVE  /\ \A j \in DOMAIN events : events[j].event_bitmask = {} \/ events[j].opaque # r
         /\ \A o \in stillOwed : o[3] # r
<1>1. \A j \in DOMAIN events : events[j].event_bitmask = {} \/ events[j].opaque # r
  BY Zenon DEF EInv, SlotsInv
<1> QED
  BY <1>1, NoSlots, OwedIs

\* The slot of a registration is cleared: nothing is owed to it any more.
LEMMA ClearedOwed ==
  ASSUME EInv, stack' = stack, NEW i \in DOMAIN events, events' = without(i),
         events[i].event_bitmask # {}
  PROVE  stillOwed' = {o \in stillOwed : o[3] # events[i].opaque}
<1>1. PICK r \in Regs : r = events[i].opaque
  BY SlotTypes, Zenon DEF EInv, TypeOK
<1>2. /\ \A j : j # i => /\ j \in DOMAIN events' <=> j \in DOMAIN events
                         /\ j \in DOMAIN events => events'[j] = events[j]
      /\ i \in DOMAIN events' => events'[i].event_bitmask = {}
  BY Without, Zenon DEF EInv, TypeOK
<1>3. \A j \in DOMAIN events : events[j].event_bitmask # {} /\ events[j].opaque = r => j = i
  BY <1>1, Zenon DEF EInv, SlotsInv
<1>4. \A t \in Threads, k \in Levels, q \in Regs : q # r => (StillOwed(t, k, q)' <=> StillOwed(t, k, q))
  BY <1>1, <1>2, OtherSlots, Zenon
<1>5. \A j \in DOMAIN events' : events'[j].event_bitmask = {} \/ events'[j].opaque # r
  BY <1>2, <1>3, Zenon
<1>6. \A t \in Threads, k \in Levels : ~StillOwed(t, k, r)'
  BY <1>5, NoSlotsAfter, Zenon
<1>7. ASSUME NEW o \in stillOwed' PROVE o \in stillOwed /\ o[3] # r
  BY <1>4, <1>6, <1>7, OwedIs, OwedAfter
<1>8. ASSUME NEW o \in stillOwed, o[3] # r PROVE o \in stillOwed'
  BY <1>4, <1>8, OwedIs, OwedAfter
<1> QED
  BY <1>1, <1>7, <1>8, Zenon

LEMMA DeleteUnregisters ==
  ASSUME EInv, NEW t \in Threads, NEW r \in Regs, guestfs_delete_event_callback(t, r)
  PROVE  Promise!Unregister(r)
<1> DEFINE i == wanted[r].slot
<1>1. /\ i \in DOMAIN events /\ i <= Len(events) /\ events[i].opaque = r
      /\ events[i].event_bitmask = wanted[r].classes /\ wanted[r].classes # {}
      /\ i \in Nat /\ Len(events) \in Nat
  BY Parts, OwnSlot DEF guestfs_delete_event_callback, RegistryPart, WantsType
<1>2. /\ stack' = stack /\ errdata' = errdata /\ wanted' = [wanted EXCEPT ![r] = Nothing]
      /\ events' = without(i)
  BY <1>1 DEF guestfs_delete_event_callback, SameErrors
<1> HIDE DEF i
<1>3. stillOwed' = {o \in stillOwed : o[3] # r}
  BY <1>1, <1>2, ClearedOwed, Zenon
<1> DEFINE live == [q \in Regs |-> wanted[q].classes]
<1>4. live' = [live EXCEPT ![r] = {}] /\ live[r] # {}
  BY <1>1, <1>2, Records, Zenon DEF EInv, TypeOK
<1> QED
  BY <1>2, <1>3, <1>4, Zenon DEF Promise!Unregister, Promise!SameErrors

\* A slot that nobody uses is cleared: nobody notices.
LEMMA UnusedCleared ==
  ASSUME EInv, stack' = stack, NEW i \in DOMAIN events, events' = without(i),
         events[i].event_bitmask = {}
  PROVE  stillOwed' = stillOwed
<1>1. /\ \A j : j # i => /\ j \in DOMAIN events' <=> j \in DOMAIN events
                         /\ j \in DOMAIN events => events'[j] = events[j]
      /\ i \in DOMAIN events' => events'[i].event_bitmask = {}
  BY Without, Zenon DEF EInv, TypeOK
<1>2. \A t \in Threads, k \in Levels, q \in Regs : StillOwed(t, k, q)' <=> StillOwed(t, k, q)
  BY <1>1, OtherSlots, Zenon
<1> QED
  BY <1>2, OwedSame, Zenon

\* Who is registered through a wrapper of the old interface.
LEMMA OldRegistered ==
  ASSUME EInv, NEW class \in Classes, Wrapped(class) # {}
  PROVE  LET i == First(Wrapped(class))
         IN  /\ i \in DOMAIN events /\ events[i].cb = class
             /\ \A j \in DOMAIN events : events[j].cb = class => j = i
             /\ \A q \in Regs : wanted[q].cb = class <=>
                  events[i].event_bitmask # {} /\ q = events[i].opaque
             /\ events[i].event_bitmask # {} =>
                  wanted[events[i].opaque].classes = events[i].event_bitmask
<1> DEFINE i == First(Wrapped(class))
<1>1. /\ i \in DOMAIN events /\ events[i].cb = class
      /\ \A j \in DOMAIN events : events[j].cb = class => j = i
  BY Parts, WrapperSlot, Zenon
<1> HIDE DEF i
<1>2. events[i].event_bitmask # {} =>
        /\ wanted[events[i].opaque].classes = events[i].event_bitmask
        /\ wanted[events[i].opaque].cb = class
  BY <1>1, Zenon DEF EInv, SlotsInv
<1>3. ASSUME NEW q \in Regs, wanted[q].cb = class
      PROVE  events[i].event_bitmask # {} /\ q = events[i].opaque
  <2>1. PICK j \in DOMAIN events : events[j] = Entry(wanted[q].classes, class, q)
    BY <1>3, Parts, OldWishes, Zenon
  <2>2. wanted[q].classes # {}
    BY <1>3, Parts, OldWishes, Zenon
  <2>3. events[j].cb = class /\ events[j].event_bitmask = wanted[q].classes /\ events[j].opaque = q
    BY <2>1 DEF Entry
  <2> QED
    BY <1>1, <2>2, <2>3, Zenon
<1> QED
  BY <1>1, <1>2, <1>3, Zenon DEF i

LEMMA RemoveUnregisters ==
  ASSUME EInv, NEW t \in Threads, NEW class \in Classes,
         remove_old_style_event_callback(t, class)
  PROVE  Seen' = Seen \/ \E r \in Regs : Promise!Unregister(r)
<1> DEFINE i == First(Wrapped(class))
<1>1. /\ i \in DOMAIN events
      /\ \A q \in Regs : wanted[q].cb = class <=>
           events[i].event_bitmask # {} /\ q = events[i].opaque
      /\ events[i].event_bitmask # {} =>
           wanted[events[i].opaque].classes = events[i].event_bitmask
  BY OldRegistered, Zenon DEF remove_old_style_event_callback
<1>2. /\ stack' = stack /\ errdata' = errdata /\ wanted' = WithoutOld(class)
      /\ events' = without(i)
  BY Zenon DEF remove_old_style_event_callback, SameErrors
<1> HIDE DEF i
<1> DEFINE live == [q \in Regs |-> wanted[q].classes]
<1>3. \A q \in Regs : wanted'[q] = IF wanted[q].cb = class THEN Nothing ELSE wanted[q]
  BY <1>2, Parts, OldWishes, Zenon
<1>4. CASE events[i].event_bitmask = {}
  <2>1. stillOwed' = stillOwed
    BY <1>1, <1>2, <1>4, UnusedCleared, Zenon
  <2>2. live' = live
    BY <1>1, <1>3, <1>4, Zenon
  <2> QED
    BY <1>2, <2>1, <2>2, Zenon DEF Seen
<1>5. CASE events[i].event_bitmask # {}
  <2>1. PICK r \in Regs : r = events[i].opaque
    BY <1>1, SlotTypes, Zenon DEF EInv, TypeOK
  <2>2. stillOwed' = {o \in stillOwed : o[3] # r}
    BY <1>1, <1>2, <1>5, <2>1, ClearedOwed, Zenon
  <2>3. live' = [live EXCEPT ![r] = {}] /\ live[r] # {}
    <3>1. wanted[r].classes # {}
      BY <1>1, <1>5, <2>1, Zenon
    <3>2. \A q \in Regs : wanted'[q].classes = IF q = r THEN {} ELSE wanted[q].classes
      BY <1>1, <1>3, <1>5, <2>1, Records, Zenon
    <3> QED
      BY <3>1, <3>2, Zenon
  <2>4. Promise!Unregister(r)
    BY <1>2, <2>2, <2>3, Zenon DEF Promise!Unregister, Promise!SameErrors
  <2> QED
    BY <2>4, Zenon
<1> QED
  BY <1>4, <1>5, Zenon

\* A slot is given to a registration that had none, or added for it.
LEMMA InstalledOwed ==
  ASSUME EInv, stack' = stack, NEW i, NEW r \in Regs, wanted[r].classes = {},
         \A j : j # i => /\ j \in DOMAIN events' <=> j \in DOMAIN events
                         /\ j \in DOMAIN events => events'[j] = events[j],
         i \in DOMAIN events' /\ events'[i].opaque = r
  PROVE  /\ \A o \in stillOwed' : o[3] # r =>
              /\ o \in stillOwed
              /\ ~(i \in DOMAIN events /\ events[i].event_bitmask # {} /\ o[3] = events[i].opaque)
         /\ \A o \in stillOwed :
              ~(i \in DOMAIN events /\ events[i].event_bitmask # {} /\ o[3] = events[i].opaque)
              => o \in stillOwed'
<1>1. \A t \in Threads, k \in Levels, q \in Regs :
        /\ q # r
        /\ ~(i \in DOMAIN events /\ events[i].event_bitmask # {} /\ q = events[i].opaque)
        => (StillOwed(t, k, q)' <=> StillOwed(t, k, q))
  BY OtherSlots, Zenon
<1>2. ASSUME NEW t \in Threads, NEW k \in Levels, NEW q \in Regs, q # r, i \in DOMAIN events,
             events[i].event_bitmask # {}, q = events[i].opaque
      PROVE  ~StillOwed(t, k, q)'
  <2>1. \A j \in DOMAIN events : events[j].event_bitmask # {} /\ events[j].opaque = q => j = i
    BY <1>2, Zenon DEF EInv, SlotsInv
  <2>2. \A j \in DOMAIN events' : events'[j].event_bitmask = {} \/ events'[j].opaque # q
    BY <1>2, <2>1, Zenon
  <2> QED
    BY <2>2, NoSlotsAfter, Zenon
<1>3. \A o \in stillOwed : o[3] # r
  BY Idle, Zenon
<1>4. ASSUME NEW o \in stillOwed', o[3] # r
      PROVE  /\ o \in stillOwed
             /\ ~(i \in DOMAIN events /\ events[i].event_bitmask # {} /\ o[3] = events[i].opaque)
  BY <1>1, <1>2, <1>4, OwedIs, OwedAfter
<1>5. ASSUME NEW o \in stillOwed,
             ~(i \in DOMAIN events /\ events[i].event_bitmask # {} /\ o[3] = events[i].opaque)
      PROVE  o \in stillOwed'
  BY <1>1, <1>3, <1>5, OwedIs, OwedAfter
<1> QED
  BY <1>4, <1>5, Zenon

LEMMA SetRegisters ==
  ASSUME EInv, NEW t \in Threads, NEW r \in Regs, NEW mask \in Masks,
         guestfs_set_event_callback(t, r, mask)
  PROVE  Promise!Register(r, mask)
<1> DEFINE n == Len(events) + 1
           x == Entry(mask, "new", r)
           live == [q \in Regs |-> wanted[q].classes]
<1>1. /\ mask \in SUBSET Classes /\ n \in Nat \ {0}
      /\ events \in Seq(EntryType) /\ DOMAIN events = 1..(n - 1)
  BY EventsAssumption DEF EInv, TypeOK
<1>2. x \in EntryType /\ x.opaque = r /\ Wants(mask, "new", n).classes = mask
  BY <1>1, Records
<1>3. /\ stack' = stack /\ errdata' = errdata /\ wanted[r] = Nothing
      /\ events' = Append(events, x)
      /\ wanted' = [wanted EXCEPT ![r] = Wants(mask, "new", n)]
  BY Zenon DEF guestfs_set_event_callback, SameErrors
<1>4. /\ DOMAIN events' = 1..n /\ events'[n] = x
      /\ \A k \in 1..(n - 1) : events'[k] = events[k]
  BY <1>1, <1>2, <1>3, Appended
<1>5. live' = [live EXCEPT ![r] = mask] /\ live[r] = {}
  BY <1>2, <1>3, Records, Zenon DEF EInv, TypeOK
<1> HIDE DEF n, x
<1>6. \A j : j # n => /\ j \in DOMAIN events' <=> j \in DOMAIN events
                      /\ j \in DOMAIN events => events'[j] = events[j]
  BY <1>1, <1>4
<1>7. n \in DOMAIN events' /\ n \notin DOMAIN events /\ events'[n].opaque = r
  BY <1>1, <1>2, <1>4
<1>8. \A o \in stillOwed' : o[3] # r => o \in stillOwed
  BY <1>3, <1>6, <1>7, Records, InstalledOwed
<1>9. \A o \in stillOwed : o \in stillOwed'
  BY <1>3, <1>6, <1>7, Records, InstalledOwed
<1> QED
  BY <1>3, <1>5, <1>8, <1>9, Zenon DEF Promise!Register, Promise!SameErrors

LEMMA ReplaceRegisters ==
  ASSUME EInv, NEW t \in Threads, NEW class \in Classes, NEW r \in Regs,
         replace_old_style_event_callback(t, class, r)
  PROVE  Promise!Register(r, {class}) \/ \E q \in Regs : Promise!Replace(q, r, {class})
<1> DEFINE x == Entry({class}, class, r)
           live == [q \in Regs |-> wanted[q].classes]
<1>1. /\ stack' = stack /\ errdata' = errdata /\ wanted[r] = Nothing /\ wanted[r].classes = {}
      /\ wanted' = [WithoutOld(class) EXCEPT ![r] = Wants({class}, class, 0)]
      /\ events' = IF Wrapped(class) = {} THEN Append(events, x)
                   ELSE [events EXCEPT ![First(Wrapped(class))] = x]
  BY Records, Zenon DEF replace_old_style_event_callback, SameErrors
<1>2. x \in EntryType /\ x.opaque = r /\ events \in Seq(EntryType)
  BY Records, SMTT(30) DEF EInv, TypeOK
<1>3. \A q \in Regs : wanted'[q].classes =
        IF q = r THEN {class} ELSE IF wanted[q].cb = class THEN {} ELSE wanted[q].classes
  <2>1. Wants({class}, class, 0).classes = {class} /\ Nothing.classes = {}
    BY Records
  <2>2. /\ WithoutOld(class) \in [Regs -> WantsType]
        /\ \A q \in Regs : WithoutOld(class)[q] = IF wanted[q].cb = class THEN Nothing ELSE wanted[q]
    BY Parts, OldWishes, Zenon
  <2> QED
    BY <1>1, <2>1, <2>2, Zenon
<1>4. live[r] = {}
  BY <1>1, Zenon
<1> HIDE DEF x
<1>5. CASE Wrapped(class) = {}
  <2> DEFINE n == Len(events) + 1
  <2>1. /\ n \in Nat \ {0} /\ DOMAIN events = 1..(n - 1) /\ DOMAIN events' = 1..n /\ events'[n] = x
        /\ \A k \in 1..(n - 1) : events'[k] = events[k]
    BY <1>1, <1>2, <1>5, Appended
  <2> HIDE DEF n
  <2>2. \A j : j # n => /\ j \in DOMAIN events' <=> j \in DOMAIN events
                        /\ j \in DOMAIN events => events'[j] = events[j]
    BY <2>1
  <2>3. n \in DOMAIN events' /\ n \notin DOMAIN events /\ events'[n].opaque = r
    BY <1>2, <2>1
  <2>4. \A o \in stillOwed' : o[3] # r => o \in stillOwed
    BY <1>1, <2>2, <2>3, InstalledOwed, Zenon
  <2>5. \A o \in stillOwed : o \in stillOwed'
    BY <1>1, <2>2, <2>3, InstalledOwed, Zenon
  <2>6. \A q \in Regs : wanted[q].cb # class
    <3>1. \A j \in DOMAIN events : events[j].cb # class
      BY <1>5, Zenon DEF Wrapped
    <3> QED
      BY <3>1, Parts, OldWishes DEF Entry
  <2>7. live' = [live EXCEPT ![r] = {class}]
    BY <1>3, <2>6, Zenon
  <2>8. Promise!Register(r, {class})
    BY <1>1, <1>4, <2>4, <2>5, <2>7, Zenon DEF Promise!Register, Promise!SameErrors
  <2> QED
    BY <2>8, Zenon
<1>6. CASE Wrapped(class) # {}
  <2> DEFINE i == First(Wrapped(class))
  <2>1. /\ i \in DOMAIN events
        /\ \A q \in Regs : wanted[q].cb = class <=>
             events[i].event_bitmask # {} /\ q = events[i].opaque
        /\ events[i].event_bitmask # {} =>
             wanted[events[i].opaque].classes = events[i].event_bitmask
    BY <1>6, OldRegistered, Zenon
  <2>2. /\ DOMAIN events' = DOMAIN events /\ events'[i] = x
        /\ \A j \in DOMAIN events : j # i => events'[j] = events[j]
    BY <1>1, <1>2, <1>6, <2>1, Overwritten, Zenon
  <2> HIDE DEF i
  <2>3. \A j : j # i => /\ j \in DOMAIN events' <=> j \in DOMAIN events
                        /\ j \in DOMAIN events => events'[j] = events[j]
    BY <2>2, Zenon
  <2>4. i \in DOMAIN events' /\ events'[i].opaque = r
    BY <1>2, <2>1, <2>2, Zenon
  <2>5. /\ \A o \in stillOwed' : o[3] # r =>
             /\ o \in stillOwed
             /\ ~(i \in DOMAIN events /\ events[i].event_bitmask # {} /\ o[3] = events[i].opaque)
        /\ \A o \in stillOwed :
             ~(i \in DOMAIN events /\ events[i].event_bitmask # {} /\ o[3] = events[i].opaque)
             => o \in stillOwed'
    BY <1>1, <2>3, <2>4, InstalledOwed, Zenon
  <2>6. CASE events[i].event_bitmask = {}
    <3>1. live' = [live EXCEPT ![r] = {class}]
      BY <1>3, <2>1, <2>6, Zenon
    <3>2. Promise!Register(r, {class})
      BY <1>1, <1>4, <2>5, <2>6, <3>1, Zenon DEF Promise!Register, Promise!SameErrors
    <3> QED
      BY <3>2, Zenon
  <2>7. CASE events[i].event_bitmask # {}
    <3>1. PICK q \in Regs : q = events[i].opaque
      BY <1>2, <2>1, SlotTypes, Zenon
    <3>2. q # r /\ live[q] # {}
      BY <1>1, <2>1, <2>7, <3>1, Zenon
    <3>3. live' = [live EXCEPT ![q] = {}, ![r] = {class}]
      BY <1>3, <2>1, <2>7, <3>1, <3>2, Zenon
    <3>4. /\ {o \in stillOwed : o[3] # q} \subseteq stillOwed'
          /\ \A o \in stillOwed' : o[3] # r => o \in stillOwed /\ o[3] # q
      BY <2>1, <2>5, <2>7, <3>1, Zenon
    <3>5. Promise!Replace(q, r, {class})
      BY <1>1, <1>4, <3>2, <3>3, <3>4, Zenon DEF Promise!Replace, Promise!SameErrors
    <3> QED
      BY <3>5, Zenon
  <2> QED
    BY <2>6, <2>7, Zenon
<1> QED
  BY <1>5, <1>6, Zenon

-----------------------------------------------------------------------------
(* The error handlers that the users of a handle set. *)

LEMMA FrontOfAppend ==
  ASSUME NEW S, NEW s \in Seq(S), NEW x \in S
  PROVE  /\ Append(s, x) # <<>> /\ Len(Append(s, x)) = Len(s) + 1
         /\ SubSeq(Append(s, x), 1, Len(Append(s, x)) - 1) = s
<1> DEFINE a == Append(s, x)
           f == SubSeq(a, 1, Len(a) - 1)
           n == Len(s)
<1>1. /\ n \in Nat /\ DOMAIN s = 1..n
      /\ a \in Seq(S) /\ Len(a) = n + 1 /\ \A k \in 1..n : a[k] = s[k]
  BY Appended
<1>2. a # <<>>
  BY <1>1
<1> HIDE DEF a, n
<1>3. f \in Seq(S) /\ Len(f) = Len(a) - 1 /\ \A k \in 1..(Len(a) - 1) : f[k] = a[k]
  BY <1>1, <1>2, Shortened, Zenon
<1> HIDE DEF f
<1>4. Len(f) = n /\ \A k \in 1..n : f[k] = s[k]
  BY <1>1, <1>3
<1>5. f = s
  BY <1>1, <1>3, <1>4 DEF n
<1> QED
  BY <1>1, <1>2, <1>5, Zenon DEF a, f, n

LEMMA AppendToFront ==
  ASSUME NEW S, NEW s \in Seq(S), s # <<>>
  PROVE  Append(SubSeq(s, 1, Len(s) - 1), s[Len(s)]) = s
<1> DEFINE f == SubSeq(s, 1, Len(s) - 1)
           n == Len(s)
           x == s[n]
           a == Append(f, x)
<1>1. /\ n \in Nat \ {0} /\ x \in S /\ f \in Seq(S) /\ Len(f) = n - 1
      /\ \A k \in 1..(n - 1) : f[k] = s[k]
  BY Shortened
<1> HIDE DEF f, x
<1>2. /\ a \in Seq(S) /\ Len(a) = Len(f) + 1 /\ \A k \in 1..Len(f) : a[k] = f[k]
      /\ a[Len(f) + 1] = x
  BY <1>1, Appended
<1> HIDE DEF a
<1>3. Len(a) = n /\ \A k \in 1..n : a[k] = s[k]
  BY <1>1, <1>2 DEF x
<1>4. a = s
  BY <1>2, <1>3
<1> QED
  BY <1>4, Zenon DEF a, f, x

\* Frames that are no walks are put on a stack.
LEMMA OwedMore ==
  ASSUME EInv, events' = events, NEW t \in Threads, NEW s, stack' = [stack EXCEPT ![t] = s],
         DOMAIN stack[t] \subseteq DOMAIN s,
         \A k \in DOMAIN s : IF k \in DOMAIN stack[t] THEN s[k] = stack[t][k] ELSE s[k].op # "walk"
  PROVE  stillOwed' = stillOwed
<1>1. \A k \in Levels, r \in Regs :
        k \in DOMAIN s /\ Owes(s[k], r) <=> k \in DOMAIN stack[t] /\ Owes(stack[t][k], r)
  BY Zenon DEF Owes
<1> QED
  BY <1>1, OwedFrames, Zenon

LEMMA FailUnseen ==
  ASSUME EInv, NEW t \in Threads, NEW e \in Errors,
         guestfs_int_error_errno(t, e) \/ guestfs_set_event_callback_full(t, e)
  PROVE  stillOwed' = stillOwed
<1> DEFINE n == Len(stack[t])
           a == Append(stack[t], Api)
           b == Append(a, User)
<1>1. stack[t] \in Seq(FrameType) /\ n \in Nat /\ DOMAIN stack[t] = 1..n /\ events' = events
  BY DEF EInv, TypeOK, guestfs_int_error_errno, guestfs_set_event_callback_full, SameEvents
<1>2. /\ stack[t] \o <<>> \o <<>> = stack[t] /\ stack[t] \o <<Api>> \o <<>> = a
      /\ stack[t] \o <<>> \o <<User>> = Append(stack[t], User)
      /\ stack[t] \o <<Api>> \o <<User>> = b
  BY <1>1, FrameKinds
<1>3. \/ stack' = [stack EXCEPT ![t] = stack[t]] \/ stack' = [stack EXCEPT ![t] = Append(stack[t], User)]
      \/ stack' = [stack EXCEPT ![t] = a] \/ stack' = [stack EXCEPT ![t] = b]
  BY <1>2, Zenon DEF guestfs_int_error_errno, guestfs_set_event_callback_full, Raised
<1>4. CASE stack' = [stack EXCEPT ![t] = stack[t]]
  BY <1>1, <1>4, OwedFrames, Zenon
<1>5. CASE stack' = [stack EXCEPT ![t] = Append(stack[t], User)]
  BY <1>1, <1>5, OwedAbove, FrameKinds, Zenon
<1>6. CASE stack' = [stack EXCEPT ![t] = a]
  BY <1>1, <1>6, OwedAbove, FrameKinds, Zenon
<1>7. CASE stack' = [stack EXCEPT ![t] = b]
  <2>1. /\ a \in Seq(FrameType) /\ Len(a) = n + 1 /\ \A k \in 1..n : a[k] = stack[t][k]
        /\ a[n + 1] = Api
    BY <1>1, Appended, FrameKinds
  <2> HIDE DEF a, n
  <2>2. /\ DOMAIN b = 1..(n + 1 + 1) /\ \A k \in 1..(n + 1) : b[k] = a[k]
        /\ b[n + 1 + 1] = User
    BY <2>1, Appended, FrameKinds
  <2> HIDE DEF b
  <2>3. /\ DOMAIN stack[t] \subseteq DOMAIN b
        /\ \A k \in DOMAIN stack[t] : b[k] = stack[t][k]
    BY <1>1, <2>1, <2>2
  <2>4. \A k \in DOMAIN b : k \notin DOMAIN stack[t] => k = n + 1 \/ k = n + 1 + 1
    BY <1>1, <2>2
  <2>5. b[n + 1] = Api
    BY <1>1, <2>1, <2>2
  <2>6. \A k \in DOMAIN b : IF k \in DOMAIN stack[t] THEN b[k] = stack[t][k] ELSE b[k].op # "walk"
    BY <2>2, <2>3, <2>4, <2>5, FrameKinds, Zenon
  <2> QED
    BY <1>1, <1>7, <2>3, <2>6, OwedMore, Zenon
<1> QED
  BY <1>3, <1>4, <1>5, <1>6, <1>7, Zenon

LEMMA FailFails ==
  ASSUME EInv, NEW t \in Threads, NEW e \in Errors,
         guestfs_int_error_errno(t, e) \/ guestfs_set_event_callback_full(t, e)
  PROVE  Promise!SameEvents /\ Promise!Fail(t, e)
<1>1. wanted' = wanted /\ errdata' = [errdata EXCEPT ![t] = [errdata[t] EXCEPT !.last_error = e]]
  BY Zenon DEF guestfs_int_error_errno, guestfs_set_event_callback_full, SameEvents, Raised,
         set_last_error, get_error_data
<1>2. errdata \in [Threads -> ErrorData]
  BY Zenon DEF EInv, TypeOK
<1>3. Promise!SameEvents
  BY <1>1, FailUnseen, Zenon DEF Promise!SameEvents
<1>4. \A u \in Threads :
        /\ errdata'[u].last_error = IF u = t THEN e ELSE errdata[u].last_error
        /\ errdata'[u].error_cb = errdata[u].error_cb
        /\ errdata'[u].error_cb_stack = errdata[u].error_cb_stack
  BY <1>1, <1>2, Zenon DEF ErrorData
<1>5. [u \in Threads |-> errdata[u].last_error]' = [[u \in Threads |-> errdata[u].last_error] EXCEPT ![t] = e]
  BY <1>4, Zenon
<1>6. [u \in Threads |-> Append(errdata[u].error_cb_stack, errdata[u].error_cb)]' =
        [u \in Threads |-> Append(errdata[u].error_cb_stack, errdata[u].error_cb)]
  BY <1>4, Zenon
<1> QED
  BY <1>3, <1>5, <1>6, Zenon DEF Promise!Fail

LEMMA HandlersChange ==
  ASSUME EInv, NEW t \in Threads, NEW h \in Handlers,
         \/ guestfs_set_error_handler(t, h) \/ guestfs_push_error_handler(t, h)
         \/ guestfs_pop_error_handler(t)
  PROVE  Promise!SameEvents /\ (Promise!SetHandler(t, h) \/ Promise!PushHandler(t, h) \/ Promise!PopHandler(t))
<1> DEFINE cbs == [u \in Threads |-> Append(errdata[u].error_cb_stack, errdata[u].error_cb)]
           lasts == [u \in Threads |-> errdata[u].last_error]
           s == errdata[t].error_cb_stack
           x == errdata[t].error_cb
<1>1. events' = events /\ wanted' = wanted /\ stack' = stack
  BY Zenon DEF guestfs_set_error_handler, guestfs_push_error_handler, guestfs_pop_error_handler,
     SameEvents
<1>2. /\ errdata \in [Threads -> ErrorData] /\ errdata[t] \in ErrorData
      /\ s \in Seq(Handlers) /\ x \in Handlers
  BY Zenon DEF EInv, TypeOK, ErrorData
<1>3. Promise!SameEvents
  <2>1. stillOwed' = stillOwed
    BY <1>1, Zenon DEF stillOwed, StillOwed, Owes
  <2> QED
    BY <1>1, <2>1, Zenon DEF Promise!SameEvents
<1>4. /\ cbs[t] = Append(s, x) /\ Len(cbs[t]) = Len(s) + 1 /\ Len(s) \in Nat
      /\ SubSeq(cbs[t], 1, Len(cbs[t]) - 1) = s
  BY <1>2, FrontOfAppend
<1>5. CASE guestfs_set_error_handler(t, h)
  <2>1. errdata' = [errdata EXCEPT ![t] = [errdata[t] EXCEPT !.error_cb = h]]
    BY <1>5, Zenon DEF guestfs_set_error_handler, get_error_data
  <2>2. \A u \in Threads :
          /\ errdata'[u].last_error = errdata[u].last_error
          /\ errdata'[u].error_cb = IF u = t THEN h ELSE errdata[u].error_cb
          /\ errdata'[u].error_cb_stack = errdata[u].error_cb_stack
    BY <1>2, <2>1, Zenon DEF ErrorData
  <2>3. lasts' = lasts /\ cbs' = [cbs EXCEPT ![t] = Append(s, h)]
    BY <2>2, Zenon
  <2>4. Promise!SetHandler(t, h)
    BY <1>3, <1>4, <2>3, Zenon DEF Promise!SetHandler
  <2> QED
    BY <1>3, <2>4, Zenon
<1>6. CASE guestfs_push_error_handler(t, h)
  <2>1. errdata' = [errdata EXCEPT ![t] = [errdata[t] EXCEPT !.error_cb_stack = Append(s, x), !.error_cb = h]]
    BY <1>6, Zenon DEF guestfs_push_error_handler, get_error_data
  <2>2. \A u \in Threads :
          /\ errdata'[u].last_error = errdata[u].last_error
          /\ errdata'[u].error_cb = IF u = t THEN h ELSE errdata[u].error_cb
          /\ errdata'[u].error_cb_stack = IF u = t THEN Append(s, x) ELSE errdata[u].error_cb_stack
    BY <1>2, <2>1, Zenon DEF ErrorData
  <2>3. lasts' = lasts /\ cbs' = [cbs EXCEPT ![t] = Append(Append(s, x), h)]
    BY <2>2, Zenon
  <2>4. Promise!PushHandler(t, h)
    BY <1>3, <1>4, <2>3, Zenon DEF Promise!PushHandler
  <2> QED
    BY <1>3, <2>4, Zenon
<1>7. CASE guestfs_pop_error_handler(t)
  <2>1. CASE s # <<>>
    <3>1. errdata' = [errdata EXCEPT ![t] = [errdata[t] EXCEPT
                        !.error_cb = s[Len(s)], !.error_cb_stack = SubSeq(s, 1, Len(s) - 1)]]
      BY <1>7, <2>1, Zenon DEF guestfs_pop_error_handler, get_error_data
    <3>2. \A u \in Threads :
            /\ errdata'[u].last_error = errdata[u].last_error
            /\ errdata'[u].error_cb = IF u = t THEN s[Len(s)] ELSE errdata[u].error_cb
            /\ errdata'[u].error_cb_stack =
                 IF u = t THEN SubSeq(s, 1, Len(s) - 1) ELSE errdata[u].error_cb_stack
      BY <1>2, <3>1, Zenon DEF ErrorData
    <3>3. Append(SubSeq(s, 1, Len(s) - 1), s[Len(s)]) = s
      BY <1>2, <2>1, AppendToFront, Zenon
    <3>4. lasts' = lasts /\ cbs' = [cbs EXCEPT ![t] = s]
      BY <3>2, <3>3, Zenon
    <3>5. Len(cbs[t]) > 1
      BY <1>2, <1>4, <2>1
    <3>6. Promise!PopHandler(t)
      BY <1>3, <1>4, <3>4, <3>5, Zenon DEF Promise!PopHandler
    <3> QED
      BY <1>3, <3>6, Zenon
  <2>2. CASE s = <<>>
    <3>1. errdata' = [errdata EXCEPT ![t] = [errdata[t] EXCEPT !.error_cb = Default]]
      BY <1>7, <2>2, Zenon DEF guestfs_pop_error_handler, get_error_data
    <3>2. \A u \in Threads :
            /\ errdata'[u].last_error = errdata[u].last_error
            /\ errdata'[u].error_cb = IF u = t THEN Default ELSE errdata[u].error_cb
            /\ errdata'[u].error_cb_stack = errdata[u].error_cb_stack
      BY <1>2, <3>1, Zenon DEF ErrorData
    <3>3. Append(s, Default) = <<Default>>
      BY <2>2
    <3>4. lasts' = lasts /\ cbs' = [cbs EXCEPT ![t] = <<Default>>]
      BY <3>2, <3>3, Zenon
    <3>5. ~(Len(cbs[t]) > 1)
      BY <1>4, <2>2
    <3>6. Promise!PopHandler(t)
      BY <1>3, <3>4, <3>5, Zenon DEF Promise!PopHandler
    <3> QED
      BY <1>3, <3>6, Zenon
  <2> QED
    BY <2>1, <2>2, Zenon
<1> QED
  BY <1>5, <1>6, <1>7, Zenon

LEMMA FreeCloses ==
  ASSUME EInv, NEW t \in Threads, close_frees(t)
  PROVE  Promise!CloseAll
<1>1. /\ Top(t, "close") /\ wanted' = [r \in Regs |-> Nothing]
      /\ events' = <<>> /\ errdata' = [u \in Threads |-> NoData]
  BY Zenon DEF close_frees
<1>2. ASSUME NEW u \in Threads, NEW k, NEW r
      PROVE  ~StillOwed(u, k, r) /\ ~StillOwed(u, k, r)'
  <2>1. CASE u # t
    BY <2>1, <1>1, Parts, Closer DEF StillOwed, Owes
  <2>2. CASE u = t
    <3>1. Len(stack[t]) = 1 /\ stack[t] \in Seq(FrameType) /\ stack[t][1].op = "close"
      BY <1>1, Parts, Closer, Zenon DEF EInv, TypeOK, Top
    <3> QED
      BY <1>1, <2>2, <3>1 DEF StillOwed, Owes
  <2> QED
    BY <2>1, <2>2, Zenon
<1>3. stillOwed = {} /\ stillOwed' = {}
  BY <1>2, Zenon DEF stillOwed
<1>4. [r \in Regs |-> wanted[r].classes]' = [r \in Regs |-> {}]
  BY <1>1, Records, Zenon
<1>5. [u \in Threads |-> errdata[u].last_error]' = [u \in Threads |-> None]
  BY <1>1, Zenon DEF NoData
<1>6. [u \in Threads |-> Append(errdata[u].error_cb_stack, errdata[u].error_cb)]' =
        [u \in Threads |-> <<Default>>]
  <2>1. Append(<<>>, Default) = <<Default>>
    OBVIOUS
  <2> QED
    BY <1>1, <2>1, Zenon DEF NoData
<1> QED
  BY <1>3, <1>4, <1>5, <1>6, Zenon DEF Promise!CloseAll

\* The users see every step of the registry as one.
LEMMA RegistrySteps ==
  ASSUME NEW r \in Regs, NEW classes \in SUBSET Classes, classes # {},
         \/ Promise!Unregister(r) \/ Promise!Register(r, classes)
         \/ \E q \in Regs : Promise!Replace(q, r, classes)
  PROVE  Promise!PNext
<1> DEFINE live == [q \in Regs |-> wanted[q].classes]
<1>1. live' # live
  <2>1. live'[r] # live[r]
    BY Zenon DEF Promise!Unregister, Promise!Register, Promise!Replace
  <2> QED
    BY <2>1, Zenon
<1>2. Promise!RegistryStep
  BY Zenon DEF Promise!RegistryStep
<1> QED
  BY <1>1, <1>2, Zenon DEF Promise!PNext

LEMMA StepKeepsPromise == EInv /\ [Next]_vars => [Promise!PNext]_(Promise!pvars)
<1> SUFFICES ASSUME EInv, [Next]_vars PROVE Promise!PNext \/ Seen' = Seen
  BY Zenon DEF Promise!pvars, Seen
<1>1. CASE UNCHANGED vars
  BY <1>1, Zenon DEF vars, Seen, stillOwed, StillOwed, Owes
<1>2. ASSUME NEW t \in Threads, NEW h \in Handlers,
             \/ guestfs_set_error_handler(t, h) \/ guestfs_push_error_handler(t, h)
             \/ guestfs_pop_error_handler(t)
      PROVE  Promise!PNext
  BY <1>2, HandlersChange, Zenon DEF Promise!PNext, Promise!ErrorStep
<1>3. ASSUME NEW t \in Threads, NEW e \in Errors,
             guestfs_int_error_errno(t, e) \/ guestfs_set_event_callback_full(t, e)
      PROVE  Promise!PNext
  BY <1>3, FailFails, Zenon DEF Promise!PNext, Promise!ErrorStep
<1>4. ASSUME NEW t \in Threads, NEW r \in Regs, NEW mask \in Masks,
             guestfs_set_event_callback(t, r, mask)
      PROVE  Promise!PNext
  <2>1. mask \in SUBSET Classes /\ mask # {}
    BY EventsAssumption, Zenon
  <2> QED
    BY <1>4, <2>1, SetRegisters, RegistrySteps, Zenon
<1>5. ASSUME NEW r \in Regs, Promise!Unregister(r)
      PROVE  Promise!PNext
  <2>1. {"close"} \in SUBSET Classes /\ {"close"} # {}
    BY EventsAssumption, Zenon
  <2> QED
    BY <1>5, <2>1, RegistrySteps, Zenon
<1>6. ASSUME NEW t \in Threads, NEW r \in Regs, guestfs_delete_event_callback(t, r)
      PROVE  Promise!PNext
  BY <1>5, <1>6, DeleteUnregisters, Zenon
<1>7. ASSUME NEW t \in Threads, NEW r \in Regs, NEW class \in OldStyle,
             replace_old_style_event_callback(t, class, r)
      PROVE  Promise!PNext
  <2>1. class \in Classes /\ {class} \in SUBSET Classes /\ {class} # {}
    BY EventsAssumption, Zenon
  <2>2. Promise!Register(r, {class}) \/ \E q \in Regs : Promise!Replace(q, r, {class})
    BY <1>7, <2>1, ReplaceRegisters, Zenon
  <2> QED
    BY <2>1, <2>2, RegistrySteps, Zenon
<1>8. ASSUME NEW t \in Threads, NEW class \in OldStyle, remove_old_style_event_callback(t, class)
      PROVE  Promise!PNext \/ Seen' = Seen
  BY <1>5, <1>8, EventsAssumption, RemoveUnregisters, Zenon
<1>9. ASSUME NEW t \in Threads, call_callback(t)
      PROVE  Promise!PNext
  BY <1>9, CallbackNotifies, Zenon DEF Promise!PNext, Promise!DeliveryStep
<1>10. ASSUME NEW t \in Threads,
              \/ skip_callback(t) \/ walk_ends(t) \/ callback_returns(t)
              \/ guestfs_call(t) \/ guestfs_call_returns(t) \/ guestfs_close(t)
       PROVE  Seen' = Seen
  BY <1>10, SkipUnseen, ReturnUnseen, CallUnseen, Zenon
<1>11. ASSUME NEW t \in Threads, NEW class \in Classes,
              guestfs_int_call_callbacks(t, class) \/ close_event(t, class)
       PROVE  Promise!PNext \/ Seen' = Seen
  <2>1. PICK n \in Levels : Promise!Raise(t, n, class)
    BY <1>11, CallRaises, Zenon
  <2>2. CASE stillOwed' = stillOwed
    BY <2>1, <2>2, Zenon DEF Promise!Raise, Promise!SameErrors, Seen
  <2>3. CASE stillOwed' # stillOwed
    BY <2>1, <2>3, Zenon DEF Promise!PNext, Promise!DeliveryStep
  <2> QED
    BY <2>2, <2>3, Zenon
<1>12. ASSUME NEW t \in Threads, close_frees(t)
       PROVE  Promise!PNext
  BY <1>12, FreeCloses, Zenon DEF Promise!PNext
<1>13. ASSUME guestfs_create
       PROVE  Seen' = Seen
  BY <1>13, Zenon DEF guestfs_create, SameEvents, SameErrors, Seen, stillOwed, StillOwed, Owes
<1> QED
  BY <1>1, <1>2, <1>3, <1>4, <1>6, <1>7, <1>8, <1>9, <1>10, <1>11, <1>12, <1>13, Zenon DEF Next, Handlers

LEMMA InitKeepsPromise == Init => Promise!PInit
<1> SUFFICES ASSUME Init PROVE Promise!PInit
  OBVIOUS
<1>1. [r \in Regs |-> wanted[r].classes] = [r \in Regs |-> {}]
  BY Records, Zenon DEF Init
<1>2. stillOwed = {}
  BY DEF Init, stillOwed, StillOwed
<1>3. [u \in Threads |-> errdata[u].last_error] = [u \in Threads |-> None]
  BY Zenon DEF Init, NoData
<1>4. [u \in Threads |-> Append(errdata[u].error_cb_stack, errdata[u].error_cb)] =
        [u \in Threads |-> <<Default>>]
  <2>1. Append(<<>>, Default) = <<Default>>
    OBVIOUS
  <2> QED
    BY <2>1, Zenon DEF Init, NoData
<1> QED
  BY <1>1, <1>2, <1>3, <1>4, Zenon DEF Promise!PInit

\* However many threads use a handle, and whatever their callbacks do to it
\* while events are delivered, its users get what Callbacks promises: every
\* callback registered for an event is called once, none after it has been
\* deleted, and each thread has its own last error and error handlers.
THEOREM PromiseKept == Spec => KeepsPromise
<1>1. Init => Promise!PInit
  BY InitKeepsPromise, Zenon
<1>2. EInv /\ [Next]_vars => [Promise!PNext]_(Promise!pvars)
  BY StepKeepsPromise, Zenon
<1> QED
  BY <1>1, <1>2, EventsInvariance, PTL DEF Spec, KeepsPromise, Promise!PSpec
===============================================================================
