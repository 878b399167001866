---------------------------- MODULE DrivesProofs -----------------------------
(***************************************************************************)
(* Proofs about Drives: the inductive invariant DInv, and from it that the *)
(* slots of the handle are the targets of the domain, that a confirmed     *)
(* removal frees its target, and that groups are added whole.              *)
(***************************************************************************)
EXTENDS Drives, SequenceTheorems, WellFoundedInduction, TLAPS

Slot == DriveType \cup {None, Dummy}

-----------------------------------------------------------------------------
(* Kinds of drives and of calls. *)

\* A hole is neither a drive nor the dummy, and the dummy is not a drive.
LEMMA SlotKinds == None \notin DriveType /\ None # Dummy /\ Dummy \notin DriveType
BY DrivesAssumption DEF DriveType, Dummy

\* The fields that each call has.
LEMMA CallKinds ==
  ASSUME call \in CallType
  PROVE  /\ call.op \in {"none", "hot_add", "precheck", "hot_remove", "group"}
         /\ call.op = "none" <=> call = Idle
         /\ call.op \in {"hot_add", "hot_remove"} => call.label \in Labels
         /\ call.op = "precheck" => call.label \in Labels /\ call.slot \in Nat
         /\ call.op = "group" =>
              /\ call = [op |-> "group", todo |-> call.todo, done |-> call.done,
                         ckp |-> call.ckp, before |-> call.before]
              /\ call.todo \in Seq(Files) /\ call.done \in Seq(Files) /\ call.ckp \in Nat
              /\ call.before \in Seq(Slot)
BY DEF CallType, Idle, Slot

-----------------------------------------------------------------------------
(* Operations on the vector. *)

\* A function on 1..n is a sequence of length n.
LEMMA Cells ==
  ASSUME NEW S, NEW n \in Nat, NEW f \in [1..n -> S]
  PROVE  f \in Seq(S) /\ Len(f) = n
OBVIOUS

\* The vector with a drive put at a slot.
LEMMA PutAtIs ==
  ASSUME drives \in Seq(Slot), NEW d \in DriveType, NEW slot \in Nat \ {0}
  PROVE  LET n == IF slot > Len(drives) THEN slot ELSE Len(drives)
         IN  /\ PutAt(d, slot) \in Seq(Slot) /\ Len(PutAt(d, slot)) = n
             /\ \A i \in 1..n : PutAt(d, slot)[i] =
                  IF i = slot THEN d ELSE IF i <= Len(drives) THEN drives[i] ELSE None
<1> DEFINE n == IF slot > Len(drives) THEN slot ELSE Len(drives)
<1>1. n \in Nat
  OBVIOUS
<1>2. PutAt(d, slot) \in [1..n -> Slot]
  BY DEF PutAt, Slot
<1>3. \A i \in 1..n : PutAt(d, slot)[i] =
        IF i = slot THEN d ELSE IF i <= Len(drives) THEN drives[i] ELSE None
  BY Zenon DEF PutAt
<1> HIDE DEF n
<1>4. PutAt(d, slot) \in Seq(Slot) /\ Len(PutAt(d, slot)) = n
  BY <1>1, <1>2, Cells, Zenon
<1> QED
  BY <1>3, <1>4, Zenon DEF n

\* The vector without its last drive, or with a hole.
LEMMA WithHoleIs ==
  ASSUME drives \in Seq(Slot), NEW slot \in DOMAIN drives
  PROVE  LET n == IF slot = Len(drives) THEN slot - 1 ELSE Len(drives)
         IN  /\ WithHole(slot) \in Seq(Slot) /\ Len(WithHole(slot)) = n
             /\ \A i \in 1..n : WithHole(slot)[i] = IF i = slot THEN None ELSE drives[i]
<1>1. CASE slot = Len(drives)
  <2>1. SubSeq(drives, 1, slot - 1) \in Seq(Slot)
    OBVIOUS
  <2>2. Len(SubSeq(drives, 1, slot - 1)) = slot - 1
    OBVIOUS
  <2>3. \A i \in 1..(slot - 1) : SubSeq(drives, 1, slot - 1)[i] = drives[i]
    OBVIOUS
  <2> QED
    BY <1>1, <2>1, <2>2, <2>3 DEF WithHole
<1>2. CASE slot # Len(drives)
  BY <1>2 DEF WithHole, Slot
<1> QED
  BY <1>1, <1>2, Zenon

\* Shifting keeps a vector of drives one.
LEMMA WithoutShiftedIs ==
  ASSUME NEW S, drives \in Seq(S), NEW slot \in DOMAIN drives
  PROVE  WithoutShifted(slot) \in Seq(S)
<1>1. SubSeq(drives, 1, slot - 1) \in Seq(S)
  OBVIOUS
<1>2. SubSeq(drives, slot + 1, Len(drives)) \in Seq(S)
  OBVIOUS
<1> QED
  BY <1>1, <1>2, ConcatProperties, Zenon DEF WithoutShifted

\* A set of slots has a first one.
LEMMA Smallest ==
  ASSUME NEW T, T \subseteq Nat, T # {}
  PROVE  \E i \in T : \A j \in T : i <= j
<1>1. PICK i \in T : \A j \in T : <<j, i>> \notin OpToRel(<, Nat)
  BY NatLessThanWellFounded, WFMin, Zenon
<1>2. \A j \in T : ~(j < i)
  <2>1. OpToRel(<, Nat) = {ss \in Nat \X Nat : ss[1] < ss[2]}
    BY Zenon DEF OpToRel
  <2>2. \A j \in T : j < i => <<j, i>> \in {ss \in Nat \X Nat : ss[1] < ss[2]}
    OBVIOUS
  <2> QED
    BY <1>1, <2>1, <2>2, Zenon
<1> QED
  BY <1>2

\* The drives of a group are a sequence like that of their files.
LEMMA AddedIs ==
  ASSUME NEW files \in Seq(Files)
  PROVE  /\ Added(files) \in Seq(Slot) /\ Len(Added(files)) = Len(files)
         /\ \A i \in 1..Len(files) : Added(files)[i] = Drive(files[i], None)
<1>1. Added(files) \in [1..Len(files) -> Slot]
  BY DEF Added, Drive, Slot, DriveType
<1>2. Len(files) \in Nat
  OBVIOUS
<1>3. \A i \in 1..Len(files) : Added(files)[i] = Drive(files[i], None)
  BY DEF Added
<1> QED
  BY <1>1, <1>2, <1>3, Cells, Zenon

\* A group after the drives that were there.
LEMMA GroupIs ==
  ASSUME NEW before \in Seq(Slot), NEW files \in Seq(Files)
  PROVE  /\ before \o Added(files) \in Seq(Slot)
         /\ Len(before \o Added(files)) = Len(before) + Len(files)
         /\ \A i \in 1..(Len(before) + Len(files)) : (before \o Added(files))[i] =
              IF i <= Len(before) THEN before[i] ELSE Drive(files[i - Len(before)], None)
<1> DEFINE t == Added(files)
<1>1. /\ t \in Seq(Slot) /\ Len(t) = Len(files)
      /\ \A i \in 1..Len(files) : t[i] = Drive(files[i], None)
  BY AddedIs, Zenon
<1> HIDE DEF t
<1>2. /\ before \o t \in Seq(Slot)
      /\ Len(before \o t) = Len(before) + Len(t)
      /\ \A i \in 1..(Len(before) + Len(t)) : (before \o t)[i] =
           IF i <= Len(before) THEN before[i] ELSE t[i - Len(before)]
  BY <1>1, ConcatProperties
<1>3. Len(before) \in Nat /\ Len(files) \in Nat
  OBVIOUS
<1> QED
  BY <1>1, <1>2, <1>3 DEF t

\* A drive added at the end leaves the others where they are.
LEMMA Appended ==
  ASSUME NEW S, NEW s \in Seq(S), NEW x \in S
  PROVE  /\ Append(s, x) \in Seq(S) /\ Len(Append(s, x)) = Len(s) + 1
         /\ \A i \in 1..Len(s) : Append(s, x)[i] = s[i]
         /\ Append(s, x)[Len(s) + 1] = x
OBVIOUS

\* One more disk of a group is one more drive at the end.
LEMMA AddedOne ==
  ASSUME NEW before \in Seq(Slot), NEW done \in Seq(Files), NEW f \in Files
  PROVE  Append(before \o Added(done), Drive(f, None)) = before \o Added(Append(done, f))
<1> DEFINE more == Append(done, f)
           s == before \o Added(done)
           t == before \o Added(more)
           u == Append(s, Drive(f, None))
           n == Len(before) + Len(done)
<1>1. /\ more \in Seq(Files) /\ Len(more) = Len(done) + 1
      /\ \A i \in 1..Len(done) : more[i] = done[i]
      /\ more[Len(done) + 1] = f
  BY Appended, Zenon
<1> HIDE DEF more
<1>2. /\ s \in Seq(Slot) /\ Len(s) = n
      /\ \A i \in 1..n : s[i] = IF i <= Len(before) THEN before[i]
                               ELSE Drive(done[i - Len(before)], None)
  BY GroupIs, Zenon
<1>3. /\ t \in Seq(Slot) /\ Len(t) = Len(before) + Len(more)
      /\ \A i \in 1..(Len(before) + Len(more)) :
           t[i] = IF i <= Len(before) THEN before[i] ELSE Drive(more[i - Len(before)], None)
  BY <1>1, GroupIs, Zenon
<1>4. Len(before) \in Nat /\ Len(done) \in Nat
  OBVIOUS
<1>5. Drive(f, None) \in Slot
  BY Zenon DEF Drive, Slot, DriveType
<1> HIDE DEF s, t
<1>6. /\ u \in Seq(Slot) /\ Len(u) = Len(s) + 1
      /\ \A i \in 1..Len(s) : u[i] = s[i]
      /\ u[Len(s) + 1] = Drive(f, None)
  BY <1>2, <1>5, Appended
<1> HIDE DEF u
<1>7. Len(u) = Len(t) /\ \A i \in 1..Len(u) : u[i] = t[i]
  <2>1. Len(u) = n + 1 /\ Len(t) = n + 1 /\ n \in Nat
    BY <1>1, <1>2, <1>3, <1>4, <1>6
  <2>2. u[n + 1] = t[n + 1]
    <3>1. n + 1 - Len(before) = Len(done) + 1 /\ ~(n + 1 <= Len(before))
      BY <1>4
    <3> QED
      BY <1>1, <1>2, <1>3, <1>6, <2>1, <3>1
  <2>3. ASSUME NEW i \in 1..n  PROVE u[i] = t[i]
    <3>1. u[i] = s[i] /\ i \in 1..(n + 1)
      BY <1>2, <1>6, <2>1
    <3>2. i > Len(before) => more[i - Len(before)] = done[i - Len(before)]
      BY <1>1, <1>4
    <3>3. t[i] = IF i <= Len(before) THEN before[i] ELSE Drive(more[i - Len(before)], None)
      BY <1>3, <2>1, <3>1, Zenon
    <3>4. s[i] = IF i <= Len(before) THEN before[i] ELSE Drive(done[i - Len(before)], None)
      BY <1>2, Zenon
    <3> QED
      BY <1>4, <3>1, <3>2, <3>3, <3>4
  <2> QED
    BY <2>1, <2>2, <2>3
<1>8. u = t
  BY <1>3, <1>6, <1>7, SeqEqual, Zenon
<1> QED
  BY <1>8, Zenon DEF s, t, u, more

\* Going back to the checkpoint.
LEMMA RolledBack ==
  ASSUME NEW before \in Seq(Slot), NEW added \in Seq(Slot)
  PROVE  SubSeq(before \o added, 1, Len(before)) = before
<1>1. before \o added \in Seq(Slot) /\ Len(before) \in Nat
  OBVIOUS
<1>2. \A i \in 1..Len(before) : (before \o added)[i] = before[i]
  BY ConcatProperties
<1>3. SubSeq(before \o added, 1, Len(before)) \in Seq(Slot)
  BY <1>1, ConcatProperties
<1>4. Len(SubSeq(before \o added, 1, Len(before))) = Len(before)
  BY <1>1, ConcatProperties
<1>5. \A i \in 1..Len(before) :
        SubSeq(before \o added, 1, Len(before))[i] = (before \o added)[i]
  BY <1>1, ConcatProperties
<1> QED
  BY <1>2, <1>3, <1>4, <1>5, SeqEqual, Zenon

-----------------------------------------------------------------------------
(* The steps. *)

\* An appliance that dies takes everything with it.
LEMMA CleanupInv ==
  ASSUME child_cleanup, call' = Idle
  PROVE  DInv'
<1>1. <<>> \in Seq(Slot) /\ Len(<<>>) = 0
  OBVIOUS
<1> DEFINE NoDisks == [DOMAIN <<>> -> DriveType \cup {Dummy}]
<1>0. DOMAIN <<>> = {} /\ <<>> \in NoDisks
  OBVIOUS
<1> HIDE DEF NoDisks
<1>2. TypeOK'
  <2>1. domain' \in [DOMAIN domain' -> DriveType \cup {Dummy}] /\ DOMAIN domain' = {}
    BY <1>0, Zenon DEF child_cleanup, NoDisks
  <2>2. call' \in CallType
    BY Zenon DEF CallType
  <2> QED
    BY <1>1, <2>1, <2>2, Zenon DEF TypeOK, child_cleanup, Slot
<1>3. ConfigIsDense' /\ SlotsMatchDomain' /\ (state' # "READY") /\ LeavingInv'
  BY <1>1 DEF ConfigIsDense, SlotsMatchDomain, child_cleanup, LeavingInv
<1>4. ConfigInv' /\ CallInv'
  BY DEF ConfigInv, CallInv, child_cleanup, Idle
<1> QED
  BY <1>2, <1>3, <1>4, Zenon DEF DInv

\* The appliance and the disks stay as they are: only the call goes on.
LEMMA CallGoesOn ==
  ASSUME DInv, UNCHANGED <<state, drives, domain, leaving>>, call' \in CallType, CallInv',
         removeFailed' \in BOOLEAN, LeavingInv', ConfigInv'
  PROVE  DInv'
<1>1. TypeOK'
  BY Zenon DEF DInv, TypeOK
<1>2. ConfigIsDense' /\ SlotsMatchDomain' /\ (state' = "READY" => Len(drives') <= MaxTarget)
  BY Zenon DEF DInv, ConfigIsDense, SlotsMatchDomain, Free
<1> QED
  BY <1>1, <1>2, Zenon DEF DInv

\* The call ends, and changes nothing else.
LEMMA CallEnds ==
  ASSUME DInv, UNCHANGED <<state, drives, domain, leaving>>, call' = Idle,
         removeFailed' \in BOOLEAN,
         \/ removeFailed' = removeFailed /\ (removeFailed \/ leaving = {})
         \/ removeFailed' /\ state = "READY"
  PROVE  DInv'
<1>1. call' \in CallType /\ call'.op = "none"
  BY Zenon DEF CallType, Idle
<1>2. CallInv'
  BY <1>1, Zenon DEF CallInv
<1>3. LeavingInv' /\ ConfigInv'
  BY <1>1 DEF DInv, LeavingInv, ConfigInv
<1> QED
  BY <1>1, <1>2, <1>3, CallGoesOn, Zenon

\* Only a removal has disks leave the domain without a failure.
LEMMA NoneLeaving ==
  ASSUME DInv, call.op # "hot_remove"
  PROVE  removeFailed \/ leaving = {}
BY Zenon DEF DInv, LeavingInv

\* A handle that is not launched gets another vector of drives.
LEMMA ConfigDrives ==
  ASSUME DInv, state = "CONFIG", UNCHANGED <<state, domain, leaving, removeFailed>>,
         drives' \in Seq(DriveType), call' \in CallType, call'.op \in {"none", "group"},
         CallInv'
  PROVE  DInv'
<1>1. drives' \in Seq(Slot) /\ \A i \in DOMAIN drives' : drives'[i] \in DriveType
  <2>1. DriveType \subseteq Slot
    BY Zenon DEF Slot
  <2> QED
    BY <2>1, SeqMonotonic
<1>2. TypeOK'
  BY <1>1, Zenon DEF DInv, TypeOK, Slot
<1>3. ConfigIsDense' /\ SlotsMatchDomain' /\ ConfigInv' /\ state' # "READY"
  BY <1>1, Zenon DEF DInv, ConfigIsDense, SlotsMatchDomain, ConfigInv
<1>4. LeavingInv'
  BY Zenon DEF DInv, LeavingInv, ConfigInv, TypeOK
<1> QED
  BY <1>2, <1>3, <1>4, Zenon DEF DInv

\* Before the launch the vector has drives only.
LEMMA ConfigVector ==
  ASSUME DInv, state = "CONFIG"
  PROVE  drives \in Seq(DriveType)
<1>1. drives \in Seq(Slot) /\ Len(drives) \in Nat
  BY DEF DInv, TypeOK, Slot
<1>2. drives \in [1..Len(drives) -> DriveType]
  BY <1>1 DEF DInv, ConfigIsDense
<1> QED
  BY <1>1, <1>2, Cells, Zenon

LEMMA AddConfigInv ==
  ASSUME DInv, NEW d \in DriveType, add_drive_config(d)
  PROVE  DInv'
<1>1. Append(drives, d) \in Seq(DriveType)
  BY ConfigVector, Appended, Zenon DEF add_drive_config
<1>2. call' \in CallType /\ call'.op = "none"
  BY Zenon DEF add_drive_config, CallType, Idle
<1>3. CallInv'
  BY <1>2, Zenon DEF CallInv
<1> QED
  BY <1>1, <1>2, <1>3, ConfigDrives, Zenon DEF add_drive_config

\* The first drive with a label that some drive has.
LEMMA FoundIs ==
  ASSUME drives \in Seq(Slot), NEW label \in Labels, Labelled(label) # {}
  PROVE  /\ Found(label) \in DOMAIN drives /\ drives[Found(label)] \in DriveType
         /\ drives[Found(label)].label = label
<1>1. Labelled(label) \subseteq 1..Len(drives)
  BY DEF Labelled
<1>2. \E i \in Labelled(label) : \A j \in Labelled(label) : i <= j
  BY <1>1, Smallest
<1>3. Found(label) \in Labelled(label)
  BY <1>2, Zenon DEF Found
<1>4. Dummy.label # label
  BY DrivesAssumption, Zenon DEF Dummy
<1> QED
  BY <1>1, <1>3, <1>4, ElementOfSeq DEF Labelled, Slot

LEMMA RemoveConfigInv ==
  ASSUME DInv, NEW label \in Labels, remove_drive_config(label)
  PROVE  DInv'
<1>1. drives \in Seq(DriveType)
  BY ConfigVector, Zenon DEF remove_drive_config
<1>2. Found(label) \in DOMAIN drives
  BY FoundIs, Zenon DEF remove_drive_config, DInv, TypeOK, Slot
<1>3. WithoutShifted(Found(label)) \in Seq(DriveType)
  BY <1>1, <1>2, WithoutShiftedIs, Zenon
<1>4. call' \in CallType /\ call'.op = "none"
  BY Zenon DEF remove_drive_config, CallType, Idle
<1>5. CallInv'
  BY <1>4, Zenon DEF CallInv
<1> QED
  BY <1>3, <1>4, <1>5, ConfigDrives, Zenon DEF remove_drive_config

\* The new drive and its disk are in the same slot, which was free in both.
LEMMA HotAddInv ==
  ASSUME DInv, NEW d \in DriveType, hot_add_drive(d)
  PROVE  DInv'
<1> DEFINE slot == HotSlot
           n == IF slot > Len(drives) THEN slot ELSE Len(drives)
<1>0. slot \in 1..MaxTarget /\ slot \notin DOMAIN domain /\ MaxTarget \in Nat
  BY DrivesAssumption, Zenon DEF hot_add_drive
<1>1. drives \in Seq(Slot) /\ Len(drives) \in Nat /\ Len(drives) <= MaxTarget
  BY DEF DInv, TypeOK, Slot, hot_add_drive
<1>2. domain' = [t \in DOMAIN domain \cup {slot} |-> IF t = slot THEN d ELSE domain[t]]
  BY Zenon DEF hot_add_drive
<1>3. drives' = PutAt(d, slot)
  BY Zenon DEF hot_add_drive
<1> HIDE DEF slot
<1>4. /\ drives' \in Seq(Slot) /\ Len(drives') = n
      /\ \A i \in 1..n : drives'[i] =
           IF i = slot THEN d ELSE IF i <= Len(drives) THEN drives[i] ELSE None
  BY <1>0, <1>1, <1>3, PutAtIs
<1>5. call' \in CallType /\ call'.op = "hot_add"
  BY Zenon DEF hot_add_drive, CallType, DriveType
<1>6. TypeOK'
  <2>1. DOMAIN domain' = DOMAIN domain \cup {slot} /\ DOMAIN domain' \subseteq 1..MaxTarget
    BY <1>0, <1>2, Zenon DEF DInv, TypeOK
  <2>2. domain' \in [DOMAIN domain' -> DriveType \cup {Dummy}]
    BY <1>2, <2>1, Zenon DEF DInv, TypeOK
  <2> QED
    BY <1>4, <1>5, <2>1, <2>2, Zenon DEF DInv, TypeOK, Slot, hot_add_drive
<1>7. SlotsMatchDomain'
  <2> SUFFICES ASSUME NEW s \in 1..(MaxTarget + MaxSlots)
               PROVE  IF Free(s)' THEN s \notin DOMAIN domain' \ leaving'
                      ELSE s \in DOMAIN domain' \ leaving' /\ domain'[s] = drives'[s]
    BY Zenon DEF SlotsMatchDomain
  <2>1. IF Free(s) THEN s \notin DOMAIN domain \ leaving
        ELSE s \in DOMAIN domain \ leaving /\ domain[s] = drives[s]
    BY Zenon DEF DInv, SlotsMatchDomain, hot_add_drive
  <2>2. leaving' = leaving /\ slot \notin leaving
    BY <1>0, Zenon DEF DInv, TypeOK, hot_add_drive
  <2>3. CASE s = slot
    <3>1. drives'[s] = d /\ s <= Len(drives') /\ d # None
      BY <1>0, <1>1, <1>4, <2>3, SlotKinds
    <3> QED
      BY <1>2, <2>2, <2>3, <3>1 DEF Free
  <2>4. CASE s # slot
    <3>1. Free(s)' <=> Free(s)
      BY <1>0, <1>1, <1>4, <2>4, DrivesAssumption DEF Free
    <3>2. ~Free(s) => drives'[s] = drives[s]
      BY <1>0, <1>1, <1>4, <2>4, DrivesAssumption DEF Free
    <3> QED
      BY <1>2, <2>1, <2>2, <2>4, <3>1, <3>2, Zenon
  <2> QED
    BY <2>3, <2>4, Zenon
<1>8. state' = "READY" /\ Len(drives') <= MaxTarget
  BY <1>0, <1>1, <1>4 DEF hot_add_drive
<1>9. ConfigIsDense' /\ ConfigInv' /\ CallInv'
  BY <1>5, <1>8, Zenon DEF ConfigIsDense, ConfigInv, CallInv
<1>10. LeavingInv'
  <2>1. removeFailed \/ leaving = {}
    BY NoneLeaving, Zenon DEF hot_add_drive, Idle
  <2> QED
    BY <2>1, Zenon DEF LeavingInv, hot_add_drive
<1> QED
  BY <1>6, <1>7, <1>8, <1>9, <1>10, Zenon DEF DInv

LEMMA HotAddEndsInv ==
  ASSUME DInv, internal_hot_add_drive
  PROVE  DInv'
<1>1. CASE child_cleanup
  BY <1>1, CleanupInv, Zenon DEF internal_hot_add_drive
<1>2. CASE UNCHANGED <<state, drives, domain, leaving, removeFailed>>
  BY <1>2, CallEnds, NoneLeaving, Zenon DEF internal_hot_add_drive, DInv, TypeOK
<1> QED
  BY <1>1, <1>2, Zenon DEF internal_hot_add_drive

LEMMA RemoveHotInv ==
  ASSUME DInv, NEW label \in Labels, remove_drive_hot(label)
  PROVE  DInv'
<1>0. drives \in Seq(Slot) /\ Labelled(label) # {} /\ state = "READY"
  BY Zenon DEF DInv, TypeOK, Slot, remove_drive_hot
<1>1. /\ Found(label) \in DOMAIN drives /\ drives[Found(label)] \in DriveType
      /\ drives[Found(label)].label = label
  BY <1>0, FoundIs, Zenon
<1>2. call' = [op |-> "precheck", label |-> label, slot |-> Found(label)]
  BY Zenon DEF remove_drive_hot
<1>3. call' \in CallType /\ call'.op = "precheck"
  BY <1>0, <1>1, <1>2 DEF CallType
<1>4. CallInv'
  BY <1>1, <1>2 DEF CallInv, remove_drive_hot
<1>5. LeavingInv' /\ ConfigInv' /\ removeFailed' \in BOOLEAN
  BY NoneLeaving, <1>0, Zenon DEF LeavingInv, ConfigInv, remove_drive_hot, Idle, DInv, TypeOK
<1> QED
  BY <1>3, <1>4, <1>5, CallGoesOn, Zenon DEF remove_drive_hot

LEMMA PrecheckFailsInv ==
  ASSUME DInv, internal_hot_remove_drive_precheck_fails
  PROVE  DInv'
<1>1. CASE child_cleanup
  BY <1>1, CleanupInv, Zenon DEF internal_hot_remove_drive_precheck_fails
<1>2. CASE UNCHANGED <<state, drives, domain, leaving, removeFailed>>
  BY <1>2, CallEnds, NoneLeaving, Zenon
     DEF internal_hot_remove_drive_precheck_fails, DInv, TypeOK
<1> QED
  BY <1>1, <1>2, Zenon DEF internal_hot_remove_drive_precheck_fails

\* The disk that leaves is that of the slot that becomes free.
LEMMA HotRemoveInv ==
  ASSUME DInv, hot_remove_drive
  PROVE  DInv'
<1> DEFINE slot == call.slot
           n == IF slot = Len(drives) THEN slot - 1 ELSE Len(drives)
<1>0. call.op = "precheck" /\ call.label \in Labels /\ state = "READY" /\ state' = "READY"
  BY CallKinds, Zenon DEF hot_remove_drive, DInv, TypeOK, ConfigInv
<1>1. drives \in Seq(Slot) /\ Len(drives) \in Nat /\ Len(drives) <= MaxTarget
  BY <1>0 DEF DInv, TypeOK, Slot
<1>2. slot \in DOMAIN drives /\ drives[slot] \in DriveType /\ drives[slot].label = call.label
  BY <1>0, Zenon DEF DInv, CallInv
<1>3. /\ slot \in DOMAIN domain \ leaving /\ leaving' = leaving \cup {slot}
      /\ domain' = domain /\ removeFailed' = removeFailed
      /\ drives' = WithHole(slot) /\ call' = [op |-> "hot_remove", label |-> call.label]
  BY Zenon DEF hot_remove_drive
<1> HIDE DEF slot
<1>4. /\ drives' \in Seq(Slot) /\ Len(drives') = n
      /\ \A i \in 1..n : drives'[i] = IF i = slot THEN None ELSE drives[i]
  BY <1>1, <1>2, <1>3, WithHoleIs, Zenon
<1>5. call' \in CallType /\ call'.op = "hot_remove" /\ call'.label = call.label
  BY <1>0, <1>3, Zenon DEF CallType
<1>6. TypeOK'
  BY <1>0, <1>3, <1>4, <1>5, Zenon DEF DInv, TypeOK, Slot
<1>7. ASSUME NEW s \in 1..(MaxTarget + MaxSlots)
      PROVE  IF Free(s) THEN s \notin DOMAIN domain \ leaving
             ELSE s \in DOMAIN domain \ leaving /\ domain[s] = drives[s]
  BY <1>0, Zenon DEF DInv, SlotsMatchDomain
<1>8. SlotsMatchDomain'
  <2> SUFFICES ASSUME NEW s \in 1..(MaxTarget + MaxSlots)
               PROVE  IF Free(s)' THEN s \notin DOMAIN domain' \ leaving'
                      ELSE s \in DOMAIN domain' \ leaving' /\ domain'[s] = drives'[s]
    BY Zenon DEF SlotsMatchDomain
  <2>1. CASE s = slot
    <3>1. Free(s)'
      BY <1>1, <1>2, <1>4, <2>1 DEF Free
    <3> QED
      BY <1>3, <2>1, <3>1, Zenon
  <2>2. CASE s # slot
    <3>1. Free(s)' <=> Free(s)
      BY <1>1, <1>2, <1>4, <2>2, DrivesAssumption DEF Free
    <3>2. ~Free(s) => drives'[s] = drives[s]
      BY <1>1, <1>2, <1>4, <2>2, DrivesAssumption DEF Free
    <3> QED
      BY <1>3, <1>7, <2>2, <3>1, <3>2, Zenon
  <2> QED
    BY <2>1, <2>2, Zenon
<1>9. Len(drives') <= MaxTarget
  BY <1>1, <1>2, <1>4, DrivesAssumption
<1>10. ConfigIsDense' /\ ConfigInv' /\ CallInv'
  BY <1>0, <1>5, Zenon DEF ConfigIsDense, ConfigInv, CallInv
<1>11. LeavingInv'
  <2>1. removeFailed \/ leaving = {}
    BY <1>0, NoneLeaving, Zenon
  <2>2. slot \in 1..(MaxTarget + MaxSlots) /\ ~Free(slot)
    BY <1>1, <1>2, SlotKinds, DrivesAssumption DEF Free
  <2>3. domain[slot] = drives[slot]
    BY <1>7, <2>2, Zenon
  <2> QED
    BY <1>2, <1>3, <1>5, <2>1, <2>3, Zenon DEF LeavingInv
<1> QED
  BY <1>6, <1>8, <1>9, <1>10, <1>11, Zenon DEF DInv

\* A detached disk that goes takes its target with it.
LEMMA ReleaseInv ==
  ASSUME DInv, NEW slot \in 1..MaxTarget, guest_releases(slot)
  PROVE  DInv'
<1>1. /\ slot \in leaving /\ leaving' = leaving \ {slot}
      /\ domain' = [t \in DOMAIN domain \ {slot} |-> domain[t]]
      /\ UNCHANGED <<state, drives, call, removeFailed>>
  BY Zenon DEF guest_releases
<1>2. DOMAIN domain' = DOMAIN domain \ {slot}
  BY <1>1, Zenon
<1>3. \A t \in DOMAIN domain' : domain'[t] = domain[t]
  BY <1>1, Zenon
<1>4. TypeOK'
  <2>1. domain' \in [DOMAIN domain' -> DriveType \cup {Dummy}]
    BY <1>1, <1>2, Zenon DEF DInv, TypeOK
  <2> QED
    BY <1>1, <1>2, <2>1, Zenon DEF DInv, TypeOK
<1>5. DOMAIN domain' \ leaving' = DOMAIN domain \ leaving
  BY <1>1, <1>2, Zenon
<1>6. SlotsMatchDomain'
  BY <1>1, <1>3, <1>5, Zenon DEF DInv, SlotsMatchDomain, Free
<1>7. LeavingInv'
  BY <1>1, <1>2, <1>3, Zenon DEF DInv, LeavingInv, TypeOK
<1>8. ConfigIsDense' /\ ConfigInv' /\ CallInv' /\ (state' = "READY" => Len(drives') <= MaxTarget)
  BY <1>1, <1>2, Zenon DEF DInv, ConfigIsDense, ConfigInv, CallInv
<1> QED
  BY <1>4, <1>6, <1>7, <1>8, Zenon DEF DInv

\* When no disk has the label, none is leaving: they all had it.
LEMMA HotRemoveEndsInv ==
  ASSUME DInv, internal_hot_remove_drive
  PROVE  DInv'
<1>0. call.op = "hot_remove" /\ call' = Idle /\ state = "READY"
  BY Zenon DEF internal_hot_remove_drive, DInv, ConfigInv, TypeOK
<1>1. CASE child_cleanup
  BY <1>0, <1>1, CleanupInv, Zenon
<1>2. CASE removeFailed' = TRUE /\ UNCHANGED <<state, drives, domain, leaving>>
  BY <1>0, <1>2, CallEnds, Zenon
<1>3. CASE /\ call.label \notin LabelsIn(domain)
           /\ UNCHANGED <<state, drives, domain, leaving, removeFailed>>
  <2>1. removeFailed \/ leaving = {}
    BY <1>3, Zenon DEF DInv, LeavingInv, LabelsIn, TypeOK
  <2> QED
    BY <1>0, <1>3, <2>1, CallEnds, Zenon DEF DInv, TypeOK
<1> QED
  BY <1>1, <1>2, <1>3, Zenon DEF internal_hot_remove_drive

LEMMA GroupBeginsInv ==
  ASSUME DInv, NEW files \in Seq(Files), add_libvirt_dom(files)
  PROVE  DInv'
<1>1. drives \in Seq(Slot) /\ Len(drives) \in Nat /\ <<>> \in Seq(Files)
  BY DEF DInv, TypeOK, Slot
<1>2. /\ call' = [op |-> "group", todo |-> files, done |-> <<>>, ckp |-> Len(drives),
                  before |-> drives]
      /\ UNCHANGED <<state, drives, domain, leaving, removeFailed>> /\ call = Idle
  BY Zenon DEF add_libvirt_dom
<1>3. call' \in CallType /\ call'.op = "group"
  BY <1>1, <1>2, Zenon DEF CallType, Slot
<1>4. Added(<<>>) = <<>>
  BY AddedIs, <1>1, EmptySeq, Zenon
<1>5. drives \o Added(<<>>) = drives
  BY <1>1, <1>4, ConcatEmptySeq, Zenon
<1>6. CallInv'
  BY <1>2, <1>5, Zenon DEF CallInv
<1>7. LeavingInv' /\ ConfigInv' /\ removeFailed' \in BOOLEAN
  BY NoneLeaving, <1>2, <1>3, Zenon DEF LeavingInv, ConfigInv, Idle, DInv, TypeOK
<1> QED
  BY <1>2, <1>3, <1>6, <1>7, CallGoesOn, Zenon

\* What a group knows.
LEMMA GroupKnows ==
  ASSUME DInv, call.op = "group"
  PROVE  /\ call = [op |-> "group", todo |-> call.todo, done |-> call.done,
                    ckp |-> call.ckp, before |-> call.before]
         /\ call.todo \in Seq(Files) /\ call.done \in Seq(Files)
         /\ call.before \in Seq(Slot) /\ call.ckp = Len(call.before)
         /\ drives = call.before \o Added(call.done)
         /\ state = "READY" => call.done = <<>>
  BY CallKinds, Zenon DEF DInv, TypeOK, CallInv

LEMMA GroupGoesOnInv ==
  ASSUME DInv, for_each_disk
  PROVE  DInv'
<1>0. /\ call.op = "group" /\ call.todo # <<>>
      /\ UNCHANGED <<state, domain, leaving, removeFailed>>
  BY Zenon DEF for_each_disk
<1>1. PICK todo \in Seq(Files), done \in Seq(Files), before \in Seq(Slot) :
        /\ call = [op |-> "group", todo |-> todo, done |-> done, ckp |-> Len(before),
                   before |-> before]
        /\ drives = before \o Added(done)
        /\ state = "READY" => done = <<>>
  BY <1>0, GroupKnows, Zenon
<1>2. todo # <<>> /\ Head(todo) \in Files /\ Tail(todo) \in Seq(Files) /\ Len(before) \in Nat
  BY <1>0, <1>1, HeadTailProperties
<1>3. CASE /\ state = "CONFIG" /\ drives' = Append(drives, Drive(Head(call.todo), None))
           /\ call' = [call EXCEPT !.todo = Tail(@), !.done = Append(@, Head(call.todo))]
  <2>1. Append(done, Head(todo)) \in Seq(Files)
    BY <1>2, Appended, Zenon
  <2>2. call' = [op |-> "group", todo |-> Tail(todo), done |-> Append(done, Head(todo)),
                 ckp |-> Len(before), before |-> before]
    BY <1>1, <1>3, Zenon
  <2>3. call' \in CallType /\ call'.op = "group"
    BY <1>2, <2>1, <2>2, Zenon DEF CallType, Slot
  <2>4. drives' = before \o Added(Append(done, Head(todo)))
    BY <1>1, <1>2, <1>3, AddedOne, Zenon
  <2>5. CallInv'
    <3>1. state' = "CONFIG"
      BY <1>0, <1>3, Zenon
    <3> QED
      BY <2>2, <2>4, <3>1, Zenon DEF CallInv
  <2>6. Drive(Head(call.todo), None) \in DriveType
    BY <1>1, <1>2, Zenon DEF Drive, DriveType
  <2>7. drives' \in Seq(DriveType)
    BY <1>3, <2>6, ConfigVector, Appended, Zenon
  <2> QED
    BY <1>0, <1>3, <2>3, <2>5, <2>7, ConfigDrives, Zenon
<1>4. CASE call' = [call EXCEPT !.todo = Tail(@)] /\ UNCHANGED drives
  <2>1. call' = [op |-> "group", todo |-> Tail(todo), done |-> done, ckp |-> Len(before),
                 before |-> before]
    BY <1>1, <1>4, Zenon
  <2>2. call' \in CallType /\ call'.op = "group"
    BY <1>2, <2>1, Zenon DEF CallType, Slot
  <2>3. CallInv'
    BY <1>0, <1>1, <1>4, <2>1, Zenon DEF CallInv
  <2>4. LeavingInv' /\ ConfigInv' /\ removeFailed' \in BOOLEAN
    BY NoneLeaving, <1>0, <1>4, <2>2, Zenon DEF LeavingInv, ConfigInv, DInv, TypeOK
  <2> QED
    BY <1>0, <1>4, <2>2, <2>3, <2>4, CallGoesOn, Zenon
<1> QED
  BY <1>3, <1>4, Zenon DEF for_each_disk

\* A group that fails leaves the drives as it found them.
LEMMA RollbackIs ==
  ASSUME DInv, rollback_drives
  PROVE  drives' = call.before
<1>1. call.op = "group" /\ drives' = SubSeq(drives, 1, call.ckp)
  BY Zenon DEF rollback_drives
<1> QED
  BY <1>1, GroupKnows, AddedIs, RolledBack

LEMMA RollbackInv ==
  ASSUME DInv, rollback_drives
  PROVE  DInv'
<1>0. /\ call.op = "group" /\ call' = Idle /\ drives' = call.before
      /\ UNCHANGED <<state, domain, leaving, removeFailed>>
  BY RollbackIs, Zenon DEF rollback_drives
<1>1. call' \in CallType /\ call'.op = "none"
  BY <1>0, Zenon DEF CallType, Idle
<1>2. CallInv'
  BY <1>1, Zenon DEF CallInv
<1>3. PICK todo \in Seq(Files), done \in Seq(Files), before \in Seq(Slot) :
        /\ call.before = before /\ drives = before \o Added(done)
        /\ state = "READY" => done = <<>>
  BY <1>0, GroupKnows, Zenon
<1>4. Len(before) \in Nat /\ Len(done) \in Nat
  OBVIOUS
<1>5. CASE state = "CONFIG"
  <2>1. drives \in Seq(DriveType)
    BY <1>5, ConfigVector, Zenon
  <2>2. \A i \in 1..Len(before) : before[i] = drives[i] /\ i \in 1..Len(drives)
    BY <1>3, <1>4, GroupIs
  <2>3. before \in [1..Len(before) -> DriveType]
    BY <2>1, <2>2
  <2>4. drives' \in Seq(DriveType)
    BY <1>0, <1>3, <1>4, <2>3, Cells, Zenon
  <2> QED
    BY <1>0, <1>1, <1>2, <1>5, <2>4, ConfigDrives, Zenon
<1>6. CASE state = "READY"
  <2>1. Added(<<>>) = <<>> /\ drives = before \o Added(<<>>)
    BY <1>0, <1>3, <1>6, AddedIs, EmptySeq, Zenon
  <2>2. before = drives
    BY <2>1, ConcatEmptySeq, Zenon
  <2> QED
    BY <1>0, <1>3, <2>2, CallEnds, NoneLeaving, Zenon DEF DInv, TypeOK
<1> QED
  BY <1>5, <1>6, Zenon DEF DInv, TypeOK

LEMMA GroupEndsInv ==
  ASSUME DInv, add_libvirt_dom_ends
  PROVE  DInv'
BY CallEnds, NoneLeaving, Zenon DEF add_libvirt_dom_ends, DInv, TypeOK

\* The domain has the drives of the handle, in their order, and perhaps the
\* appliance's disk.
LEMMA LaunchInv ==
  ASSUME DInv, launch_libvirt
  PROVE  DInv'
<1>0. /\ state = "CONFIG" /\ state' = "READY" /\ call = Idle /\ Len(drives) < MaxTarget
      /\ UNCHANGED <<leaving, call, removeFailed>>
  BY Zenon DEF launch_libvirt
<1>1. PICK appliance \in {<<>>, <<Dummy>>} : drives' = drives \o appliance /\ domain' = drives'
  BY Zenon DEF launch_libvirt
<1> DEFINE Disk == DriveType \cup {Dummy}
<1>2. drives \in Seq(Disk) /\ Len(drives) \in Nat
  <2>1. DriveType \subseteq Disk
    OBVIOUS
  <2> QED
    BY <1>0, <2>1, ConfigVector, SeqMonotonic
<1>3. appliance \in Seq(Disk) /\ Len(appliance) <= 1 /\ Len(appliance) \in Nat
  <2>1. CASE appliance = <<>>
    BY <2>1
  <2>2. CASE appliance = <<Dummy>>
    <3>1. Dummy \in Disk
      OBVIOUS
    <3> HIDE DEF Disk
    <3> QED
      BY <2>2, <3>1
  <2> QED
    BY <2>1, <2>2, Zenon
<1>4. drives' \in Seq(Disk) /\ Len(drives') = Len(drives) + Len(appliance)
  BY <1>1, <1>2, <1>3, ConcatProperties, Zenon
<1>5. leaving = {}
  BY <1>0, Zenon DEF DInv, TypeOK, ConfigInv
<1>6. None \notin Disk /\ Disk \subseteq Slot
  BY SlotKinds, Zenon DEF Slot
<1> HIDE DEF Disk
<1>7. drives' \in Seq(Slot) /\ Len(drives') <= MaxTarget /\ Len(drives') \in Nat
  BY <1>0, <1>2, <1>3, <1>4, <1>6, SeqMonotonic, DrivesAssumption
<1>8. drives' \in [1..Len(drives') -> Disk] /\ DOMAIN drives' = 1..Len(drives')
  BY <1>4, LenProperties, Zenon
<1>9. TypeOK'
  BY <1>0, <1>1, <1>5, <1>7, <1>8, DrivesAssumption DEF DInv, TypeOK, Slot, Disk
<1>10. SlotsMatchDomain'
  <2> SUFFICES ASSUME NEW slot \in 1..(MaxTarget + MaxSlots)
               PROVE  IF Free(slot)' THEN slot \notin DOMAIN drives'
                                     ELSE slot \in DOMAIN drives'
    BY <1>0, <1>1, <1>5, Zenon DEF SlotsMatchDomain
  <2>1. slot \in Nat /\ slot >= 1
    BY DrivesAssumption
  <2>2. CASE slot <= Len(drives')
    BY <1>6, <1>7, <1>8, <2>1, <2>2 DEF Free
  <2>3. CASE slot > Len(drives')
    BY <1>7, <1>8, <2>1, <2>3 DEF Free
  <2> QED
    BY <1>7, <2>1, <2>2, <2>3
<1>11. ConfigIsDense' /\ ConfigInv' /\ CallInv' /\ LeavingInv'
  BY <1>0, <1>5, Zenon DEF ConfigIsDense, ConfigInv, CallInv, LeavingInv, Idle
<1> QED
  BY <1>7, <1>9, <1>10, <1>11, Zenon DEF DInv

-----------------------------------------------------------------------------
LEMMA InitDInv == Init => DInv
<1> SUFFICES ASSUME Init  PROVE DInv
  OBVIOUS
<1>1. <<>> \in Seq(Slot) /\ DOMAIN <<>> = {}
  OBVIOUS
<1> DEFINE NoDisks == [DOMAIN <<>> -> DriveType \cup {Dummy}]
<1>2. <<>> \in NoDisks
  OBVIOUS
<1> HIDE DEF NoDisks
<1>3. domain \in [DOMAIN domain -> DriveType \cup {Dummy}] /\ DOMAIN domain = {}
  BY <1>1, <1>2, Zenon DEF Init, NoDisks
<1>4. call \in CallType
  BY Zenon DEF Init, CallType
<1>5. TypeOK
  BY <1>1, <1>3, <1>4, Zenon DEF Init, TypeOK, Slot
<1>6. ConfigIsDense /\ SlotsMatchDomain /\ ConfigInv /\ CallInv /\ LeavingInv
  BY <1>1, <1>3, Zenon DEF Init, ConfigIsDense, SlotsMatchDomain, ConfigInv, CallInv, LeavingInv, Idle
<1> QED
  BY <1>5, <1>6, Zenon DEF Init, DInv

LEMMA NextDInv == DInv /\ [Next]_vars => DInv'
<1> SUFFICES ASSUME DInv, [Next]_vars  PROVE DInv'
  OBVIOUS
<1>1. ASSUME NEW f \in Files, NEW l \in Labels \cup {None},
             add_drive_config(Drive(f, l)) \/ hot_add_drive(Drive(f, l))
      PROVE  DInv'
  <2>1. Drive(f, l) \in DriveType
    BY Zenon DEF Drive, DriveType
  <2> QED
    BY <1>1, <2>1, AddConfigInv, HotAddInv, Zenon
<1>2. CASE internal_hot_add_drive
  BY <1>2, HotAddEndsInv, Zenon
<1>3. ASSUME NEW l \in Labels, remove_drive_config(l) \/ remove_drive_hot(l)
      PROVE  DInv'
  BY <1>3, RemoveConfigInv, RemoveHotInv, Zenon
<1>4. CASE internal_hot_remove_drive_precheck_fails \/ hot_remove_drive
  BY <1>4, PrecheckFailsInv, HotRemoveInv, Zenon
<1>5. ASSUME NEW slot \in 1..MaxTarget, guest_releases(slot)
      PROVE  DInv'
  BY <1>5, ReleaseInv, Zenon
<1>6. CASE internal_hot_remove_drive
  BY <1>6, HotRemoveEndsInv, Zenon
<1>7. ASSUME NEW f \in Files, NEW g \in Files,
             add_libvirt_dom(<<f>>) \/ add_libvirt_dom(<<f, g>>)
      PROVE  DInv'
  <2>1. <<f>> \in Seq(Files) /\ <<f, g>> \in Seq(Files)
    OBVIOUS
  <2> QED
    BY <1>7, <2>1, GroupBeginsInv, Zenon
<1>8. CASE for_each_disk \/ rollback_drives \/ add_libvirt_dom_ends
  BY <1>8, GroupGoesOnInv, RollbackInv, GroupEndsInv, Zenon
<1>9. CASE launch_libvirt
  BY <1>9, LaunchInv, Zenon
<1>10. CASE launch_eof \/ shutdown_backend \/ guestfs_api_eof
  BY <1>10, CleanupInv, Zenon DEF launch_eof, shutdown_backend, guestfs_api_eof, child_cleanup
<1>11. CASE UNCHANGED vars
  BY <1>11, Zenon DEF vars, DInv, TypeOK, ConfigIsDense, SlotsMatchDomain, Free, ConfigInv, CallInv,
               LeavingInv
<1> QED
  BY <1>1, <1>2, <1>3, <1>4, <1>5, <1>6, <1>7, <1>8, <1>9, <1>10, <1>11, Zenon DEF Next

(***************************************************************************)
(* The vector of drives, the domain, the disks that are leaving it and     *)
(* what the call in progress knows of them agree in every state, for any   *)
(* number of images, labels, targets and slots (lib/drives.c,              *)
(* lib/launch-libvirt.c).                                                  *)
(***************************************************************************)
THEOREM DrivesInvariance == Spec => []DInv
<1> QED
  BY InitDInv, NextDInv, PTL DEF Spec

(***************************************************************************)
(* The disk that hot_remove_drive_libvirt detaches by its slot is that of  *)
(* the drive that guestfs_remove_drive found by its label.                 *)
(***************************************************************************)
THEOREM SlotsStayMatched == Spec => []SlotsMatchDomain
<1>1. DInv => SlotsMatchDomain
  BY Zenon DEF DInv
<1> QED
  BY <1>1, DrivesInvariance, PTL

(***************************************************************************)
(* After removals that the daemon confirmed every free slot has a free     *)
(* target: do_internal_hot_remove_drive waits for the label, and no disk   *)
(* with another label is ever left in the domain.                          *)
(***************************************************************************)
THEOREM FreeSlotsStayFree == Spec => []FreeSlotsAreFree
<1>1. DInv => FreeSlotsAreFree
  <2> SUFFICES ASSUME DInv, state = "READY", call = Idle, ~removeFailed,
                      NEW slot \in DOMAIN domain
               PROVE  ~Free(slot)
    BY Zenon DEF FreeSlotsAreFree
  <2>1. leaving = {}
    BY NoneLeaving, Zenon DEF Idle
  <2>2. slot \in 1..(MaxTarget + MaxSlots)
    BY DrivesAssumption DEF DInv, TypeOK
  <2> QED
    BY <2>1, <2>2, Zenon DEF DInv, SlotsMatchDomain
<1> QED
  BY <1>1, DrivesInvariance, PTL

(***************************************************************************)
(* A handle that is not launched has no hole and no dummy in its drives,   *)
(* however its last appliance ended.                                       *)
(***************************************************************************)
THEOREM ConfigStaysDense == Spec => []ConfigIsDense
<1>1. DInv => ConfigIsDense
  BY Zenon DEF DInv
<1> QED
  BY <1>1, DrivesInvariance, PTL

(***************************************************************************)
(* guestfs_add_libvirt_dom adds the disks it could read after the drives   *)
(* that were there, or none of them, whatever its length.                  *)
(***************************************************************************)
THEOREM GroupsAtomic == Spec => GroupAtomic
<1>1. DInv /\ [Next]_vars =>
        [call.op = "group" /\ call' = Idle =>
           drives' = call.before \o (IF call.todo = <<>> THEN Added(call.done) ELSE <<>>)]_vars
  <2> SUFFICES ASSUME DInv, Next, call.op = "group", call' = Idle
               PROVE  drives' = call.before \o
                        (IF call.todo = <<>> THEN Added(call.done) ELSE <<>>)
    OBVIOUS
  <2>1. call.before \in Seq(Slot) /\ drives = call.before \o Added(call.done)
    BY GroupKnows, Zenon
  <2>2. call.before \o <<>> = call.before /\ Added(<<>>) = <<>>
    BY <2>1, ConcatEmptySeq, AddedIs, EmptySeq, Zenon
  <2>3. CASE rollback_drives
    BY <2>2, <2>3, RollbackIs, Zenon DEF rollback_drives
  <2>4. CASE add_libvirt_dom_ends
    BY <2>1, <2>4, Zenon DEF add_libvirt_dom_ends
  <2>5. CASE for_each_disk
    <3>1. call'.op = "group"
      <4>1. PICK todo, done, ckp, before :
              call = [op |-> "group", todo |-> todo, done |-> done, ckp |-> ckp, before |-> before]
        BY GroupKnows, Zenon
      <4> QED
        BY <2>5, <4>1, Zenon DEF for_each_disk
    <3> QED
      BY <3>1, Zenon DEF Idle
  <2>6. call # Idle /\ call.op \notin {"hot_add", "precheck", "hot_remove"} /\ call' # call
    BY DEF Idle
  <2>7. ~(internal_hot_add_drive \/ internal_hot_remove_drive_precheck_fails
            \/ hot_remove_drive \/ internal_hot_remove_drive)
    BY <2>6, Zenon DEF internal_hot_add_drive, internal_hot_remove_drive_precheck_fails,
                hot_remove_drive, internal_hot_remove_drive
  <2>8. ~(launch_libvirt \/ launch_eof \/ shutdown_backend \/ guestfs_api_eof)
    BY <2>6, Zenon DEF launch_libvirt, launch_eof, shutdown_backend, guestfs_api_eof
  <2>9. ASSUME NEW d  PROVE ~(add_drive_config(d) \/ hot_add_drive(d))
    BY <2>6, Zenon DEF add_drive_config, hot_add_drive
  <2>10. ASSUME NEW x  PROVE ~(remove_drive_config(x) \/ remove_drive_hot(x)
                                 \/ guest_releases(x) \/ add_libvirt_dom(x))
    BY <2>6, Zenon DEF remove_drive_config, remove_drive_hot, guest_releases, add_libvirt_dom
  <2> QED
    BY <2>3, <2>4, <2>5, <2>7, <2>8, <2>9, <2>10, Zenon DEF Next
<1> QED
  BY <1>1, DrivesInvariance, PTL DEF Spec, GroupAtomic
=============================================================================
