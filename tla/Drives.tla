------------------------------- MODULE Drives --------------------------------
(***************************************************************************)
(* The drives of a handle of the libvirt backend: adding and removing them *)
(* before the launch and while the appliance runs, all the disks of a      *)
(* libvirt domain at once, and the appliance's own disk among them.        *)
(*                                                                         *)
(* g->drives is a sequence with holes: slot i is g->drives[i - 1], which   *)
(* is the SCSI target i - 1 of the appliance's domain.  A detached disk    *)
(* stays in the domain until the guest lets go of it.                      *)
(***************************************************************************)
EXTENDS Naturals, Sequences

CONSTANTS Files,       \* disk images
          Labels,      \* disk labels
          None,        \* NULL: no drive, no label
          MaxTarget,   \* slots for which the SCSI controller has a target
          MaxSlots     \* bound on the length of g->drives

ASSUME DrivesAssumption ==
  /\ None \notin Files /\ None \notin Labels
  /\ None \notin [file : Files \cup {None}, label : Labels \cup {None}]
  /\ MaxTarget \in Nat /\ MaxSlots \in Nat

VARIABLES state,       \* g->state
          drives,      \* g->drives
          domain,      \* the disks of the appliance's domain, by slot
          leaving,     \* the slots of those that are detached
          call,        \* the call being made
          removeFailed \* a disk was detached whose removal was not confirmed

vars == <<state, drives, domain, leaving, call, removeFailed>>

Drive(file, label) == [file |-> file, label |-> label]
DriveType == [file : Files, label : Labels \cup {None}]
\* create_drive_dummy, which stands for the disk of the appliance.
Dummy == [file |-> None, label |-> None]

Idle == [op |-> "none"]
Free(slot) == slot > Len(drives) \/ drives[slot] = None
LabelsIn(disks) == {disks[t].label : t \in DOMAIN disks}

CallType ==
  {Idle} \cup [op : {"hot_add", "hot_remove"}, label : Labels]
    \cup [op : {"precheck"}, label : Labels, slot : Nat]
    \cup [op : {"group"}, todo : Seq(Files), done : Seq(Files), ckp : Nat,
          before : Seq(DriveType \cup {None, Dummy})]

TypeOK ==
  /\ state \in {"CONFIG", "READY"}
  /\ drives \in Seq(DriveType \cup {None, Dummy})
  /\ DOMAIN domain \subseteq 1..MaxTarget
  /\ domain \in [DOMAIN domain -> DriveType \cup {Dummy}]
  /\ leaving \subseteq DOMAIN domain
  /\ call \in CallType
  /\ removeFailed \in BOOLEAN

Init ==
  /\ state = "CONFIG" /\ drives = <<>>
  /\ domain = <<>> /\ leaving = {}
  /\ call = Idle /\ removeFailed = FALSE

-----------------------------------------------------------------------------
(* Operations on the vector *)

\* add_drive_to_handle_at: the vector grows, with holes, to hold the slot.
PutAt(d, slot) ==
  [i \in 1..(IF slot > Len(drives) THEN slot ELSE Len(drives)) |->
     IF i = slot THEN d ELSE IF i <= Len(drives) THEN drives[i] ELSE None]

\* The slot for a new drive: the last hole, or the end.
HotSlot ==
  LET holes == {i \in DOMAIN drives : drives[i] = None}
  IN  IF holes = {} THEN Len(drives) + 1 ELSE CHOOSE i \in holes : \A j \in holes : j <= i

\* The first drive with the label.
Labelled(label) == {i \in DOMAIN drives : drives[i] # None /\ drives[i].label = label}
Found(label) == CHOOSE i \in Labelled(label) : \A j \in Labelled(label) : i <= j

\* The later drives move up.
WithoutShifted(slot) == SubSeq(drives, 1, slot - 1) \o SubSeq(drives, slot + 1, Len(drives))

\* An empty slot is left, unless it is the last one.
WithHole(slot) ==
  IF slot = Len(drives) THEN SubSeq(drives, 1, slot - 1) ELSE [drives EXCEPT ![slot] = None]

-----------------------------------------------------------------------------
(* The end of the appliance *)

\* Mutant: the drives of an appliance that died stay in the handle.
child_cleanup_keeps_drives ==
  /\ state' = "CONFIG" /\ domain' = <<>> /\ leaving' = {} /\ removeFailed' = FALSE
  /\ UNCHANGED drives

\* EOF from the daemon, met by the call that is being made.
child_cleanup ==
  /\ state' = "CONFIG" /\ drives' = <<>>
  /\ domain' = <<>> /\ leaving' = {} /\ removeFailed' = FALSE

shutdown_backend ==
  /\ call = Idle /\ state = "READY"
  /\ state' = "CONFIG" /\ drives' = <<>>
  /\ domain' = <<>> /\ leaving' = {} /\ removeFailed' = FALSE
  /\ UNCHANGED call

\* Any other call of the API finds the appliance dead.
guestfs_api_eof == call = Idle /\ state = "READY" /\ child_cleanup /\ UNCHANGED call

-----------------------------------------------------------------------------
(* guestfs_add_drive_opts *)

add_drive_config(d) ==
  /\ call = Idle /\ state = "CONFIG" /\ Len(drives) < MaxSlots
  /\ drives' = Append(drives, d)
  /\ UNCHANGED <<state, domain, leaving, call, removeFailed>>

\* Mutant: the slot of the drive is one past the one libvirt was told of.
hot_add_drive_elsewhere(d) ==
  /\ call = Idle /\ state = "READY" /\ d.label # None
  /\ HotSlot \in 1..MaxTarget \ DOMAIN domain /\ HotSlot < MaxSlots
  /\ domain' = [t \in DOMAIN domain \cup {HotSlot} |-> IF t = HotSlot THEN d ELSE domain[t]]
  /\ drives' = Append(drives, d)
  /\ call' = [op |-> "hot_add", label |-> d.label]
  /\ UNCHANGED <<state, leaving, removeFailed>>

(***************************************************************************)
(* Libvirt attaches the disk at the target of the slot, which must be free *)
(* and exist: neither is tested before.  A drive without a label, a target *)
(* in use and any other failure of libvirt change nothing.                 *)
(***************************************************************************)
hot_add_drive(d) ==
  /\ call = Idle /\ state = "READY" /\ d.label # None
  /\ HotSlot \in 1..MaxTarget \ DOMAIN domain /\ HotSlot <= MaxSlots
  /\ domain' = [t \in DOMAIN domain \cup {HotSlot} |-> IF t = HotSlot THEN d ELSE domain[t]]
  /\ drives' = PutAt(d, HotSlot)
  /\ call' = [op |-> "hot_add", label |-> d.label]
  /\ UNCHANGED <<state, leaving, removeFailed>>

\* The daemon waits for the device; when it gives up, the drive stays.
internal_hot_add_drive ==
  /\ call.op = "hot_add"
  /\ call' = Idle
  /\ \/ UNCHANGED <<state, drives, domain, leaving, removeFailed>>
     \/ child_cleanup

-----------------------------------------------------------------------------
(* guestfs_remove_drive *)

remove_drive_config(label) ==
  /\ call = Idle /\ state = "CONFIG" /\ Labelled(label) # {}
  /\ drives' = WithoutShifted(Found(label))
  /\ UNCHANGED <<state, domain, leaving, call, removeFailed>>

remove_drive_hot(label) ==
  /\ call = Idle /\ state = "READY" /\ Labelled(label) # {}
  /\ call' = [op |-> "precheck", label |-> label, slot |-> Found(label)]
  /\ UNCHANGED <<state, drives, domain, leaving, removeFailed>>

\* The disk is in use, the daemon is gone, or libvirt does not detach the disk.
internal_hot_remove_drive_precheck_fails ==
  /\ call.op = "precheck" /\ call' = Idle
  /\ \/ UNCHANGED <<state, drives, domain, leaving, removeFailed>>
     \/ child_cleanup

\* Mutant: the daemon is not asked to wait until the disk has gone.
hot_remove_drive_at_once ==
  /\ call.op = "precheck" /\ call.slot \in DOMAIN domain \ leaving
  /\ leaving' = leaving \cup {call.slot}
  /\ drives' = WithHole(call.slot)
  /\ call' = Idle
  /\ UNCHANGED <<state, domain, removeFailed>>

\* Libvirt starts to detach the disk, and the drive is freed.
hot_remove_drive ==
  /\ call.op = "precheck" /\ call.slot \in DOMAIN domain \ leaving
  /\ leaving' = leaving \cup {call.slot}
  /\ drives' = WithHole(call.slot)
  /\ call' = [op |-> "hot_remove", label |-> call.label]
  /\ UNCHANGED <<state, domain, removeFailed>>

\* The guest lets go of a detached disk, at any time.
guest_releases(slot) ==
  /\ slot \in leaving
  /\ domain' = [t \in DOMAIN domain \ {slot} |-> domain[t]]
  /\ leaving' = leaving \ {slot}
  /\ UNCHANGED <<state, drives, call, removeFailed>>

(***************************************************************************)
(* The daemon waits until no device has the label, or reports that one     *)
(* still has.                                                              *)
(***************************************************************************)
internal_hot_remove_drive ==
  /\ call.op = "hot_remove" /\ call' = Idle
  /\ \/ /\ call.label \notin LabelsIn(domain)
        /\ UNCHANGED <<state, drives, domain, leaving, removeFailed>>
     \/ /\ removeFailed' = TRUE
        /\ UNCHANGED <<state, drives, domain, leaving>>
     \/ child_cleanup

-----------------------------------------------------------------------------
(* guestfs_add_libvirt_dom *)

\* guestfs_int_checkpoint_drives; "before" is what the checkpoint stands for.
add_libvirt_dom(files) ==
  /\ call = Idle
  /\ call' = [op |-> "group", todo |-> files, done |-> <<>>, ckp |-> Len(drives),
              before |-> drives]
  /\ UNCHANGED <<state, drives, domain, leaving, removeFailed>>

\* The disk is added, without a label, or left out when it cannot be read or
\* its secret is not found.
for_each_disk ==
  /\ call.op = "group" /\ call.todo # <<>>
  /\ \/ /\ state = "CONFIG" /\ Len(drives) < MaxSlots
        /\ drives' = Append(drives, Drive(Head(call.todo), None))
        /\ call' = [call EXCEPT !.todo = Tail(@), !.done = Append(@, Head(call.todo))]
     \/ /\ call' = [call EXCEPT !.todo = Tail(@)]
        /\ UNCHANGED drives
  /\ UNCHANGED <<state, domain, leaving, removeFailed>>

\* Mutant: the drives are freed, but g->nr_drives is not reset.
rollback_drives_only_frees ==
  /\ call.op = "group" /\ (call.todo # <<>> \/ call.done = <<>>)
  /\ call' = Idle
  /\ UNCHANGED <<state, drives, domain, leaving, removeFailed>>

\* A disk that cannot be added, because the handle is launched for one, ends
\* the group, and so does a domain without any disk.
rollback_drives ==
  /\ call.op = "group" /\ (call.todo # <<>> \/ call.done = <<>>)
  /\ drives' = SubSeq(drives, 1, call.ckp)
  /\ call' = Idle
  /\ UNCHANGED <<state, domain, leaving, removeFailed>>

add_libvirt_dom_ends ==
  /\ call.op = "group" /\ call.todo = <<>> /\ call.done # <<>>
  /\ call' = Idle
  /\ UNCHANGED <<state, drives, domain, leaving, removeFailed>>

-----------------------------------------------------------------------------
(* guestfs_launch *)

\* The appliance's disk, if it has one, comes after the drives, and a dummy
\* drive takes its slot.
launch_libvirt ==
  /\ call = Idle /\ state = "CONFIG" /\ Len(drives) < MaxTarget
  /\ \E appliance \in {<<>>, <<Dummy>>} :
       /\ drives' = drives \o appliance
       /\ domain' = drives \o appliance
  /\ state' = "READY"
  /\ UNCHANGED <<leaving, call, removeFailed>>

\* A launch that fails keeps the drives, but not when it fails with EOF.
launch_eof ==
  /\ call = Idle /\ state = "CONFIG" /\ Len(drives) < MaxTarget
  /\ child_cleanup
  /\ UNCHANGED call

Next ==
  \/ \E f \in Files, l \in Labels \cup {None} :
       add_drive_config(Drive(f, l)) \/ hot_add_drive(Drive(f, l))
  \/ internal_hot_add_drive
  \/ \E l \in Labels : remove_drive_config(l) \/ remove_drive_hot(l)
  \/ internal_hot_remove_drive_precheck_fails \/ hot_remove_drive
  \/ \E slot \in 1..MaxTarget : guest_releases(slot)
  \/ internal_hot_remove_drive
  \/ \E f, g \in Files : add_libvirt_dom(<<f>>) \/ add_libvirt_dom(<<f, g>>)
  \/ for_each_disk \/ rollback_drives \/ add_libvirt_dom_ends
  \/ launch_libvirt \/ launch_eof
  \/ shutdown_backend \/ guestfs_api_eof

Spec == Init /\ [][Next]_vars

-----------------------------------------------------------------------------
(* Properties *)

(***************************************************************************)
(* The vector and the domain agree on the disk of every target, that of    *)
(* the appliance included, through any sequence of hot-adds and removals:  *)
(* only detached disks are in the domain alone.  hot_remove_drive_libvirt  *)
(* detaches by slot, so a drive in another slot than its disk would make   *)
(* it take away somebody else's.                                           *)
(***************************************************************************)
SlotsMatchDomain ==
  state = "READY" =>
    \A slot \in 1..(MaxTarget + MaxSlots) :
      IF Free(slot) THEN slot \notin DOMAIN domain \ leaving
                    ELSE slot \in DOMAIN domain \ leaving /\ domain[slot] = drives[slot]

(***************************************************************************)
(* After removals that all succeeded, a free slot has a free target, so    *)
(* the next hot-add does not meet a disk that has yet to go: what          *)
(* do_internal_hot_remove_drive waits for.                                 *)
(***************************************************************************)
FreeSlotsAreFree ==
  state = "READY" /\ call = Idle /\ ~removeFailed =>
    \A slot \in DOMAIN domain : ~Free(slot)

(***************************************************************************)
(* A handle that is not launched has no hole in its drives and no dummy of *)
(* an earlier appliance: remove_drive shifts and the launch numbers its    *)
(* disks on that assumption, whichever way the last appliance ended.       *)
(***************************************************************************)
ConfigIsDense ==
  state = "CONFIG" => \A i \in DOMAIN drives : drives[i] \in DriveType

\* The drives that a group has added so far.
Added(files) == [i \in DOMAIN files |-> Drive(files[i], None)]

(***************************************************************************)
(* The disks of a libvirt domain are added after the drives that were      *)
(* there, or, when one of them cannot be added, none of them is, in a      *)
(* launched handle too: "either all disks are added or none are added"     *)
(* (lib/libvirt-domain.c), except that a disk may be left out.             *)
(***************************************************************************)
GroupAtomic ==
  [][call.op = "group" /\ call' = Idle =>
       drives' = call.before \o
         (IF call.todo = <<>>
          THEN Added(call.done)
          ELSE <<>>)]_vars

-----------------------------------------------------------------------------
(* The inductive invariant *)

\* What the call being made knows of the handle.
CallInv ==
  /\ call.op = "precheck" =>
       call.slot \in DOMAIN drives /\ drives[call.slot] \in DriveType
         /\ drives[call.slot].label = call.label
  /\ call.op = "group" =>
       /\ call.ckp = Len(call.before) /\ drives = call.before \o Added(call.done)
       /\ state = "READY" => call.done = <<>>

\* Disks leave the domain only in the call that waits for them, or after one
\* that failed to, and they have the label that it waits for.
LeavingInv ==
  ~removeFailed => \A t \in leaving : call.op = "hot_remove" /\ domain[t].label = call.label

\* Without an appliance there is nothing to wait for.
ConfigInv ==
  state = "CONFIG" =>
    DOMAIN domain = {} /\ ~removeFailed /\ call.op \in {"none", "group"}

\* A type, and what the calls rely on: every drive of a launched handle has a
\* target, the vector and the domain agree, and a handle that is not launched
\* has neither holes nor a domain.
DInv ==
  /\ TypeOK /\ ConfigIsDense /\ SlotsMatchDomain
  /\ state = "READY" => Len(drives) <= MaxTarget
  /\ ConfigInv /\ CallInv /\ LeavingInv
==============================================================================
