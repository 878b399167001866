--------------------------------- MODULE Fuse ---------------------------------
(***************************************************************************)
(* A filesystem of the guest on a directory of the host (lib/fuse.c):      *)
(* mount_local, the loop that turns the kernel's requests into calls of    *)
(* the API, and the caches that readdir fills with what will be asked for  *)
(* next.                                                                   *)
(*                                                                         *)
(* The handle is locked while mount_local_run runs its loop, and the loop  *)
(* takes one request at a time, so only the clock and programs that        *)
(* unmount the directory run at the same time as a request.                *)
(***************************************************************************)
EXTENDS Integers, Sequences, FiniteSets

CONSTANTS
  Paths,            \* sequences of names; the root, <<>>, is not one of them
  Inodes,
  Timeouts,         \* the cachetimeout of a mount, in seconds
  MaxTime,          \* bound on the clock
  MaxChanges        \* bound on the changes to the guest

None == 0        \* no inode
Nothing == <<>>  \* no value, or no table
Never == -100
Parent(p) == SubSeq(p, 1, Len(p) - 1)
Below(p) == {q \in Paths : Len(q) > Len(p) /\ SubSeq(q, 1, Len(p)) = p}
Entries(dir) == {p \in Paths : Parent(p) = dir}

\* What the lstat, xattr and readlink caches, g->lsc_ht, xac_ht and rlc_ht, keep
\* of a file.  The access time is in the lstat cache with the rest of the stat.
\* None of it depends on the others: a behaviour follows one of them.
Caches == {"lsc", "atime", "xac", "rlc"}

ASSUME FuseAssumption ==
  /\ None \notin Inodes /\ Timeouts \subseteq Nat /\ \A t \in Timeouts : t < -Never - MaxTime
  /\ {MaxTime, MaxChanges} \subseteq Nat /\ Paths # {} /\ <<>> \notin Paths

VARIABLES
  node,         \* the guest: the inode at each path
  kind,         \* of each inode
  attr,         \* version of what the cache keeps of an inode
  changes,      \* number of changes so far
  which,        \* what is followed
  cache,        \* the hash table that keeps it, or Nothing
  now,          \* the clock
  opts,         \* ml_read_only and ml_dir_cache_timeout
  localmountpoint, fuse,   \* whether they are set
  mounted,      \* whether the kernel has the mount
  pc,           \* the program, the loop, or a readdir in the loop
  reading,      \* the directory being read, and since when
  behind        \* when what the cache has of a path last changed through an
                \* operation on another path, or by reading it

guest == <<which, node, kind, attr, changes>>
mount == <<opts, localmountpoint, fuse>>
vars == <<guest, cache, now, mount, mounted, pc, reading, behind>>

NoEntry == [timeout |-> Never, val |-> Nothing]
Empty == [p \in Paths |-> NoEntry]
NeverBehind == [p \in Paths |-> Never]
NotReading == [dir |-> <<>>, now |-> 0]

Exists(p) == p \in Paths /\ node[p] # None
IsDir(p) == p = <<>> \/ (Exists(p) /\ kind[node[p]] = "dir")
Links(i) == {p \in Paths : node[p] = i}
Inode(p) == IF Exists(p) THEN {node[p]} ELSE {}

\* Some filesystem: a directory has one name, a file or a link any number.
Init ==
  /\ node \in [Paths -> Inodes \cup {None}]
  /\ kind \in [Inodes -> {"free", "file", "dir", "link"}]
  /\ \A i \in Inodes :
       /\ kind[i] = "free" <=> Links(i) = {}
       /\ kind[i] = "dir" => Cardinality(Links(i)) = 1
  /\ \A p \in Paths : Exists(p) => IsDir(Parent(p))
  /\ attr = [i \in Inodes |-> 0] /\ changes = 0
  /\ which \in Caches /\ cache = Nothing /\ now = 0
  /\ opts = [read_only |-> FALSE, timeout |-> 0]
  /\ localmountpoint = FALSE /\ fuse = FALSE /\ mounted = FALSE
  /\ pc = "program" /\ reading = NotReading /\ behind = NeverBehind

-----------------------------------------------------------------------------
(* The guest, as the calls of the API change it. *)

\* The attributes that the caches keep as one of c of the inodes in touched change.
Touch(c, touched) ==
  /\ attr' = [i \in Inodes |-> IF which \in c /\ i \in touched THEN attr[i] + 1 ELSE attr[i]]
  /\ UNCHANGED which

\* What lstat, lgetxattrs or readlink returns of a path.
Actual(p) ==
  IF ~Exists(p) \/ (which = "rlc" /\ kind[node[p]] # "link") THEN Nothing
  ELSE <<node[p], attr[node[p]]>>

Creates(p, k) ==
  /\ ~Exists(p) /\ IsDir(Parent(p))
  /\ \E i \in Inodes :
       /\ kind[i] = "free" /\ Links(i) = {}
       /\ node' = [node EXCEPT ![p] = i] /\ kind' = [kind EXCEPT ![i] = k]
       /\ attr' = [j \in Inodes |-> IF j = i \/ (which = "lsc" /\ j \in Inode(Parent(p)))
                                    THEN attr[j] + 1 ELSE attr[j]]
       /\ UNCHANGED which

Removes(p, kinds) ==
  /\ Exists(p) /\ kind[node[p]] \in kinds /\ \A q \in Entries(p) : ~Exists(q)
  /\ node' = [node EXCEPT ![p] = None]
  /\ kind' = IF Links(node[p]) = {p} THEN [kind EXCEPT ![node[p]] = "free"] ELSE kind
  /\ Touch({"lsc"}, Inode(p) \cup Inode(Parent(p)))

\* A directory takes what is below it along; a file replaces a file.
Moves(from, to) ==
  /\ Exists(from) /\ IsDir(Parent(to)) /\ to # from /\ to \notin Below(from)
  /\ Exists(to) => /\ kind[node[from]] = "dir" <=> kind[node[to]] = "dir"
                   /\ \A q \in Entries(to) : ~Exists(q)
                   /\ node[to] # node[from]
  /\ \A q \in Below(from) : Exists(q) => to \o SubSeq(q, Len(from) + 1, Len(q)) \in Paths
  /\ node' = [p \in Paths |->
       IF p = to THEN node[from]
       ELSE IF p \in Below(to) /\ from \o SubSeq(p, Len(to) + 1, Len(p)) \in Paths
            THEN node[from \o SubSeq(p, Len(to) + 1, Len(p))]
       ELSE IF p = from \/ p \in Below(from) THEN None ELSE node[p]]
  /\ kind' = IF Exists(to) /\ Links(node[to]) = {to} THEN [kind EXCEPT ![node[to]] = "free"] ELSE kind
  /\ Touch({"lsc"}, UNION {Inode(p) : p \in {from, to, Parent(from), Parent(to)}})

HardLinks(from, to) ==
  /\ Exists(from) /\ kind[node[from]] # "dir" /\ ~Exists(to) /\ IsDir(Parent(to))
  /\ node' = [node EXCEPT ![to] = node[from]] /\ UNCHANGED kind
  /\ Touch({"lsc"}, Inode(from) \cup Inode(Parent(to)))

Sets(c, p) == Exists(p) /\ Touch(c, Inode(p)) /\ UNCHANGED <<node, kind>>

\* As its filesystem is mounted, the guest may set the access times of what is read.
Accesses(read) ==
  /\ \/ UNCHANGED <<which, attr, changes>>
     \/ /\ which = "atime" /\ changes < MaxChanges /\ changes' = changes + 1
        /\ Touch({"atime"}, read)
  /\ UNCHANGED <<node, kind>>

-----------------------------------------------------------------------------
(* The caches. *)

\* time_t is in seconds: an entry serves to the end of its last second.
Lookup(p) == IF cache[p].timeout >= now THEN cache[p].val ELSE Nothing
lsc_lookup(p) == Lookup(p)
xac_lookup(p) == Lookup(p)
rlc_lookup(p) == Lookup(p)

dir_cache_remove_all_expired ==
  [p \in Paths |-> IF cache[p].timeout < now THEN NoEntry ELSE cache[p]]

dir_cache_invalidate(path) == [cache EXCEPT ![path] = NoEntry]

\* Mutant: only the old name of a file is forgotten.
dir_cache_invalidate_first(from, to) == [cache EXCEPT ![from] = NoEntry]
dir_cache_invalidate_both(from, to) == [cache EXCEPT ![from] = NoEntry, ![to] = NoEntry]

\* The entries that a readdir begun at time t makes of one directory.
Listed(dir) == {p \in Entries(dir) : Actual(p) # Nothing}
gen_replace(dir, t) ==
  [p \in Paths |-> IF p \in Listed(dir) THEN [timeout |-> t + opts.timeout, val |-> Actual(p)]
                                         ELSE cache[p]]

init_dir_caches == Empty
free_dir_caches == Nothing

-----------------------------------------------------------------------------
(* The operations.  Those that look something up change nothing: they are  *)
(* what they return.                                                       *)

Serving == pc = "loop" /\ mounted

OrGuest(found, p) == IF found # Nothing THEN found ELSE Actual(p)
mount_local_getattr(p) == OrGuest(lsc_lookup(p), p)
mount_local_access(p) == mount_local_getattr(p)    \* decides by what getattr says
mount_local_getxattr(p) == OrGuest(xac_lookup(p), p)
mount_local_listxattr(p) == OrGuest(xac_lookup(p), p)
mount_local_readlink(p) == OrGuest(rlc_lookup(p), p)
Answers(p) ==
  CASE which \in {"lsc", "atime"} -> {mount_local_getattr(p), mount_local_access(p)}
    [] which = "xac" -> {mount_local_getxattr(p), mount_local_listxattr(p)}
    [] which = "rlc" -> {mount_local_readlink(p)}

\* The paths whose attributes an operation on others changes: the directories
\* they are in, other names of the same files, and what is below.
Related(on) ==
  UNION {Below(p) \cup UNION {Links(i) : i \in Inode(p) \cup Inode(Parent(p))} : p \in on}
Cached(p) == cache[p].val # Nothing
Noted(on) ==
  behind' = [p \in Paths |-> IF p \in on THEN Never
                             ELSE IF Cached(p) /\ p \in Related(on) THEN now ELSE behind[p]]

\* A request that changes the files named by on, forgets what is cached of them
\* before the call, which may fail.
Changes(on, forgets, call) ==
  /\ Serving /\ ~opts.read_only
  /\ cache' = forgets
  /\ \/ changes < MaxChanges /\ call /\ changes' = changes + 1 /\ Noted(on)
     \/ UNCHANGED <<guest, behind>>
  /\ UNCHANGED <<now, mount, mounted, pc, reading>>

mount_local_mknod(p) == Changes({p}, dir_cache_invalidate(p), Creates(p, "file"))
mount_local_mkdir(p) == Changes({p}, dir_cache_invalidate(p), Creates(p, "dir"))
mount_local_unlink(p) == Changes({p}, dir_cache_invalidate(p), Removes(p, {"file", "link"}))
mount_local_rmdir(p) == Changes({p}, dir_cache_invalidate(p), Removes(p, {"dir"}))
mount_local_symlink(to) == Changes({to}, dir_cache_invalidate(to), Creates(to, "link"))
mount_local_rename(from, to) ==
  Changes({from, to}, dir_cache_invalidate_both(from, to), Moves(from, to))
mount_local_link(from, to) ==
  Changes({from, to}, dir_cache_invalidate_both(from, to), HardLinks(from, to))
mount_local_chmod(p) == Changes({p}, dir_cache_invalidate(p), Sets({"lsc"}, p))
mount_local_chown(p) == Changes({p}, dir_cache_invalidate(p), Sets({"lsc"}, p))
mount_local_truncate(p) == Changes({p}, dir_cache_invalidate(p), Sets({"lsc"}, p))
mount_local_utimens(p) == Changes({p}, dir_cache_invalidate(p), Sets({"lsc", "atime"}, p))
mount_local_write(p) == Changes({p}, dir_cache_invalidate(p), Sets({"lsc"}, p))
mount_local_setxattr(p) == Changes({p}, dir_cache_invalidate(p), Sets({"xac"}, p))
mount_local_removexattr(p) == Changes({p}, dir_cache_invalidate(p), Sets({"xac"}, p))

\* A read forgets nothing, and is not refused on a read-only mount.
Accessed(p) == Exists(p) /\ attr'[node[p]] # attr[node[p]]
NotedAccess(older) ==
  behind' = [p \in Paths |-> IF Accessed(p) /\ Cached(p)' THEN now ELSE older[p]]
Reads(p, k) ==
  /\ Serving /\ Exists(p) /\ kind[node[p]] = k
  /\ Accesses(Inode(p)) /\ UNCHANGED cache /\ NotedAccess(behind)
  /\ UNCHANGED <<now, mount, mounted, pc, reading>>
mount_local_read(p) == Reads(p, "file")
readlink_in_guest(p) == Reads(p, "link")   \* a readlink that no cache answers

\* The time is taken, and the old entries are removed, before the calls.
mount_local_readdir(dir) ==
  /\ Serving /\ IsDir(dir)
  /\ cache' = dir_cache_remove_all_expired
  /\ pc' = "readdir" /\ reading' = [dir |-> dir, now |-> now]
  /\ UNCHANGED <<guest, now, mount, mounted, behind>>

\* readdir has read the directory, and readlinklist reads the links in it after
\* lstatnslist has taken their access times.
LinksIn(dir) == {i \in Inodes : kind[i] = "link" /\ Links(i) \cap Entries(dir) # {}}
EndsReaddir ==
  /\ pc = "readdir" /\ pc' = "loop" /\ reading' = NotReading
  /\ \E read \in SUBSET (Inode(reading.dir) \cup LinksIn(reading.dir)) : Accesses(read)
  /\ UNCHANGED <<now, mount, mounted>>

\* lstatnslist, lxattrlist or readlinklist fills the cache.
prepopulate ==
  /\ EndsReaddir
  /\ cache' = gen_replace(reading.dir, reading.now)
  /\ NotedAccess([p \in Paths |-> IF p \in Listed(reading.dir) THEN Never ELSE behind[p]])

\* That call, or readdir itself, fails.
readdir_fails ==
  /\ EndsReaddir
  /\ UNCHANGED cache /\ NotedAccess(behind)

-----------------------------------------------------------------------------
(* Mounting. *)

guestfs_impl_mount_local(read_only, timeout) ==
  /\ pc = "program" /\ ~localmountpoint
  /\ opts' = [read_only |-> read_only, timeout |-> timeout]
  /\ cache' = init_dir_caches /\ fuse' = TRUE /\ mounted' = TRUE /\ localmountpoint' = TRUE
  /\ behind' = NeverBehind
  /\ UNCHANGED <<guest, now, pc, reading>>

\* hash_initialize fails for one of the tables, and the others stay; or
\* fuse_opt_add_arg, fuse_mount or fuse_new fails, and they are freed.
mount_local_fails(read_only, timeout) ==
  /\ pc = "program" /\ ~localmountpoint
  /\ opts' = [read_only |-> read_only, timeout |-> timeout]
  /\ cache' = init_dir_caches \/ cache' = free_dir_caches
  /\ UNCHANGED <<guest, now, localmountpoint, fuse, mounted, pc, reading, behind>>

\* The checks that a mountpoint is set and that the guest has a root filesystem.
guestfs_impl_mount_local_run ==
  /\ pc = "program" /\ localmountpoint
  /\ pc' = "loop"
  /\ UNCHANGED <<guest, cache, now, mount, mounted, reading, behind>>

\* Mutant: the caches are kept.
guestfs_int_free_fuse_only == fuse' = FALSE /\ UNCHANGED cache
guestfs_int_free_fuse == fuse' = FALSE /\ cache' = free_dir_caches

\* fuse_loop returns when someone has unmounted the directory, or with an error.
fuse_loop_ends ==
  /\ pc = "loop"
  /\ guestfs_int_free_fuse /\ localmountpoint' = FALSE /\ mounted' = FALSE
  /\ pc' = "program" /\ behind' = NeverBehind
  /\ UNCHANGED <<guest, now, opts, reading>>

\* umount_local runs guestunmount; whoever runs the loop sees to the rest.
guestfs_impl_umount_local ==
  /\ pc = "program" /\ localmountpoint
  /\ mounted /\ mounted' = FALSE
  /\ UNCHANGED <<guest, cache, now, mount, pc, reading, behind>>

guestfs_close ==
  /\ pc = "program"
  /\ guestfs_int_free_fuse /\ localmountpoint' = FALSE /\ mounted' = FALSE
  /\ UNCHANGED <<guest, now, opts, pc, reading, behind>>

\* Calls of the program between a mount and the next.
ProgramChanges(p) ==
  /\ pc = "program" /\ changes < MaxChanges /\ changes' = changes + 1
  /\ Sets(Caches, p) \/ Removes(p, {"file", "link", "dir"})
  /\ UNCHANGED <<cache, now, mount, mounted, pc, reading, behind>>

\* Outside the loop the caches are empty, and the time does not matter.
Tick ==
  /\ pc # "program" /\ now < MaxTime /\ now' = now + 1
  /\ UNCHANGED <<guest, cache, mount, mounted, pc, reading, behind>>

-----------------------------------------------------------------------------
Next ==
  \/ \E p \in Paths :
       \/ mount_local_mknod(p) \/ mount_local_mkdir(p) \/ mount_local_unlink(p)
       \/ mount_local_rmdir(p) \/ mount_local_symlink(p) \/ mount_local_chmod(p)
       \/ mount_local_chown(p) \/ mount_local_truncate(p) \/ mount_local_utimens(p)
       \/ mount_local_write(p) \/ mount_local_setxattr(p) \/ mount_local_removexattr(p)
       \/ mount_local_read(p) \/ readlink_in_guest(p) \/ ProgramChanges(p)
       \/ \E q \in Paths : mount_local_rename(p, q) \/ mount_local_link(p, q)
  \/ \E dir \in Paths \cup {<<>>} : mount_local_readdir(dir)
  \/ prepopulate \/ readdir_fails
  \/ \E read_only \in BOOLEAN, timeout \in Timeouts :
       guestfs_impl_mount_local(read_only, timeout) \/ mount_local_fails(read_only, timeout)
  \/ guestfs_impl_mount_local_run \/ fuse_loop_ends
  \/ guestfs_impl_umount_local \/ guestfs_close \/ Tick

Spec == Init /\ [][Next]_vars

-----------------------------------------------------------------------------
TypeOK ==
  /\ which \in Caches /\ node \in [Paths -> Inodes \cup {None}]
  /\ kind \in [Inodes -> {"free", "file", "dir", "link"}]
  /\ attr \in [Inodes -> Nat] /\ changes \in 0..MaxChanges /\ now \in 0..MaxTime
  /\ opts \in [read_only : BOOLEAN, timeout : Timeouts \cup {0}]
  /\ {localmountpoint, fuse, mounted} \subseteq BOOLEAN /\ pc \in {"program", "loop", "readdir"}

(***************************************************************************)
(* The handle has a mountpoint exactly as long as it has a FUSE handle, on *)
(* every way out of mount_local and mount_local_run, it then has its hash  *)
(* tables, and the loop serves requests only while it has them.  Without a *)
(* mountpoint it has no table or, when init_dir_caches has failed, an      *)
(* empty one, that the next mount_local does not free.                     *)
(***************************************************************************)
MountInv ==
  /\ TypeOK
  /\ fuse = localmountpoint
  /\ IF localmountpoint THEN cache # Nothing ELSE cache \in {Nothing, Empty}
  /\ mounted \/ pc # "program" => localmountpoint

\* What a cache has of a path is what the guest has, or will have expired when
\* cachetimeout has passed since another operation or a read changed it.
CacheInv ==
  /\ behind \in [Paths -> Int] /\ \A p \in Paths : behind[p] <= now
  /\ reading.now \in Int /\ reading.now <= now
  /\ localmountpoint =>
       /\ cache = [p \in Paths |-> [timeout |-> cache[p].timeout, val |-> cache[p].val]]
       /\ \A p \in Paths :
            /\ cache[p].timeout \in Int /\ cache[p].timeout <= now + opts.timeout
            /\ \/ cache[p].val \in {Nothing, Actual(p)}
               \/ cache[p].timeout <= behind[p] + opts.timeout
       /\ pc = "program" => cache = Empty

\* Inductive: it implies ServedIsCurrent.
FuseInv == MountInv /\ CacheInv

(***************************************************************************)
(* What getattr, getxattr and readlink answer is what the guest has, also  *)
(* when it comes from a cache that was filled before files were changed,   *)
(* renamed, linked or removed through the mount, or in an earlier mount.   *)
(* Only what an operation on another path has changed (the directory of a  *)
(* new file, another name of the same file, a path below a renamed         *)
(* directory), and an access time that reading the file has set, may be    *)
(* answered as it was, and no longer than cachetimeout.                    *)
(***************************************************************************)
ServedIsCurrent ==
  pc # "program" => \A p \in Paths :
    Answers(p) = {Actual(p)} \/ now <= behind[p] + opts.timeout
===============================================================================
