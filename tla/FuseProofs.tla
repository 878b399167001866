----------------------------- MODULE FuseProofs ------------------------------
(***************************************************************************)
(* What the mounted filesystem answers is what the guest has, for every    *)
(* set of paths and inodes, every cachetimeout and every number of         *)
(* changes: FuseInv is an inductive invariant of Fuse.                     *)
(***************************************************************************)
EXTENDS Fuse, TLAPS

-----------------------------------------------------------------------------
LEMMA Numbers ==
  /\ Never \in Int /\ Never < 0 /\ MaxTime \in Nat /\ MaxChanges \in Nat
  /\ \A t \in Timeouts \cup {0} : t \in Int /\ t >= 0
<1>1. Timeouts \subseteq Nat
  BY FuseAssumption, Zenon
<1>2. MaxTime \in Nat /\ MaxChanges \in Nat
  BY FuseAssumption, Zenon
<1>3. Never \in Int /\ Never < 0
  BY DEF Never
<1> QED
  BY <1>1, <1>2, <1>3

-----------------------------------------------------------------------------
(* Every change of what a cache may keep of a path is made by an operation *)
(* on that path, or is noted.                                              *)

\* The other names of the inodes that an operation on p touches.
LEMMA RelatedPaths ==
  ASSUME NEW on, NEW q \in on, NEW p \in Paths, p \notin Related(on)
  PROVE  node[p] \notin Inode(q) \cup Inode(Parent(q)) /\ p \notin Below(q)
<1> DEFINE T(o) == Below(o) \cup UNION {Links(i) : i \in Inode(o) \cup Inode(Parent(o))}
<1>1. T(q) \subseteq Related(on)
  BY Zenon DEF Related
<1>2. p \in Links(node[p])
  BY Zenon DEF Links
<1>3. node[p] \in Inode(q) \cup Inode(Parent(q)) => p \in T(q)
  BY <1>2, Zenon
<1>4. p \in Below(q) => p \in T(q)
  OBVIOUS
<1> QED
  BY <1>1, <1>3, <1>4, Zenon

\* An inode that neither changes its kind nor its attributes.
LEMMA SameActual ==
  ASSUME NEW p \in Paths, node'[p] = node[p], which' = which,
         node[p] # None => kind'[node[p]] = kind[node[p]] /\ attr'[node[p]] = attr[node[p]]
  PROVE  Actual(p)' = Actual(p)
BY Zenon DEF Actual, Exists

LEMMA CreatesNoted ==
  ASSUME TypeOK, NEW o \in Paths, NEW k, Creates(o, k),
         NEW p \in Paths, p # o, p \notin Related({o})
  PROVE  Actual(p)' = Actual(p)
<1>1. PICK i \in Inodes :
        /\ Links(i) = {} /\ node' = [node EXCEPT ![o] = i] /\ kind' = [kind EXCEPT ![i] = k]
        /\ attr' = [j \in Inodes |-> IF j = i \/ (which = "lsc" /\ j \in Inode(Parent(o)))
                                     THEN attr[j] + 1 ELSE attr[j]]
        /\ which' = which
  BY Zenon DEF Creates
<1>2. node[p] \notin Inode(Parent(o)) /\ node[p] # i
  BY <1>1, RelatedPaths, Zenon DEF Links
<1>3. node'[p] = node[p] /\ node[p] \in Inodes \cup {None}
  BY <1>1, Zenon DEF TypeOK
<1>4. node[p] # None => kind'[node[p]] = kind[node[p]] /\ attr'[node[p]] = attr[node[p]]
  BY <1>1, <1>2, <1>3, Zenon DEF TypeOK
<1> QED
  BY <1>1, <1>3, <1>4, SameActual, Zenon

\* What Touch leaves alone.
LEMMA Untouched ==
  ASSUME NEW c, NEW touched, Touch(c, touched), NEW i \in Inodes, i \notin touched
  PROVE  attr'[i] = attr[i] /\ which' = which
BY Zenon DEF Touch

LEMMA RemovesNoted ==
  ASSUME TypeOK, NEW o \in Paths, NEW kinds, Removes(o, kinds),
         NEW p \in Paths, p # o, p \notin Related({o})
  PROVE  Actual(p)' = Actual(p)
<1>1. node[p] \notin Inode(o) \cup Inode(Parent(o))
  BY RelatedPaths, Zenon
<1>2. node'[p] = node[p] /\ node[p] \in Inodes \cup {None} /\ node[o] \in Inode(o)
  BY Zenon DEF TypeOK, Removes, Inode
<1>3. node[p] # None => kind'[node[p]] = kind[node[p]]
  BY <1>1, <1>2, Zenon DEF TypeOK, Removes
<1>4. Touch({"lsc"}, Inode(o) \cup Inode(Parent(o)))
  BY Zenon DEF Removes
<1>5. which' = which
  BY <1>4, Zenon DEF Touch
<1> QED
  BY <1>1, <1>2, <1>3, <1>4, <1>5, Untouched, SameActual, Zenon

LEMMA MovesNoted ==
  ASSUME TypeOK, NEW from \in Paths, NEW to \in Paths, Moves(from, to),
         NEW p \in Paths, p \notin {from, to}, p \notin Related({from, to})
  PROVE  Actual(p)' = Actual(p)
<1>1. /\ node[p] \notin UNION {Inode(q) : q \in {from, to, Parent(from), Parent(to)}}
      /\ p \notin Below(from) /\ p \notin Below(to)
  <2>1. node[p] \notin Inode(from) \cup Inode(Parent(from)) /\ p \notin Below(from)
    BY RelatedPaths, Zenon
  <2>2. node[p] \notin Inode(to) \cup Inode(Parent(to)) /\ p \notin Below(to)
    BY RelatedPaths, Zenon
  <2> QED
    BY <2>1, <2>2, Zenon
<1>2. node'[p] = node[p] /\ node[p] \in Inodes \cup {None}
  BY <1>1, Zenon DEF TypeOK, Moves
<1>3. node[p] # None => kind'[node[p]] = kind[node[p]]
  <2>1. Exists(to) => node[to] # node[p]
    BY <1>1, Zenon DEF Inode
  <2>2. kind' = IF Exists(to) /\ Links(node[to]) = {to} THEN [kind EXCEPT ![node[to]] = "free"] ELSE kind
    BY Zenon DEF Moves
  <2> QED
    BY <1>2, <2>1, <2>2, Zenon DEF TypeOK
<1>4. Touch({"lsc"}, UNION {Inode(q) : q \in {from, to, Parent(from), Parent(to)}})
  BY Zenon DEF Moves
<1>5. which' = which
  BY <1>4, Zenon DEF Touch
<1> QED
  BY <1>1, <1>2, <1>3, <1>4, <1>5, Untouched, SameActual, Zenon

LEMMA LinksNoted ==
  ASSUME TypeOK, NEW from \in Paths, NEW to \in Paths, HardLinks(from, to),
         NEW p \in Paths, p \notin {from, to}, p \notin Related({from, to})
  PROVE  Actual(p)' = Actual(p)
<1>1. node[p] \notin Inode(from) \cup Inode(Parent(to))
  <2>1. node[p] \notin Inode(from)
    BY RelatedPaths, Zenon
  <2>2. node[p] \notin Inode(Parent(to))
    BY RelatedPaths, Zenon
  <2> QED
    BY <2>1, <2>2, Zenon
<1>2. node'[p] = node[p] /\ node[p] \in Inodes \cup {None} /\ kind' = kind
  BY Zenon DEF TypeOK, HardLinks
<1>3. Touch({"lsc"}, Inode(from) \cup Inode(Parent(to)))
  BY Zenon DEF HardLinks
<1>4. which' = which
  BY <1>3, Zenon DEF Touch
<1> QED
  BY <1>1, <1>2, <1>3, <1>4, Untouched, SameActual, Zenon

LEMMA SetsNoted ==
  ASSUME TypeOK, NEW o \in Paths, NEW c, Sets(c, o),
         NEW p \in Paths, p # o, p \notin Related({o})
  PROVE  Actual(p)' = Actual(p)
<1>1. node[p] \notin Inode(o)
  BY RelatedPaths, Zenon
<1>2. node' = node /\ kind' = kind /\ Touch(c, Inode(o)) /\ node[p] \in Inodes \cup {None}
  BY Zenon DEF Sets, TypeOK
<1>3. which' = which
  BY <1>2, Zenon DEF Touch
<1> QED
  BY <1>1, <1>2, <1>3, Untouched, SameActual, Zenon

-----------------------------------------------------------------------------
(* FuseInv is inductive. *)

\* A request keeps the invariant when it forgets what is cached of the paths it
\* changes, and every other change is noted.
LEMMA ChangeInv ==
  ASSUME FuseInv, NEW on \in SUBSET Paths, TypeOK', Serving, UNCHANGED <<now, mount, mounted, pc, reading>>,
         cache' = [p \in Paths |-> IF p \in on THEN NoEntry ELSE cache[p]],
         \/ /\ Noted(on)
            /\ \A p \in Paths : p \notin on /\ p \notin Related(on) => Actual(p)' = Actual(p)
         \/ UNCHANGED <<guest, behind>>
  PROVE  FuseInv'
<1>0. /\ pc # "program" /\ localmountpoint = TRUE /\ TypeOK
      /\ now \in Int /\ now >= 0 /\ opts.timeout \in Int /\ opts.timeout >= 0
      /\ Never \in Int /\ Never < 0
      /\ UNCHANGED <<now, opts, localmountpoint, fuse, mounted, pc, reading>>
  <2>1. pc # "program" /\ mounted /\ TypeOK /\ localmountpoint
    BY Zenon DEF FuseInv, MountInv, Serving
  <2>2. now \in 0..MaxTime /\ opts.timeout \in Timeouts \cup {0} /\ localmountpoint = TRUE
    BY <2>1, Zenon DEF TypeOK
  <2>4. UNCHANGED <<now, opts, localmountpoint, fuse, mounted, pc, reading>>
    BY Zenon DEF mount
  <2> QED
    BY <2>1, <2>2, <2>4, Numbers
<1>1. MountInv'
  <2>1. cache' # Nothing
    BY FuseAssumption DEF Nothing
  <2> QED
    BY <1>0, <2>1, Zenon DEF FuseInv, MountInv
<1>2. behind' \in [Paths -> Int] /\ \A p \in Paths : behind'[p] <= now
  <2>1. behind \in [Paths -> Int] /\ \A p \in Paths : behind[p] <= now
    BY Zenon DEF FuseInv, CacheInv
  <2>2. CASE Noted(on)
    <3>1. \A p \in Paths : behind'[p] \in {Never, now, behind[p]}
      BY <2>2, Zenon DEF Noted
    <3>2. behind' = [p \in Paths |-> behind'[p]]
      BY <2>2, Zenon DEF Noted
    <3> QED
      BY <1>0, <2>1, <3>1, <3>2
  <2> QED
    BY <2>1, <2>2, Zenon
<1>3. ASSUME NEW p \in Paths
      PROVE  /\ cache'[p].timeout \in Int /\ cache'[p].timeout <= now + opts.timeout
             /\ \/ cache'[p].val \in {Nothing, Actual(p)'}
                \/ cache'[p].timeout <= behind'[p] + opts.timeout
  <2>0. /\ cache[p].timeout \in Int /\ cache[p].timeout <= now + opts.timeout
        /\ \/ cache[p].val \in {Nothing, Actual(p)}
           \/ cache[p].timeout <= behind[p] + opts.timeout
        /\ behind[p] \in Int /\ behind[p] <= now
    BY <1>0, Zenon DEF FuseInv, CacheInv
  <2>1. CASE p \in on
    <3>1. cache'[p] = NoEntry
      BY <2>1, Zenon
    <3> QED
      BY <1>0, <3>1 DEF NoEntry
  <2>2. CASE p \notin on
    <3>1. cache'[p] = cache[p]
      BY <2>2, Zenon
    <3>2. CASE UNCHANGED <<guest, behind>>
      <4>1. Actual(p)' = Actual(p) /\ behind' = behind
        BY <3>2, Zenon DEF guest, Actual, Exists
      <4> QED
        BY <2>0, <3>1, <4>1, Zenon
    <3>3. CASE Noted(on) /\ p \in Related(on)
      <4>1. Cached(p) => behind'[p] = now
        BY <2>2, <3>3, Zenon DEF Noted
      <4>2. ~Cached(p) => cache[p].val = Nothing
        BY Zenon DEF Cached
      <4> QED
        BY <2>0, <3>1, <4>1, <4>2, Zenon
    <3>4. CASE Noted(on) /\ p \notin Related(on) /\ Actual(p)' = Actual(p)
      <4>1. behind'[p] = behind[p]
        BY <2>2, <3>4, Zenon DEF Noted
      <4> QED
        BY <2>0, <3>1, <3>4, <4>1, Zenon
    <3> QED
      BY <2>2, <3>2, <3>3, <3>4, Zenon
  <2> QED
    BY <2>1, <2>2, Zenon
<1>4. cache' = [p \in Paths |-> [timeout |-> cache'[p].timeout, val |-> cache'[p].val]]
  <2>1. \A p \in Paths : cache[p] = [timeout |-> cache[p].timeout, val |-> cache[p].val]
    BY <1>0, Zenon DEF FuseInv, CacheInv
  <2>2. \A p \in Paths : cache'[p] = [timeout |-> cache'[p].timeout, val |-> cache'[p].val]
    BY <2>1, Zenon DEF NoEntry
  <2> QED
    BY <2>2, Zenon
<1>5. CacheInv'
  BY <1>0, <1>2, <1>3, <1>4, Zenon DEF FuseInv, CacheInv
<1> QED
  BY <1>1, <1>5, Zenon DEF FuseInv

-----------------------------------------------------------------------------
(* The calls change the guest to another guest. *)

GuestOK ==
  /\ which \in Caches /\ node \in [Paths -> Inodes \cup {None}]
  /\ kind \in [Inodes -> {"free", "file", "dir", "link"}] /\ attr \in [Inodes -> Nat]

LEMMA TouchOK ==
  ASSUME GuestOK, NEW c, NEW touched, Touch(c, touched)
  PROVE  attr' \in [Inodes -> Nat] /\ which' = which
BY DEF GuestOK, Touch

LEMMA CreatesOK ==
  ASSUME GuestOK, NEW o \in Paths, NEW k \in {"file", "dir", "link"}, Creates(o, k)
  PROVE  GuestOK'
<1>1. PICK i \in Inodes :
        /\ node' = [node EXCEPT ![o] = i] /\ kind' = [kind EXCEPT ![i] = k]
        /\ attr' = [j \in Inodes |-> IF j = i \/ (which = "lsc" /\ j \in Inode(Parent(o)))
                                     THEN attr[j] + 1 ELSE attr[j]]
        /\ which' = which
  BY Zenon DEF Creates
<1> QED
  BY <1>1 DEF GuestOK

LEMMA RemovesOK ==
  ASSUME GuestOK, NEW o \in Paths, NEW kinds, Removes(o, kinds)
  PROVE  GuestOK'
<1>1. attr' \in [Inodes -> Nat] /\ which' = which
  BY TouchOK, Zenon DEF Removes
<1> QED
  BY <1>1, Zenon DEF GuestOK, Removes

LEMMA MovesOK ==
  ASSUME GuestOK, NEW from \in Paths, NEW to \in Paths, Moves(from, to)
  PROVE  GuestOK'
<1>1. attr' \in [Inodes -> Nat] /\ which' = which
  BY TouchOK, Zenon DEF Moves
<1>2. node' \in [Paths -> Inodes \cup {None}]
  BY Zenon DEF GuestOK, Moves
<1>3. kind' \in [Inodes -> {"free", "file", "dir", "link"}]
  BY Zenon DEF GuestOK, Moves
<1> QED
  BY <1>1, <1>2, <1>3, Zenon DEF GuestOK

LEMMA LinksOK ==
  ASSUME GuestOK, NEW from \in Paths, NEW to \in Paths, HardLinks(from, to)
  PROVE  GuestOK'
<1>1. attr' \in [Inodes -> Nat] /\ which' = which
  BY TouchOK, Zenon DEF HardLinks
<1> QED
  BY <1>1, Zenon DEF GuestOK, HardLinks

LEMMA SetsOK ==
  ASSUME GuestOK, NEW c, NEW o \in Paths, Sets(c, o)
  PROVE  GuestOK'
<1>1. attr' \in [Inodes -> Nat] /\ which' = which
  BY TouchOK, Zenon DEF Sets
<1> QED
  BY <1>1, Zenon DEF GuestOK, Sets

-----------------------------------------------------------------------------
(* Requests. *)

LEMMA RequestInv ==
  ASSUME FuseInv, NEW on \in SUBSET Paths, Serving,
         UNCHANGED <<now, mount, mounted, pc, reading>>,
         cache' = [p \in Paths |-> IF p \in on THEN NoEntry ELSE cache[p]],
         \/ /\ changes < MaxChanges /\ changes' = changes + 1 /\ GuestOK' /\ Noted(on)
            /\ \A p \in Paths : p \notin on /\ p \notin Related(on) => Actual(p)' = Actual(p)
         \/ UNCHANGED <<guest, behind>>
  PROVE  FuseInv'
<1>1. TypeOK
  BY Zenon DEF FuseInv, MountInv
<1>2. GuestOK' /\ changes' \in 0..MaxChanges
  BY <1>1, Numbers DEF TypeOK, GuestOK, guest
<1>3. TypeOK'
  BY <1>1, <1>2, Zenon DEF TypeOK, GuestOK, mount
<1> QED
  BY <1>3, ChangeInv, Zenon

\* What the two ways of forgetting leave in the cache.
LEMMA Forgets ==
  ASSUME FuseInv, Serving, NEW p \in Paths
  PROVE  /\ dir_cache_invalidate(p) = [q \in Paths |-> IF q \in {p} THEN NoEntry ELSE cache[q]]
         /\ \A to \in Paths : dir_cache_invalidate_both(p, to) =
              [q \in Paths |-> IF q \in {p, to} THEN NoEntry ELSE cache[q]]
<1>1. localmountpoint
  BY Zenon DEF FuseInv, MountInv, Serving
<1>2. cache = [q \in Paths |-> [timeout |-> cache[q].timeout, val |-> cache[q].val]]
  BY <1>1, Zenon DEF FuseInv, CacheInv
<1>3. cache = [q \in Paths |-> cache[q]]
  BY <1>2, Zenon
<1>4. dir_cache_invalidate(p) = [q \in Paths |-> IF q \in {p} THEN NoEntry ELSE cache[q]]
  BY <1>3, Zenon DEF dir_cache_invalidate
<1>5. ASSUME NEW to \in Paths
      PROVE  dir_cache_invalidate_both(p, to) =
               [q \in Paths |-> IF q \in {p, to} THEN NoEntry ELSE cache[q]]
  BY <1>3, Zenon DEF dir_cache_invalidate_both
<1> QED
  BY <1>4, <1>5, Zenon

LEMMA CreateInv ==
  ASSUME FuseInv, NEW p \in Paths, NEW k \in {"file", "dir", "link"}, Changes({p}, dir_cache_invalidate(p), Creates(p, k))
  PROVE  FuseInv'
<1> DEFINE on == {p}
<1>1. /\ Serving /\ UNCHANGED <<now, mount, mounted, pc, reading>>
      /\ \/ changes < MaxChanges /\ Creates(p, k) /\ changes' = changes + 1 /\ Noted(on)
         \/ UNCHANGED <<guest, behind>>
  BY Zenon DEF Changes
<1>2. cache' = [q \in Paths |-> IF q \in on THEN NoEntry ELSE cache[q]]
  BY <1>1, Forgets, Zenon DEF Changes
<1>3. TypeOK /\ GuestOK
  BY Zenon DEF FuseInv, MountInv, TypeOK, GuestOK
<1>4. ASSUME Creates(p, k)
      PROVE  /\ GuestOK'
             /\ \A q \in Paths : q \notin on /\ q \notin Related(on) => Actual(q)' = Actual(q)
  BY <1>3, <1>4, CreatesOK, CreatesNoted, Zenon
<1> HIDE DEF on
<1>5. on \in SUBSET Paths
  BY Zenon DEF on
<1> QED
  BY <1>1, <1>2, <1>4, <1>5, RequestInv, Zenon

LEMMA RemoveInv ==
  ASSUME FuseInv, NEW p \in Paths, NEW kinds, Changes({p}, dir_cache_invalidate(p), Removes(p, kinds))
  PROVE  FuseInv'
<1> DEFINE on == {p}
<1>1. /\ Serving /\ UNCHANGED <<now, mount, mounted, pc, reading>>
      /\ \/ changes < MaxChanges /\ Removes(p, kinds) /\ changes' = changes + 1 /\ Noted(on)
         \/ UNCHANGED <<guest, behind>>
  BY Zenon DEF Changes
<1>2. cache' = [q \in Paths |-> IF q \in on THEN NoEntry ELSE cache[q]]
  BY <1>1, Forgets, Zenon DEF Changes
<1>3. TypeOK /\ GuestOK
  BY Zenon DEF FuseInv, MountInv, TypeOK, GuestOK
<1>4. ASSUME Removes(p, kinds)
      PROVE  /\ GuestOK'
             /\ \A q \in Paths : q \notin on /\ q \notin Related(on) => Actual(q)' = Actual(q)
  BY <1>3, <1>4, RemovesOK, RemovesNoted, Zenon
<1> HIDE DEF on
<1>5. on \in SUBSET Paths
  BY Zenon DEF on
<1> QED
  BY <1>1, <1>2, <1>4, <1>5, RequestInv, Zenon

LEMMA SetInv ==
  ASSUME FuseInv, NEW p \in Paths, NEW c, Changes({p}, dir_cache_invalidate(p), Sets(c, p))
  PROVE  FuseInv'
<1> DEFINE on == {p}
<1>1. /\ Serving /\ UNCHANGED <<now, mount, mounted, pc, reading>>
      /\ \/ changes < MaxChanges /\ Sets(c, p) /\ changes' = changes + 1 /\ Noted(on)
         \/ UNCHANGED <<guest, behind>>
  BY Zenon DEF Changes
<1>2. cache' = [q \in Paths |-> IF q \in on THEN NoEntry ELSE cache[q]]
  BY <1>1, Forgets, Zenon DEF Changes
<1>3. TypeOK /\ GuestOK
  BY Zenon DEF FuseInv, MountInv, TypeOK, GuestOK
<1>4. ASSUME Sets(c, p)
      PROVE  /\ GuestOK'
             /\ \A q \in Paths : q \notin on /\ q \notin Related(on) => Actual(q)' = Actual(q)
  BY <1>3, <1>4, SetsOK, SetsNoted, Zenon
<1> HIDE DEF on
<1>5. on \in SUBSET Paths
  BY Zenon DEF on
<1> QED
  BY <1>1, <1>2, <1>4, <1>5, RequestInv, Zenon

LEMMA MoveInv ==
  ASSUME FuseInv, NEW p \in Paths, NEW to \in Paths, Changes({p, to}, dir_cache_invalidate_both(p, to), Moves(p, to))
  PROVE  FuseInv'
<1> DEFINE on == {p, to}
<1>1. /\ Serving /\ UNCHANGED <<now, mount, mounted, pc, reading>>
      /\ \/ changes < MaxChanges /\ Moves(p, to) /\ changes' = changes + 1 /\ Noted(on)
         \/ UNCHANGED <<guest, behind>>
  BY Zenon DEF Changes
<1>2. cache' = [q \in Paths |-> IF q \in on THEN NoEntry ELSE cache[q]]
  BY <1>1, Forgets, Zenon DEF Changes
<1>3. TypeOK /\ GuestOK
  BY Zenon DEF FuseInv, MountInv, TypeOK, GuestOK
<1>4. ASSUME Moves(p, to)
      PROVE  /\ GuestOK'
             /\ \A q \in Paths : q \notin on /\ q \notin Related(on) => Actual(q)' = Actual(q)
  BY <1>3, <1>4, MovesOK, MovesNoted, Zenon
<1> HIDE DEF on
<1>5. on \in SUBSET Paths
  BY Zenon DEF on
<1> QED
  BY <1>1, <1>2, <1>4, <1>5, RequestInv, Zenon

LEMMA LinkInv ==
  ASSUME FuseInv, NEW p \in Paths, NEW to \in Paths, Changes({p, to}, dir_cache_invalidate_both(p, to), HardLinks(p, to))
  PROVE  FuseInv'
<1> DEFINE on == {p, to}
<1>1. /\ Serving /\ UNCHANGED <<now, mount, mounted, pc, reading>>
      /\ \/ changes < MaxChanges /\ HardLinks(p, to) /\ changes' = changes + 1 /\ Noted(on)
         \/ UNCHANGED <<guest, behind>>
  BY Zenon DEF Changes
<1>2. cache' = [q \in Paths |-> IF q \in on THEN NoEntry ELSE cache[q]]
  BY <1>1, Forgets, Zenon DEF Changes
<1>3. TypeOK /\ GuestOK
  BY Zenon DEF FuseInv, MountInv, TypeOK, GuestOK
<1>4. ASSUME HardLinks(p, to)
      PROVE  /\ GuestOK'
             /\ \A q \in Paths : q \notin on /\ q \notin Related(on) => Actual(q)' = Actual(q)
  BY <1>3, <1>4, LinksOK, LinksNoted, Zenon
<1> HIDE DEF on
<1>5. on \in SUBSET Paths
  BY Zenon DEF on
<1> QED
  BY <1>1, <1>2, <1>4, <1>5, RequestInv, Zenon

-----------------------------------------------------------------------------
(* Reading a directory, and the time. *)

\* A state in the loop, and what is known of an entry there.
LEMMA InLoop ==
  ASSUME FuseInv, pc # "program"
  PROVE  /\ TypeOK /\ localmountpoint = TRUE /\ fuse = TRUE /\ cache # Nothing
         /\ now \in 0..MaxTime /\ now \in Int /\ opts.timeout \in Int /\ opts.timeout >= 0
<1>1. TypeOK /\ localmountpoint
  BY Zenon DEF FuseInv, MountInv
<1>2. localmountpoint = TRUE /\ now \in 0..MaxTime /\ opts.timeout \in Timeouts \cup {0}
  BY <1>1, Zenon DEF TypeOK
<1>3. fuse = TRUE /\ cache # Nothing
  BY <1>2, Zenon DEF FuseInv, MountInv
<1>4. now \in Int /\ opts.timeout \in Int /\ opts.timeout >= 0
  BY <1>2, Numbers
<1> QED
  BY <1>1, <1>2, <1>3, <1>4, Zenon

\* The loop goes on with another cache.
LEMMA LoopInv ==
  ASSUME FuseInv, pc # "program", pc' \in {"loop", "readdir"},
         GuestOK', changes' \in 0..MaxChanges,
         UNCHANGED <<mount, mounted>>, now' \in now..MaxTime,
         reading'.now \in Int, reading'.now <= now',
         behind' \in [Paths -> Int], \A p \in Paths : behind'[p] <= now',
         cache' = [p \in Paths |-> [timeout |-> cache'[p].timeout, val |-> cache'[p].val]],
         \A p \in Paths :
           /\ cache'[p].timeout \in Int /\ cache'[p].timeout <= now' + opts.timeout
           /\ \/ cache'[p].val \in {Nothing, Actual(p)'}
              \/ cache'[p].timeout <= behind'[p] + opts.timeout
  PROVE  FuseInv'
<1>1. /\ TypeOK /\ localmountpoint = TRUE /\ fuse = TRUE /\ now \in 0..MaxTime
      /\ UNCHANGED <<opts, localmountpoint, fuse, mounted>>
  BY InLoop, Zenon DEF mount
<1>2. TypeOK'
  <2>1. now' \in 0..MaxTime
    BY <1>1, Numbers
  <2> QED
    BY <1>1, <2>1, Zenon DEF TypeOK, GuestOK
<1>3. cache' # Nothing
  BY FuseAssumption DEF Nothing
<1>4. MountInv'
  BY <1>1, <1>2, <1>3, Zenon DEF MountInv
<1>5. CacheInv'
  BY <1>1, Zenon DEF CacheInv
<1> QED
  BY <1>4, <1>5, Zenon DEF FuseInv

\* Nothing happens to the guest.
LEMMA SameGuest ==
  ASSUME FuseInv, UNCHANGED guest
  PROVE  GuestOK' /\ changes' \in 0..MaxChanges /\ \A p \in Paths : Actual(p)' = Actual(p)
<1>1. UNCHANGED <<which, node, kind, attr, changes>> /\ TypeOK
  BY Zenon DEF guest, FuseInv, MountInv
<1> QED
  BY <1>1, Zenon DEF TypeOK, GuestOK, Actual, Exists

\* At most access times change, and where they do it shows.
LEMMA AccessesNoted ==
  ASSUME FuseInv, NEW read, Accesses(read)
  PROVE  /\ GuestOK' /\ changes' \in 0..MaxChanges
         /\ \A p \in Paths : Accessed(p) \/ Actual(p)' = Actual(p)
<1>1. TypeOK /\ GuestOK
  BY Zenon DEF FuseInv, MountInv, TypeOK, GuestOK
<1>2. UNCHANGED <<node, kind, which>> /\ attr' \in [Inodes -> Nat]
  BY <1>1, TouchOK, Zenon DEF Accesses, GuestOK
<1>3. changes' \in 0..MaxChanges
  BY <1>1, Numbers DEF TypeOK, Accesses
<1>4. ASSUME NEW p \in Paths, ~Accessed(p)
      PROVE  Actual(p)' = Actual(p)
  BY <1>2, <1>4, SameActual, Zenon DEF Accessed, Exists
<1> QED
  BY <1>1, <1>2, <1>3, <1>4, Zenon DEF GuestOK

\* What an old entry is worth.
LEMMA Entry ==
  ASSUME FuseInv, pc # "program"
  PROVE  /\ cache = [p \in Paths |-> [timeout |-> cache[p].timeout, val |-> cache[p].val]]
         /\ behind \in [Paths -> Int] /\ reading.now \in Int /\ reading.now <= now
         /\ \A p \in Paths :
              /\ cache[p].timeout \in Int /\ cache[p].timeout <= now + opts.timeout
              /\ \/ cache[p].val \in {Nothing, Actual(p)}
                 \/ cache[p].timeout <= behind[p] + opts.timeout
              /\ behind[p] \in Int /\ behind[p] <= now
BY InLoop, Zenon DEF FuseInv, CacheInv

LEMMA TickInv ==
  ASSUME FuseInv, Tick
  PROVE  FuseInv'
<1>1. /\ pc # "program" /\ now < MaxTime /\ now' = now + 1
      /\ UNCHANGED <<guest, cache, mount, mounted, pc, reading, behind>>
  BY Zenon DEF Tick
<1>2. now \in 0..MaxTime /\ opts.timeout \in Int /\ pc \in {"loop", "readdir"}
  BY <1>1, InLoop, Zenon DEF TypeOK
<1>3. now' \in now..MaxTime
  BY <1>1, <1>2, Numbers
<1>4. \A p \in Paths :
        /\ cache'[p].timeout \in Int /\ cache'[p].timeout <= now' + opts.timeout
        /\ \/ cache'[p].val \in {Nothing, Actual(p)'}
           \/ cache'[p].timeout <= behind'[p] + opts.timeout
        /\ behind'[p] <= now'
  <2>1. \A p \in Paths : Actual(p)' = Actual(p)
    BY <1>1, SameGuest, Zenon
  <2> QED
    BY <1>1, <1>2, <2>1, Entry
<1>5. reading'.now \in Int /\ reading'.now <= now' /\ behind' \in [Paths -> Int]
  BY <1>1, <1>2, Entry
<1> QED
  BY <1>1, <1>2, <1>3, <1>4, <1>5, SameGuest, Entry, LoopInv, Zenon

LEMMA ReaddirInv ==
  ASSUME FuseInv, NEW dir, mount_local_readdir(dir)
  PROVE  FuseInv'
<1>1. /\ pc # "program" /\ now' = now /\ cache' = dir_cache_remove_all_expired
      /\ pc' = "readdir" /\ reading' = [dir |-> dir, now |-> now]
      /\ UNCHANGED <<guest, now, mount, mounted, behind>>
  BY Zenon DEF mount_local_readdir, Serving
<1>2. now \in 0..MaxTime /\ now \in Int /\ opts.timeout \in Int /\ opts.timeout >= 0
  BY <1>1, InLoop, Zenon
<1>3. ASSUME NEW p \in Paths
      PROVE  /\ cache'[p].timeout \in Int /\ cache'[p].timeout <= now' + opts.timeout
             /\ \/ cache'[p].val \in {Nothing, Actual(p)'}
                \/ cache'[p].timeout <= behind'[p] + opts.timeout
             /\ behind'[p] <= now'
             /\ cache'[p] = [timeout |-> cache'[p].timeout, val |-> cache'[p].val]
  <2>1. cache'[p] = IF cache[p].timeout < now THEN NoEntry ELSE cache[p]
    BY <1>1, Zenon DEF dir_cache_remove_all_expired
  <2>2. cache[p] = [timeout |-> cache[p].timeout, val |-> cache[p].val]
    BY <1>1, Entry, Zenon
  <2>3. CASE cache'[p] = NoEntry
    BY <1>1, <1>2, <2>3, Numbers, Entry DEF NoEntry
  <2>4. CASE cache'[p] = cache[p]
    BY <1>1, <2>2, <2>4, Entry, SameGuest, Zenon
  <2> QED
    BY <2>1, <2>3, <2>4, Zenon
<1>4. cache' = [p \in Paths |-> [timeout |-> cache'[p].timeout, val |-> cache'[p].val]]
  BY <1>1, <1>3, Zenon DEF dir_cache_remove_all_expired
<1>5. now' \in now..MaxTime /\ reading'.now \in Int /\ reading'.now <= now' /\ behind' \in [Paths -> Int]
  BY <1>1, <1>2, Numbers, Entry
<1> QED
  BY <1>1, <1>3, <1>4, <1>5, SameGuest, LoopInv, Zenon

\* What is read is noted where it is cached, whatever was known before.
LEMMA AccessInv ==
  ASSUME FuseInv, pc # "program", pc' = "loop", UNCHANGED <<now, mount, mounted>>,
         GuestOK', changes' \in 0..MaxChanges,
         \A p \in Paths : Accessed(p) \/ Actual(p)' = Actual(p),
         reading'.now \in Int, reading'.now <= now',
         cache' = [p \in Paths |-> [timeout |-> cache'[p].timeout, val |-> cache'[p].val]],
         NEW older, NotedAccess(older),
         \A p \in Paths :
           /\ cache'[p].timeout \in Int /\ cache'[p].timeout <= now' + opts.timeout
           /\ older[p] \in Int /\ older[p] <= now
           /\ \/ cache'[p].val \in {Nothing, Actual(p)}
              \/ cache'[p].timeout <= older[p] + opts.timeout
  PROVE  FuseInv'
<1>1. now \in 0..MaxTime /\ now \in Int /\ now' = now
  BY InLoop, Zenon
<1>2. now' \in now..MaxTime
  BY <1>1, Numbers
<1>3. ASSUME NEW p \in Paths
      PROVE  /\ behind'[p] \in Int /\ behind'[p] <= now'
             /\ \/ cache'[p].val \in {Nothing, Actual(p)'}
                \/ cache'[p].timeout <= behind'[p] + opts.timeout
  <2>1. CASE Accessed(p) /\ Cached(p)'
    <3>1. behind'[p] = now
      BY <2>1, Zenon DEF NotedAccess
    <3> QED
      BY <1>1, <3>1
  <2>2. CASE ~Accessed(p)
    <3>1. behind'[p] = older[p] /\ Actual(p)' = Actual(p)
      BY <2>2, Zenon DEF NotedAccess
    <3> QED
      BY <1>1, <3>1, Zenon
  <2>3. CASE ~Cached(p)'
    <3>1. behind'[p] = older[p] /\ cache'[p].val = Nothing
      BY <2>3, Zenon DEF NotedAccess, Cached
    <3> QED
      BY <1>1, <3>1, Zenon
  <2> QED
    BY <2>1, <2>2, <2>3, Zenon
<1>4. behind' \in [Paths -> Int]
  BY <1>3, Zenon DEF NotedAccess
<1> QED
  BY <1>2, <1>3, <1>4, LoopInv, Zenon

\* The cache is kept.
LEMMA KeepsCacheInv ==
  ASSUME FuseInv, pc # "program", pc' = "loop", cache' = cache, UNCHANGED <<now, mount, mounted>>,
         NEW read, Accesses(read), NotedAccess(behind), reading' \in {reading, NotReading}
  PROVE  FuseInv'
<1>1. now \in 0..MaxTime /\ now' = now
  BY InLoop, Zenon
<1>2. reading'.now \in Int /\ reading'.now <= now'
  <2>1. NotReading.now = 0
    BY DEF NotReading
  <2> QED
    BY <1>1, <2>1, Entry, Numbers
<1> QED
  BY <1>1, <1>2, AccessesNoted, Entry, AccessInv, Zenon

LEMMA ReadInv ==
  ASSUME FuseInv, NEW p \in Paths, mount_local_read(p) \/ readlink_in_guest(p)
  PROVE  FuseInv'
<1>1. /\ pc # "program" /\ pc' = "loop" /\ Accesses(Inode(p)) /\ cache' = cache
      /\ NotedAccess(behind) /\ UNCHANGED <<now, mount, mounted, reading>>
  BY Zenon DEF mount_local_read, readlink_in_guest, Reads, Serving
<1> QED
  BY <1>1, KeepsCacheInv, Zenon

LEMMA ReaddirFailsInv ==
  ASSUME FuseInv, readdir_fails
  PROVE  FuseInv'
<1>1. /\ pc # "program" /\ pc' = "loop" /\ cache' = cache /\ reading' = NotReading
      /\ NotedAccess(behind) /\ UNCHANGED <<now, mount, mounted>>
  BY Zenon DEF readdir_fails, EndsReaddir
<1>2. PICK read : Accesses(read)
  BY Zenon DEF readdir_fails, EndsReaddir
<1> QED
  BY <1>1, <1>2, KeepsCacheInv, Zenon

LEMMA PrepopulateInv ==
  ASSUME FuseInv, prepopulate
  PROVE  FuseInv'
<1> DEFINE older == [p \in Paths |-> IF p \in Listed(reading.dir) THEN Never ELSE behind[p]]
<1>1. /\ pc # "program" /\ cache' = gen_replace(reading.dir, reading.now)
      /\ NotedAccess(older)
      /\ pc' = "loop" /\ reading' = NotReading
      /\ UNCHANGED <<now, mount, mounted>>
  BY Zenon DEF prepopulate, EndsReaddir
<1>2. now \in 0..MaxTime /\ now \in Int /\ opts.timeout \in Int /\ opts.timeout >= 0
  BY <1>1, InLoop, Zenon
<1>3. /\ GuestOK' /\ changes' \in 0..MaxChanges
      /\ \A p \in Paths : Accessed(p) \/ Actual(p)' = Actual(p)
  BY AccessesNoted, Zenon DEF prepopulate, EndsReaddir
<1>4. ASSUME NEW p \in Paths
      PROVE  /\ cache'[p].timeout \in Int /\ cache'[p].timeout <= now' + opts.timeout
             /\ cache'[p] = [timeout |-> cache'[p].timeout, val |-> cache'[p].val]
             /\ older[p] \in Int /\ older[p] <= now
             /\ \/ cache'[p].val \in {Nothing, Actual(p)}
                \/ cache'[p].timeout <= older[p] + opts.timeout
  <2>1. CASE p \in Listed(reading.dir)
    <3>1. cache'[p] = [timeout |-> reading.now + opts.timeout, val |-> Actual(p)] /\ older[p] = Never
      BY <1>1, <2>1, Zenon DEF gen_replace
    <3>2. reading.now \in Int /\ reading.now <= now
      BY <1>1, Entry, Zenon
    <3> HIDE DEF older
    <3> QED
      BY <1>1, <1>2, <3>1, <3>2, Numbers
  <2>2. CASE p \notin Listed(reading.dir)
    <3>1. cache'[p] = cache[p] /\ older[p] = behind[p]
      BY <1>1, <2>2, Zenon DEF gen_replace
    <3>2. cache[p] = [timeout |-> cache[p].timeout, val |-> cache[p].val]
      BY <1>1, Entry, Zenon
    <3> HIDE DEF older
    <3> QED
      BY <1>1, <3>1, <3>2, Entry, Zenon
  <2> QED
    BY <2>1, <2>2, Zenon
<1>5. cache' = [p \in Paths |-> [timeout |-> cache'[p].timeout, val |-> cache'[p].val]]
  BY <1>1, <1>4, Zenon DEF gen_replace
<1> HIDE DEF older
<1>6. now' \in now..MaxTime /\ reading'.now \in Int /\ reading'.now <= now'
  BY <1>1, <1>2, Numbers DEF NotReading
<1> QED
  BY <1>1, <1>3, <1>4, <1>5, <1>6, AccessInv, Zenon

-----------------------------------------------------------------------------
(* Outside the loop. *)

\* In the program the caches, if there are any, are empty.
LEMMA ProgramInv ==
  ASSUME FuseInv, pc = "program", GuestOK', changes' \in 0..MaxChanges, now' = now, reading' = reading,
         pc' \in {"program", "loop"}, pc' = "loop" => localmountpoint',
         opts' \in [read_only : BOOLEAN, timeout : Timeouts \cup {0}],
         localmountpoint' \in BOOLEAN, fuse' = localmountpoint',
         mounted' \in BOOLEAN, mounted' => localmountpoint',
         cache' \in {Nothing, Empty}, localmountpoint' => cache' = Empty,
         behind' \in {behind, NeverBehind}
  PROVE  FuseInv'
<1>1. TypeOK /\ now \in Int /\ now >= 0
  BY Numbers DEF FuseInv, MountInv, TypeOK
<1>2. TypeOK'
  BY <1>1, Zenon DEF TypeOK, GuestOK
<1>3. Empty # Nothing
  BY FuseAssumption DEF Empty, Nothing
<1>4. MountInv'
  BY <1>2, <1>3, Zenon DEF MountInv
<1>5. behind' \in [Paths -> Int] /\ \A p \in Paths : behind'[p] <= now'
  BY <1>1, Numbers DEF FuseInv, CacheInv, NeverBehind
<1>6. reading'.now \in Int /\ reading'.now <= now'
  BY Zenon DEF FuseInv, CacheInv
<1>7. opts'.timeout \in Int /\ opts'.timeout >= 0
  BY Numbers, Zenon
<1>8. \A p \in Paths : Empty[p] = NoEntry /\ Empty[p].timeout = Never /\ Empty[p].val = Nothing
  BY Zenon DEF Empty, NoEntry
<1>9. Empty = [p \in Paths |-> [timeout |-> Empty[p].timeout, val |-> Empty[p].val]]
  BY <1>8, Zenon DEF Empty, NoEntry
<1>10. \A p \in Paths : Never \in Int /\ Never <= now' + opts'.timeout
  BY <1>1, <1>7, Numbers
<1>11. CacheInv'
  BY <1>5, <1>6, <1>8, <1>9, <1>10, Zenon DEF CacheInv
<1> QED
  BY <1>4, <1>11, Zenon DEF FuseInv

\* The program, and the operations that it begins and ends there.
LEMMA InProgram ==
  ASSUME FuseInv, pc = "program"
  PROVE  /\ GuestOK /\ changes \in 0..MaxChanges /\ localmountpoint \in BOOLEAN
         /\ opts \in [read_only : BOOLEAN, timeout : Timeouts \cup {0}]
         /\ fuse = localmountpoint /\ mounted \in BOOLEAN /\ (mounted => localmountpoint)
         /\ cache \in {Nothing, Empty} /\ (localmountpoint => cache = Empty)
<1>1. /\ TypeOK /\ fuse = localmountpoint /\ (mounted => localmountpoint)
      /\ ~localmountpoint => cache \in {Nothing, Empty}
  BY Zenon DEF FuseInv, MountInv
<1>2. localmountpoint => cache = Empty
  BY Zenon DEF FuseInv, CacheInv
<1> QED
  BY <1>1, <1>2, Zenon DEF TypeOK, GuestOK

LEMMA MountLocalInv ==
  ASSUME FuseInv, NEW read_only \in BOOLEAN, NEW timeout \in Timeouts,
         guestfs_impl_mount_local(read_only, timeout) \/ mount_local_fails(read_only, timeout)
  PROVE  FuseInv'
<1>1. /\ pc = "program" /\ ~localmountpoint /\ pc' = pc /\ reading' = reading /\ now' = now
      /\ opts' = [read_only |-> read_only, timeout |-> timeout] /\ UNCHANGED guest
  BY Zenon DEF guestfs_impl_mount_local, mount_local_fails
<1>2. GuestOK' /\ changes' \in 0..MaxChanges
  BY <1>1, InProgram, Zenon DEF guest, GuestOK
<1>3. /\ localmountpoint' \in BOOLEAN /\ fuse' = localmountpoint' /\ mounted' \in BOOLEAN
      /\ (mounted' => localmountpoint') /\ behind' \in {behind, NeverBehind}
      /\ cache' \in {Nothing, Empty} /\ (localmountpoint' => cache' = Empty)
  <2>1. CASE guestfs_impl_mount_local(read_only, timeout)
    BY <2>1, Zenon DEF guestfs_impl_mount_local, init_dir_caches
  <2>2. CASE mount_local_fails(read_only, timeout)
    <3>1. /\ localmountpoint = FALSE /\ fuse = FALSE /\ mounted = FALSE
      BY <1>1, InProgram, Zenon
    <3> QED
      BY <2>2, <3>1, Zenon DEF mount_local_fails, init_dir_caches, free_dir_caches
  <2> QED
    BY <2>1, <2>2, Zenon
<1> QED
  BY <1>1, <1>2, <1>3, ProgramInv, Zenon

LEMMA RunInv ==
  ASSUME FuseInv, guestfs_impl_mount_local_run \/ guestfs_impl_umount_local \/ guestfs_close
  PROVE  FuseInv'
<1>1. /\ pc = "program" /\ reading' = reading /\ now' = now /\ opts' = opts
      /\ UNCHANGED guest /\ behind' = behind
  BY Zenon DEF guestfs_impl_mount_local_run, guestfs_impl_umount_local, guestfs_close, mount
<1>2. GuestOK' /\ changes' \in 0..MaxChanges
  BY <1>1, InProgram, Zenon DEF guest, GuestOK
<1>3. /\ localmountpoint' \in BOOLEAN /\ fuse' = localmountpoint' /\ mounted' \in BOOLEAN
      /\ (mounted' => localmountpoint') /\ pc' \in {"program", "loop"}
      /\ (pc' = "loop" => localmountpoint')
      /\ cache' \in {Nothing, Empty} /\ (localmountpoint' => cache' = Empty)
  <2>1. CASE guestfs_close
    BY <2>1, Zenon DEF guestfs_close, guestfs_int_free_fuse, free_dir_caches
  <2>2. CASE guestfs_impl_mount_local_run \/ guestfs_impl_umount_local
    <3>1. /\ UNCHANGED <<cache, localmountpoint, fuse>> /\ localmountpoint
          /\ pc' \in {"program", "loop"} /\ mounted' \in {mounted, FALSE}
      BY <1>1, <2>2, Zenon DEF guestfs_impl_mount_local_run, guestfs_impl_umount_local, mount
    <3> QED
      BY <1>1, <3>1, InProgram, Zenon
  <2> QED
    BY <2>1, <2>2, Zenon
<1> QED
  BY <1>1, <1>2, <1>3, InProgram, ProgramInv, Zenon

LEMMA ProgramChangesInv ==
  ASSUME FuseInv, NEW p \in Paths, ProgramChanges(p)
  PROVE  FuseInv'
<1>1. /\ pc = "program" /\ changes < MaxChanges /\ changes' = changes + 1
      /\ UNCHANGED <<cache, now, opts, localmountpoint, fuse, mounted, pc, reading, behind>>
  BY Zenon DEF ProgramChanges, mount
<1>2. GuestOK'
  BY <1>1, InProgram, SetsOK, RemovesOK, Zenon DEF ProgramChanges
<1>3. changes' \in 0..MaxChanges
  BY <1>1, InProgram, Numbers
<1> QED
  BY <1>1, <1>2, <1>3, InProgram, ProgramInv, Zenon

LEMMA LoopEndsInv ==
  ASSUME FuseInv, fuse_loop_ends
  PROVE  FuseInv'
<1>1. /\ pc # "program" /\ pc' = "program" /\ behind' = NeverBehind /\ cache' = Nothing
      /\ fuse' = FALSE /\ localmountpoint' = FALSE /\ mounted' = FALSE
      /\ UNCHANGED <<guest, now, opts, reading>>
  BY Zenon DEF fuse_loop_ends, guestfs_int_free_fuse, free_dir_caches
<1>2. TypeOK /\ now \in Int /\ now >= 0
  BY <1>1, InLoop
<1>3. MountInv'
  BY <1>1, <1>2, Zenon DEF MountInv, TypeOK, guest
<1>4. behind' \in [Paths -> Int] /\ \A p \in Paths : behind'[p] <= now'
  BY <1>1, <1>2, Numbers DEF NeverBehind
<1>5. CacheInv'
  BY <1>1, <1>4, Entry, Zenon DEF CacheInv
<1> QED
  BY <1>3, <1>5, Zenon DEF FuseInv

-----------------------------------------------------------------------------
LEMMA InitFuse ==
  ASSUME Init
  PROVE  FuseInv
<1>1. TypeOK
  <2>1. 0 \in 0..MaxChanges /\ 0 \in 0..MaxTime
    BY Numbers
  <2>2. attr \in [Inodes -> Nat]
    BY Zenon DEF Init
  <2> QED
    BY <2>1, <2>2, Zenon DEF Init, TypeOK
<1>2. behind \in [Paths -> Int] /\ \A p \in Paths : behind[p] <= now
  BY Numbers DEF Init, NeverBehind
<1>3. CacheInv
  BY <1>2 DEF Init, CacheInv, NotReading
<1>4. MountInv
  BY <1>1, Zenon DEF Init, MountInv
<1> QED
  BY <1>3, <1>4, Zenon DEF FuseInv

LEMMA FuseStep ==
  ASSUME FuseInv, [Next]_vars
  PROVE  FuseInv'
<1>1. ASSUME NEW p \in Paths,
             \/ mount_local_mknod(p) \/ mount_local_mkdir(p) \/ mount_local_symlink(p)
      PROVE  FuseInv'
  BY <1>1, CreateInv, Zenon DEF mount_local_mknod, mount_local_mkdir, mount_local_symlink
<1>2. ASSUME NEW p \in Paths, mount_local_unlink(p) \/ mount_local_rmdir(p)
      PROVE  FuseInv'
  BY <1>2, RemoveInv, Zenon DEF mount_local_unlink, mount_local_rmdir
<1>3. ASSUME NEW p \in Paths,
             \/ mount_local_chmod(p) \/ mount_local_chown(p) \/ mount_local_truncate(p)
             \/ mount_local_utimens(p) \/ mount_local_write(p)
             \/ mount_local_setxattr(p) \/ mount_local_removexattr(p)
      PROVE  FuseInv'
  BY <1>3, SetInv, Zenon DEF mount_local_chmod, mount_local_chown, mount_local_truncate,
     mount_local_utimens, mount_local_write, mount_local_setxattr, mount_local_removexattr
<1>4. ASSUME NEW p \in Paths, NEW q \in Paths, mount_local_rename(p, q) \/ mount_local_link(p, q)
      PROVE  FuseInv'
  BY <1>4, MoveInv, LinkInv, Zenon DEF mount_local_rename, mount_local_link
<1>5. CASE UNCHANGED vars
  <2>1. /\ UNCHANGED <<which, node, kind, attr, changes, cache, now, opts, localmountpoint>>
        /\ UNCHANGED <<fuse, mounted, pc, reading, behind>>
    BY <1>5, Zenon DEF vars, guest, mount
  <2>2. MountInv'
    BY <2>1, Zenon DEF FuseInv, MountInv, TypeOK
  <2>3. \A p \in Paths : Actual(p)' = Actual(p)
    BY <2>1, Zenon DEF Actual, Exists
  <2>4. CacheInv'
    BY <2>1, <2>3, Zenon DEF FuseInv, CacheInv
  <2> QED
    BY <2>2, <2>4, Zenon DEF FuseInv
<1> QED
  BY <1>1, <1>2, <1>3, <1>4, <1>5, ProgramChangesInv, ReadInv, ReaddirInv, PrepopulateInv, ReaddirFailsInv,
     MountLocalInv, RunInv, LoopEndsInv, TickInv, Zenon
  DEF Next

(***************************************************************************)
(* The handle's mountpoint and FUSE handle come and go together, with the  *)
(* hash tables, of which a failed init_dir_caches leaves empty ones, and   *)
(* every entry of a cache is what the guest has, or expires in time,       *)
(* whatever is mounted, changed, renamed, linked, read, listed and         *)
(* unmounted (fuse.c).                                                     *)
(***************************************************************************)
THEOREM FuseInvariance == Spec => []FuseInv
<1>1. Init => FuseInv
  BY InitFuse, Zenon
<1>2. FuseInv /\ [Next]_vars => FuseInv'
  BY FuseStep, Zenon
<1> QED
  BY <1>1, <1>2, PTL DEF Spec

(***************************************************************************)
(* What getattr, access, getxattr, listxattr and readlink answer from the  *)
(* caches is what the guest has; only what an operation on another path    *)
(* has changed, and an access time that a read has set, may be answered as *)
(* it was, for at most cachetimeout.                                       *)
(***************************************************************************)
THEOREM AnswersAreCurrent == Spec => []ServedIsCurrent
<1>1. FuseInv => ServedIsCurrent
  <2> SUFFICES ASSUME FuseInv, pc # "program", NEW p \in Paths
               PROVE  Answers(p) = {Actual(p)} \/ now <= behind[p] + opts.timeout
    BY Zenon DEF ServedIsCurrent
  <2>1. OrGuest(Lookup(p), p) = Actual(p) \/ now <= behind[p] + opts.timeout
    <3>1. CASE cache[p].timeout >= now /\ cache[p].timeout <= behind[p] + opts.timeout
      BY <3>1, Entry, InLoop
    <3>2. CASE Lookup(p) \in {Nothing, Actual(p)}
      BY <3>2, Zenon DEF OrGuest
    <3> QED
      BY <3>1, <3>2, Entry, Zenon DEF Lookup
  <2>2. which \in Caches => Answers(p) = {OrGuest(Lookup(p), p)}
    BY Zenon DEF Caches, Answers, mount_local_getattr, mount_local_access, mount_local_getxattr,
       mount_local_listxattr, mount_local_readlink, lsc_lookup, xac_lookup, rlc_lookup
  <2> QED
    BY <2>1, <2>2, Zenon DEF FuseInv, MountInv, TypeOK
<1> QED
  BY <1>1, FuseInvariance, PTL

=============================================================================
