------------------------ MODULE VersionedFuseProofs ------------------------
(***************************************************************************)
(* What VersionedFuse promises of a mount, for every number of calls,      *)
(* inodes, handles and versions and every set of names and contents.       *)
(*                                                                         *)
(* A write through a handle never brings back a file that was deleted      *)
(* (NothingResurrected): the version a handle remembers is not ahead of    *)
(* the file's, and behind that of a deleted one (Versions).  The inode     *)
(* maps agree (MapsAlwaysAgree): path and inode maps are inverse to each   *)
(* other, every name a directory lists has an inode of the kind it is      *)
(* listed with, and the next inode was never used (Agreement); each call   *)
(* keeps that through what it does to the tree (Tree), link by link.       *)
(*                                                                         *)
(* Outside of what a rename disturbed, an acknowledged file is found and   *)
(* read back (FilesAlwaysKept) and nothing else is listed                  *)
(* (NothingElseListed), if no file of the mounted store lies below another *)
(* one (FilesFormTree): every path of the maps is linked from the root     *)
(* down, and every entry stands for something that was made (Tidy).        *)
(***************************************************************************)
EXTENDS VersionedFuse, TLAPS, WellFoundedInduction, FiniteSetTheorems, SequenceTheorems

\* f is a function.
Fn(f) == f = [x \in DOMAIN f |-> f[x]]
-----------------------------------------------------------------------------
(* The files of the store *)

\* The store's entry e, as a record.
Record(e) == [version |-> e.version, deleted |-> e.deleted, data |-> e.data]

\* The versions of the store: the last one of a file can be its deletion.
StoreOK ==
  /\ Fn(store)
  /\ \A p \in DOMAIN store :
       /\ store[p] = Record(store[p])
       /\ store[p].deleted \in BOOLEAN
       /\ store[p].version \in IF store[p].deleted THEN 1..(MaxVersion + 1) ELSE 0..MaxVersion

\* The version of a handle is not ahead of its file's, and behind that of a
\* deleted file.
HandlesOK ==
  /\ Fn(openFiles)
  /\ \A fh \in DOMAIN openFiles :
       LET h == openFiles[fh]
       IN  /\ h = [path |-> h.path, version |-> h.version]
           /\ h.version \in Nat
           /\ h.path \notin DOMAIN store => h.version = 0
           /\ h.path \in DOMAIN store => h.version <= store[h.path].version
           /\ h.path \in DOMAIN store /\ store[h.path].deleted => h.version < store[h.path].version

\* How a step leaves the store: a file's version does not go back, a deleted
\* file stays as it is, and one that is deleted now has a new version.
Evolves ==
  /\ DOMAIN store \subseteq DOMAIN store'
  /\ \A p \in DOMAIN store :
       /\ store[p].version <= store'[p].version
       /\ store[p].deleted => store'[p] = store[p]
       /\ store'[p].deleted /\ ~store[p].deleted => store[p].version < store'[p].version
  /\ \A p \in DOMAIN store' \ DOMAIN store : ~store'[p].deleted

\* A file that is not a deleted one is written.
LEMMA WrittenEvolves ==
  ASSUME StoreOK, NEW p, NEW d, store' = Written(p, d), store'[p].version <= MaxVersion,
         p \in DOMAIN store => ~store[p].deleted
  PROVE  StoreOK' /\ Evolves
<1> DEFINE v == IF p \in DOMAIN store THEN store[p].version + 1 ELSE 0
           e == [version |-> v, deleted |-> FALSE, data |-> d]
<1>1. store' = [q \in DOMAIN store \cup {p} |-> IF q = p THEN e ELSE store[q]]
  BY DEF Written, With
<1>2. MaxVersion \in Nat
  BY BoundsAssumption
<1>3. v \in Nat /\ (p \in DOMAIN store => store[p].version < v)
  BY <1>2 DEF StoreOK
<1>4. e.version = v /\ e.deleted = FALSE /\ e = Record(e)
  BY DEF Record
<1> HIDE DEF e, v
<1>5. DOMAIN store' = {p} \cup DOMAIN store /\ store'[p] = e /\ \A q \in DOMAIN store : q # p => store'[q] = store[q]
  BY <1>1
<1>6. v \in 0..MaxVersion
  BY <1>2, <1>3, <1>4, <1>5
<1>7. StoreOK'
  <2>1. Fn(store)'
    BY <1>1 DEF Fn
  <2> QED BY <2>1, <1>4, <1>5, <1>6 DEF StoreOK, Record
<1>8. \A q \in DOMAIN store : store[q].version <= store[q].version
  BY <1>2 DEF StoreOK
<1>9. Evolves
  <2>1. ASSUME NEW q \in DOMAIN store
        PROVE /\ store[q].version <= store'[q].version
              /\ store[q].deleted => store'[q] = store[q]
              /\ store'[q].deleted /\ ~store[q].deleted => store[q].version < store'[q].version
    <3>1. CASE q = p
      BY <1>2, <1>3, <1>4, <1>5, <2>1, <3>1 DEF StoreOK
    <3>2. CASE q # p
      BY <1>5, <1>8, <3>2
    <3> QED BY <3>1, <3>2
  <2> QED BY <1>4, <1>5, <2>1 DEF Evolves
<1> QED BY <1>7, <1>9

\* Fields of a deleted entry.
LEMMA EntryDeleted ==
  ASSUME NEW e, e = Record(e), e.version \in 0..MaxVersion
  PROVE  LET x == [e EXCEPT !.deleted = TRUE, !.version = @ + 1]
         IN  /\ x = Record(x) /\ x.deleted = TRUE
             /\ x.version \in 1..(MaxVersion + 1) /\ e.version < x.version
<1> DEFINE w == e.version + 1
           x == [e EXCEPT !.deleted = TRUE, !.version = @ + 1]
<1>1. w \in 1..(MaxVersion + 1) /\ e.version < w
  BY BoundsAssumption
<1>2. x = [version |-> w, deleted |-> TRUE, data |-> e.data]
  <2>1. x = [Record(e) EXCEPT !.deleted = TRUE, !.version = w]
    OBVIOUS
  <2> HIDE DEF x, w
  <2> QED BY <2>1 DEF Record
<1> HIDE DEF x, w
<1>3. x.version = w /\ x.deleted = TRUE /\ x = Record(x)
  BY <1>2 DEF Record
<1> QED BY <1>1, <1>3 DEF x

\* A live file's entry is replaced by a deleted one.
LEMMA EntryEvolves ==
  ASSUME StoreOK, NEW p \in DOMAIN store, NEW e, ~store[p].deleted,
         e = Record(e), e.deleted = TRUE, e.version \in 1..(MaxVersion + 1),
         store[p].version < e.version, store' = [store EXCEPT ![p] = e]
  PROVE  StoreOK' /\ Evolves
<1>1. Fn(store') /\ DOMAIN store' = DOMAIN store /\ store'[p] = e
      /\ \A q \in DOMAIN store : q # p => store'[q] = store[q]
  BY DEF Fn, StoreOK
<1>2. StoreOK'
  BY <1>1 DEF StoreOK, Record
<1>3. Evolves
  <2>1. \A q \in DOMAIN store : store[q].version <= store[q].version
    BY BoundsAssumption DEF StoreOK
  <2>2. store[p].version <= store'[p].version
    BY <1>1, BoundsAssumption DEF StoreOK
  <2>3. \A q \in DOMAIN store : store[q].version <= store'[q].version
    BY <1>1, <2>1, <2>2
  <2> QED BY <1>1, <2>3 DEF Evolves
<1> QED BY <1>2, <1>3

\* A live file is deleted in a store that evolved from this one.
LEMMA DeletedEvolves ==
  ASSUME StoreOK, NEW p, Live(p), store' = Deleted(p)
  PROVE  StoreOK' /\ Evolves
<1> DEFINE e == [store[p] EXCEPT !.deleted = TRUE, !.version = @ + 1]
<1>1. p \in DOMAIN store /\ store[p].deleted = FALSE /\ store[p] = Record(store[p])
      /\ store[p].version \in 0..MaxVersion /\ Fn(store)
  BY DEF Live, StoreOK
<1>2. store' = [store EXCEPT ![p] = e]
  BY <1>1 DEF Deleted, Fn
<1>3. /\ e = Record(e) /\ e.deleted = TRUE
      /\ e.version \in 1..(MaxVersion + 1) /\ store[p].version < e.version
  BY <1>1, EntryDeleted
<1> HIDE DEF e
<1> QED BY <1>1, <1>2, <1>3, EntryEvolves

\* Renaming a live file: the copy is a write of a new file, then the old one
\* is deleted.
LEMMA CopiedEvolves ==
  ASSUME StoreOK, NEW p, NEW q, p # q, Live(p), store' = Copied(p, q)
  PROVE  StoreOK' /\ Evolves
<1> DEFINE e == [store[p] EXCEPT !.deleted = TRUE, !.version = @ + 1]
           c == [version |-> 0, deleted |-> FALSE, data |-> store[p].data]
<1>1. p \in DOMAIN store /\ store[p].deleted = FALSE /\ store[p] = Record(store[p])
      /\ store[p].version \in 0..MaxVersion /\ Fn(store)
  BY DEF Live, StoreOK
<1>2. /\ e = Record(e) /\ e.deleted = TRUE
      /\ e.version \in 1..(MaxVersion + 1) /\ store[p].version < e.version
  BY <1>1, EntryDeleted
<1>3. c = Record(c) /\ c.deleted = FALSE /\ c.version = 0 /\ 0 \in 0..MaxVersion
  BY BoundsAssumption DEF Record
<1>4. Accepts(q, NoVersion) => q \notin DOMAIN store
  BY BoundsAssumption DEF Accepts, NoVersion, StoreOK
<1>5. \/ store' = [store EXCEPT ![p] = e]
      \/ q \notin DOMAIN store /\ store' = [With(store, q, c) EXCEPT ![p] = e]
  <2>1. CASE Accepts(q, NoVersion)
    <3>1. store' = [With(store, q, c) EXCEPT ![p].deleted = TRUE, ![p].version = @ + 1]
      BY <2>1 DEF Copied
    <3>2. Fn(With(store, q, c)) /\ p \in DOMAIN With(store, q, c) /\ With(store, q, c)[p] = store[p]
      BY <1>1 DEF With, Fn
    <3> HIDE DEF c
    <3>3. store' = [With(store, q, c) EXCEPT ![p] = e]
      BY <3>1, <3>2 DEF Fn
    <3> QED BY <1>4, <2>1, <3>3
  <2>2. CASE ~Accepts(q, NoVersion)
    BY <1>1, <2>2 DEF Copied, Fn
  <2> QED BY <2>1, <2>2
<1> HIDE DEF e, c
<1>6. CASE store' = [store EXCEPT ![p] = e]
  BY <1>1, <1>2, <1>6, EntryEvolves
<1>7. CASE q \notin DOMAIN store /\ store' = [With(store, q, c) EXCEPT ![p] = e]
  <2>1. Fn(store') /\ DOMAIN store' = DOMAIN store \cup {q} /\ store'[p] = e /\ store'[q] = c
        /\ \A x \in DOMAIN store : x # p => store'[x] = store[x]
    BY <1>1, <1>7 DEF Fn, With
  <2>2. StoreOK'
    <3>1. ASSUME NEW x \in DOMAIN store'
          PROVE  /\ store'[x] = Record(store'[x]) /\ store'[x].deleted \in BOOLEAN
                 /\ store'[x].version \in IF store'[x].deleted THEN 1..(MaxVersion + 1)
                                                              ELSE 0..MaxVersion
      <4>1. CASE x = p
        BY <1>2, <2>1, <4>1
      <4>2. CASE x = q
        BY <1>3, <2>1, <4>2
      <4>3. CASE x \in DOMAIN store /\ x # p
        <5>1. store'[x] = store[x]
          BY <2>1, <4>3
        <5> QED BY <4>3, <5>1 DEF StoreOK
      <4> QED BY <2>1, <4>1, <4>2, <4>3
    <3> QED BY <2>1, <3>1 DEF StoreOK
  <2>3. Evolves
    <3>1. \A x \in DOMAIN store : store[x].version <= store[x].version
      BY BoundsAssumption DEF StoreOK
    <3>2. store[p].version <= store'[p].version
      BY <1>1, <1>2, <2>1, BoundsAssumption
    <3>3. \A x \in DOMAIN store : store[x].version <= store'[x].version
      BY <2>1, <3>1, <3>2
    <3> QED BY <1>1, <1>2, <1>3, <1>7, <2>1, <3>3 DEF Evolves
  <2> QED BY <2>2, <2>3
<1> QED BY <1>5, <1>6, <1>7

\* A write that is accepted is not one of a deleted file.
LEMMA WriteOfLive ==
  ASSUME StoreOK, HandlesOK, NEW fh \in DOMAIN openFiles, NEW offset, NEW data,
         Write(fh, offset, data), openFiles[fh].path \in DOMAIN store
  PROVE  ~store[openFiles[fh].path].deleted
<1> DEFINE h == openFiles[fh]
           e == store[h.path]
           x == Expected(fh, offset, data)
<1>1. Accepts(h.path, x)
  BY DEF Write
<1>2. x = NoVersion \/ x = h.version
  BY DEF Expected
<1>3. e.deleted => h.version < e.version
  BY DEF HandlesOK
<1>4. e.version \in 0..(MaxVersion + 1) /\ h.version \in Nat
  BY BoundsAssumption DEF StoreOK, HandlesOK
<1> HIDE DEF x, h
<1>5. x = e.version
  BY <1>1 DEF Accepts, h
<1> HIDE DEF e
<1> QED BY <1>2, <1>3, <1>4, <1>5, BoundsAssumption DEF NoVersion, e, h

\* What the requests do to the store.
LEMMA WhoMovesStore ==
  ASSUME StoreOK, HandlesOK, [Next]_vars
  PROVE  \/ UNCHANGED store
         \/ \E p, d : /\ p \in DOMAIN store => ~store[p].deleted
                      /\ store' = Written(p, d) /\ store'[p].version <= MaxVersion
         \/ \E p : Live(p) /\ store' = Deleted(p)
         \/ \E p, q : p # q /\ Live(p) /\ store' = Copied(p, q)
<1> DEFINE Goal == \/ UNCHANGED store
                   \/ \E p, d : /\ p \in DOMAIN store => ~store[p].deleted
                                /\ store' = Written(p, d) /\ store'[p].version <= MaxVersion
                   \/ \E p : Live(p) /\ store' = Deleted(p)
                   \/ \E p, q : p # q /\ Live(p) /\ store' = Copied(p, q)
<1>1. CASE UNCHANGED vars
  BY <1>1 DEF vars
<1>2. ASSUME NEW ino, Open(ino) PROVE Goal
  BY <1>2 DEF Open
<1>3. ASSUME NEW ino, NEW size, Truncate(ino, size) PROVE Goal
  BY <1>3 DEF Truncate, Live
<1>4. ASSUME NEW fh \in DOMAIN openFiles, NEW offset, NEW data, Write(fh, offset, data) PROVE Goal
  <2>1. openFiles[fh].path \in DOMAIN store => ~store[openFiles[fh].path].deleted
    BY <1>4, WriteOfLive
  <2> QED BY <1>4, <2>1 DEF Write
<1>5. ASSUME NEW fh, Release(fh) PROVE Goal
  BY <1>5 DEF Release
<1>6. ASSUME NEW parent, NEW name, Create(parent, name) PROVE Goal
  <2> DEFINE p == Append(tree.paths[parent], name)
  <2>1. Accepts(p, NoVersion) /\ store' = Written(p, <<>>)
    BY <1>6 DEF Create
  <2>2. p \notin DOMAIN store
    <3> HIDE DEF p
    <3> QED BY <2>1, BoundsAssumption DEF Accepts, NoVersion, StoreOK
  <2>3. store'[p].version = 0
    <3> HIDE DEF p
    <3> QED BY <2>1, <2>2 DEF Written, With
  <2>4. 0 <= MaxVersion
    BY BoundsAssumption
  <2> QED BY <2>1, <2>2, <2>3, <2>4
<1>7. ASSUME NEW parent, NEW name, Unlink(parent, name) PROVE Goal
  BY <1>7 DEF Unlink
<1>8. ASSUME NEW parent, NEW name, NEW newparent, NEW newname,
             Rename(parent, name, newparent, newname)
      PROVE Goal
  <2> DEFINE old == Append(tree.paths[parent], name)
             new == Append(tree.paths[newparent], newname)
  <2>1. old # new
    BY <1>8 DEF Rename, Lookup
  <2>2. store' = store \/ (Live(old) /\ store' = Copied(old, new))
    BY <1>8 DEF Rename
  <2> HIDE DEF old, new
  <2> QED BY <2>1, <2>2
<1>9. ASSUME NEW parent, NEW name,
             \/ MkDir(parent, name) \/ RmDir(parent, name)
             \/ \E target \in Targets : Symlink(parent, name, target)
      PROVE Goal
  BY <1>9 DEF MkDir, RmDir, Symlink
<1>10. ASSUME OnXattrs PROVE Goal
  BY <1>10 DEF OnXattrs, SetXattr, RemoveXattr
<1> QED
  BY <1>1, <1>2, <1>3, <1>4, <1>5, <1>6, <1>7, <1>8, <1>9, <1>10 DEF Next, OnHandles, OnNames

\* A handle says no more than the evolving store allows.
LEMMA HandleEvolves ==
  ASSUME StoreOK, StoreOK', Evolves, NEW h,
         h.version \in Nat,
         h.path \notin DOMAIN store => h.version = 0,
         h.path \in DOMAIN store => h.version <= store[h.path].version,
         h.path \in DOMAIN store /\ store[h.path].deleted => h.version < store[h.path].version
  PROVE  /\ h.path \notin DOMAIN store' => h.version = 0
         /\ h.path \in DOMAIN store' => h.version <= store'[h.path].version
         /\ h.path \in DOMAIN store' /\ store'[h.path].deleted => h.version < store'[h.path].version
<1> DEFINE p == h.path
           e == store[p]
           x == store'[p]
<1>1. p \in DOMAIN store => e.version \in Nat
  BY BoundsAssumption DEF StoreOK
<1>2. p \in DOMAIN store' => x.version \in Nat
  BY BoundsAssumption DEF StoreOK
<1>3. CASE p \in DOMAIN store
  <2>1. p \in DOMAIN store' /\ e.version <= x.version /\ (e.deleted => x = e)
        /\ (x.deleted /\ ~e.deleted => e.version < x.version)
    BY <1>3 DEF Evolves
  <2>2. h.version <= e.version /\ (e.deleted => h.version < e.version)
    BY <1>3
  <2>3. x.deleted => h.version < x.version
    <3>1. CASE e.deleted
      BY <2>1, <2>2, <3>1
    <3>2. CASE ~e.deleted
      <4> HIDE DEF e, x
      <4> QED BY <1>1, <1>2, <1>3, <2>1, <2>2, <3>2
    <3> QED BY <3>1, <3>2
  <2>4. h.version <= x.version
    <3> HIDE DEF e, x
    <3> QED BY <1>1, <1>2, <1>3, <2>1, <2>2
  <2> QED BY <2>1, <2>3, <2>4
<1>4. CASE p \notin DOMAIN store
  <2>1. h.version = 0 /\ (p \in DOMAIN store' => ~x.deleted)
    BY <1>4 DEF Evolves
  <2>2. p \in DOMAIN store' => 0 <= x.version
    BY <1>2
  <2> QED BY <2>1, <2>2
<1> QED BY <1>3, <1>4

\* What the requests do to the handles.
LEMMA HandlesNext ==
  ASSUME StoreOK, HandlesOK, StoreOK', Evolves, [Next]_vars
  PROVE  HandlesOK'
<1> DEFINE Good(h) ==
             /\ h = [path |-> h.path, version |-> h.version]
             /\ h.version \in Nat
             /\ h.path \notin DOMAIN store' => h.version = 0
             /\ h.path \in DOMAIN store' => h.version <= store'[h.path].version
             /\ h.path \in DOMAIN store' /\ store'[h.path].deleted =>
                  h.version < store'[h.path].version
<1>1. \A fh \in DOMAIN openFiles : Good(openFiles[fh])
  BY HandleEvolves DEF HandlesOK
<1>2. Fn(openFiles)
  BY DEF HandlesOK
<1>3. ASSUME Fn(openFiles'), \A fh \in DOMAIN openFiles' : Good(openFiles'[fh])
      PROVE  HandlesOK'
  BY <1>3 DEF HandlesOK, Fn
<1>4. ASSUME NEW p, NEW v \in Nat, AllocateFh(p, v),
             Good([path |-> p, version |-> v])
      PROVE  HandlesOK'
  <2> DEFINE h == [path |-> p, version |-> v]
  <2>1. openFiles' = With(openFiles, nextFh, h)
    BY <1>4 DEF AllocateFh
  <2> HIDE DEF h
  <2>2. /\ Fn(openFiles') /\ openFiles'[nextFh] = h /\ DOMAIN openFiles' = DOMAIN openFiles \cup {nextFh}
        /\ \A fh \in DOMAIN openFiles : fh # nextFh => openFiles'[fh] = openFiles[fh]
    BY <2>1 DEF With, Fn
  <2>3. Good(h)
    BY <1>4 DEF h
  <2> HIDE DEF Good
  <2> QED BY <1>1, <1>3, <2>2, <2>3
<1>5. CASE UNCHANGED openFiles
  BY <1>1, <1>2, <1>3, <1>5
<1>6. ASSUME NEW ino, Open(ino) PROVE HandlesOK'
  <2> DEFINE p == tree.paths[ino]
             v == IF Live(p) THEN store[p].version ELSE 0
  <2>1. AllocateFh(p, v) /\ store' = store
    BY <1>6 DEF Open
  <2> HIDE DEF p
  <2>2. v \in Nat
    BY BoundsAssumption DEF Live, StoreOK
  <2>3. p \in DOMAIN store => v <= store[p].version /\ (store[p].deleted => v < store[p].version)
    BY BoundsAssumption DEF Live, StoreOK
  <2>4. p \notin DOMAIN store => v = 0
    BY DEF Live
  <2> HIDE DEF v
  <2>5. Good([path |-> p, version |-> v])
    BY <2>1, <2>2, <2>3, <2>4
  <2> QED BY <1>4, <2>1, <2>2, <2>5
<1>7. ASSUME NEW fh, Release(fh) PROVE HandlesOK'
  <2>1. openFiles' = Without(openFiles, fh)
    BY <1>7 DEF Release
  <2>2. Fn(openFiles') /\ DOMAIN openFiles' \subseteq DOMAIN openFiles
        /\ \A x \in DOMAIN openFiles' : openFiles'[x] = openFiles[x]
    BY <2>1 DEF Without, Fn
  <2> HIDE DEF Good
  <2> QED BY <1>1, <1>3, <2>2
<1>8. ASSUME NEW fh \in DOMAIN openFiles, NEW offset, NEW data, Write(fh, offset, data)
      PROVE  HandlesOK'
  <2> DEFINE p == openFiles[fh].path
             v == store'[p].version
  <2>1. /\ openFiles' = [openFiles EXCEPT ![fh].version = v]
        /\ p \in DOMAIN store' /\ ~store'[p].deleted /\ v \in Nat
    <3> DEFINE d == Overlay(ReadOrEmpty(p), offset, data)
    <3>1. openFiles' = [openFiles EXCEPT ![fh].version = v] /\ store' = Written(p, d)
      BY <1>8 DEF Write
    <3> HIDE DEF p, d
    <3>2. p \in DOMAIN store' /\ ~store'[p].deleted
      BY <3>1 DEF Written, With
    <3>3. v \in Nat
      BY <3>2, BoundsAssumption DEF StoreOK
    <3> QED BY <3>1, <3>2, <3>3 DEF p
  <2>2. openFiles[fh] = [path |-> p, version |-> openFiles[fh].version]
    BY DEF HandlesOK
  <2>3. [openFiles[fh] EXCEPT !.version = v] = [path |-> p, version |-> v]
    <3> HIDE DEF v
    <3> QED BY <2>2
  <2>4. openFiles' = [openFiles EXCEPT ![fh] = [path |-> p, version |-> v]]
    BY <1>2, <2>1, <2>3 DEF Fn
  <2>5. Good([path |-> p, version |-> v])
    BY <2>1
  <2> HIDE DEF p, v
  <2>6. /\ Fn(openFiles') /\ openFiles'[fh] = [path |-> p, version |-> v]
        /\ DOMAIN openFiles' = DOMAIN openFiles
        /\ \A x \in DOMAIN openFiles : x # fh => openFiles'[x] = openFiles[x]
    BY <1>2, <2>4 DEF Fn
  <2> HIDE DEF Good
  <2> QED BY <1>1, <1>3, <2>5, <2>6
<1>9. ASSUME NEW parent, NEW name, Create(parent, name) PROVE HandlesOK'
  <2> DEFINE p == Append(tree.paths[parent], name)
  <2>1. AllocateFh(p, 0) /\ store' = Written(p, <<>>)
    BY <1>9 DEF Create
  <2> HIDE DEF p
  <2>2. p \in DOMAIN store' /\ ~store'[p].deleted
    BY <2>1 DEF Written, With
  <2>3. 0 <= store'[p].version
    BY <2>2, BoundsAssumption DEF StoreOK
  <2>4. Good([path |-> p, version |-> 0])
    BY <2>2, <2>3
  <2> QED BY <1>4, <2>1, <2>4
<1>10. ASSUME NEW ino, NEW size, Truncate(ino, size) PROVE UNCHANGED openFiles
  BY <1>10 DEF Truncate
<1>11. ASSUME NEW parent, NEW name,
              \/ Unlink(parent, name) \/ MkDir(parent, name) \/ RmDir(parent, name)
              \/ \E target \in Targets : Symlink(parent, name, target)
              \/ \E newparent \in Held, newname \in Names : Rename(parent, name, newparent, newname)
       PROVE  UNCHANGED openFiles
  BY <1>11 DEF Unlink, MkDir, RmDir, Symlink, Rename
<1>12. ASSUME OnXattrs PROVE UNCHANGED openFiles
  BY <1>12 DEF OnXattrs, SetXattr, RemoveXattr
<1>13. CASE UNCHANGED vars
  BY <1>5, <1>13 DEF vars
<1> HIDE <1>1, <1>3, <1>4
<1> QED
  BY <1>5, <1>6, <1>7, <1>8, <1>9, <1>10, <1>11, <1>12, <1>13 DEF Next, OnHandles, OnNames

\* Files and handles together are an invariant.
Versions == StoreOK /\ HandlesOK

\* Each step keeps the versions in step, and only lets them grow.
LEMMA VersionsNext == ASSUME Versions, [Next]_vars PROVE Versions' /\ Evolves
<1>1. StoreOK /\ HandlesOK
  BY DEF Versions
<1>2. StoreOK' /\ Evolves
  <2>1. CASE UNCHANGED store
    <3>1. \A p \in DOMAIN store : store[p].version <= store[p].version
      BY <1>1, BoundsAssumption DEF StoreOK
    <3> QED BY <1>1, <2>1, <3>1 DEF StoreOK, Evolves
  <2>2. CASE \E p, d : /\ p \in DOMAIN store => ~store[p].deleted
                       /\ store' = Written(p, d) /\ store'[p].version <= MaxVersion
    BY <1>1, <2>2, WrittenEvolves
  <2>3. CASE \E p : Live(p) /\ store' = Deleted(p)
    BY <1>1, <2>3, DeletedEvolves
  <2>4. CASE \E p, q : p # q /\ Live(p) /\ store' = Copied(p, q)
    BY <1>1, <2>4, CopiedEvolves
  <2> QED BY <1>1, <2>1, <2>2, <2>3, <2>4, WhoMovesStore
<1> QED BY <1>1, <1>2, HandlesNext DEF Versions

\* They are in step when the filesystem is mounted.
LEMMA VersionsInit == Init => Versions
<1> SUFFICES ASSUME Init PROVE Versions
  OBVIOUS
<1>1. StoreOK
  <2> DEFINE ps == {InitFiles[i][1] : i \in DOMAIN InitFiles}
             d(p) == InitFiles[CHOOSE i \in DOMAIN InitFiles : InitFiles[i][1] = p][2]
  <2>1. store = [p \in ps |-> [version |-> 0, deleted |-> FALSE, data |-> d(p)]]
    BY DEF Init
  <2> HIDE DEF ps, d
  <2>2. Fn(store) /\ \A p \in DOMAIN store :
          store[p] = [version |-> 0, deleted |-> FALSE, data |-> d(p)]
    BY <2>1 DEF Fn
  <2>3. \A p \in DOMAIN store :
          /\ store[p].version = 0 /\ store[p].deleted = FALSE
          /\ store[p] = Record(store[p])
    BY <2>2 DEF Record
  <2>4. 0 \in 0..MaxVersion
    BY BoundsAssumption
  <2> QED BY <2>2, <2>3, <2>4 DEF StoreOK
<1>2. openFiles = <<>>
  BY DEF Init
<1>3. HandlesOK
  BY <1>2 DEF HandlesOK, Fn
<1> QED BY <1>1, <1>3 DEF Versions

\* A deleted file stays deleted, whatever handles are open on its path.
THEOREM NothingResurrected == Spec => NoResurrection
<1>1. ASSUME Versions, [Next]_vars
      PROVE  [\A p \in DOMAIN store : store[p].deleted => store'[p].deleted]_vars
  BY <1>1, VersionsNext DEF Evolves
<1> QED BY <1>1, VersionsInit, VersionsNext, PTL DEF Spec, NoResurrection
-----------------------------------------------------------------------------
(* The tree of inodes *)

\* A path is a sequence of so many names.
LEMMA PathIsSeq == \A p : p \in Paths <=> p \in Seq(Names) /\ Len(p) <= MaxDepth
<1>1. ASSUME NEW p \in Paths PROVE p \in Seq(Names) /\ Len(p) <= MaxDepth
  <2>1. PICK n \in 0..MaxDepth : p \in [1..n -> Names]
    BY DEF Paths
  <2>2. n \in Nat /\ n <= MaxDepth
    BY BoundsAssumption
  <2>3. p \in Seq(Names)
    BY <2>1, <2>2, SeqDef
  <2>4. Len(p) \in Nat /\ DOMAIN p = 1..Len(p) /\ DOMAIN p = 1..n
    BY <2>1, <2>3, LenProperties
  <2>5. \A k, m \in Nat : 1..k = 1..m => k = m
    <3> SUFFICES ASSUME NEW k \in Nat, NEW m \in Nat, 1..k = 1..m, k # m PROVE FALSE
      OBVIOUS
    <3>1. CASE k < m
      <4>1. m \in 1..m /\ m \notin 1..k
        BY <3>1
      <4> QED BY <4>1
    <3>2. CASE m < k
      <4>1. k \in 1..k /\ k \notin 1..m
        BY <3>2
      <4> QED BY <4>1
    <3> QED BY <3>1, <3>2
  <2>6. Len(p) = n
    BY <2>2, <2>4, <2>5
  <2> QED BY <2>2, <2>3, <2>6
<1>2. ASSUME NEW p \in Seq(Names), Len(p) <= MaxDepth PROVE p \in Paths
  <2>1. Len(p) \in Nat /\ p \in [1..Len(p) -> Names]
    BY LenProperties
  <2>2. Len(p) \in 0..MaxDepth
    BY <1>2, <2>1, BoundsAssumption
  <2> QED BY <2>1, <2>2 DEF Paths
<1> QED BY <1>1, <1>2

\* The levels of a path are paths, one of each length.
LEMMA Levels ==
  ASSUME NEW p \in Paths, NEW i \in 0..Len(p)
  PROVE  /\ SubSeq(p, 1, i) \in Paths /\ Len(SubSeq(p, 1, i)) = i
         /\ \A j \in 1..i : SubSeq(p, 1, i)[j] = p[j]
<1>1. p \in Seq(Names) /\ Len(p) \in Nat /\ Len(p) <= MaxDepth /\ i \in Nat /\ i <= Len(p)
      /\ \A j \in 1..Len(p) : p[j] \in Names
  BY PathIsSeq, LenProperties
<1>2. \A j \in 1..i : p[j] \in Names
  BY <1>1
<1>3. /\ SubSeq(p, 1, i) \in Seq(Names)
      /\ Len(SubSeq(p, 1, i)) = IF 1 <= i THEN i - 1 + 1 ELSE 0
      /\ \A j \in 1..(i - 1 + 1) : SubSeq(p, 1, i)[j] = p[1 + j - 1]
  BY <1>1, <1>2, SubSeqProperties
<1>4. Len(SubSeq(p, 1, i)) = i
  BY <1>1, <1>3
<1>5. \A j \in 1..i : j \in 1..(i - 1 + 1) /\ 1 + j - 1 = j
  BY <1>1
<1>6. SubSeq(p, 1, i) \in Paths
  <2>1. Len(SubSeq(p, 1, i)) <= MaxDepth
    <3>1. \A a, b, c \in Int : a <= b /\ b <= c => a <= c
      OBVIOUS
    <3> QED BY <1>1, <1>4, <3>1, BoundsAssumption
  <2> QED BY <1>3, <2>1, PathIsSeq
<1> QED BY <1>3, <1>4, <1>5, <1>6

\* The inodes that were given out.
Given(t) == 1..(t.next - 1)

\* The maps of a tree agree.
TreeOK(t) ==
  /\ t = Tree(t.paths, t.inodes, t.dirs, t.parents, t.next)
  /\ t.next \in Nat /\ t.next > RootIno
  /\ Fn(t.paths) /\ Fn(t.inodes) /\ Fn(t.dirs) /\ Fn(t.parents)
  /\ DOMAIN t.paths \subseteq Given(t)
  /\ \A i \in DOMAIN t.paths : t.paths[i] \in Paths
  /\ DOMAIN t.inodes \subseteq Paths /\ <<>> \in DOMAIN t.inodes
  /\ \A p \in DOMAIN t.inodes : t.inodes[p] \in DOMAIN t.paths /\ t.paths[t.inodes[p]] = p
  /\ DOMAIN t.dirs \subseteq Given(t)
  /\ \A d \in DOMAIN t.dirs : \A e \in t.dirs[d] :
       e.ino \in Given(t) /\ e.name \in Names /\ e.kind \in {"file", "dir", "symlink"}
  /\ \A i \in DOMAIN t.parents : t.parents[i] \in Given(t)

\* The inodes for the levels of a path: the known ones, and distinct new ones.
LEMMA InodesFor ==
  ASSUME NEW t, TreeOK(t), NEW p \in Paths, NEW ino, NEW M, NEW new,
         ino = InodeFor(t, p), M = Missing(t, p), new = t.next + Cardinality(M)
  PROVE  /\ new \in Nat /\ t.next <= new
         /\ DOMAIN ino = 0..Len(p) /\ Len(p) \in Nat /\ M \subseteq 1..Len(p)
         /\ \A i \in 0..Len(p) : ino[i] \in 1..(new - 1)
         /\ \A i \in M : ino[i] >= t.next
         /\ \A i, j \in M : ino[i] = ino[j] => i = j
         /\ \A i \in 0..Len(p) : i \notin M =>
              /\ SubSeq(p, 1, i) \in DOMAIN t.inodes
              /\ ino[i] = t.inodes[SubSeq(p, 1, i)] /\ ino[i] \in DOMAIN t.paths
              /\ ino[i] < t.next /\ t.paths[ino[i]] = SubSeq(p, 1, i)
<1> DEFINE L == Len(p)
           before(i) == {j \in M : j < i}
<1>1. L \in Nat /\ t.next \in Nat /\ t.next > 1 /\ M \subseteq 1..L
  BY PathIsSeq, LenProperties DEF TreeOK, RootIno, Missing
<1>2. IsFiniteSet(M) /\ Cardinality(M) \in Nat
  <2>1. IsFiniteSet(1..L)
    BY <1>1, FS_Interval
  <2>2. IsFiniteSet(M)
    BY <1>1, <2>1, FS_Subset
  <2> QED BY <2>2, FS_CardinalityType
<1>3. \A i \in 0..L : ino[i] = IF i \in M THEN t.next + Cardinality(before(i)) ELSE t.inodes[SubSeq(p, 1, i)]
  BY DEF InodeFor
<1>4. DOMAIN ino = 0..L
  BY DEF InodeFor
<1>5. ASSUME NEW i \in M
      PROVE  Cardinality(before(i)) \in Nat /\ Cardinality(before(i)) < Cardinality(M)
  <2>1. before(i) \in SUBSET (M \ {i})
    BY <1>1
  <2>2. IsFiniteSet(M \ {i}) /\ Cardinality(M \ {i}) = Cardinality(M) - 1
    BY <1>2, FS_RemoveElement
  <2>3. IsFiniteSet(before(i)) /\ Cardinality(before(i)) <= Cardinality(M \ {i})
    BY <2>1, <2>2, FS_Subset
  <2>4. Cardinality(before(i)) \in Nat
    BY <2>3, FS_CardinalityType
  <2> HIDE DEF before
  <2> QED BY <1>2, <2>2, <2>3, <2>4
<1>6. ASSUME NEW i \in M, NEW j \in M, i < j
      PROVE  Cardinality(before(i)) < Cardinality(before(j))
  <2>1. before(i) \in SUBSET (before(j) \ {i}) /\ i \in before(j)
    BY <1>1, <1>6
  <2>2. IsFiniteSet(before(j))
    BY <1>2, FS_Subset
  <2>3. IsFiniteSet(before(j) \ {i}) /\ Cardinality(before(j) \ {i}) = Cardinality(before(j)) - 1
    BY <2>1, <2>2, FS_RemoveElement
  <2>4. Cardinality(before(i)) <= Cardinality(before(j) \ {i})
    BY <2>1, <2>3, FS_Subset
  <2>5. Cardinality(before(i)) \in Nat /\ Cardinality(before(j)) \in Nat
    BY <1>5
  <2> HIDE DEF before
  <2> QED BY <2>3, <2>4, <2>5
<1>7. ASSUME NEW i \in M
      PROVE  i \in 1..L /\ i \in 0..L /\ ino[i] \in 1..(new - 1) /\ ino[i] >= t.next
  <2>1. i \in 1..L /\ i \in 0..L
    BY <1>1
  <2>2. ino[i] = t.next + Cardinality(before(i))
    BY <1>3, <2>1
  <2>3. Cardinality(before(i)) \in Nat /\ Cardinality(before(i)) < Cardinality(M)
    BY <1>5
  <2> HIDE DEF before
  <2> QED BY <1>1, <1>2, <2>1, <2>2, <2>3
<1>8. \A i, j \in M : ino[i] = ino[j] => i = j
  <2> SUFFICES ASSUME NEW i \in M, NEW j \in M, ino[i] = ino[j], i # j PROVE FALSE
    OBVIOUS
  <2>1. i \in 0..L /\ j \in 0..L /\ (i < j \/ j < i)
    BY <1>1
  <2>2. ino[i] = t.next + Cardinality(before(i)) /\ ino[j] = t.next + Cardinality(before(j))
    BY <1>3, <2>1
  <2>3. Cardinality(before(i)) \in Nat /\ Cardinality(before(j)) \in Nat
    BY <1>5
  <2> DEFINE k == Cardinality(before(i))
             m == Cardinality(before(j))
  <2>4. k < m \/ m < k
    BY <1>6, <2>1
  <2>5. ino[i] = t.next + k /\ ino[j] = t.next + m /\ k \in Nat /\ m \in Nat
    BY <2>2, <2>3
  <2>6. t.next + k = t.next + m
    BY <2>5
  <2> HIDE DEF k, m
  <2> QED BY <1>1, <2>4, <2>5, <2>6
<1>9. ASSUME NEW i \in 0..L, i \notin M
      PROVE  /\ SubSeq(p, 1, i) \in DOMAIN t.inodes
             /\ ino[i] = t.inodes[SubSeq(p, 1, i)] /\ ino[i] \in DOMAIN t.paths
             /\ t.paths[ino[i]] = SubSeq(p, 1, i)
             /\ ino[i] \in 1..(t.next - 1)
  <2>1. SubSeq(p, 1, i) \in DOMAIN t.inodes
    <3>1. CASE i = 0
      <4>1. SubSeq(p, 1, 0) = <<>>
        BY SubSeqEmpty
      <4> QED BY <3>1, <4>1 DEF TreeOK
    <3>2. CASE i # 0
      <4>1. i \in 1..L
        BY <1>1, <3>2
      <4> QED BY <1>9, <4>1 DEF Missing
    <3> QED BY <3>1, <3>2
  <2>2. ino[i] = t.inodes[SubSeq(p, 1, i)]
    BY <1>3, <1>9
  <2> QED BY <2>1, <2>2 DEF TreeOK, Given
<1> HIDE DEF L
<1>10. new \in Nat /\ t.next <= new
  BY <1>1, <1>2
<1>11. \A i \in 0..L : i \notin M => ino[i] < t.next /\ ino[i] \in 1..(new - 1)
  BY <1>1, <1>2, <1>9
<1>12. \A i \in 0..L : ino[i] \in 1..(new - 1)
  BY <1>7, <1>11
<1> QED BY <1>1, <1>4, <1>7, <1>8, <1>9, <1>10, <1>11, <1>12 DEF L

\* No two levels of a path have the same inode.
LEMMA InodesDiffer ==
  ASSUME NEW t, TreeOK(t), NEW p \in Paths, NEW i \in 0..Len(p), NEW j \in 0..Len(p),
         InodeFor(t, p)[i] = InodeFor(t, p)[j]
  PROVE  i = j
<1> DEFINE ino == InodeFor(t, p)
           M == Missing(t, p)
<1>1. /\ \A k \in M : ino[k] >= t.next
      /\ \A k, l \in M : ino[k] = ino[l] => k = l
      /\ \A k \in 0..Len(p) : k \notin M =>
           ino[k] < t.next /\ ino[k] \in DOMAIN t.paths /\ t.paths[ino[k]] = SubSeq(p, 1, k)
  BY InodesFor
<1>2. \A k \in 0..Len(p) : ino[k] \in Nat
  BY InodesFor
<1>3. t.next \in Nat
  BY DEF TreeOK
<1>4. ino[i] = ino[j]
  OBVIOUS
<1> HIDE DEF ino, M
<1>5. CASE i \in M /\ j \in M
  BY <1>1, <1>4, <1>5
<1>6. CASE i \notin M /\ j \notin M
  <2>1. SubSeq(p, 1, i) = SubSeq(p, 1, j)
    BY <1>1, <1>4, <1>6
  <2> QED BY <2>1, Levels
<1>7. CASE i \in M /\ j \notin M
  BY <1>1, <1>2, <1>3, <1>4, <1>7
<1>8. CASE i \notin M /\ j \in M
  BY <1>1, <1>2, <1>3, <1>4, <1>8
<1> QED BY <1>5, <1>6, <1>7, <1>8

\* The entries that d had, if any, when a file is registered.
EntriesOf(t, d) == IF d \in DOMAIN t.dirs THEN t.dirs[d] ELSE {}

\* The entry for level i of a path.
LevelEntry(ino, p, i) == Entry(ino[i], p[i], IF i = Len(p) THEN "file" ELSE "dir")

\* The entries that registering p adds to d.
EntriesBelow(t, ino, p, d) ==
  {LevelEntry(ino, p, i) :
     i \in {j \in 1..Len(p) : ino[j - 1] = d /\ \A e \in EntriesOf(t, d) : e.name # p[j]}}

\* What register_file does, level by level: r is t with a record, a directory
\* entry and a parent for each level that was missing.
Registration(t, p, r, ino, M) ==
  /\ r = Tree(r.paths, r.inodes, r.dirs, r.parents, r.next)
  /\ r.next = t.next + Cardinality(M)
  /\ Fn(r.paths) /\ Fn(r.inodes) /\ Fn(r.dirs) /\ Fn(r.parents)
  /\ DOMAIN r.paths = DOMAIN t.paths \cup {ino[i] : i \in M}
  /\ \A i \in M : r.paths[ino[i]] = SubSeq(p, 1, i)
  /\ \A n \in DOMAIN t.paths : r.paths[n] = t.paths[n]
  /\ DOMAIN r.inodes = DOMAIN t.inodes \cup {SubSeq(p, 1, i) : i \in M}
  /\ \A i \in 0..Len(p) : r.inodes[SubSeq(p, 1, i)] = ino[i]
  /\ \A q \in DOMAIN t.inodes : r.inodes[q] = t.inodes[q]
  /\ DOMAIN r.dirs = DOMAIN t.dirs \cup {ino[i] : i \in 0..(Len(p) - 1)}
  /\ \A d \in DOMAIN r.dirs : r.dirs[d] = EntriesOf(t, d) \cup EntriesBelow(t, ino, p, d)
  /\ DOMAIN r.parents = DOMAIN t.parents \cup {ino[i] : i \in 1..Len(p)}
  /\ \A i \in 1..Len(p) : r.parents[ino[i]] = ino[i - 1]
  /\ \A n \in DOMAIN t.parents : n \notin {ino[i] : i \in 1..Len(p)} => r.parents[n] = t.parents[n]

LEMMA Registered ==
  ASSUME NEW t, TreeOK(t), NEW p \in Paths, NEW r, NEW ino, NEW M,
         r = RegisterFile(t, p), ino = InodeFor(t, p), M = Missing(t, p)
  PROVE  Registration(t, p, r, ino, M)
<1> DEFINE L == Len(p)
           paths1 == [n \in {ino[i] : i \in M} |-> SubSeq(p, 1, CHOOSE i \in M : ino[i] = n)]
           inodes1 == [q \in {SubSeq(p, 1, i) : i \in M} |-> ino[Len(q)]]
           dirs0  == Over(t.dirs, [d \in {ino[i] : i \in 0..(L - 1)} |-> {}])
           added  == [d \in DOMAIN dirs0 |->
                        {LevelEntry(ino, p, i) :
                           i \in {j \in 1..L : /\ ino[j - 1] = d
                                               /\ \A e \in dirs0[d] : e.name # p[j]}}]
           dirs1 == [d \in DOMAIN dirs0 |-> dirs0[d] \cup added[d]]
           parents1 == [n \in {ino[i] : i \in 1..L} |-> ino[(CHOOSE i \in 1..L : ino[i] = n) - 1]]
           next == t.next + Cardinality(M)
<1>1. r = Tree(Over(paths1, t.paths), Over(inodes1, t.inodes), dirs1, Over(parents1, t.parents), next)
  BY DEF RegisterFile, LevelEntry
<1> HIDE DEF paths1, inodes1, dirs1, parents1, next
<1>2. /\ r.paths = Over(paths1, t.paths) /\ r.inodes = Over(inodes1, t.inodes) /\ r.dirs = dirs1
      /\ r.parents = Over(parents1, t.parents) /\ r.next = next
  BY <1>1 DEF Tree
<1>3. /\ L \in Nat /\ M \subseteq 1..L /\ t.next \in Nat /\ DOMAIN t.paths \subseteq Given(t)
      /\ \A i \in M : ino[i] >= t.next /\ ino[i] \in Nat
      /\ \A i \in 0..L : i \notin M =>
           SubSeq(p, 1, i) \in DOMAIN t.inodes /\ ino[i] = t.inodes[SubSeq(p, 1, i)]
  <2>1. L \in Nat /\ M \subseteq 1..L /\ (\A i \in M : ino[i] >= t.next)
        /\ \A i \in 0..L : i \notin M =>
             SubSeq(p, 1, i) \in DOMAIN t.inodes /\ ino[i] = t.inodes[SubSeq(p, 1, i)]
    BY InodesFor
  <2>2. \A i \in 0..L : ino[i] \in Nat
    BY InodesFor
  <2>3. \A i \in M : i \in 0..L
    BY <2>1
  <2> QED BY <2>1, <2>2, <2>3 DEF TreeOK
<1>4. \A i, j \in 0..L : ino[i] = ino[j] => i = j
  BY InodesDiffer
<1>5. \A i \in M : i \in 0..L /\ ino[i] \notin DOMAIN t.paths
  BY <1>3 DEF Given
<1>6. \A i \in 0..L : Len(SubSeq(p, 1, i)) = i
  BY Levels
<1>7. \A i \in M : paths1[ino[i]] = SubSeq(p, 1, i)
  <2> SUFFICES ASSUME NEW i \in M PROVE paths1[ino[i]] = SubSeq(p, 1, i)
    OBVIOUS
  <2>1. (CHOOSE k \in M : ino[k] = ino[i]) = i
    BY <1>4, <1>5
  <2> QED BY <2>1 DEF paths1
<1>8. DOMAIN paths1 = {ino[i] : i \in M}
  BY DEF paths1
<1>9. DOMAIN inodes1 = {SubSeq(p, 1, i) : i \in M} /\ \A i \in M : inodes1[SubSeq(p, 1, i)] = ino[i]
  <2>1. ASSUME NEW i \in M PROVE inodes1[SubSeq(p, 1, i)] = ino[i]
    <3>1. Len(SubSeq(p, 1, i)) = i
      BY <1>5, <1>6
    <3> QED BY <3>1 DEF inodes1
  <2> QED BY <2>1 DEF inodes1
<1>10. DOMAIN parents1 = {ino[i] : i \in 1..L} /\ \A i \in 1..L : parents1[ino[i]] = ino[i - 1]
  <2>1. ASSUME NEW i \in 1..L PROVE parents1[ino[i]] = ino[i - 1]
    <3>1. \A k \in 1..L : k \in 0..L
      BY <1>3
    <3>2. (CHOOSE k \in 1..L : ino[k] = ino[i]) = i
      BY <1>4, <3>1
    <3> QED BY <3>2 DEF parents1
  <2> QED BY <2>1 DEF parents1
<1>11. \A i \in M : SubSeq(p, 1, i) \notin DOMAIN t.inodes
  BY DEF Missing
<1>12. /\ DOMAIN dirs0 = DOMAIN t.dirs \cup {ino[i] : i \in 0..(L - 1)}
       /\ \A d \in DOMAIN dirs0 : dirs0[d] = EntriesOf(t, d)
  BY DEF Over, EntriesOf
<1> HIDE DEF dirs0
<1>13. DOMAIN dirs1 = DOMAIN dirs0 /\ Fn(dirs1) /\ \A d \in DOMAIN dirs1 :
              dirs1[d] = EntriesOf(t, d) \cup EntriesBelow(t, ino, p, d)
  <2>1. DOMAIN dirs1 = DOMAIN dirs0 /\ \A d \in DOMAIN dirs0 : dirs1[d] = dirs0[d] \cup added[d]
    BY DEF dirs1
  <2>2. \A d \in DOMAIN dirs0 : added[d] = EntriesBelow(t, ino, p, d)
    BY <1>12 DEF EntriesBelow
  <2>3. Fn(dirs1)
    BY DEF dirs1, Fn
  <2>4. ASSUME NEW d \in DOMAIN dirs0
        PROVE  dirs1[d] = EntriesOf(t, d) \cup EntriesBelow(t, ino, p, d)
    <3>1. dirs1[d] = dirs0[d] \cup added[d] /\ dirs0[d] = EntriesOf(t, d)
      BY <1>12, <2>1
    <3>2. added[d] = EntriesBelow(t, ino, p, d)
      BY <2>2
    <3> HIDE DEF added
    <3> QED BY <3>1, <3>2
  <2> QED BY <2>1, <2>3, <2>4
<1>14. /\ Fn(r.paths) /\ DOMAIN r.paths = DOMAIN t.paths \cup {ino[i] : i \in M}
       /\ \A i \in M : r.paths[ino[i]] = SubSeq(p, 1, i)
       /\ \A n \in DOMAIN t.paths : r.paths[n] = t.paths[n]
  BY <1>2, <1>5, <1>7, <1>8 DEF Over, Fn
<1>15. /\ Fn(r.inodes) /\ DOMAIN r.inodes = DOMAIN t.inodes \cup {SubSeq(p, 1, i) : i \in M}
       /\ \A q \in DOMAIN t.inodes : r.inodes[q] = t.inodes[q]
       /\ \A i \in M : r.inodes[SubSeq(p, 1, i)] = ino[i]
  <2>1. Fn(r.inodes) /\ DOMAIN r.inodes = DOMAIN inodes1 \cup DOMAIN t.inodes
    BY <1>2 DEF Over, Fn
  <2>2. \A q \in DOMAIN inodes1 : r.inodes[q] = inodes1[q]
    BY <1>2 DEF Over
  <2>3. \A q \in DOMAIN t.inodes : q \notin DOMAIN inodes1 => r.inodes[q] = t.inodes[q]
    BY <1>2 DEF Over
  <2>4. \A q \in DOMAIN t.inodes : q \notin DOMAIN inodes1
    BY <1>9, <1>11
  <2>5. \A i \in M : r.inodes[SubSeq(p, 1, i)] = ino[i]
    BY <1>9, <2>2
  <2> QED BY <1>9, <2>1, <2>3, <2>4, <2>5
<1>16. \A i \in 0..L : r.inodes[SubSeq(p, 1, i)] = ino[i]
  BY <1>3, <1>15
<1>17. /\ Fn(r.parents) /\ DOMAIN r.parents = DOMAIN t.parents \cup {ino[i] : i \in 1..L}
       /\ \A i \in 1..L : r.parents[ino[i]] = ino[i - 1]
       /\ \A n \in DOMAIN t.parents : n \notin {ino[i] : i \in 1..L} => r.parents[n] = t.parents[n]
  BY <1>2, <1>10 DEF Over, Fn
<1>18. r = Tree(r.paths, r.inodes, r.dirs, r.parents, r.next)
  BY <1>1, <1>2
<1>19. r.next = t.next + Cardinality(M)
  BY <1>2 DEF next
<1> HIDE <1>3, <1>4, <1>5, <1>6, <1>7, <1>8, <1>9, <1>10, <1>11
<1> QED
  BY <1>2, <1>12, <1>13, <1>14, <1>15, <1>16, <1>17, <1>18, <1>19, Zenon DEF L, Registration

\* Registering a file keeps the maps in agreement.
LEMMA RegisterOK ==
  ASSUME NEW t, TreeOK(t), NEW p \in Paths
  PROVE  TreeOK(RegisterFile(t, p)) /\ DOMAIN t.paths \subseteq DOMAIN RegisterFile(t, p).paths
<1> DEFINE r == RegisterFile(t, p)
           ino == InodeFor(t, p)
           M == Missing(t, p)
<1>0. Registration(t, p, r, ino, M)
  <2>1. \A x, y, z : x = r /\ y = ino /\ z = M => Registration(t, p, x, y, z)
    BY Registered
  <2> HIDE DEF r, ino, M
  <2> QED BY <2>1
<1> HIDE DEF r, ino, M
<1>1. /\ r = Tree(r.paths, r.inodes, r.dirs, r.parents, r.next)
      /\ r.next = t.next + Cardinality(M)
      /\ Fn(r.paths) /\ Fn(r.inodes) /\ Fn(r.dirs) /\ Fn(r.parents)
      /\ DOMAIN r.paths = DOMAIN t.paths \cup {ino[i] : i \in M}
      /\ \A i \in M : r.paths[ino[i]] = SubSeq(p, 1, i)
      /\ \A n \in DOMAIN t.paths : r.paths[n] = t.paths[n]
      /\ DOMAIN r.inodes = DOMAIN t.inodes \cup {SubSeq(p, 1, i) : i \in M}
      /\ \A i \in 0..Len(p) : r.inodes[SubSeq(p, 1, i)] = ino[i]
      /\ \A q \in DOMAIN t.inodes : r.inodes[q] = t.inodes[q]
  BY <1>0, Zenon DEF Registration
<1>2. /\ DOMAIN r.dirs = DOMAIN t.dirs \cup {ino[i] : i \in 0..(Len(p) - 1)}
      /\ \A d \in DOMAIN r.dirs : r.dirs[d] = EntriesOf(t, d) \cup EntriesBelow(t, ino, p, d)
  BY <1>0, Zenon DEF Registration
<1>3. /\ DOMAIN r.parents = DOMAIN t.parents \cup {ino[i] : i \in 1..Len(p)}
      /\ \A i \in 1..Len(p) : r.parents[ino[i]] = ino[i - 1]
      /\ \A n \in DOMAIN t.parents : n \notin {ino[i] : i \in 1..Len(p)} =>
           r.parents[n] = t.parents[n]
  BY <1>0, Zenon DEF Registration
<1> USE DEF r, ino, M
<1> DEFINE new == t.next + Cardinality(M)
<1>4. /\ new \in Nat /\ t.next <= new /\ Len(p) \in Nat /\ M \subseteq 1..Len(p)
      /\ \A i \in 0..Len(p) : ino[i] \in 1..(new - 1)
  BY InodesFor
<1>5. t.next \in Nat /\ t.next > 1
  BY DEF TreeOK, RootIno
<1> HIDE DEF r, ino, M
<1>6. r.next = new
  BY <1>1
<1> HIDE DEF new
<1>7. r.next \in Nat /\ r.next > 1 /\ Given(t) \subseteq Given(r)
      /\ \A i \in 0..Len(p) : ino[i] \in Given(r)
  BY <1>4, <1>5, <1>6 DEF Given
<1>8. /\ \A i \in M : i \in 0..Len(p) /\ SubSeq(p, 1, i) \in Paths
      /\ \A i \in 1..Len(p) : i \in 0..Len(p) /\ i - 1 \in 0..Len(p) /\ p[i] \in Names
      /\ \A i \in 0..(Len(p) - 1) : i \in 0..Len(p)
  <2>1. \A i \in M : i \in 0..Len(p)
    BY <1>4
  <2>2. \A i \in 0..Len(p) : SubSeq(p, 1, i) \in Paths
    BY Levels
  <2>3. \A i \in 1..Len(p) : p[i] \in Names
    BY PathIsSeq, LenProperties
  <2>4. \A i \in 1..Len(p) : i \in 0..Len(p) /\ i - 1 \in 0..Len(p)
    BY <1>4
  <2>5. \A i \in 0..(Len(p) - 1) : i \in 0..Len(p)
    BY <1>4
  <2> QED BY <2>1, <2>2, <2>3, <2>4, <2>5
<1>9. DOMAIN r.paths \subseteq Given(r) /\ \A i \in DOMAIN r.paths : r.paths[i] \in Paths
  <2>1. DOMAIN t.paths \subseteq Given(t) /\ \A i \in DOMAIN t.paths : t.paths[i] \in Paths
    BY DEF TreeOK
  <2>2. {ino[i] : i \in M} \subseteq Given(r)
    BY <1>7, <1>8
  <2>3. \A i \in M : r.paths[ino[i]] \in Paths
    BY <1>1, <1>8
  <2>4. \A i \in DOMAIN t.paths : r.paths[i] \in Paths
    BY <1>1, <2>1
  <2> QED BY <1>1, <1>7, <2>1, <2>2, <2>3, <2>4
<1>10. /\ DOMAIN r.inodes \subseteq Paths /\ <<>> \in DOMAIN r.inodes
       /\ \A q \in DOMAIN r.inodes : r.inodes[q] \in DOMAIN r.paths /\ r.paths[r.inodes[q]] = q
  <2>1. \A i \in M : r.inodes[SubSeq(p, 1, i)] = ino[i]
    BY <1>1, <1>8
  <2>2. /\ DOMAIN t.inodes \subseteq Paths /\ <<>> \in DOMAIN t.inodes
        /\ \A q \in DOMAIN t.inodes : t.inodes[q] \in DOMAIN t.paths /\ t.paths[t.inodes[q]] = q
    BY DEF TreeOK
  <2>3. \A q \in DOMAIN t.inodes : r.inodes[q] \in DOMAIN r.paths /\ r.paths[r.inodes[q]] = q
    BY <1>1, <2>2
  <2>4. \A i \in M : LET q == SubSeq(p, 1, i)
                     IN  r.inodes[q] \in DOMAIN r.paths /\ r.paths[r.inodes[q]] = q
    BY <1>1, <2>1
  <2>5. ASSUME NEW q \in DOMAIN r.inodes
        PROVE  q \in Paths /\ r.inodes[q] \in DOMAIN r.paths /\ r.paths[r.inodes[q]] = q
    <3>1. CASE q \in DOMAIN t.inodes
      BY <2>2, <2>3, <3>1
    <3>2. CASE \E i \in M : q = SubSeq(p, 1, i)
      BY <1>8, <2>4, <3>2
    <3> QED BY <1>1, <3>1, <3>2
  <2>6. <<>> \in DOMAIN r.inodes
    BY <1>1, <2>2
  <2> QED BY <2>5, <2>6
<1>11. ASSUME NEW d \in DOMAIN r.dirs, NEW e \in r.dirs[d]
       PROVE  e.ino \in Given(r) /\ e.name \in Names /\ e.kind \in {"file", "dir", "symlink"}
  <2>1. CASE e \in EntriesOf(t, d)
    <3>1. d \in DOMAIN t.dirs /\ e \in t.dirs[d]
      BY <2>1 DEF EntriesOf
    <3> QED BY <1>7, <3>1 DEF TreeOK
  <2>2. CASE \E i \in 1..Len(p) : e = LevelEntry(ino, p, i)
    BY <1>7, <1>8, <2>2 DEF LevelEntry, Entry
  <2>3. e \in EntriesOf(t, d) \cup EntriesBelow(t, ino, p, d)
    BY <1>2, <1>11
  <2> QED BY <2>1, <2>2, <2>3 DEF EntriesBelow
<1>12. DOMAIN r.dirs \subseteq Given(r)
  BY <1>2, <1>7, <1>8 DEF TreeOK
<1>13. \A i \in DOMAIN r.parents : r.parents[i] \in Given(r)
  <2>1. \A i \in DOMAIN t.parents : t.parents[i] \in Given(t)
    BY DEF TreeOK
  <2>2. ASSUME NEW i \in DOMAIN r.parents
        PROVE  r.parents[i] \in Given(r)
    <3>1. CASE i \in {ino[k] : k \in 1..Len(p)}
      BY <1>3, <1>7, <1>8, <3>1
    <3>2. CASE i \notin {ino[k] : k \in 1..Len(p)}
      BY <1>3, <1>7, <2>1, <3>2
    <3> QED BY <3>1, <3>2
  <2> QED BY <2>2
<1>14. TreeOK(r)
  BY <1>1, <1>7, <1>9, <1>10, <1>11, <1>12, <1>13 DEF TreeOK, RootIno
<1> QED BY <1>1, <1>14 DEF r

\* An entry is dropped from a directory, or added.
LEMMA EntriesOK ==
  ASSUME NEW t, TreeOK(t), NEW d, NEW name,
         NEW x, x.ino \in Given(t), x.name \in Names, x.kind \in {"file", "dir", "symlink"}
  PROVE  /\ TreeOK(DropEntry(t, d, name)) /\ TreeOK(AddEntry(t, d, x))
         /\ \A u \in {DropEntry(t, d, name), AddEntry(t, d, x)} :
              u.paths = t.paths /\ u.inodes = t.inodes /\ u.parents = t.parents /\ u.next = t.next
<1> DEFINE drop == [y \in DOMAIN t.dirs |-> IF y = d THEN {e \in t.dirs[y] : e.name # name} ELSE t.dirs[y]]
           add == [y \in DOMAIN t.dirs |-> IF y = d THEN t.dirs[y] \cup {x} ELSE t.dirs[y]]
<1>1. t = Tree(t.paths, t.inodes, t.dirs, t.parents, t.next) /\ Fn(t.dirs)
  BY DEF TreeOK
<1>2. DropEntry(t, d, name) = [t EXCEPT !.dirs = drop]
  BY Zenon DEF DropEntry
<1>3. AddEntry(t, d, x) = [t EXCEPT !.dirs = add]
  BY Zenon DEF AddEntry
<1>4. /\ Fn(drop) /\ DOMAIN drop = DOMAIN t.dirs /\ \A y \in DOMAIN drop : drop[y] \subseteq t.dirs[y]
      /\ Fn(add) /\ DOMAIN add = DOMAIN t.dirs /\ \A y \in DOMAIN add : add[y] \subseteq t.dirs[y] \cup {x}
  BY <1>1 DEF Fn
<1> HIDE DEF drop, add
<1>5. ASSUME NEW u, NEW ds, u = [t EXCEPT !.dirs = ds]
      PROVE  u = Tree(t.paths, t.inodes, ds, t.parents, t.next)
  BY <1>1, <1>5 DEF Tree
<1>6. ASSUME NEW ds, Fn(ds), DOMAIN ds = DOMAIN t.dirs, \A y \in DOMAIN ds : ds[y] \subseteq t.dirs[y] \cup {x}
      PROVE  TreeOK(Tree(t.paths, t.inodes, ds, t.parents, t.next))
  BY <1>6 DEF TreeOK, Tree, Given
<1> QED BY <1>2, <1>3, <1>4, <1>5, <1>6 DEF Tree

\* A held directory and a name make a path, below the root.
LEMMA ChildPath ==
  ASSUME TreeOK(tree), NEW parent \in Held, NEW name \in Names
  PROVE  /\ parent \in DOMAIN tree.paths /\ parent \in Given(tree)
         /\ Append(tree.paths[parent], name) \in Paths
         /\ Append(tree.paths[parent], name) # <<>>
<1> DEFINE q == tree.paths[parent]
<1>1. parent \in DOMAIN tree.paths /\ Len(q) < MaxDepth /\ q \in Paths /\ parent \in Given(tree)
  BY DEF Held, TreeOK
<1> HIDE DEF q
<1>2. q \in Seq(Names) /\ Len(q) \in Nat
  BY <1>1, PathIsSeq, LenProperties
<1>3. /\ Append(q, name) \in Seq(Names) /\ Append(q, name) # <<>> /\ Len(Append(q, name)) = Len(q) + 1
  BY <1>2, AppendProperties
<1>4. Len(Append(q, name)) <= MaxDepth
  BY <1>1, <1>2, <1>3, BoundsAssumption
<1>5. Append(q, name) \in Paths
  BY <1>3, <1>4, PathIsSeq
<1> QED BY <1>1, <1>3, <1>5 DEF q

\* A fresh inode for a path without one.
LEMMA AllocateOK ==
  ASSUME NEW t, TreeOK(t), NEW p \in Paths, p \notin DOMAIN t.inodes,
         NEW ds, NEW ps, NEW parent \in Given(t),
         ds = t.dirs \/ ds = With(t.dirs, t.next, {}),
         ps = t.parents \/ ps = With(t.parents, t.next, parent)
  PROVE  LET u == Tree(With(t.paths, t.next, p), With(t.inodes, p, t.next), ds, ps, t.next + 1)
         IN  TreeOK(u) /\ Given(t) \subseteq Given(u) /\ t.next \in Given(u)
<1> DEFINE P == With(t.paths, t.next, p)
           I == With(t.inodes, p, t.next)
           n == t.next + 1
           u == Tree(P, I, ds, ps, n)
<1>1. t.next \in Nat /\ t.next > 1 /\ t.next \notin DOMAIN t.paths
  BY DEF TreeOK, RootIno, Given
<1>2. u.paths = P /\ u.inodes = I /\ u.dirs = ds /\ u.parents = ps /\ u.next = n
      /\ u = Tree(u.paths, u.inodes, u.dirs, u.parents, u.next)
  BY DEF Tree
<1>3. n \in Nat /\ n > 1 /\ Given(t) \subseteq Given(u) /\ t.next \in Given(u)
  BY <1>1, <1>2 DEF Given
<1>4. Fn(P) /\ DOMAIN P = DOMAIN t.paths \cup {t.next} /\ P[t.next] = p
      /\ \A i \in DOMAIN t.paths : P[i] = t.paths[i]
  BY <1>1 DEF With, Fn
<1>5. Fn(I) /\ DOMAIN I = DOMAIN t.inodes \cup {p} /\ I[p] = t.next
      /\ \A q \in DOMAIN t.inodes : I[q] = t.inodes[q]
  BY DEF With, Fn
<1>6. Fn(ds) /\ DOMAIN ds \subseteq DOMAIN t.dirs \cup {t.next}
      /\ \A d \in DOMAIN ds : \A e \in ds[d] : d \in DOMAIN t.dirs /\ e \in t.dirs[d]
  BY DEF With, Fn, TreeOK
<1>7. Fn(ps) /\ \A i \in DOMAIN ps : ps[i] \in Given(t)
  BY DEF With, Fn, TreeOK
<1> HIDE DEF P, I, n, u
<1>8. DOMAIN P \subseteq Given(u) /\ \A i \in DOMAIN P : P[i] \in Paths
  BY <1>3, <1>4 DEF TreeOK
<1>9. DOMAIN I \subseteq Paths /\ <<>> \in DOMAIN I
      /\ \A q \in DOMAIN I : I[q] \in DOMAIN P /\ P[I[q]] = q
  BY <1>4, <1>5 DEF TreeOK
<1>10. DOMAIN ds \subseteq Given(u)
       /\ \A d \in DOMAIN ds : \A e \in ds[d] :
            e.ino \in Given(u) /\ e.name \in Names /\ e.kind \in {"file", "dir", "symlink"}
  BY <1>3, <1>6 DEF TreeOK
<1>11. TreeOK(u)
  BY <1>2, <1>3, <1>4, <1>5, <1>6, <1>7, <1>8, <1>9, <1>10 DEF TreeOK, RootIno
<1> QED BY <1>3, <1>11 DEF u, P, I, n

\* What a lookup that succeeds gives.
LEMMA LookupOK ==
  ASSUME TreeOK(tree), NEW parent, NEW name, Lookup(parent, name) # 0
  PROVE  LET p == Append(tree.paths[parent], name)
         IN  /\ p \in DOMAIN tree.inodes /\ Lookup(parent, name) = tree.inodes[p]
             /\ Lookup(parent, name) \in DOMAIN tree.paths /\ Lookup(parent, name) \in Given(tree)
             /\ tree.paths[Lookup(parent, name)] = p
BY DEF Lookup, TreeOK

\* A lookup that fails.
LEMMA LookupFails ==
  ASSUME TreeOK(tree), NEW parent, NEW name, Lookup(parent, name) = 0
  PROVE  Append(tree.paths[parent], name) \notin DOMAIN tree.inodes
BY DEF Lookup, TreeOK, Given

\* A directory leaves the maps.
LEMMA RmDirOK ==
  ASSUME TreeOK(tree), NEW parent \in Held, NEW name \in Names, RmDir(parent, name)
  PROVE  TreeOK(tree')
<1> DEFINE ino == Lookup(parent, name)
           p == Append(tree.paths[parent], name)
           u == Tree(Without(tree.paths, ino), Without(tree.inodes, p),
                     Without(tree.dirs, ino), Without(tree.parents, ino), tree.next)
<1>1. tree' = DropEntry(u, parent, name) /\ ino # 0
  BY DEF RmDir, TreeOK, Given
<1>2. p \in DOMAIN tree.inodes /\ tree.inodes[p] = ino /\ tree.paths[ino] = p /\ p # <<>>
  BY <1>1, LookupOK, ChildPath
<1> HIDE DEF ino, p
<1>3. /\ u.paths = Without(tree.paths, ino) /\ u.inodes = Without(tree.inodes, p)
      /\ u.dirs = Without(tree.dirs, ino) /\ u.parents = Without(tree.parents, ino)
      /\ u.next = tree.next
      /\ u = Tree(u.paths, u.inodes, u.dirs, u.parents, u.next)
  BY DEF Tree
<1> HIDE DEF u
<1>4. /\ Fn(u.paths) /\ Fn(u.inodes) /\ Fn(u.dirs) /\ Fn(u.parents)
      /\ DOMAIN u.paths = DOMAIN tree.paths \ {ino} /\ (\A i \in DOMAIN u.paths : u.paths[i] = tree.paths[i])
      /\ DOMAIN u.inodes = DOMAIN tree.inodes \ {p} /\ (\A q \in DOMAIN u.inodes : u.inodes[q] = tree.inodes[q])
      /\ DOMAIN u.dirs = DOMAIN tree.dirs \ {ino} /\ (\A d \in DOMAIN u.dirs : u.dirs[d] = tree.dirs[d])
      /\ DOMAIN u.parents = DOMAIN tree.parents \ {ino} /\ (\A i \in DOMAIN u.parents : u.parents[i] = tree.parents[i])
  BY <1>3 DEF Without, Fn
<1>5. TreeOK(u)
  BY <1>2, <1>3, <1>4 DEF TreeOK, Given
<1>6. 1 \in Given(u)
  BY <1>5 DEF TreeOK, Given, RootIno
<1>7. TreeOK(DropEntry(u, parent, name))
  <2> DEFINE e == Entry(1, name, "dir")
  <2>1. e.ino = 1 /\ e.name = name /\ e.kind = "dir"
    BY DEF Entry
  <2> HIDE DEF e
  <2> QED BY <1>5, <1>6, <2>1, EntriesOK
<1> QED BY <1>1, <1>7

\* A renamed inode gets its new path and loses the old one.
LEMMA MovedOK ==
  ASSUME TreeOK(tree), NEW parent \in Held, NEW name \in Names, NEW newparent \in Held,
         NEW newname \in Names, Lookup(parent, name) # 0,
         Append(tree.paths[parent], name) # Append(tree.paths[newparent], newname)
  PROVE  LET x == Moved(Lookup(parent, name), parent, name, newparent, newname)
         IN  TreeOK(x) /\ x.next = tree.next
<1> DEFINE ino == Lookup(parent, name)
           old == Append(tree.paths[parent], name)
           new == Append(tree.paths[newparent], newname)
           t == DropEntry(tree, parent, name)
           u == Tree(With(tree.paths, ino, new), With(Without(tree.inodes, old), new, ino),
                     t.dirs, With(tree.parents, ino, newparent), tree.next)
           e == Entry(ino, newname, IF ino \in DOMAIN tree.dirs THEN "dir" ELSE "file")
           v == DropEntry(u, newparent, newname)
<1>1. /\ old \in DOMAIN tree.inodes /\ tree.inodes[old] = ino /\ tree.paths[ino] = old /\ old # <<>>
      /\ ino \in Given(tree) /\ ino \in DOMAIN tree.paths /\ new \in Paths /\ new # <<>> /\ old # new
      /\ newparent \in Given(tree)
  BY LookupOK, ChildPath
<1>2. 1 \in Given(tree)
  BY DEF TreeOK, Given, RootIno
<1>3. TreeOK(t) /\ t.paths = tree.paths /\ t.inodes = tree.inodes /\ t.parents = tree.parents
      /\ t.next = tree.next
  <2> DEFINE x == Entry(1, name, "dir")
  <2>1. x.ino = 1 /\ x.name = name /\ x.kind = "dir"
    BY DEF Entry
  <2> HIDE DEF x
  <2> QED BY <1>2, <2>1, EntriesOK
<1> HIDE DEF ino, old, new, t
<1>4. t = Tree(t.paths, t.inodes, t.dirs, t.parents, t.next)
  BY <1>3 DEF TreeOK
<1>5. Tree(With(t.paths, ino, new), With(Without(t.inodes, old), new, ino),
           t.dirs, With(t.parents, ino, newparent), t.next) = u
  BY <1>3
<1>6. Moved(ino, parent, name, newparent, newname) = AddEntry(v, newparent, e)
  BY <1>5 DEF Moved, ino, old, new, t
<1>7. /\ u.paths = With(tree.paths, ino, new) /\ u.inodes = With(Without(tree.inodes, old), new, ino)
      /\ u.dirs = t.dirs /\ u.parents = With(tree.parents, ino, newparent) /\ u.next = tree.next
      /\ u = Tree(u.paths, u.inodes, u.dirs, u.parents, u.next)
  BY DEF Tree
<1> HIDE DEF u
<1>8. /\ Fn(u.paths) /\ DOMAIN u.paths = DOMAIN tree.paths /\ u.paths[ino] = new
      /\ \A i \in DOMAIN u.paths : i # ino => u.paths[i] = tree.paths[i]
  BY <1>1, <1>7 DEF With, Fn
<1>9. /\ Fn(u.inodes) /\ DOMAIN u.inodes = (DOMAIN tree.inodes \ {old}) \cup {new} /\ u.inodes[new] = ino
      /\ \A q \in DOMAIN u.inodes : q # new => u.inodes[q] = tree.inodes[q]
  BY <1>7 DEF With, Without, Fn
<1>10. /\ Fn(u.parents) /\ \A i \in DOMAIN u.parents :
            u.parents[i] = newparent \/ (i \in DOMAIN tree.parents /\ u.parents[i] = tree.parents[i])
  BY <1>7 DEF With, Fn
<1>11. \A q \in DOMAIN u.inodes : u.inodes[q] \in DOMAIN u.paths /\ u.paths[u.inodes[q]] = q
  <2> SUFFICES ASSUME NEW q \in DOMAIN u.inodes
               PROVE  u.inodes[q] \in DOMAIN u.paths /\ u.paths[u.inodes[q]] = q
    OBVIOUS
  <2>1. CASE q = new
    BY <1>1, <1>8, <1>9, <2>1
  <2>2. CASE q # new
    <3>1. q \in DOMAIN tree.inodes /\ q # old /\ u.inodes[q] = tree.inodes[q]
      BY <1>9, <2>2
    <3>2. tree.inodes[q] \in DOMAIN tree.paths /\ tree.paths[tree.inodes[q]] = q
      BY <3>1 DEF TreeOK
    <3>3. tree.inodes[q] # ino
      BY <1>1, <3>1, <3>2
    <3> QED BY <1>8, <3>1, <3>2, <3>3
  <2> QED BY <2>1, <2>2
<1>12. Given(u) = Given(tree) /\ Given(t) = Given(tree)
  BY <1>3, <1>7 DEF Given
<1>13. TreeOK(u)
  <2>1. DOMAIN u.paths \subseteq Given(u) /\ \A i \in DOMAIN u.paths : u.paths[i] \in Paths
    BY <1>1, <1>8, <1>12 DEF TreeOK
  <2>2. DOMAIN u.inodes \subseteq Paths /\ <<>> \in DOMAIN u.inodes
    BY <1>1, <1>9 DEF TreeOK
  <2>3. /\ Fn(u.dirs) /\ DOMAIN u.dirs \subseteq Given(u)
        /\ \A d \in DOMAIN u.dirs : \A x \in u.dirs[d] :
             x.ino \in Given(u) /\ x.name \in Names /\ x.kind \in {"file", "dir", "symlink"}
    BY <1>3, <1>7, <1>12 DEF TreeOK
  <2>4. \A i \in DOMAIN u.parents : u.parents[i] \in Given(u)
    BY <1>1, <1>10, <1>12 DEF TreeOK
  <2>5. u.next \in Nat /\ u.next > RootIno
    BY <1>7 DEF TreeOK
  <2> QED BY <1>7, <1>8, <1>9, <1>10, <1>11, <2>1, <2>2, <2>3, <2>4, <2>5 DEF TreeOK
<1>14. e.ino = ino /\ e.name = newname /\ e.kind \in {"dir", "file"}
  BY DEF Entry
<1> HIDE DEF e
<1>15. TreeOK(v) /\ v.next = u.next
  BY <1>1, <1>12, <1>13, <1>14, EntriesOK
<1>16. Given(v) = Given(u)
  BY <1>15 DEF Given
<1> HIDE DEF v
<1>17. TreeOK(AddEntry(v, newparent, e))
  BY <1>1, <1>12, <1>14, <1>15, <1>16, EntriesOK
<1>18. AddEntry(v, newparent, e).next = tree.next
  BY <1>1, <1>7, <1>12, <1>14, <1>15, <1>16, EntriesOK
<1> QED BY <1>6, <1>17, <1>18 DEF ino

\* A set of naturals that is not empty has a least element.
LEMMA LeastNat ==
  ASSUME NEW T, T \subseteq Nat, T # {}
  PROVE  \E x \in T : \A y \in T : x <= y
<1> DEFINE R == OpToRel(<, Nat)
<1>1. IsWellFoundedOn(R, Nat)
  BY NatLessThanWellFounded
<1>2. \A x, y \in Nat : <<y, x>> \in R <=> y < x
  BY DEF OpToRel
<1> HIDE DEF R
<1>3. PICK x \in T : \A y \in T : ~ (<<y, x>> \in R)
  BY <1>1, WFMin
<1>4. x \in Nat /\ \A y \in T : y \in Nat /\ ~ (y < x)
  BY <1>2, <1>3, Zenon
<1> HIDE <1>2, <1>3
<1> QED BY <1>4

\* g holds the trees after so many files.
Rebuilds(g, files, m) ==
  g = [n \in 0..m |-> IF n = 0 THEN RootTree ELSE RegisterFile(g[n - 1], files[n])]

\* There is one, for any number of files.
LEMMA RebuildsExist ==
  ASSUME NEW files, NEW m \in Nat
  PROVE  \E g : Rebuilds(g, files, m)
<1> DEFINE T == {n \in Nat : ~ \E g : Rebuilds(g, files, n)}
<1> SUFFICES ASSUME m \in T PROVE FALSE
  OBVIOUS
<1>1. PICK n \in T : \A k \in T : n <= k
  <2>1. T \subseteq Nat /\ T # {}
    OBVIOUS
  <2> HIDE DEF T
  <2> QED BY <2>1, LeastNat
<1>2. n \in Nat /\ ~ \E g : Rebuilds(g, files, n)
  OBVIOUS
<1>3. n # 0
  <2> SUFFICES ASSUME n = 0 PROVE FALSE
    OBVIOUS
  <2> DEFINE g == [k \in 0..0 |-> RootTree]
  <2>1. g = [k \in 0..0 |-> IF k = 0 THEN RootTree ELSE RegisterFile(g[k - 1], files[k])]
    <3>1. \A k \in 0..0 : k = 0
      OBVIOUS
    <3> QED BY <3>1
  <2>2. Rebuilds(g, files, 0)
    BY <2>1 DEF Rebuilds
  <2> QED BY <1>2, <2>2
<1>4. n - 1 \in Nat /\ ~ (n <= n - 1)
  BY <1>2, <1>3
<1>5. n - 1 \notin T
  BY <1>1, <1>4
<1>6. PICK h : Rebuilds(h, files, n - 1)
  BY <1>4, <1>5
<1> DEFINE step(k) == IF k = 0 THEN RootTree ELSE RegisterFile(h[k - 1], files[k])
           g == [k \in 0..n |-> step(k)]
<1>7. \A k \in 0..(n - 1) : h[k] = step(k)
  BY <1>6 DEF Rebuilds
<1>8. \A k \in 0..n : k # 0 => k - 1 \in 0..(n - 1) /\ k - 1 \in 0..n
  BY <1>2
<1>9. \A k \in 0..n : g[k] = step(k)
  OBVIOUS
<1>10. \A k \in 0..n : k # 0 => g[k - 1] = h[k - 1]
  BY <1>7, <1>8, <1>9
<1>11. \A k \in 0..n : step(k) = IF k = 0 THEN RootTree ELSE RegisterFile(g[k - 1], files[k])
  <2> HIDE DEF g
  <2> QED BY <1>10
<1>12. g = [k \in 0..n |-> IF k = 0 THEN RootTree ELSE RegisterFile(g[k - 1], files[k])]
  <2>1. g = [k \in 0..n |-> step(k)]
    OBVIOUS
  <2> HIDE DEF g, step
  <2> QED BY <1>11, <2>1
<1>13. Rebuilds(g, files, n)
  <2> HIDE DEF g
  <2> QED BY <1>12 DEF Rebuilds
<1> QED BY <1>2, <1>13

\* The maps agree after any number of files.
LEMMA RebuildsOK ==
  ASSUME NEW files \in Seq(Paths), NEW g, Rebuilds(g, files, Len(files)), NEW m \in 0..Len(files)
  PROVE  TreeOK(g[m])
<1>1. /\ Len(files) \in Nat
      /\ \A n \in 0..Len(files) :
           g[n] = IF n = 0 THEN RootTree ELSE RegisterFile(g[n - 1], files[n])
      /\ \A n \in 1..Len(files) : files[n] \in Paths
  BY LenProperties DEF Rebuilds
<1>2. TreeOK(RootTree)
  <2>1. <<>> \in Paths
    <3>1. <<>> \in Seq(Names) /\ Len(<<>>) = 0
      BY EmptySeq
    <3>2. 0 <= MaxDepth
      BY BoundsAssumption
    <3> QED BY <3>1, <3>2, PathIsSeq
  <2> QED BY <2>1 DEF RootTree, TreeOK, Tree, Fn, Given, RootIno
<1> DEFINE T == {n \in 0..Len(files) : ~TreeOK(g[n])}
<1> SUFFICES ASSUME m \in T PROVE FALSE
  OBVIOUS
<1>3. PICK n \in T : \A k \in T : n <= k
  <2>1. T \subseteq Nat /\ T # {}
    BY <1>1
  <2> HIDE DEF T
  <2> QED BY <2>1, LeastNat
<1>4. n \in 0..Len(files) /\ ~TreeOK(g[n])
  OBVIOUS
<1>5. n # 0
  BY <1>1, <1>2, <1>4
<1>6. n - 1 \in 0..Len(files) /\ ~ (n <= n - 1) /\ n \in 1..Len(files)
  BY <1>1, <1>4, <1>5
<1>7. TreeOK(g[n - 1])
  BY <1>3, <1>6
<1>8. g[n] = RegisterFile(g[n - 1], files[n]) /\ files[n] \in Paths
  BY <1>1, <1>4, <1>5, <1>6
<1> QED BY <1>4, <1>7, <1>8, RegisterOK

\* The mount starts from a tree whose maps agree.
LEMMA RebuiltOK ==
  ASSUME NEW files \in Seq(Paths)
  PROVE  TreeOK(RebuildDirectoryStructure(files))
<1> DEFINE step == CHOOSE g : g = [n \in 0..Len(files) |->
                                     IF n = 0 THEN RootTree ELSE RegisterFile(g[n - 1], files[n])]
<1>1. Len(files) \in Nat
  BY LenProperties
<1>2. Rebuilds(step, files, Len(files))
  BY <1>1, RebuildsExist DEF Rebuilds
<1>3. RebuildDirectoryStructure(files) = step[Len(files)]
  BY DEF RebuildDirectoryStructure
<1> HIDE DEF step
<1>4. Len(files) \in 0..Len(files)
  BY <1>1
<1> QED BY <1>2, <1>3, <1>4, RebuildsOK

\* Everything the adapter keeps beside the tree has its type.
HandleTypes ==
  /\ nextFh \in Nat
  /\ \A fh \in DOMAIN openFiles : fh \in Nat /\ fh < nextFh /\ openFiles[fh].path \in Paths

\* A symlink is an inode with a target.
SymlinkTypes == \A i \in DOMAIN symlinks : i \in Inos /\ symlinks[i] \in Targets

\* The invariant of the inode maps.
Agreement ==
  /\ TreeOK(tree) /\ tree.next \in Inos
  /\ HandleTypes /\ SymlinkTypes
  /\ DOMAIN store \subseteq Paths

\* The handlers of names, one after the other: the tree.
LEMMA TreeNext ==
  ASSUME TreeOK(tree), tree.next \in Inos, [Next]_vars
  PROVE  TreeOK(tree') /\ tree'.next \in Inos
<1> DEFINE Goal == TreeOK(tree') /\ tree'.next \in Inos
<1>0. tree.next \in Nat /\ tree.next >= 1
  BY DEF TreeOK, RootIno
<1>1. ASSUME NEW parent \in Held, NEW name \in Names, Create(parent, name) PROVE Goal
  <2> DEFINE p == Append(tree.paths[parent], name)
  <2>1. p \in Paths /\ tree' = RegisterFile(tree, p) /\ tree'.next <= MaxIno + 1
    BY <1>1, ChildPath DEF Create
  <2> HIDE DEF p
  <2>2. TreeOK(tree')
    BY <2>1, RegisterOK
  <2>3. tree'.next \in Nat /\ tree'.next > 1
    BY <2>2 DEF TreeOK, RootIno
  <2> QED BY <2>1, <2>2, <2>3, BoundsAssumption DEF Inos
<1>2. ASSUME NEW parent \in Held, NEW name \in Names, Unlink(parent, name) PROVE Goal
  <2>1. tree' = DropEntry(tree, parent, name)
    BY <1>2 DEF Unlink
  <2> DEFINE e == Entry(1, name, "dir")
  <2>2. e.ino \in Given(tree) /\ e.name = name /\ e.kind = "dir"
    BY DEF Entry, TreeOK, Given, RootIno
  <2> HIDE DEF e
  <2> QED BY <2>1, <2>2, EntriesOK
<1>3. ASSUME NEW parent \in Held, NEW name \in Names, NEW target, Symlink(parent, name, target)
      PROVE  Goal
  <2> DEFINE p == Append(tree.paths[parent], name)
             u == Allocate(tree, p)
             e == Entry(tree.next, name, "symlink")
  <2>1. tree' = AddEntry(u, parent, e) /\ tree.next <= MaxIno
    BY <1>3 DEF Symlink
  <2>2. p \in Paths /\ p \notin DOMAIN tree.inodes /\ parent \in Given(tree)
    BY <1>3, ChildPath, LookupFails DEF Symlink
  <2>3. u = Tree(With(tree.paths, tree.next, p), With(tree.inodes, p, tree.next),
                 tree.dirs, tree.parents, tree.next + 1)
    BY DEF Allocate
  <2>4. e.ino = tree.next /\ e.name = name /\ e.kind = "symlink"
    BY DEF Entry
  <2>5. u.next = tree.next + 1
    BY <2>3 DEF Tree
  <2> HIDE DEF p, u, e
  <2>6. TreeOK(u) /\ tree.next \in Given(u)
    BY <2>2, <2>3, AllocateOK
  <2>7. TreeOK(tree') /\ tree'.next = u.next
    BY <2>1, <2>4, <2>6, EntriesOK
  <2> QED BY <1>0, <2>1, <2>5, <2>7, BoundsAssumption DEF Inos
<1>4. ASSUME NEW parent \in Held, NEW name \in Names, MkDir(parent, name) PROVE Goal
  <2> DEFINE p == Append(tree.paths[parent], name)
             t == Allocate(tree, p)
             u == Tree(t.paths, t.inodes, With(t.dirs, tree.next, {}),
                       With(t.parents, tree.next, parent), t.next)
             e == Entry(tree.next, name, "dir")
  <2>1. tree' = AddEntry(u, parent, e) /\ tree.next <= MaxIno
    BY <1>4 DEF MkDir
  <2>2. p \in Paths /\ p \notin DOMAIN tree.inodes /\ parent \in Given(tree)
    BY <1>4, ChildPath, LookupFails DEF MkDir
  <2>3. u = Tree(With(tree.paths, tree.next, p), With(tree.inodes, p, tree.next),
                 With(tree.dirs, tree.next, {}), With(tree.parents, tree.next, parent), tree.next + 1)
    BY DEF Allocate, Tree
  <2>4. e.ino = tree.next /\ e.name = name /\ e.kind = "dir"
    BY DEF Entry
  <2>5. u.next = tree.next + 1
    BY <2>3 DEF Tree
  <2> HIDE DEF p, u, e
  <2>6. TreeOK(u) /\ tree.next \in Given(u)
    BY <2>2, <2>3, AllocateOK
  <2>7. TreeOK(tree') /\ tree'.next = u.next
    BY <2>1, <2>4, <2>6, EntriesOK
  <2> QED BY <1>0, <2>1, <2>5, <2>7, BoundsAssumption DEF Inos
<1>5. ASSUME NEW parent \in Held, NEW name \in Names, RmDir(parent, name) PROVE Goal
  <2>1. TreeOK(tree')
    BY <1>5, RmDirOK
  <2>2. tree'.next = tree.next
    BY <1>5 DEF RmDir, DropEntry, Tree
  <2> QED BY <2>1, <2>2
<1>6. ASSUME NEW parent \in Held, NEW name \in Names, NEW newparent \in Held, NEW newname \in Names,
             Rename(parent, name, newparent, newname)
      PROVE  Goal
  <2>1. /\ tree' = Moved(Lookup(parent, name), parent, name, newparent, newname)
        /\ Lookup(parent, name) # 0 /\ Lookup(parent, name) # Lookup(newparent, newname)
    BY <1>6 DEF Rename
  <2>2. Append(tree.paths[parent], name) # Append(tree.paths[newparent], newname)
    BY <2>1 DEF Lookup
  <2> QED BY <2>1, <2>2, MovedOK
<1>7. ASSUME OnHandles \/ OnXattrs PROVE UNCHANGED tree
  BY <1>7 DEF OnHandles, OnXattrs, Open, Truncate, Release, Write, SetXattr, RemoveXattr
<1>8. CASE UNCHANGED tree
  BY <1>8
<1> QED BY <1>1, <1>2, <1>3, <1>4, <1>5, <1>6, <1>7, <1>8 DEF Next, OnNames, vars

\* The handlers again: the handles and the symlinks.
LEMMA OthersNext ==
  ASSUME Agreement, HandlesOK, [Next]_vars
  PROVE  HandleTypes' /\ SymlinkTypes'
<1>1. ASSUME NEW p \in Paths, NEW v, AllocateFh(p, v) PROVE HandleTypes'
  <2>1. openFiles' = With(openFiles, nextFh, [path |-> p, version |-> v]) /\ nextFh' = nextFh + 1
    BY <1>1 DEF AllocateFh
  <2> QED BY <2>1 DEF HandleTypes, Agreement, With
<1>2. ASSUME UNCHANGED <<openFiles, nextFh>> PROVE HandleTypes'
  BY <1>2 DEF HandleTypes, Agreement
<1>3. ASSUME UNCHANGED symlinks PROVE SymlinkTypes'
  BY <1>3 DEF SymlinkTypes, Agreement
<1>4. ASSUME NEW ino \in DOMAIN tree.paths, Open(ino) PROVE HandleTypes' /\ UNCHANGED symlinks
  <2>1. tree.paths[ino] \in Paths
    BY <1>4 DEF Agreement, TreeOK
  <2> QED BY <1>1, <1>4, <2>1 DEF Open
<1>5. ASSUME NEW fh, Release(fh) PROVE HandleTypes' /\ UNCHANGED symlinks
  BY <1>5 DEF Release, Without, HandleTypes, Agreement
<1>6. ASSUME NEW fh \in DOMAIN openFiles, NEW offset, NEW data, Write(fh, offset, data)
      PROVE  HandleTypes' /\ UNCHANGED symlinks
  <2> DEFINE v == store'[openFiles[fh].path].version
  <2>1. openFiles' = [openFiles EXCEPT ![fh].version = v] /\ UNCHANGED <<nextFh, symlinks>>
    BY <1>6 DEF Write
  <2>2. openFiles[fh] = [path |-> openFiles[fh].path, version |-> openFiles[fh].version]
    BY <1>6 DEF HandlesOK
  <2> HIDE DEF v
  <2>3. DOMAIN openFiles' = DOMAIN openFiles /\ \A x \in DOMAIN openFiles : openFiles'[x].path = openFiles[x].path
    BY <2>1, <2>2
  <2> QED BY <2>1, <2>3 DEF HandleTypes, Agreement
<1>7. ASSUME NEW parent \in Held, NEW name \in Names, Create(parent, name)
      PROVE  HandleTypes' /\ UNCHANGED symlinks
  BY <1>1, <1>7, ChildPath DEF Create, Agreement
<1>8. ASSUME NEW parent, NEW name, NEW target \in Targets, Symlink(parent, name, target)
      PROVE  SymlinkTypes' /\ UNCHANGED <<openFiles, nextFh>>
  <2>1. symlinks' = With(symlinks, tree.next, target) /\ UNCHANGED <<openFiles, nextFh>>
    BY <1>8 DEF Symlink
  <2> QED BY <2>1 DEF SymlinkTypes, Agreement, With
<1>9. ASSUME NEW ino, NEW size, Truncate(ino, size) PROVE UNCHANGED <<openFiles, nextFh, symlinks>>
  BY <1>9 DEF Truncate
<1>10. ASSUME NEW parent, NEW name, \/ Unlink(parent, name) \/ MkDir(parent, name) \/ RmDir(parent, name)
                                    \/ \E np \in Held, nn \in Names : Rename(parent, name, np, nn)
       PROVE  UNCHANGED <<openFiles, nextFh, symlinks>>
  BY <1>10 DEF Unlink, MkDir, RmDir, Rename
<1>11. ASSUME OnXattrs PROVE UNCHANGED <<openFiles, nextFh, symlinks>>
  BY <1>11 DEF OnXattrs, SetXattr, RemoveXattr
<1>12. CASE UNCHANGED vars
  BY <1>2, <1>3, <1>12 DEF vars
<1>14. CASE OnHandles
  BY <1>2, <1>3, <1>4, <1>5, <1>6, <1>9, <1>14 DEF OnHandles
<1>15. CASE OnNames
  BY <1>2, <1>3, <1>7, <1>8, <1>10, <1>15 DEF OnNames
<1> QED
  BY <1>2, <1>3, <1>11, <1>12, <1>14, <1>15 DEF Next

\* The handlers once more: the store has files under paths only.
LEMMA StorePaths ==
  ASSUME Agreement, [Next]_vars
  PROVE  DOMAIN store' \subseteq Paths
<1>1. ASSUME NEW p \in Paths, NEW d, store' = Written(p, d) PROVE DOMAIN store' \subseteq Paths
  BY <1>1 DEF Written, With, Agreement
<1>2. ASSUME NEW p, store' = Deleted(p) PROVE DOMAIN store' \subseteq Paths
  BY <1>2 DEF Deleted, Agreement
<1>3. ASSUME NEW ino \in DOMAIN tree.paths, NEW size, Truncate(ino, size)
      PROVE  DOMAIN store' \subseteq Paths
  <2>1. tree.paths[ino] \in Paths
    BY DEF Agreement, TreeOK
  <2> QED BY <1>1, <1>3, <2>1 DEF Truncate
<1>4. ASSUME NEW fh \in DOMAIN openFiles, NEW offset, NEW data, Write(fh, offset, data)
      PROVE  DOMAIN store' \subseteq Paths
  <2>1. openFiles[fh].path \in Paths
    BY DEF Agreement, HandleTypes
  <2> QED BY <1>1, <1>4, <2>1 DEF Write
<1>5. ASSUME NEW parent \in Held, NEW name \in Names, Create(parent, name)
      PROVE  DOMAIN store' \subseteq Paths
  <2>1. TreeOK(tree)
    BY DEF Agreement
  <2>2. Append(tree.paths[parent], name) \in Paths
    BY <2>1, ChildPath
  <2> QED BY <1>1, <1>5, <2>2 DEF Create
<1>6. ASSUME NEW parent, NEW name, Unlink(parent, name) PROVE DOMAIN store' \subseteq Paths
  BY <1>2, <1>6 DEF Unlink
<1>7. ASSUME NEW parent \in Held, NEW name \in Names, NEW newparent \in Held, NEW newname \in Names,
             Rename(parent, name, newparent, newname)
      PROVE  DOMAIN store' \subseteq Paths
  <2> DEFINE old == Append(tree.paths[parent], name)
             new == Append(tree.paths[newparent], newname)
  <2>1. TreeOK(tree)
    BY DEF Agreement
  <2>2. new \in Paths
    BY <2>1, ChildPath
  <2>3. store' = store \/ store' = Copied(old, new)
    BY <1>7 DEF Rename
  <2> HIDE DEF old, new
  <2> QED BY <2>2, <2>3 DEF Copied, With, Agreement
<1>8. ASSUME NEW parent, NEW name, \/ MkDir(parent, name) \/ RmDir(parent, name)
                                   \/ \E target \in Targets : Symlink(parent, name, target)
      PROVE  UNCHANGED store
  BY <1>8 DEF MkDir, RmDir, Symlink
<1>9. ASSUME OnXattrs \/ (\E ino : Open(ino)) \/ (\E fh : Release(fh)) \/ UNCHANGED vars
      PROVE  UNCHANGED store
  BY <1>9 DEF OnXattrs, SetXattr, RemoveXattr, Open, Release, vars
<1>10. ASSUME UNCHANGED store PROVE DOMAIN store' \subseteq Paths
  BY <1>10 DEF Agreement
<1>11. CASE OnHandles
  BY <1>3, <1>4, <1>9, <1>10, <1>11 DEF OnHandles
<1>12. CASE OnNames
  BY <1>5, <1>6, <1>7, <1>8, <1>10, <1>12 DEF OnNames
<1> QED BY <1>9, <1>10, <1>11, <1>12 DEF Next

\* After the mount the maps agree.
LEMMA AgreementInit == Init => Agreement
<1> SUFFICES ASSUME Init PROVE Agreement
  OBVIOUS
<1>1. /\ \A i \in DOMAIN InitFiles : InitFiles[i][1] \in Paths
      /\ DOMAIN InitFiles = 1..Len(InitFiles) /\ Len(InitFiles) \in Nat
  BY InitAssumption
<1>2. ListFiles \in Seq(Paths)
  <2> DEFINE keys == [i \in DOMAIN InitFiles |-> InitFiles[i][1]]
  <2>1. keys \in Seq(Paths)
    BY <1>1, SeqDef
  <2> HIDE DEF keys
  <2>2. keys \o SlashlessFiles \in Seq(Paths)
    BY <2>1, InitAssumption
  <2> QED BY <2>2 DEF ListFiles, keys
<1>3. TreeOK(tree)
  BY <1>2, RebuiltOK DEF Init
<1>4. tree.next \in Inos
  <2>1. tree.next <= MaxIno + 1
    BY InitAssumption DEF Init
  <2>2. tree.next \in Nat /\ tree.next > 1
    BY <1>3 DEF TreeOK, RootIno
  <2> QED BY <2>1, <2>2, BoundsAssumption DEF Inos
<1>5. HandleTypes /\ SymlinkTypes
  BY DEF Init, HandleTypes, SymlinkTypes
<1>6. DOMAIN store \subseteq Paths
  BY <1>1 DEF Init
<1> QED BY <1>3, <1>4, <1>5, <1>6 DEF Agreement

\* What the invariants are for.
LEMMA AgreementMeans == Agreement /\ Versions => MapsAgree
<1> SUFFICES ASSUME Agreement, Versions PROVE MapsAgree
  OBVIOUS
<1>1. TreeOK(tree) /\ tree.next \in Inos
  BY DEF Agreement
<1>2. Given(tree) \subseteq Inos
  BY <1>1, BoundsAssumption DEF TreeOK, Given, Inos, RootIno
<1>3. /\ DOMAIN tree.paths \subseteq 1..(tree.next - 1)
      /\ \A i \in DOMAIN tree.paths : tree.paths[i] \in Paths
      /\ DOMAIN tree.inodes \subseteq Paths
  BY <1>1 DEF TreeOK, Given
<1>4. \A d \in DOMAIN tree.dirs : \A e \in tree.dirs[d] :
        e.ino \in Inos /\ e.name \in Names /\ e.kind \in {"file", "dir", "symlink"}
  BY <1>1, <1>2 DEF TreeOK
<1>5. \A i \in DOMAIN tree.parents : tree.parents[i] \in Inos
  BY <1>1, <1>2 DEF TreeOK
<1>6. \A p \in DOMAIN store : store[p].version \in 0..NoVersion
  <2>1. (1..(MaxVersion + 1)) \subseteq 0..NoVersion /\ (0..MaxVersion) \subseteq 0..NoVersion
    BY BoundsAssumption DEF NoVersion
  <2> QED BY <2>1 DEF Versions, StoreOK
<1>7. TypeOK
  BY <1>1, <1>3, <1>4, <1>5, <1>6 DEF TypeOK, Agreement, HandleTypes, SymlinkTypes
<1>8. \A p \in DOMAIN tree.inodes : tree.inodes[p] \in DOMAIN tree.paths /\ tree.paths[tree.inodes[p]] = p
  BY <1>1 DEF TreeOK
<1> QED BY <1>7, <1>8 DEF MapsAgree

\* Each step keeps the maps in agreement.
LEMMA AgreementNext == ASSUME Agreement, Versions, [Next]_vars PROVE Agreement'
<1>1. TreeOK(tree') /\ tree'.next \in Inos
  BY TreeNext DEF Agreement
<1>2. HandleTypes' /\ SymlinkTypes'
  BY OthersNext DEF Versions
<1>3. DOMAIN store' \subseteq Paths
  BY StorePaths
<1> QED BY <1>1, <1>2, <1>3 DEF Agreement

\* However the programs' requests follow each other (renames over paths in
\* use and of directories with contents among them), a path that the adapter
\* answers for leads to an inode that has this path: open, read and setattr
\* work on the file the kernel looked up.
THEOREM MapsAlwaysAgree == Spec => []MapsAgree
<1>1. Init => Agreement /\ Versions
  BY AgreementInit, VersionsInit
<1>2. Agreement /\ Versions /\ [Next]_vars => (Agreement /\ Versions)'
  BY AgreementNext, VersionsNext
<1> QED BY <1>1, <1>2, AgreementMeans, PTL DEF Spec
-----------------------------------------------------------------------------
(* Paths above and below each other *)

\* A path is as long as its names.
LEMMA PathLen ==
  \A p \in Paths : Len(p) \in Nat /\ \A j \in 1..Len(p) : p[j] \in Names
<1> SUFFICES ASSUME NEW p \in Paths PROVE Len(p) \in Nat /\ \A j \in 1..Len(p) : p[j] \in Names
  OBVIOUS
<1>1. p \in Seq(Names)
  BY PathIsSeq
<1> QED BY <1>1, LenProperties, ElementOfSeq

\* Paths with the same names in the same places.
LEMMA PathEqual ==
  ASSUME NEW p \in Paths, NEW q \in Paths, Len(p) = Len(q), \A j \in 1..Len(p) : p[j] = q[j]
  PROVE  p = q
<1>1. p \in Seq(Names) /\ q \in Seq(Names)
  BY PathIsSeq
<1> QED BY <1>1, SeqEqual

\* p is above q when q begins with the names of p.
LEMMA BelowMeans ==
  ASSUME NEW p \in Paths, NEW q \in Paths
  PROVE  IsBelow(p, q) <=> Len(p) <= Len(q) /\ \A j \in 1..Len(p) : p[j] = q[j]
<1>1. Len(p) \in Nat /\ Len(q) \in Nat
  BY PathLen
<1>2. CASE Len(p) <= Len(q)
  <2> DEFINE s == SubSeq(q, 1, Len(p))
  <2>1. Len(p) \in 0..Len(q)
    BY <1>1, <1>2
  <2>2. s \in Paths /\ Len(s) = Len(p) /\ \A j \in 1..Len(p) : s[j] = q[j]
    BY <2>1, Levels
  <2>3. s = p <=> \A j \in 1..Len(p) : p[j] = q[j]
    <3> HIDE DEF s
    <3>1. ASSUME \A j \in 1..Len(p) : p[j] = q[j] PROVE s = p
      <4>1. \A j \in 1..Len(s) : s[j] = p[j]
        BY <2>2, <3>1
      <4> QED BY <2>2, <4>1, PathEqual
    <3> QED BY <2>2, <3>1
  <2> QED BY <1>1, <1>2, <2>3 DEF IsBelow
<1>3. CASE ~ (Len(p) <= Len(q))
  BY <1>1, <1>3 DEF IsBelow
<1> QED BY <1>2, <1>3

\* The order of the paths.
LEMMA BelowRefl == \A p \in Paths : IsBelow(p, p)
<1> QED BY BelowMeans, PathLen

LEMMA BelowTrans ==
  ASSUME NEW p \in Paths, NEW q \in Paths, NEW r \in Paths, IsBelow(p, q), IsBelow(q, r)
  PROVE  IsBelow(p, r)
<1>1. /\ Len(p) <= Len(q) /\ (\A j \in 1..Len(p) : p[j] = q[j])
      /\ Len(q) <= Len(r) /\ (\A j \in 1..Len(q) : q[j] = r[j])
  BY BelowMeans
<1>2. Len(p) \in Nat /\ Len(q) \in Nat /\ Len(r) \in Nat
  BY PathLen
<1>3. Len(p) <= Len(r) /\ \A j \in 1..Len(p) : j \in 1..Len(q)
  BY <1>1, <1>2
<1>4. \A j \in 1..Len(p) : p[j] = r[j]
  BY <1>1, <1>3
<1> QED BY <1>3, <1>4, BelowMeans

LEMMA BelowAntisym ==
  ASSUME NEW p \in Paths, NEW q \in Paths, IsBelow(p, q), IsBelow(q, p)
  PROVE  p = q
<1>1. /\ Len(p) <= Len(q) /\ Len(q) <= Len(p) /\ \A j \in 1..Len(p) : p[j] = q[j]
  BY BelowMeans
<1>2. Len(p) = Len(q)
  BY <1>1, PathLen
<1> QED BY <1>1, <1>2, PathEqual

\* Two paths above the same path are one above the other.
LEMMA BelowLinear ==
  ASSUME NEW p \in Paths, NEW q \in Paths, NEW r \in Paths, IsBelow(p, r), IsBelow(q, r)
  PROVE  IsBelow(p, q) \/ IsBelow(q, p)
<1>1. /\ Len(p) <= Len(r) /\ (\A j \in 1..Len(p) : p[j] = r[j])
      /\ Len(q) <= Len(r) /\ (\A j \in 1..Len(q) : q[j] = r[j])
  BY BelowMeans
<1>2. Len(p) \in Nat /\ Len(q) \in Nat
  BY PathLen
<1>3. CASE Len(p) <= Len(q)
  <2>1. \A j \in 1..Len(p) : j \in 1..Len(q)
    BY <1>2, <1>3
  <2>2. \A j \in 1..Len(p) : p[j] = q[j]
    BY <1>1, <2>1
  <2> QED BY <1>3, <2>2, BelowMeans
<1>4. CASE Len(q) <= Len(p)
  <2>1. \A j \in 1..Len(q) : j \in 1..Len(p)
    BY <1>2, <1>4
  <2>2. \A j \in 1..Len(q) : q[j] = p[j]
    BY <1>1, <2>1
  <2> QED BY <1>4, <2>2, BelowMeans
<1> QED BY <1>2, <1>3, <1>4

\* The paths below the root.
NonRoot == Paths \ {<<>>}

LEMMA NonRootLen == \A p \in Paths : p # <<>> <=> Len(p) > 0
<1> SUFFICES ASSUME NEW p \in Paths PROVE p # <<>> <=> Len(p) > 0
  OBVIOUS
<1>1. p \in Seq(Names) /\ Len(p) \in Nat
  BY PathIsSeq, PathLen
<1> QED BY <1>1, EmptySeq

\* The parent of a path, and what is between the two.
LEMMA ParentOf ==
  ASSUME NEW p \in NonRoot
  PROVE  /\ Parent(p) \in Paths /\ BaseName(p) \in Names
         /\ Len(Parent(p)) = Len(p) - 1 /\ Parent(p) # p
         /\ \A j \in 1..(Len(p) - 1) : Parent(p)[j] = p[j]
         /\ IsBelow(Parent(p), p)
         /\ p = Append(Parent(p), BaseName(p))
<1>1. p \in Paths /\ Len(p) \in Nat /\ Len(p) > 0 /\ \A j \in 1..Len(p) : p[j] \in Names
  BY NonRootLen, PathLen DEF NonRoot
<1>2. Len(p) - 1 \in 0..Len(p) /\ Len(p) \in 1..Len(p)
  BY <1>1
<1>3. /\ Parent(p) \in Paths /\ Len(Parent(p)) = Len(p) - 1
      /\ \A j \in 1..(Len(p) - 1) : Parent(p)[j] = p[j]
  BY <1>1, <1>2, Levels DEF Parent
<1>4. IsBelow(Parent(p), p)
  BY <1>1, <1>3, BelowMeans
<1>5. BaseName(p) \in Names
  BY <1>1, <1>2 DEF BaseName
<1>6. p = Append(Parent(p), BaseName(p))
  <2> DEFINE r == Parent(p)
             n == BaseName(p)
  <2>1. r \in Seq(Names) /\ p \in Seq(Names) /\ n \in Names
    BY <1>1, <1>3, <1>5, PathIsSeq
  <2>2. /\ Append(r, n) \in Seq(Names) /\ Len(Append(r, n)) = Len(r) + 1
        /\ (\A j \in 1..Len(r) : Append(r, n)[j] = r[j]) /\ Append(r, n)[Len(r) + 1] = n
    BY <2>1, AppendProperties
  <2>3. Len(r) = Len(p) - 1 /\ \A j \in 1..(Len(p) - 1) : r[j] = p[j]
    BY <1>3
  <2>4. n = p[Len(p)]
    BY DEF BaseName
  <2> HIDE DEF r, n
  <2>5. Len(p) = Len(Append(r, n)) /\ Len(r) + 1 = Len(p)
    BY <1>1, <2>2, <2>3
  <2>6. ASSUME NEW j \in 1..Len(p) PROVE p[j] = Append(r, n)[j]
    <3>1. CASE j = Len(p)
      BY <2>2, <2>4, <2>5, <3>1
    <3>2. CASE j # Len(p)
      <4>1. j \in 1..(Len(p) - 1) /\ j \in 1..Len(r)
        BY <1>1, <2>3, <3>2
      <4> QED BY <2>2, <2>3, <4>1
    <3> QED BY <3>1, <3>2
  <2> QED BY <2>1, <2>2, <2>5, <2>6, SeqEqual DEF r, n
<1> QED BY <1>1, <1>3, <1>4, <1>5, <1>6

\* What has a name in the directory at r.
LEMMA ChildOf ==
  ASSUME NEW r \in Paths, NEW n \in Names, Append(r, n) \in Paths
  PROVE  LET p == Append(r, n)
         IN  p \in NonRoot /\ Parent(p) = r /\ BaseName(p) = n /\ IsBelow(r, p) /\ p # r
<1> DEFINE p == Append(r, n)
<1>1. r \in Seq(Names)
  BY PathIsSeq
<1>2. /\ p # <<>> /\ Len(p) = Len(r) + 1
      /\ (\A j \in 1..Len(r) : p[j] = r[j]) /\ p[Len(r) + 1] = n
  BY <1>1, AppendProperties
<1>3. p \in NonRoot /\ Len(r) \in Nat
  BY <1>2, PathLen DEF NonRoot
<1> HIDE DEF p
<1>4. /\ Parent(p) \in Paths /\ Len(Parent(p)) = Len(p) - 1 /\ IsBelow(Parent(p), p)
      /\ \A j \in 1..(Len(p) - 1) : Parent(p)[j] = p[j]
  BY <1>3, ParentOf
<1>5. Len(p) - 1 = Len(r) /\ Len(Parent(p)) = Len(r)
  BY <1>2, <1>3, <1>4
<1>6. \A j \in 1..Len(r) : Parent(p)[j] = r[j]
  BY <1>2, <1>4, <1>5
<1>7. Parent(p) = r
  BY <1>4, <1>5, <1>6, PathEqual
<1>8. BaseName(p) = n
  BY <1>2 DEF BaseName
<1>9. p # r
  BY <1>2, <1>3
<1> QED BY <1>3, <1>4, <1>7, <1>8, <1>9 DEF p

\* A path is above what has a name in it, however long that is.
LEMMA BelowAppend ==
  ASSUME NEW r \in Seq(Names), NEW n \in Names
  PROVE  IsBelow(r, Append(r, n))
<1> DEFINE p == Append(r, n)
<1>1. /\ p \in Seq(Names) /\ Len(p) = Len(r) + 1 /\ Len(r) \in Nat
      /\ \A j \in 1..Len(r) : p[j] = r[j]
  BY AppendProperties, LenProperties
<1> HIDE DEF p
<1>2. \A j \in 1..Len(r) : p[j] \in Names
  BY <1>1, ElementOfSeq
<1>3. /\ SubSeq(p, 1, Len(r)) \in Seq(Names)
      /\ Len(SubSeq(p, 1, Len(r))) = IF 1 <= Len(r) THEN Len(r) - 1 + 1 ELSE 0
      /\ \A j \in 1..(Len(r) - 1 + 1) : SubSeq(p, 1, Len(r))[j] = p[1 + j - 1]
  BY <1>1, <1>2, SubSeqProperties
<1>4. Len(SubSeq(p, 1, Len(r))) = Len(r)
  BY <1>1, <1>3
<1>5. \A j \in 1..Len(r) : SubSeq(p, 1, Len(r))[j] = r[j]
  <2>1. \A j \in 1..Len(r) : j \in 1..(Len(r) - 1 + 1) /\ 1 + j - 1 = j
    BY <1>1
  <2> QED BY <1>1, <1>3, <2>1
<1>6. SubSeq(p, 1, Len(r)) = r
  BY <1>3, <1>4, <1>5, SeqEqual
<1> QED BY <1>1, <1>6 DEF IsBelow, p

\* A path above another one is above its parent.
LEMMA BelowParent ==
  ASSUME NEW p \in Paths, NEW q \in NonRoot, IsBelow(p, q), p # q
  PROVE  IsBelow(p, Parent(q))
<1>1. /\ Parent(q) \in Paths /\ Len(Parent(q)) = Len(q) - 1
      /\ \A j \in 1..(Len(q) - 1) : Parent(q)[j] = q[j]
  BY ParentOf
<1>2. q \in Paths /\ Len(p) <= Len(q) /\ \A j \in 1..Len(p) : p[j] = q[j]
  BY BelowMeans DEF NonRoot
<1>3. Len(p) # Len(q)
  BY <1>2, PathEqual
<1>4. Len(p) \in Nat /\ Len(q) \in Nat
  BY <1>2, PathLen
<1>5. Len(p) <= Len(q) - 1 /\ \A j \in 1..Len(p) : j \in 1..(Len(q) - 1)
  BY <1>2, <1>3, <1>4
<1>6. \A j \in 1..Len(p) : p[j] = Parent(q)[j]
  BY <1>1, <1>2, <1>5
<1> QED BY <1>1, <1>5, <1>6, BelowMeans

\* On the way from a path down to another one there is one right below it.
LEMMA BelowStep ==
  ASSUME NEW p \in Paths, NEW q \in Paths, IsBelow(p, q), p # q
  PROVE  \E x \in NonRoot : Parent(x) = p /\ IsBelow(x, q)
<1>1. Len(p) <= Len(q) /\ \A j \in 1..Len(p) : p[j] = q[j]
  BY BelowMeans
<1>2. Len(p) # Len(q)
  BY <1>1, PathEqual
<1>3. Len(p) \in Nat /\ Len(q) \in Nat
  BY PathLen
<1> DEFINE k == Len(p) + 1
           x == SubSeq(q, 1, k)
<1>4. k \in 0..Len(q) /\ k - 1 = Len(p) /\ k > 0 /\ k <= Len(q)
  BY <1>1, <1>2, <1>3
<1> HIDE DEF k
<1>5. x \in Paths /\ Len(x) = k /\ \A j \in 1..k : x[j] = q[j]
  BY <1>4, Levels
<1> HIDE DEF x
<1>6. x \in NonRoot
  BY <1>4, <1>5, NonRootLen DEF NonRoot
<1>7. IsBelow(x, q)
  BY <1>4, <1>5, BelowMeans
<1>8. Parent(x) = p
  <2>1. /\ Parent(x) \in Paths /\ Len(Parent(x)) = Len(p)
        /\ \A j \in 1..Len(p) : Parent(x)[j] = x[j]
    BY <1>4, <1>5, <1>6, ParentOf
  <2>2. \A j \in 1..Len(p) : j \in 1..k
    BY <1>3, <1>4
  <2>3. \A j \in 1..Len(p) : Parent(x)[j] = p[j]
    BY <1>1, <1>5, <2>1, <2>2
  <2> QED BY <2>1, <2>3, PathEqual
<1> QED BY <1>6, <1>7, <1>8

\* Nothing but itself is above the root.
LEMMA AboveRoot == \A p \in Paths : IsBelow(p, <<>>) => p = <<>>
<1> SUFFICES ASSUME NEW p \in Paths, IsBelow(p, <<>>) PROVE p = <<>>
  OBVIOUS
<1>1. Len(p) <= Len(<<>>) /\ Len(<<>>) = 0
  BY EmptySeq DEF IsBelow
<1> QED BY <1>1, NonRootLen, PathLen
-----------------------------------------------------------------------------
(* A tree in order *)

\* A path below one of D, or above one of D as well.
Lost(D, p) == \E d \in D : IsBelow(d, p)
Crossed(D, p) == \E d \in D : IsBelow(d, p) \/ IsBelow(p, d)

\* The directory at the parent of p lists p, under the inode p has.
Linked(t, p) ==
  /\ p \in DOMAIN t.inodes /\ Parent(p) \in DOMAIN t.inodes
  /\ t.inodes[Parent(p)] \in DOMAIN t.dirs
  /\ \E e \in t.dirs[t.inodes[Parent(p)]] : e.ino = t.inodes[p] /\ e.name = BaseName(p)

\* From the root down to p every directory lists the next one.
Reached(t, p) == \A x \in NonRoot : IsBelow(x, p) => Linked(t, x)

\* The two inode maps are inverse to each other, but for the inodes that kept
\* a path which a rename took from them.
Placed(t, D) ==
  \A i \in DOMAIN t.paths :
    ~Lost(D, t.paths[i]) => t.paths[i] \in DOMAIN t.inodes /\ t.inodes[t.paths[i]] = i

\* Directories can be reached, and everything else that was not unlinked: X
\* are the paths of the deleted files.
DirsReached(t, D) ==
  \A i \in DOMAIN t.dirs \cap DOMAIN t.paths : ~Lost(D, t.paths[i]) => Reached(t, t.paths[i])

FilesReached(t, D, X) ==
  \A i \in DOMAIN t.paths :
    ~Crossed(D, t.paths[i]) /\ t.paths[i] \notin X => Reached(t, t.paths[i])

InOrder(t, D, X) ==
  /\ t.inodes[<<>>] \in DOMAIN t.dirs
  /\ Placed(t, D) /\ DirsReached(t, D) /\ FilesReached(t, D, X)

\* An entry e of directory d shows what is there: a directory that knows its
\* parent, one of the files F, or one of the symlinks S.
Shows(t, F, S, d, e) ==
  LET p == Append(t.paths[d], e.name)
  IN  /\ p \in DOMAIN t.inodes /\ t.inodes[p] = e.ino
      /\ e.kind = "dir" =>
           e.ino \in DOMAIN t.dirs /\ e.ino \in DOMAIN t.parents /\ t.parents[e.ino] = d
      /\ e.kind = "file" => p \in F \/ e.ino \in S

Listings(t, D, F, S) ==
  \A d \in DOMAIN t.dirs \cap DOMAIN t.paths : \A e \in t.dirs[d] :
    Lost(D, Append(t.paths[d], e.name)) \/ Shows(t, F, S, d, e)

\* Below a lost path everything is lost.
LEMMA LostBelow ==
  ASSUME NEW D, D \subseteq Paths, NEW p \in Paths, NEW q \in Paths, IsBelow(p, q), Lost(D, p)
  PROVE  Lost(D, q)
<1>1. PICK d \in D : IsBelow(d, p)
  BY DEF Lost
<1>2. IsBelow(d, q)
  BY <1>1, BelowTrans
<1> QED BY <1>2 DEF Lost

LEMMA LostCrossed == \A D, p : Lost(D, p) => Crossed(D, p)
BY DEF Lost, Crossed

\* Above a path that is reached there are directories with entries.
LEMMA ReachedThrough ==
  ASSUME NEW t, NEW p \in Paths, NEW q \in Paths, Reached(t, q), IsBelow(p, q), p # q
  PROVE  /\ p \in DOMAIN t.inodes /\ t.inodes[p] \in DOMAIN t.dirs
         /\ t.dirs[t.inodes[p]] # {}
<1>1. PICK x \in NonRoot : Parent(x) = p /\ IsBelow(x, q)
  BY BelowStep
<1>2. Linked(t, x)
  BY <1>1 DEF Reached
<1> QED BY <1>1, <1>2 DEF Linked

\* A path that is reached has an inode.
LEMMA ReachedHas ==
  ASSUME NEW t, NEW p \in Paths, TreeOK(t), Reached(t, p)
  PROVE  p \in DOMAIN t.inodes
<1>1. CASE p = <<>>
  BY <1>1 DEF TreeOK
<1>2. CASE p # <<>>
  <2>1. p \in NonRoot /\ IsBelow(p, p)
    BY <1>2, BelowRefl DEF NonRoot
  <2> QED BY <2>1 DEF Reached, Linked
<1> QED BY <1>1, <1>2

\* What is linked in a directory that is reached is reached.
LEMMA ReachedChild ==
  ASSUME NEW t, NEW p \in NonRoot, Reached(t, Parent(p)), Linked(t, p)
  PROVE  Reached(t, p)
<1> SUFFICES ASSUME NEW x \in NonRoot, IsBelow(x, p), x # p PROVE Linked(t, x)
  BY DEF Reached
<1>1. IsBelow(x, Parent(p))
  BY BelowParent DEF NonRoot
<1> QED BY <1>1 DEF Reached

\* The directory that links a path is at its parent.
LEMMA LinkedAt ==
  ASSUME NEW t, TreeOK(t), NEW p \in NonRoot, Linked(t, p)
  PROVE  LET d == t.inodes[Parent(p)]
         IN  /\ d \in DOMAIN t.dirs /\ d \in DOMAIN t.paths /\ t.paths[d] = Parent(p)
             /\ p = Append(t.paths[d], BaseName(p))
<1>1. t.inodes[Parent(p)] \in DOMAIN t.dirs /\ Parent(p) \in DOMAIN t.inodes
  BY DEF Linked
<1>2. p = Append(Parent(p), BaseName(p))
  BY ParentOf
<1> QED BY <1>1, <1>2 DEF TreeOK

\* An entry is for a path below its directory's.
LEMMA EntryPath ==
  ASSUME NEW t, TreeOK(t), NEW d \in DOMAIN t.dirs \cap DOMAIN t.paths, NEW e \in t.dirs[d],
         NEW F, NEW S, Shows(t, F, S, d, e)
  PROVE  LET p == Append(t.paths[d], e.name)
         IN  /\ p \in NonRoot /\ p \in DOMAIN t.inodes /\ t.inodes[p] = e.ino
             /\ e.ino \in DOMAIN t.paths /\ t.paths[e.ino] = p
             /\ Parent(p) = t.paths[d] /\ BaseName(p) = e.name /\ IsBelow(t.paths[d], p)
<1> DEFINE p == Append(t.paths[d], e.name)
<1>1. p \in DOMAIN t.inodes /\ t.inodes[p] = e.ino
  BY DEF Shows
<1>2. p \in Paths /\ e.ino \in DOMAIN t.paths /\ t.paths[e.ino] = p /\ t.paths[d] \in Paths /\ e.name \in Names
  BY <1>1 DEF TreeOK
<1> QED BY <1>1, <1>2, ChildOf

\* More files and symlinks can only be more of what a listing shows.
LEMMA ListingsMore ==
  ASSUME NEW t, NEW D, NEW F, NEW S, Listings(t, D, F, S), NEW G, NEW T, F \subseteq G, S \subseteq T
  PROVE  Listings(t, D, G, T)
BY DEF Listings, Shows

\* x is t with a new inode for p and the entry e for it: of a directory or a
\* symlink.
Added(t, x, parent, name, p, e) ==
  /\ TreeOK(t) /\ parent \in DOMAIN t.dirs \cap DOMAIN t.paths /\ name \in Names
  /\ p \in Paths /\ p = Append(t.paths[parent], name) /\ p \notin DOMAIN t.inodes
  /\ e.ino = t.next /\ e.name = name /\ e.kind # "file"
  /\ x.paths = With(t.paths, t.next, p) /\ x.inodes = With(t.inodes, p, t.next)
  /\ DOMAIN t.dirs \subseteq DOMAIN x.dirs /\ DOMAIN x.dirs \subseteq DOMAIN t.dirs \cup {t.next}
  /\ \A d \in DOMAIN t.dirs : x.dirs[d] = IF d = parent THEN t.dirs[d] \cup {e} ELSE t.dirs[d]
  /\ t.next \in DOMAIN x.dirs => x.dirs[t.next] = {}
  /\ \A i \in DOMAIN t.parents : i # t.next => i \in DOMAIN x.parents /\ x.parents[i] = t.parents[i]
  /\ e.kind = "dir" => t.next \in DOMAIN x.dirs /\ t.next \in DOMAIN x.parents /\ x.parents[t.next] = parent

\* A new inode is listed in a directory.
LEMMA NewChild ==
  ASSUME NEW t, NEW x, NEW parent, NEW name, NEW p, NEW e, NEW D, NEW X, NEW F, NEW S,
         Added(t, x, parent, name, p, e), D \subseteq Paths, InOrder(t, D, X), Listings(t, D, F, S)
  PROVE  InOrder(x, D, X) /\ Listings(x, D, F, S)
<1>0. /\ TreeOK(t) /\ parent \in DOMAIN t.dirs \cap DOMAIN t.paths /\ name \in Names
      /\ p \in Paths /\ p = Append(t.paths[parent], name) /\ p \notin DOMAIN t.inodes
      /\ e.ino = t.next /\ e.name = name /\ e.kind # "file"
      /\ x.paths = With(t.paths, t.next, p) /\ x.inodes = With(t.inodes, p, t.next)
      /\ DOMAIN t.dirs \subseteq DOMAIN x.dirs /\ DOMAIN x.dirs \subseteq DOMAIN t.dirs \cup {t.next}
      /\ \A d \in DOMAIN t.dirs : x.dirs[d] = IF d = parent THEN t.dirs[d] \cup {e} ELSE t.dirs[d]
      /\ t.next \in DOMAIN x.dirs => x.dirs[t.next] = {}
      /\ \A i \in DOMAIN t.parents : i # t.next => i \in DOMAIN x.parents /\ x.parents[i] = t.parents[i]
      /\ e.kind = "dir" => t.next \in DOMAIN x.dirs /\ t.next \in DOMAIN x.parents /\ x.parents[t.next] = parent
  BY DEF Added
<1> USE <1>0
<1> DEFINE n == t.next
           r == t.paths[parent]
<1>1. /\ n \notin DOMAIN t.paths /\ n \notin DOMAIN t.dirs /\ r \in Paths
      /\ \A q \in DOMAIN t.inodes : t.inodes[q] \in DOMAIN t.paths /\ t.paths[t.inodes[q]] = q
      /\ <<>> \in DOMAIN t.inodes
  BY DEF TreeOK, Given
<1>2. p \in NonRoot /\ Parent(p) = r /\ BaseName(p) = name /\ IsBelow(r, p)
  BY <1>1, ChildOf
<1>3. /\ DOMAIN x.paths = DOMAIN t.paths \cup {n} /\ x.paths[n] = p
      /\ \A i \in DOMAIN t.paths : x.paths[i] = t.paths[i]
      /\ DOMAIN x.inodes = DOMAIN t.inodes \cup {p} /\ x.inodes[p] = n
      /\ \A q \in DOMAIN t.inodes : x.inodes[q] = t.inodes[q]
  <2>1. /\ DOMAIN x.paths = DOMAIN t.paths \cup {n} /\ x.paths[n] = p
        /\ \A i \in DOMAIN t.paths : x.paths[i] = t.paths[i]
    BY <1>1 DEF With
  <2>2. /\ DOMAIN x.inodes = DOMAIN t.inodes \cup {p} /\ x.inodes[p] = n
        /\ \A q \in DOMAIN t.inodes : x.inodes[q] = t.inodes[q]
    BY DEF With
  <2> QED BY <2>1, <2>2
<1> HIDE DEF n, r
<1>4. ASSUME NEW y \in NonRoot, Linked(t, y) PROVE Linked(x, y)
  <2> DEFINE d == t.inodes[Parent(y)]
  <2>1. /\ y \in DOMAIN t.inodes /\ Parent(y) \in DOMAIN t.inodes /\ d \in DOMAIN t.dirs
        /\ \E f \in t.dirs[d] : f.ino = t.inodes[y] /\ f.name = BaseName(y)
    BY <1>4 DEF Linked
  <2>2. x.inodes[y] = t.inodes[y] /\ x.inodes[Parent(y)] = d
    BY <1>3, <2>1
  <2>3. d \in DOMAIN x.dirs /\ t.dirs[d] \subseteq x.dirs[d]
    BY <2>1
  <2> HIDE DEF d
  <2> QED BY <1>3, <2>1, <2>2, <2>3 DEF Linked
<1>5. \A y : Reached(t, y) => Reached(x, y)
  BY <1>4 DEF Reached
<1>6. parent \in DOMAIN t.paths /\ t.paths[parent] = r
  BY DEF r
<1>7. ASSUME ~Lost(D, p) PROVE Reached(x, p)
  <2>1. ~Lost(D, r)
    BY <1>1, <1>2, <1>7, LostBelow
  <2>2. r \in DOMAIN t.inodes /\ t.inodes[r] = parent /\ Reached(t, r)
    BY <1>6, <2>1 DEF InOrder, Placed, DirsReached
  <2>3. Linked(x, p)
    BY <1>2, <1>3, <2>2 DEF Linked, n
  <2> QED BY <1>2, <1>5, <2>2, <2>3, ReachedChild
<1>8. x.inodes[<<>>] \in DOMAIN x.dirs
  BY <1>1, <1>3 DEF InOrder
<1>9. Placed(x, D)
  <2> SUFFICES ASSUME NEW i \in DOMAIN x.paths, ~Lost(D, x.paths[i])
               PROVE  x.paths[i] \in DOMAIN x.inodes /\ x.inodes[x.paths[i]] = i
    BY DEF Placed
  <2>1. CASE i = n
    BY <1>3, <2>1
  <2>2. CASE i # n
    <3>1. i \in DOMAIN t.paths /\ x.paths[i] = t.paths[i]
      BY <1>3, <2>2
    <3>2. t.paths[i] \in DOMAIN t.inodes /\ t.inodes[t.paths[i]] = i
      BY <3>1 DEF InOrder, Placed
    <3> QED BY <1>3, <3>1, <3>2
  <2> QED BY <2>1, <2>2
<1>10. DirsReached(x, D)
  <2> SUFFICES ASSUME NEW i \in DOMAIN x.dirs \cap DOMAIN x.paths, ~Lost(D, x.paths[i])
               PROVE  Reached(x, x.paths[i])
    BY DEF DirsReached
  <2>1. CASE i = n
    BY <1>3, <1>7, <2>1
  <2>2. CASE i # n
    <3>1. i \in DOMAIN t.dirs \cap DOMAIN t.paths /\ x.paths[i] = t.paths[i]
      BY <1>3, <2>2 DEF n
    <3> QED BY <1>5, <3>1 DEF InOrder, DirsReached
  <2> QED BY <2>1, <2>2
<1>11. FilesReached(x, D, X)
  <2> SUFFICES ASSUME NEW i \in DOMAIN x.paths, ~Crossed(D, x.paths[i]), x.paths[i] \notin X
               PROVE  Reached(x, x.paths[i])
    BY DEF FilesReached
  <2>1. CASE i = n
    BY <1>3, <1>7, <2>1, LostCrossed
  <2>2. CASE i # n
    BY <1>3, <1>5, <2>2 DEF InOrder, FilesReached
  <2> QED BY <2>1, <2>2
<1>12. Listings(x, D, F, S)
  <2> SUFFICES ASSUME NEW d \in DOMAIN x.dirs \cap DOMAIN x.paths, NEW f \in x.dirs[d],
                      ~Lost(D, Append(x.paths[d], f.name))
               PROVE  Shows(x, F, S, d, f)
    BY DEF Listings
  <2>1. d \in DOMAIN t.dirs /\ d \in DOMAIN t.paths /\ x.paths[d] = t.paths[d]
    BY <1>1, <1>3 DEF n
  <2>2. CASE f \in t.dirs[d]
    <3>1. Shows(t, F, S, d, f)
      BY <2>1, <2>2 DEF Listings
    <3>2. f.ino \in DOMAIN t.paths /\ f.ino # n
      BY <1>1, <2>1, <2>2, <3>1, EntryPath
    <3> DEFINE q == Append(t.paths[d], f.name)
    <3>3. q \in DOMAIN x.inodes /\ x.inodes[q] = f.ino
      BY <1>3, <3>1 DEF Shows
    <3>4. f.kind = "dir" => f.ino \in DOMAIN x.dirs /\ f.ino \in DOMAIN x.parents /\ x.parents[f.ino] = d
      BY <3>1, <3>2 DEF Shows, n
    <3>5. f.kind = "file" => q \in F \/ f.ino \in S
      BY <3>1 DEF Shows
    <3> QED BY <2>1, <3>3, <3>4, <3>5 DEF Shows
  <2>3. CASE d = parent /\ f = e
    <3>1. Append(x.paths[d], f.name) = p
      BY <2>1, <2>3
    <3> QED BY <1>3, <2>3, <3>1 DEF Shows, n
  <2>4. f \in t.dirs[d] \/ (d = parent /\ f = e)
    <3>1. x.dirs[d] = IF d = parent THEN t.dirs[d] \cup {e} ELSE t.dirs[d]
      BY <2>1
    <3> QED BY <3>1
  <2> QED BY <2>2, <2>3, <2>4
<1> QED BY <1>8, <1>9, <1>10, <1>11, <1>12 DEF InOrder

\* In the directories of x the entries of t are left, but for one name in one.
Drops(t, x, parent, name) ==
  \A d \in DOMAIN x.dirs :
    /\ \A f \in x.dirs[d] : f \in t.dirs[d] /\ (d = parent => f.name # name)
    /\ \A f \in t.dirs[d] : f \in x.dirs[d] \/ (d = parent /\ f.name = name)

\* A link stays when its inodes and its entry do.
LEMMA LinkStays ==
  ASSUME NEW t, NEW x, NEW y, Linked(t, y), {y, Parent(y)} \subseteq DOMAIN x.inodes,
         x.inodes[y] = t.inodes[y], x.inodes[Parent(y)] = t.inodes[Parent(y)],
         t.inodes[Parent(y)] \in DOMAIN x.dirs,
         \A f \in t.dirs[t.inodes[Parent(y)]] : f.name = BaseName(y) => f \in x.dirs[t.inodes[Parent(y)]]
  PROVE  Linked(x, y)
BY DEF Linked

\* Two directories at a path that is not lost are one.
LEMMA SameDir ==
  ASSUME NEW t, NEW D, Placed(t, D), NEW c \in DOMAIN t.paths, NEW d \in DOMAIN t.paths,
         t.paths[c] = t.paths[d], ~Lost(D, t.paths[c])
  PROVE  c = d
BY DEF Placed

\* What has the name of an entry that is dropped is the path of the entry.
LEMMA NameOfLink ==
  ASSUME NEW t, TreeOK(t), NEW d \in DOMAIN t.paths, NEW name,
         NEW y \in NonRoot, Linked(t, y), t.inodes[Parent(y)] = d, BaseName(y) = name
  PROVE  y = Append(t.paths[d], name)
BY LinkedAt

\* x is t after the entry of p, which is no directory, was dropped.
Unlinked(t, x, parent, name, p) ==
  /\ TreeOK(t) /\ parent \in DOMAIN t.dirs \cap DOMAIN t.paths /\ name \in Names
  /\ p \in Paths /\ p = Append(t.paths[parent], name)
  /\ p \in DOMAIN t.inodes /\ t.inodes[p] \notin DOMAIN t.dirs
  /\ x.paths = t.paths /\ x.inodes = t.inodes /\ x.parents = t.parents
  /\ DOMAIN x.dirs = DOMAIN t.dirs /\ Drops(t, x, parent, name)

\* A file is unlinked.
LEMMA UnlinkedOrder ==
  ASSUME NEW t, NEW x, NEW parent, NEW name, NEW p, NEW D, NEW X, NEW F, NEW S,
         Unlinked(t, x, parent, name, p), D \subseteq Paths, InOrder(t, D, X), Listings(t, D, F, S)
  PROVE  /\ \A Y : X \subseteq Y /\ p \in Y => InOrder(x, D, Y)
         /\ \A G : (\A q \in F : q # p => q \in G) => Listings(x, D, G, S)
<1>0. /\ TreeOK(t) /\ parent \in DOMAIN t.dirs \cap DOMAIN t.paths /\ name \in Names
      /\ p \in Paths /\ p = Append(t.paths[parent], name)
      /\ p \in DOMAIN t.inodes /\ t.inodes[p] \notin DOMAIN t.dirs
      /\ x.paths = t.paths /\ x.inodes = t.inodes /\ x.parents = t.parents
      /\ DOMAIN x.dirs = DOMAIN t.dirs /\ Drops(t, x, parent, name)
  BY DEF Unlinked
<1> USE <1>0
<1>1. /\ p \in NonRoot /\ parent \in DOMAIN t.paths /\ t.paths[parent] \in Paths
      /\ Placed(t, D) /\ DirsReached(t, D) /\ FilesReached(t, D, X)
      /\ t.inodes[<<>>] \in DOMAIN t.dirs
      /\ \A i \in DOMAIN t.paths : t.paths[i] \in Paths
      /\ IsBelow(t.paths[parent], p)
  BY ChildOf DEF TreeOK, InOrder
<1>2. ASSUME NEW y \in NonRoot, Linked(t, y), y # p PROVE Linked(x, y)
  <2> DEFINE d == t.inodes[Parent(y)]
  <2>1. d \in DOMAIN t.dirs /\ {y, Parent(y)} \subseteq DOMAIN t.inodes
    BY <1>2 DEF Linked
  <2>2. ~ (d = parent /\ BaseName(y) = name)
    BY <1>1, <1>2, NameOfLink
  <2>3. \A f \in t.dirs[d] : f.name = BaseName(y) => f \in x.dirs[d]
    <3> HIDE DEF d
    <3> QED BY <2>1, <2>2 DEF Drops
  <2> QED BY <1>2, <2>1, <2>3, LinkStays
<1>3. ASSUME NEW q \in Paths, Reached(t, q), q # p PROVE Reached(x, q)
  <2>1. ~IsBelow(p, q)
    BY <1>1, <1>3, ReachedThrough
  <2> QED BY <1>2, <1>3, <2>1 DEF Reached
<1>4. Placed(x, D)
  BY <1>1 DEF Placed
<1>5. DirsReached(x, D)
  <2> SUFFICES ASSUME NEW i \in DOMAIN t.dirs \cap DOMAIN t.paths, ~Lost(D, t.paths[i])
               PROVE  Reached(x, t.paths[i])
    BY DEF DirsReached
  <2>1. Reached(t, t.paths[i]) /\ t.paths[i] \in DOMAIN t.inodes /\ t.inodes[t.paths[i]] = i
    BY <1>1 DEF Placed, DirsReached
  <2> QED BY <1>1, <1>3, <2>1
<1>6. ASSUME NEW Y, X \subseteq Y, p \in Y PROVE FilesReached(x, D, Y)
  BY <1>1, <1>3, <1>6 DEF FilesReached
<1>7. ASSUME NEW G, \A q \in F : q # p => q \in G PROVE Listings(x, D, G, S)
  <2> SUFFICES ASSUME NEW d \in DOMAIN t.dirs \cap DOMAIN t.paths, NEW f \in x.dirs[d],
                      ~Lost(D, Append(t.paths[d], f.name))
               PROVE  Shows(x, G, S, d, f)
    BY DEF Listings
  <2>1. f \in t.dirs[d] /\ (d = parent => f.name # name)
    BY DEF Drops
  <2>2. Shows(t, F, S, d, f)
    BY <2>1 DEF Listings
  <2>3. Append(t.paths[d], f.name) # p
    <3> SUFFICES ASSUME Append(t.paths[d], f.name) = p PROVE FALSE
      OBVIOUS
    <3>1. t.paths[d] = Parent(p) /\ BaseName(p) = f.name
      <4> DEFINE q == Append(t.paths[d], f.name)
      <4>1. Parent(q) = t.paths[d] /\ BaseName(q) = f.name
        BY <2>1, <2>2, EntryPath
      <4>2. q = p
        OBVIOUS
      <4> HIDE DEF q
      <4> QED BY <4>1, <4>2
    <3>2. t.paths[parent] = Parent(p) /\ BaseName(p) = name
      BY <1>1, ChildOf
    <3>3. ~Lost(D, t.paths[parent])
      BY <1>1, LostBelow
    <3>4. d = parent
      BY <1>1, <3>1, <3>2, <3>3, SameDir
    <3> QED BY <2>1, <3>1, <3>2, <3>4
  <2> QED BY <1>7, <2>2, <2>3 DEF Shows
<1> QED BY <1>1, <1>4, <1>5, <1>6, <1>7 DEF InOrder

\* x is t without the directory at p, which has no entries.
Removed(t, x, parent, name, p, ino) ==
  /\ TreeOK(t) /\ parent \in DOMAIN t.dirs \cap DOMAIN t.paths /\ name \in Names
  /\ p \in Paths /\ p = Append(t.paths[parent], name)
  /\ p \in DOMAIN t.inodes /\ t.inodes[p] = ino /\ ino \in DOMAIN t.dirs /\ t.dirs[ino] = {}
  /\ x.paths = Without(t.paths, ino) /\ x.inodes = Without(t.inodes, p)
  /\ x.parents = Without(t.parents, ino)
  /\ DOMAIN x.dirs = DOMAIN t.dirs \ {ino} /\ Drops(t, x, parent, name)

\* A directory without entries is removed.
LEMMA RemovedOrder ==
  ASSUME NEW t, NEW x, NEW parent, NEW name, NEW p, NEW ino, NEW D, NEW X, NEW F, NEW S,
         Removed(t, x, parent, name, p, ino), D \subseteq Paths, InOrder(t, D, X), Listings(t, D, F, S)
  PROVE  InOrder(x, D, X) /\ Listings(x, D, F, S)
<1>0. /\ TreeOK(t) /\ parent \in DOMAIN t.dirs \cap DOMAIN t.paths /\ name \in Names
      /\ p \in Paths /\ p = Append(t.paths[parent], name)
      /\ p \in DOMAIN t.inodes /\ t.inodes[p] = ino /\ ino \in DOMAIN t.dirs /\ t.dirs[ino] = {}
      /\ x.paths = Without(t.paths, ino) /\ x.inodes = Without(t.inodes, p)
      /\ x.parents = Without(t.parents, ino)
      /\ DOMAIN x.dirs = DOMAIN t.dirs \ {ino} /\ Drops(t, x, parent, name)
  BY DEF Removed
<1> USE <1>0
<1>1. /\ p \in NonRoot /\ parent \in DOMAIN t.paths /\ t.paths[parent] \in Paths
      /\ Placed(t, D) /\ DirsReached(t, D) /\ FilesReached(t, D, X)
      /\ t.inodes[<<>>] \in DOMAIN t.dirs
      /\ \A i \in DOMAIN t.paths : t.paths[i] \in Paths
      /\ IsBelow(t.paths[parent], p)
  BY ChildOf DEF TreeOK, InOrder
<1>2. /\ \A q \in DOMAIN t.inodes : t.inodes[q] \in DOMAIN t.paths /\ t.paths[t.inodes[q]] = q
      /\ <<>> \in DOMAIN t.inodes /\ p # <<>>
  BY <1>1 DEF TreeOK, NonRoot
<1>3. /\ DOMAIN x.paths = DOMAIN t.paths \ {ino} /\ \A i \in DOMAIN x.paths : x.paths[i] = t.paths[i]
      /\ DOMAIN x.inodes = DOMAIN t.inodes \ {p} /\ \A q \in DOMAIN x.inodes : x.inodes[q] = t.inodes[q]
      /\ DOMAIN x.parents = DOMAIN t.parents \ {ino}
      /\ \A i \in DOMAIN x.parents : x.parents[i] = t.parents[i]
  BY DEF Without
<1>4. ASSUME NEW y \in NonRoot, Linked(t, y), y # p, Parent(y) # p PROVE Linked(x, y)
  <2> DEFINE d == t.inodes[Parent(y)]
  <2>1. d \in DOMAIN t.dirs /\ {y, Parent(y)} \subseteq DOMAIN t.inodes
    BY <1>4 DEF Linked
  <2>2. ~ (d = parent /\ BaseName(y) = name)
    BY <1>1, <1>4, NameOfLink
  <2>3. d # ino
    <3>1. t.paths[d] = Parent(y) /\ t.paths[ino] = p
      BY <1>2, <2>1
    <3> QED BY <1>4, <3>1
  <2>4. d \in DOMAIN x.dirs /\ \A f \in t.dirs[d] : f.name = BaseName(y) => f \in x.dirs[d]
    <3> HIDE DEF d
    <3> QED BY <2>1, <2>2, <2>3 DEF Drops
  <2>5. x.inodes[y] = t.inodes[y] /\ x.inodes[Parent(y)] = d /\ {y, Parent(y)} \subseteq DOMAIN x.inodes
    BY <1>3, <1>4, <2>1
  <2> QED BY <1>4, <2>4, <2>5, LinkStays
<1>5. ASSUME NEW q \in Paths, Reached(t, q), q # p PROVE Reached(x, q)
  <2>1. ~IsBelow(p, q)
    BY <1>1, <1>5, ReachedThrough
  <2>2. ASSUME NEW y \in NonRoot, IsBelow(y, q) PROVE y # p /\ Parent(y) # p
    <3>1. Parent(y) \in Paths /\ IsBelow(Parent(y), y) /\ y \in Paths
      BY ParentOf DEF NonRoot
    <3> QED BY <2>1, <2>2, <3>1, BelowTrans
  <2> QED BY <1>4, <1>5, <2>2 DEF Reached
<1>6. ASSUME NEW i \in DOMAIN x.paths, ~Lost(D, x.paths[i])
      PROVE  /\ i \in DOMAIN t.paths /\ i # ino /\ x.paths[i] = t.paths[i] /\ t.paths[i] # p
             /\ t.paths[i] \in DOMAIN t.inodes /\ t.inodes[t.paths[i]] = i
  BY <1>1, <1>3, <1>6 DEF Placed
<1>7. x.inodes[<<>>] \in DOMAIN x.dirs
  <2>1. t.inodes[<<>>] # ino
    BY <1>2
  <2> QED BY <1>1, <1>2, <1>3, <2>1
<1>8. Placed(x, D)
  BY <1>3, <1>6 DEF Placed
<1>9. DirsReached(x, D)
  <2> SUFFICES ASSUME NEW i \in DOMAIN x.dirs \cap DOMAIN x.paths, ~Lost(D, x.paths[i])
               PROVE  Reached(x, x.paths[i])
    BY DEF DirsReached
  <2> QED BY <1>1, <1>5, <1>6 DEF DirsReached
<1>10. FilesReached(x, D, X)
  <2> SUFFICES ASSUME NEW i \in DOMAIN x.paths, ~Crossed(D, x.paths[i]), x.paths[i] \notin X
               PROVE  Reached(x, x.paths[i])
    BY DEF FilesReached
  <2> QED BY <1>1, <1>5, <1>6, LostCrossed DEF FilesReached
<1>11. Listings(x, D, F, S)
  <2> SUFFICES ASSUME NEW d \in DOMAIN x.dirs \cap DOMAIN x.paths, NEW f \in x.dirs[d],
                      ~Lost(D, Append(x.paths[d], f.name))
               PROVE  Shows(x, F, S, d, f)
    BY DEF Listings
  <2>1. /\ d \in DOMAIN t.dirs /\ d \in DOMAIN t.paths /\ x.paths[d] = t.paths[d] /\ d # ino
        /\ f \in t.dirs[d] /\ (d = parent => f.name # name)
    BY <1>3 DEF Drops
  <2> DEFINE q == Append(t.paths[d], f.name)
  <2>2. Shows(t, F, S, d, f)
    BY <2>1 DEF Listings
  <2>3. Parent(q) = t.paths[d] /\ BaseName(q) = f.name
    <3>1. d \in DOMAIN t.dirs \cap DOMAIN t.paths
      BY <2>1
    <3>2. f \in t.dirs[d]
      BY <2>1
    <3> QED BY <2>2, <3>1, <3>2, EntryPath
  <2>4. q # p
    <3> SUFFICES ASSUME q = p PROVE FALSE
      OBVIOUS
    <3>1. t.paths[d] = Parent(p) /\ BaseName(p) = f.name
      <4> HIDE DEF q
      <4> QED BY <2>3
    <3>2. t.paths[parent] = Parent(p) /\ BaseName(p) = name
      BY <1>1, ChildOf
    <3>3. ~Lost(D, t.paths[parent])
      BY <1>1, <2>1, LostBelow
    <3>4. d = parent
      BY <1>1, <2>1, <3>1, <3>2, <3>3, SameDir
    <3> QED BY <2>1, <3>1, <3>2, <3>4
  <2>5. q \in DOMAIN t.inodes /\ t.inodes[q] = f.ino /\ f.ino # ino
    <3>1. q \in DOMAIN t.inodes /\ t.inodes[q] = f.ino
      BY <2>2 DEF Shows
    <3> HIDE DEF q
    <3>2. t.paths[f.ino] = q /\ t.paths[ino] = p
      BY <1>2, <3>1
    <3> QED BY <2>4, <3>1, <3>2
  <2>6. f.kind = "dir" => f.ino \in DOMAIN t.dirs /\ f.ino \in DOMAIN t.parents /\ t.parents[f.ino] = d
    BY <2>2 DEF Shows
  <2>7. f.kind = "file" => q \in F \/ f.ino \in S
    BY <2>2 DEF Shows
  <2> HIDE DEF q
  <2>8. q \in DOMAIN x.inodes /\ x.inodes[q] = f.ino
    BY <1>3, <2>4, <2>5
  <2>9. f.kind = "dir" => f.ino \in DOMAIN x.dirs /\ f.ino \in DOMAIN x.parents /\ x.parents[f.ino] = d
    BY <1>3, <2>5, <2>6
  <2>10. q = Append(x.paths[d], f.name)
    BY <2>1 DEF q
  <2> QED BY <2>7, <2>8, <2>9, <2>10 DEF Shows
<1> QED BY <1>7, <1>8, <1>9, <1>10, <1>11 DEF InOrder

\* The inode of path old has path new in x.
TakesPath(t, x, ino, old, new, newparent) ==
  /\ DOMAIN x.paths = DOMAIN t.paths /\ x.paths[ino] = new
  /\ \A i \in DOMAIN t.paths : i # ino => x.paths[i] = t.paths[i]
  /\ DOMAIN x.inodes = (DOMAIN t.inodes \ {old}) \cup {new} /\ x.inodes[new] = ino
  /\ \A q \in DOMAIN x.inodes : q # new => x.inodes[q] = t.inodes[q]
  /\ DOMAIN x.parents = DOMAIN t.parents \cup {ino} /\ x.parents[ino] = newparent
  /\ \A i \in DOMAIN t.parents : i # ino => x.parents[i] = t.parents[i]

\* Entry e in newparent replaces the ones of the two names.
TakesEntry(t, x, parent, name, newparent, newname, e) ==
  /\ DOMAIN x.dirs = DOMAIN t.dirs
  /\ e \in x.dirs[newparent]
  /\ \A d \in DOMAIN t.dirs :
       /\ \A f \in x.dirs[d] :
            \/ d = newparent /\ f = e
            \/ f \in t.dirs[d] /\ (d = parent => f.name # name) /\ (d = newparent => f.name # newname)
       /\ \A f \in t.dirs[d] :
            \/ f \in x.dirs[d]
            \/ d = parent /\ f.name = name
            \/ d = newparent /\ f.name = newname

\* x is t after a rename of the inode ino from old to new.
RenamedTree(t, x, parent, name, newparent, newname, ino, old, new, e) ==
  /\ TreeOK(t)
  /\ {parent, newparent} \subseteq DOMAIN t.dirs /\ {parent, newparent} \subseteq DOMAIN t.paths
  /\ {name, newname} \subseteq Names
  /\ {old, new} \subseteq Paths /\ old # new
  /\ old = Append(t.paths[parent], name) /\ new = Append(t.paths[newparent], newname)
  /\ old \in DOMAIN t.inodes /\ ino = t.inodes[old]
  /\ e.ino = ino /\ e.name = newname
  /\ TakesPath(t, x, ino, old, new, newparent)
  /\ TakesEntry(t, x, parent, name, newparent, newname, e)

\* What there is to know of the two paths.
LEMMA RenamedPaths ==
  ASSUME NEW t, NEW x, NEW parent, NEW name, NEW newparent, NEW newname, NEW ino, NEW old, NEW new, NEW e,
         RenamedTree(t, x, parent, name, newparent, newname, ino, old, new, e)
  PROVE  /\ old \in NonRoot /\ Parent(old) = t.paths[parent] /\ BaseName(old) = name
         /\ new \in NonRoot /\ Parent(new) = t.paths[newparent] /\ BaseName(new) = newname
         /\ IsBelow(t.paths[parent], old) /\ IsBelow(t.paths[newparent], new)
         /\ ino \in DOMAIN t.paths /\ t.paths[ino] = old
         /\ \A i \in DOMAIN t.paths : t.paths[i] \in Paths
<1>1. /\ TreeOK(t)
      /\ {parent, newparent} \subseteq DOMAIN t.paths /\ {name, newname} \subseteq Names
      /\ {old, new} \subseteq Paths
      /\ old = Append(t.paths[parent], name) /\ new = Append(t.paths[newparent], newname)
      /\ old \in DOMAIN t.inodes /\ ino = t.inodes[old]
  BY DEF RenamedTree
<1>2. /\ ino \in DOMAIN t.paths /\ t.paths[ino] = old /\ \A i \in DOMAIN t.paths : t.paths[i] \in Paths
  BY <1>1 DEF TreeOK
<1>3. t.paths[parent] \in Paths /\ t.paths[newparent] \in Paths
  BY <1>1, <1>2
<1> QED BY <1>1, <1>2, <1>3, ChildOf

\* A path away from the two is reached as before.
LEMMA RenamedReached ==
  ASSUME NEW t, NEW x, NEW parent, NEW name, NEW newparent, NEW newname, NEW ino, NEW old, NEW new, NEW e,
         RenamedTree(t, x, parent, name, newparent, newname, ino, old, new, e),
         NEW q \in Paths, Reached(t, q), ~IsBelow(old, q), ~IsBelow(new, q)
  PROVE  Reached(x, q)
<1>1. /\ TreeOK(t) /\ parent \in DOMAIN t.paths /\ newparent \in DOMAIN t.paths
      /\ old \in Paths /\ new \in Paths
      /\ old = Append(t.paths[parent], name) /\ new = Append(t.paths[newparent], newname)
      /\ DOMAIN x.inodes = (DOMAIN t.inodes \ {old}) \cup {new}
      /\ \A p \in DOMAIN x.inodes : p # new => x.inodes[p] = t.inodes[p]
      /\ TakesEntry(t, x, parent, name, newparent, newname, e)
  BY DEF RenamedTree, TakesPath
<1> SUFFICES ASSUME NEW y \in NonRoot, IsBelow(y, q) PROVE Linked(x, y)
  BY DEF Reached
<1> DEFINE d == t.inodes[Parent(y)]
<1>2. Parent(y) \in Paths /\ y \in Paths /\ IsBelow(Parent(y), q)
  <2>1. Parent(y) \in Paths /\ y \in Paths /\ IsBelow(Parent(y), y)
    BY ParentOf DEF NonRoot
  <2> QED BY <2>1, BelowTrans
<1>3. y # old /\ y # new /\ Parent(y) # old /\ Parent(y) # new
  BY <1>2
<1>4. Linked(t, y)
  BY DEF Reached
<1>5. d \in DOMAIN t.dirs /\ {y, Parent(y)} \subseteq DOMAIN t.inodes
  BY <1>4 DEF Linked
<1>6. ~ (d = parent /\ BaseName(y) = name) /\ ~ (d = newparent /\ BaseName(y) = newname)
  BY <1>1, <1>3, <1>4, NameOfLink
<1>7. {y, Parent(y)} \subseteq DOMAIN x.inodes /\ x.inodes[y] = t.inodes[y] /\ x.inodes[Parent(y)] = d
  BY <1>1, <1>3, <1>5
<1>8. d \in DOMAIN x.dirs /\ \A f \in t.dirs[d] : f.name = BaseName(y) => f \in x.dirs[d]
  <2> HIDE DEF d
  <2> QED BY <1>1, <1>5, <1>6 DEF TakesEntry
<1> QED BY <1>4, <1>7, <1>8, LinkStays

\* An entry that x shows as t did, away from the two paths.
LEMMA RenamedShows ==
  ASSUME NEW t, NEW x, NEW parent, NEW name, NEW newparent, NEW newname, NEW ino, NEW old, NEW new, NEW e,
         RenamedTree(t, x, parent, name, newparent, newname, ino, old, new, e),
         NEW d \in DOMAIN t.dirs \cap DOMAIN t.paths, d # ino, NEW f \in t.dirs[d],
         NEW F, NEW S, NEW G, Shows(t, F, S, d, f),
         Append(t.paths[d], f.name) \notin {old, new},
         Append(t.paths[d], f.name) \in F => Append(t.paths[d], f.name) \in G
  PROVE  Shows(x, G, S, d, f)
<1> DEFINE p == Append(t.paths[d], f.name)
<1>1. /\ p \in DOMAIN t.inodes /\ t.inodes[p] = f.ino
      /\ f.kind = "dir" => f.ino \in DOMAIN t.dirs /\ f.ino \in DOMAIN t.parents /\ t.parents[f.ino] = d
      /\ f.kind = "file" => p \in G \/ f.ino \in S
  BY DEF Shows
<1>2. t.paths[f.ino] = p /\ t.paths[ino] = old /\ p # old /\ p # new
  <2>1. TreeOK(t)
    BY DEF RenamedTree
  <2>2. t.paths[f.ino] = p
    BY <2>1, EntryPath
  <2>3. t.paths[ino] = old
    BY RenamedPaths
  <2> QED BY <2>2, <2>3
<1> HIDE DEF p
<1>3. f.ino # ino
  BY <1>2
<1>4. /\ p \in DOMAIN x.inodes /\ x.inodes[p] = t.inodes[p] /\ DOMAIN x.dirs = DOMAIN t.dirs
      /\ \A i \in DOMAIN t.parents : i # ino => i \in DOMAIN x.parents /\ x.parents[i] = t.parents[i]
      /\ x.paths[d] = t.paths[d]
  BY <1>1, <1>2 DEF RenamedTree, TakesPath, TakesEntry
<1>5. p = Append(x.paths[d], f.name)
  BY <1>4 DEF p
<1> QED BY <1>1, <1>3, <1>4, <1>5 DEF Shows

\* A rename after which both paths count as lost.
LEMMA RenamedLost ==
  ASSUME NEW t, NEW x, NEW parent, NEW name, NEW newparent, NEW newname, NEW ino, NEW old, NEW new, NEW e,
         RenamedTree(t, x, parent, name, newparent, newname, ino, old, new, e),
         NEW D, NEW X, NEW F, NEW S, InOrder(t, D, X), Listings(t, D, F, S),
         NEW E, E \subseteq Paths, D \subseteq E, {old, new} \subseteq E,
         NEW Y, \A q : q \notin {old, new} /\ q \notin Y => q \notin X,
         NEW G, \A q \in F : ~Lost(E, q) => q \in G
  PROVE  InOrder(x, E, Y) /\ Listings(x, E, G, S)
<1>1. /\ TreeOK(t) /\ parent \in DOMAIN t.paths /\ newparent \in DOMAIN t.paths
      /\ old \in Paths /\ new \in Paths
      /\ DOMAIN x.paths = DOMAIN t.paths /\ x.paths[ino] = new
      /\ \A i \in DOMAIN t.paths : i # ino => x.paths[i] = t.paths[i]
      /\ DOMAIN x.inodes = (DOMAIN t.inodes \ {old}) \cup {new}
      /\ \A q \in DOMAIN x.inodes : q # new => x.inodes[q] = t.inodes[q]
      /\ DOMAIN x.dirs = DOMAIN t.dirs
      /\ new = Append(t.paths[newparent], newname) /\ e.name = newname
  BY DEF RenamedTree, TakesPath, TakesEntry
<1>2. /\ old \in NonRoot /\ new \in NonRoot /\ t.paths[ino] = old
      /\ \A i \in DOMAIN t.paths : t.paths[i] \in Paths
      /\ Placed(t, D) /\ DirsReached(t, D) /\ FilesReached(t, D, X)
      /\ t.inodes[<<>>] \in DOMAIN t.dirs /\ <<>> \in DOMAIN t.inodes
  BY <1>1, RenamedPaths DEF InOrder, TreeOK
<1>3. ASSUME NEW q \in Paths, ~Lost(E, q)
      PROVE  /\ ~Lost(D, q) /\ ~IsBelow(old, q) /\ ~IsBelow(new, q) /\ q # old /\ q # new
  BY <1>1, <1>3, BelowRefl DEF Lost
<1>4. ASSUME NEW i \in DOMAIN x.paths, ~Lost(E, x.paths[i])
      PROVE  /\ i \in DOMAIN t.paths /\ i # ino /\ x.paths[i] = t.paths[i] /\ t.paths[i] \in Paths
             /\ ~Lost(E, t.paths[i])
  <2>1. i # ino
    BY <1>1, <1>3, <1>4
  <2> QED BY <1>1, <1>2, <1>4, <2>1
<1>5. x.inodes[<<>>] \in DOMAIN x.dirs
  BY <1>1, <1>2 DEF NonRoot
<1>6. Placed(x, E)
  <2> SUFFICES ASSUME NEW i \in DOMAIN x.paths, ~Lost(E, x.paths[i])
               PROVE  x.paths[i] \in DOMAIN x.inodes /\ x.inodes[x.paths[i]] = i
    BY DEF Placed
  <2> DEFINE q == t.paths[i]
  <2>1. i \in DOMAIN t.paths /\ x.paths[i] = q /\ q \in Paths /\ ~Lost(E, q)
    BY <1>4
  <2>2. ~Lost(D, q) /\ q # old /\ q # new
    BY <1>3, <2>1
  <2>3. q \in DOMAIN t.inodes /\ t.inodes[q] = i
    BY <1>2, <2>1, <2>2 DEF Placed
  <2> HIDE DEF q
  <2> QED BY <1>1, <2>1, <2>2, <2>3
<1>7. ASSUME NEW q \in Paths, ~Lost(E, q), Reached(t, q) PROVE Reached(x, q)
  BY <1>3, <1>7, RenamedReached
<1>8. DirsReached(x, E)
  <2> SUFFICES ASSUME NEW i \in DOMAIN x.dirs \cap DOMAIN x.paths, ~Lost(E, x.paths[i])
               PROVE  Reached(x, x.paths[i])
    BY DEF DirsReached
  <2>1. i \in DOMAIN t.dirs \cap DOMAIN t.paths /\ x.paths[i] = t.paths[i] /\ t.paths[i] \in Paths
        /\ ~Lost(E, t.paths[i])
    BY <1>1, <1>4
  <2>2. Reached(t, t.paths[i])
    BY <1>2, <1>3, <2>1 DEF DirsReached
  <2> QED BY <1>7, <2>1, <2>2
<1>9. FilesReached(x, E, Y)
  <2> SUFFICES ASSUME NEW i \in DOMAIN x.paths, ~Crossed(E, x.paths[i]), x.paths[i] \notin Y
               PROVE  Reached(x, x.paths[i])
    BY DEF FilesReached
  <2>1. i \in DOMAIN t.paths /\ x.paths[i] = t.paths[i] /\ t.paths[i] \in Paths /\ ~Lost(E, t.paths[i])
    BY <1>4, LostCrossed
  <2>2. ~Crossed(D, t.paths[i])
    BY <2>1 DEF Crossed
  <2>3. t.paths[i] \notin X
    BY <1>3, <2>1
  <2>4. Reached(t, t.paths[i])
    BY <1>2, <2>1, <2>2, <2>3 DEF FilesReached
  <2> QED BY <1>7, <2>1, <2>4
<1>10. Listings(x, E, G, S)
  <2> SUFFICES ASSUME NEW d \in DOMAIN x.dirs \cap DOMAIN x.paths, NEW f \in x.dirs[d],
                      ~Lost(E, Append(x.paths[d], f.name))
               PROVE  Shows(x, G, S, d, f)
    BY DEF Listings
  <2> DEFINE p == Append(x.paths[d], f.name)
  <2>1. f \in t.dirs[d] \/ (d = newparent /\ f = e)
    BY <1>1 DEF RenamedTree, TakesEntry
  <2>2. d # ino
    <3> SUFFICES ASSUME d = ino PROVE FALSE
      OBVIOUS
    <3>1. x.paths[d] = new
      BY <1>1
    <3>2. IsBelow(new, p)
      <4>1. f.name \in Names
        <5>1. e.name \in Names
          BY DEF RenamedTree
        <5>2. f \in t.dirs[d] => f.name \in Names
          BY <1>1 DEF TreeOK
        <5> QED BY <2>1, <5>1, <5>2
      <4>2. new \in Seq(Names) /\ p = Append(new, f.name)
        BY <1>1, <3>1, PathIsSeq
      <4> QED BY <4>1, <4>2, BelowAppend
    <3> QED BY <1>1, <3>2 DEF Lost
  <2>3. x.paths[d] = t.paths[d] /\ d \in DOMAIN t.dirs \cap DOMAIN t.paths
    BY <1>1, <2>2
  <2>4. f \in t.dirs[d]
    <3> SUFFICES ASSUME d = newparent, f = e PROVE FALSE
      BY <2>1
    <3>1. p = new
      BY <1>1, <2>3
    <3> QED BY <1>1, <3>1, BelowRefl DEF Lost
  <2>5. p = Append(t.paths[d], f.name)
    BY <2>3
  <2>6. ~Lost(D, p) /\ p \notin {old, new}
    BY <1>1, BelowRefl DEF Lost
  <2> HIDE DEF p
  <2>7. Shows(t, F, S, d, f)
    BY <2>3, <2>4, <2>5, <2>6 DEF Listings
  <2>8. p \in F => p \in G
    BY DEF p
  <2> QED BY <2>2, <2>3, <2>4, <2>5, <2>6, <2>7, <2>8, RenamedShows
<1> QED BY <1>5, <1>6, <1>8, <1>9, <1>10 DEF InOrder

\* A rename that carries everything through: nothing is below the old path
\* and nothing was at the new one.
LEMMA RenamedKept ==
  ASSUME NEW t, NEW x, NEW parent, NEW name, NEW newparent, NEW newname, NEW ino, NEW old, NEW new, NEW e,
         RenamedTree(t, x, parent, name, newparent, newname, ino, old, new, e),
         NEW D, D \subseteq Paths, NEW X, NEW F, NEW S, InOrder(t, D, X), Listings(t, D, F, S),
         ~Lost(D, old), new \notin DOMAIN t.inodes, ~IsBelow(old, new),
         ino \in DOMAIN t.dirs => t.dirs[ino] = {},
         NEW Y, X \subseteq Y,
         NEW G, \A q \in F : ~IsBelow(old, q) /\ ~IsBelow(new, q) => q \in G,
         e.kind = "dir" => ino \in DOMAIN t.dirs, e.kind = "file" => new \in G
  PROVE  InOrder(x, D, Y) /\ Listings(x, D, G, S)
<1>1. /\ TreeOK(t) /\ parent \in DOMAIN t.paths /\ newparent \in DOMAIN t.paths
      /\ newparent \in DOMAIN t.dirs
      /\ old \in Paths /\ new \in Paths
      /\ old \in DOMAIN t.inodes /\ ino = t.inodes[old]
      /\ DOMAIN x.paths = DOMAIN t.paths /\ x.paths[ino] = new
      /\ \A i \in DOMAIN t.paths : i # ino => x.paths[i] = t.paths[i]
      /\ DOMAIN x.inodes = (DOMAIN t.inodes \ {old}) \cup {new} /\ x.inodes[new] = ino
      /\ \A q \in DOMAIN x.inodes : q # new => x.inodes[q] = t.inodes[q]
      /\ DOMAIN x.dirs = DOMAIN t.dirs /\ e \in x.dirs[newparent]
      /\ ino \in DOMAIN x.parents /\ x.parents[ino] = newparent
      /\ new = Append(t.paths[newparent], newname) /\ e.name = newname /\ e.ino = ino
  BY DEF RenamedTree, TakesPath, TakesEntry
<1>2. /\ old \in NonRoot /\ new \in NonRoot /\ t.paths[ino] = old
      /\ Parent(old) = t.paths[parent] /\ BaseName(old) = name
      /\ Parent(new) = t.paths[newparent] /\ BaseName(new) = newname
      /\ IsBelow(t.paths[parent], old) /\ IsBelow(t.paths[newparent], new)
      /\ \A i \in DOMAIN t.paths : t.paths[i] \in Paths
  BY RenamedPaths
<1>3. /\ Placed(t, D) /\ DirsReached(t, D) /\ FilesReached(t, D, X)
      /\ t.inodes[<<>>] \in DOMAIN t.dirs /\ <<>> \in DOMAIN t.inodes
  BY <1>1 DEF InOrder, TreeOK
<1>4. ASSUME NEW q \in Paths, Reached(t, q), q # old PROVE ~IsBelow(old, q) /\ ~IsBelow(new, q)
  <2>1. ~IsBelow(old, q)
    <3>1. old \in Paths /\ ~ (t.inodes[old] \in DOMAIN t.dirs /\ t.dirs[t.inodes[old]] # {})
      BY <1>1
    <3> QED BY <1>4, <3>1, ReachedThrough
  <2>2. ~IsBelow(new, q)
    BY <1>2, <1>4 DEF Reached, Linked
  <2> QED BY <2>1, <2>2
<1>5. ASSUME NEW q \in Paths, Reached(t, q), q # old PROVE Reached(x, q)
  BY <1>4, <1>5, RenamedReached
<1>6. newparent # ino
  BY <1>2
<1>7. ASSUME NEW i \in DOMAIN t.paths, i # ino, ~Lost(D, t.paths[i])
      PROVE  /\ t.paths[i] \in DOMAIN t.inodes /\ t.inodes[t.paths[i]] = i
             /\ t.paths[i] # old /\ t.paths[i] # new
  BY <1>1, <1>3, <1>7 DEF Placed
<1>8. ASSUME ~Lost(D, new) PROVE Reached(x, new)
  <2> DEFINE r == t.paths[newparent]
  <2>1. r \in Paths /\ ~Lost(D, r)
    BY <1>1, <1>2, <1>8, LostBelow
  <2>2. r \in DOMAIN t.inodes /\ t.inodes[r] = newparent /\ Reached(t, r) /\ r # old /\ r # new
    <3>1. newparent \in DOMAIN t.dirs \cap DOMAIN t.paths
      BY <1>1
    <3> QED BY <1>3, <1>6, <1>7, <2>1, <3>1 DEF DirsReached
  <2>3. Parent(new) = r
    BY <1>2
  <2> HIDE DEF r
  <2>4. Reached(x, r)
    BY <1>5, <2>1, <2>2
  <2>5. r \in DOMAIN x.inodes /\ x.inodes[r] = newparent
    BY <1>1, <2>2
  <2>6. Linked(x, new)
    BY <1>1, <1>2, <2>3, <2>5 DEF Linked
  <2> QED BY <1>2, <2>3, <2>4, <2>6, ReachedChild
<1>9. x.inodes[<<>>] \in DOMAIN x.dirs
  BY <1>1, <1>2, <1>3 DEF NonRoot
<1>10. Placed(x, D)
  <2> SUFFICES ASSUME NEW i \in DOMAIN x.paths, ~Lost(D, x.paths[i])
               PROVE  x.paths[i] \in DOMAIN x.inodes /\ x.inodes[x.paths[i]] = i
    BY DEF Placed
  <2>1. CASE i = ino
    BY <1>1, <2>1
  <2>2. CASE i # ino
    <3> DEFINE q == t.paths[i]
    <3>1. x.paths[i] = q /\ q \in DOMAIN t.inodes /\ t.inodes[q] = i /\ q # old /\ q # new
      BY <1>1, <1>7, <2>2
    <3> HIDE DEF q
    <3> QED BY <1>1, <3>1
  <2> QED BY <2>1, <2>2
<1>11. DirsReached(x, D)
  <2> SUFFICES ASSUME NEW i \in DOMAIN x.dirs \cap DOMAIN x.paths, ~Lost(D, x.paths[i])
               PROVE  Reached(x, x.paths[i])
    BY DEF DirsReached
  <2>1. CASE i = ino
    BY <1>1, <1>8, <2>1
  <2>2. CASE i # ino
    <3>1. x.paths[i] = t.paths[i] /\ i \in DOMAIN t.dirs \cap DOMAIN t.paths /\ t.paths[i] \in Paths
      BY <1>1, <1>2, <2>2
    <3>2. t.paths[i] # old
      BY <1>7, <2>2, <3>1
    <3>3. Reached(t, t.paths[i])
      BY <1>3, <3>1 DEF DirsReached
    <3> QED BY <1>5, <3>1, <3>2, <3>3
  <2> QED BY <2>1, <2>2
<1>12. FilesReached(x, D, Y)
  <2> SUFFICES ASSUME NEW i \in DOMAIN x.paths, ~Crossed(D, x.paths[i]), x.paths[i] \notin Y
               PROVE  Reached(x, x.paths[i])
    BY DEF FilesReached
  <2>0. ~Lost(D, x.paths[i])
    BY LostCrossed
  <2>1. CASE i = ino
    BY <1>1, <1>8, <2>0, <2>1
  <2>2. CASE i # ino
    <3>1. x.paths[i] = t.paths[i] /\ i \in DOMAIN t.paths /\ t.paths[i] \in Paths
      BY <1>1, <1>2, <2>2
    <3>2. t.paths[i] # old
      BY <1>7, <2>0, <2>2, <3>1
    <3>3. Reached(t, t.paths[i])
      BY <1>3, <3>1 DEF FilesReached
    <3> QED BY <1>5, <3>1, <3>2, <3>3
  <2> QED BY <2>1, <2>2
<1>13. Listings(x, D, G, S)
  <2> SUFFICES ASSUME NEW d \in DOMAIN x.dirs \cap DOMAIN x.paths, NEW f \in x.dirs[d],
                      ~Lost(D, Append(x.paths[d], f.name))
               PROVE  Shows(x, G, S, d, f)
    BY DEF Listings
  <2>1. \/ d = newparent /\ f = e
        \/ f \in t.dirs[d] /\ (d = parent => f.name # name)
    BY <1>1 DEF RenamedTree, TakesEntry
  <2>2. CASE d = newparent /\ f = e
    <3>1. x.paths[d] = t.paths[newparent] /\ Append(x.paths[d], f.name) = new
      BY <1>1, <1>6, <2>2
    <3> QED BY <1>1, <2>2, <3>1 DEF Shows
  <2>3. CASE f \in t.dirs[d] /\ (d = parent => f.name # name)
    <3>1. d # ino
      BY <1>1, <2>3
    <3>2. x.paths[d] = t.paths[d] /\ d \in DOMAIN t.dirs \cap DOMAIN t.paths /\ t.paths[d] \in Paths
      BY <1>1, <1>2, <3>1
    <3> DEFINE p == Append(t.paths[d], f.name)
    <3>3. ~Lost(D, p)
      BY <3>2
    <3>4. Shows(t, F, S, d, f)
      BY <2>3, <3>2, <3>3 DEF Listings
    <3>5. /\ p \in NonRoot /\ p \in DOMAIN t.inodes /\ Parent(p) = t.paths[d] /\ BaseName(p) = f.name
          /\ IsBelow(t.paths[d], p)
      <4>1. TreeOK(t) /\ f \in t.dirs[d]
        BY <1>1, <2>3
      <4> QED BY <3>2, <3>4, <4>1, EntryPath
    <3> HIDE DEF p
    <3>6. ~Lost(D, t.paths[d])
      BY <3>2, <3>3, <3>5, LostBelow DEF NonRoot
    <3>7. p # new
      BY <3>5
    <3>8. p # old
      <4> SUFFICES ASSUME p = old PROVE FALSE
        OBVIOUS
      <4>1. t.paths[d] = t.paths[parent] /\ f.name = name
        BY <1>2, <3>5
      <4>2. d = parent
        BY <1>1, <1>3, <3>2, <3>6, <4>1, SameDir
      <4> QED BY <2>3, <4>1, <4>2
    <3>9. p \in F => p \in G
      <4>1. Reached(t, t.paths[d]) /\ t.paths[d] # old
        BY <1>3, <1>7, <3>1, <3>2, <3>6 DEF DirsReached
      <4>2. ~IsBelow(old, t.paths[d]) /\ ~IsBelow(new, t.paths[d])
        BY <1>4, <3>2, <4>1
      <4>3. ~IsBelow(old, p) /\ ~IsBelow(new, p)
        <5>1. old \in Paths /\ new \in Paths
          BY <1>1
        <5> QED BY <3>5, <3>7, <3>8, <4>2, <5>1, BelowParent
      <4> QED BY <4>3
    <3>10. p = Append(t.paths[d], f.name)
      BY DEF p
    <3> QED BY <2>3, <3>1, <3>2, <3>4, <3>7, <3>8, <3>9, <3>10, RenamedShows
  <2> QED BY <2>1, <2>2, <2>3
<1> QED BY <1>9, <1>10, <1>11, <1>12, <1>13 DEF InOrder

\* The levels of a path are what is above it.
LEMMA LevelAbove ==
  ASSUME NEW p \in Paths, NEW i \in 0..Len(p)
  PROVE  IsBelow(SubSeq(p, 1, i), p)
<1> DEFINE q == SubSeq(p, 1, i)
<1>1. Len(p) \in Nat
  BY PathLen
<1>2. q \in Paths /\ Len(q) = i /\ \A j \in 1..i : q[j] = p[j]
  BY Levels
<1>3. i <= Len(p)
  BY <1>1
<1> HIDE DEF q
<1> QED BY <1>2, <1>3, BelowMeans DEF q

LEMMA AboveLevel ==
  ASSUME NEW p \in Paths, NEW q \in Paths, IsBelow(q, p)
  PROVE  Len(q) \in 0..Len(p) /\ q = SubSeq(p, 1, Len(q))
BY PathLen DEF IsBelow

\* One level and the next.
LEMMA LevelParent ==
  ASSUME NEW p \in Paths, NEW i \in 1..Len(p)
  PROVE  LET q == SubSeq(p, 1, i)
         IN  /\ i \in 0..Len(p) /\ i - 1 \in 0..Len(p) /\ i - 1 \in 0..(Len(p) - 1)
             /\ q \in NonRoot /\ Parent(q) = SubSeq(p, 1, i - 1) /\ BaseName(q) = p[i]
             /\ q = Append(SubSeq(p, 1, i - 1), p[i])
<1> DEFINE q == SubSeq(p, 1, i)
           r == SubSeq(p, 1, i - 1)
<1>1. Len(p) \in Nat /\ i \in 0..Len(p) /\ i - 1 \in 0..Len(p) /\ i - 1 \in 0..(Len(p) - 1)
      /\ i \in 1..i /\ i > 0 /\ \A j \in 1..(i - 1) : j \in 1..i
  BY PathLen
<1>2. q \in Paths /\ Len(q) = i /\ \A j \in 1..i : q[j] = p[j]
  BY <1>1, Levels
<1>3. r \in Paths /\ Len(r) = i - 1 /\ \A j \in 1..(i - 1) : r[j] = p[j]
  BY <1>1, Levels
<1> HIDE DEF q, r
<1>4. q \in NonRoot
  BY <1>1, <1>2, NonRootLen DEF NonRoot
<1>5. /\ Parent(q) \in Paths /\ Len(Parent(q)) = i - 1 /\ q = Append(Parent(q), BaseName(q))
      /\ \A j \in 1..(i - 1) : Parent(q)[j] = q[j]
  BY <1>2, <1>4, ParentOf
<1>6. Parent(q) = r
  <2>1. \A j \in 1..(i - 1) : Parent(q)[j] = r[j]
    BY <1>1, <1>2, <1>3, <1>5
  <2> QED BY <1>3, <1>5, <2>1, PathEqual
<1>7. BaseName(q) = p[i]
  BY <1>1, <1>2 DEF BaseName
<1> QED BY <1>1, <1>4, <1>5, <1>6, <1>7 DEF q, r

LEMMA LastLevel == \A p \in Paths : Len(p) \in 0..Len(p) /\ SubSeq(p, 1, Len(p)) = p
BY PathLen, PathIsSeq, SubSeqFull

\* Registering a file puts every level of it in its place and disturbs no
\* other path.
LEMMA RegisteredOrder ==
  ASSUME NEW t, NEW D, NEW X, NEW F, NEW S, NEW p \in Paths, NEW r, NEW ino, NEW M, NEW G,
         TreeOK(t), D \subseteq Paths, InOrder(t, D, X), Listings(t, D, F, S),
         Registration(t, p, r, ino, M), TreeOK(r), ino = InodeFor(t, p), M = Missing(t, p),
         F \subseteq G, p \in G
  PROVE  /\ InOrder(r, D, X) /\ Listings(r, D, G, S)
         /\ p \in DOMAIN r.inodes
         /\ p \notin DOMAIN t.inodes => r.inodes[p] \notin DOMAIN r.dirs
         /\ \A q \in DOMAIN t.inodes :
              /\ q \in DOMAIN r.inodes /\ r.inodes[q] = t.inodes[q]
              /\ r.inodes[q] \in DOMAIN r.dirs => t.inodes[q] \in DOMAIN t.dirs \/ (IsBelow(q, p) /\ q # p)
<1> DEFINE L == Len(p)
           lv(i) == SubSeq(p, 1, i)
<1>1. /\ DOMAIN r.paths = DOMAIN t.paths \cup {ino[i] : i \in M}
      /\ \A n \in DOMAIN t.paths : r.paths[n] = t.paths[n]
      /\ DOMAIN r.inodes = DOMAIN t.inodes \cup {lv(i) : i \in M}
      /\ \A i \in 0..L : r.inodes[lv(i)] = ino[i]
      /\ \A q \in DOMAIN t.inodes : r.inodes[q] = t.inodes[q]
      /\ DOMAIN r.dirs = DOMAIN t.dirs \cup {ino[i] : i \in 0..(L - 1)}
      /\ \A d \in DOMAIN r.dirs : r.dirs[d] = EntriesOf(t, d) \cup EntriesBelow(t, ino, p, d)
  BY Zenon DEF Registration
<1>2. /\ DOMAIN r.parents = DOMAIN t.parents \cup {ino[i] : i \in 1..L}
      /\ \A i \in 1..L : r.parents[ino[i]] = ino[i - 1]
      /\ \A n \in DOMAIN t.parents : n \notin {ino[i] : i \in 1..L} => r.parents[n] = t.parents[n]
  BY Zenon DEF Registration
<1>3. /\ L \in Nat /\ M \subseteq 1..L
      /\ \A i \in M : i \in 0..L /\ ino[i] >= t.next /\ ino[i] \in Nat
      /\ \A i \in 0..L : i \notin M =>
           /\ lv(i) \in DOMAIN t.inodes /\ ino[i] \in DOMAIN t.paths /\ t.paths[ino[i]] = lv(i)
  <2>1. /\ L \in Nat /\ M \subseteq 1..L
        /\ \A i \in M : ino[i] >= t.next
        /\ \A i \in 0..L : i \notin M =>
             /\ lv(i) \in DOMAIN t.inodes /\ ino[i] \in DOMAIN t.paths /\ t.paths[ino[i]] = lv(i)
    BY InodesFor
  <2>2. \A i \in 0..L : ino[i] \in Nat
    BY InodesFor
  <2>3. \A i \in M : i \in 0..L
    BY <2>1
  <2> QED BY <2>1, <2>2, <2>3
<1>4. \A i, j \in 0..L : ino[i] = ino[j] => i = j
  BY InodesDiffer
<1>5. \A i \in 0..L : lv(i) \in Paths /\ IsBelow(lv(i), p) /\ Len(lv(i)) = i
  BY Levels, LevelAbove
<1>6. \A i \in 1..L : /\ i \in 0..L /\ i - 1 \in 0..L /\ i - 1 \in 0..(L - 1)
                      /\ lv(i) \in NonRoot /\ Parent(lv(i)) = lv(i - 1) /\ BaseName(lv(i)) = p[i]
                      /\ lv(i) = Append(lv(i - 1), p[i])
  BY LevelParent
<1>7. /\ L \in 0..L /\ lv(L) = p
      /\ \A q \in Paths : IsBelow(q, p) => Len(q) \in 0..L /\ q = lv(Len(q))
  BY LastLevel, AboveLevel
<1>8. /\ t.next \in Nat /\ (\A i \in DOMAIN t.paths : i < t.next /\ i \in Nat)
      /\ (\A i \in DOMAIN t.dirs : i < t.next /\ i \in Nat)
      /\ <<>> \in DOMAIN t.inodes
  BY DEF TreeOK, Given
<1>9. /\ \A q \in DOMAIN t.inodes : t.inodes[q] \in DOMAIN t.paths /\ t.paths[t.inodes[q]] = q
      /\ \A q \in DOMAIN r.inodes : r.inodes[q] \in DOMAIN r.paths /\ r.paths[r.inodes[q]] = q
      /\ \A i \in DOMAIN t.paths : t.paths[i] \in Paths
  BY DEF TreeOK
<1>10. Placed(t, D) /\ DirsReached(t, D) /\ FilesReached(t, D, X) /\ t.inodes[<<>>] \in DOMAIN t.dirs
  BY DEF InOrder
<1> HIDE DEF L, lv
<1>11. \A i \in 0..L : lv(i) \in DOMAIN r.inodes /\ ino[i] \in DOMAIN r.paths /\ r.paths[ino[i]] = lv(i)
  BY <1>1, <1>3, <1>9
<1>12. \A q : Reached(t, q) => Reached(r, q)
  <2> SUFFICES ASSUME NEW y \in NonRoot, Linked(t, y) PROVE Linked(r, y)
    BY DEF Reached
  <2> DEFINE d == t.inodes[Parent(y)]
  <2>1. d \in DOMAIN t.dirs /\ {y, Parent(y)} \subseteq DOMAIN t.inodes
    BY DEF Linked
  <2> HIDE DEF d
  <2>2. d \in DOMAIN r.dirs /\ t.dirs[d] \subseteq r.dirs[d]
    BY <1>1, <2>1 DEF EntriesOf
  <2> QED BY <1>1, <2>1, <2>2, LinkStays DEF d
<1>13. ASSUME NEW i \in 1..L, ~Lost(D, lv(i)) PROVE Linked(r, lv(i))
  <2> DEFINE d == ino[i - 1]
  <2>1. d \in DOMAIN r.dirs /\ r.inodes[lv(i)] = ino[i] /\ r.inodes[lv(i - 1)] = d
        /\ lv(i) \in DOMAIN r.inodes /\ lv(i - 1) \in DOMAIN r.inodes
    BY <1>1, <1>6, <1>11
  <2>2. ASSUME NEW f \in r.dirs[d], f.ino = ino[i], f.name = p[i] PROVE Linked(r, lv(i))
    <3> HIDE DEF d
    <3> QED BY <1>6, <2>1, <2>2 DEF Linked
  <2>3. CASE \E f \in EntriesOf(t, d) : f.name = p[i]
    <3>1. PICK f \in EntriesOf(t, d) : f.name = p[i]
      BY <2>3
    <3>2. d \in DOMAIN t.dirs /\ f \in t.dirs[d]
      BY <3>1 DEF EntriesOf
    <3>3. i - 1 \notin M
      BY <1>3, <1>8, <3>2
    <3>4. d \in DOMAIN t.paths /\ t.paths[d] = lv(i - 1)
      BY <1>3, <1>6, <3>3
    <3>5. Append(t.paths[d], f.name) = lv(i)
      BY <1>6, <3>1, <3>4
    <3> HIDE DEF d
    <3>6. Shows(t, F, S, d, f)
      BY <1>13, <3>2, <3>4, <3>5 DEF Listings
    <3>7. lv(i) \in DOMAIN t.inodes /\ t.inodes[lv(i)] = f.ino
      BY <3>5, <3>6 DEF Shows
    <3>8. f.ino = ino[i] /\ f \in r.dirs[d]
      BY <1>1, <2>1, <3>1, <3>7
    <3> QED BY <2>2, <3>1, <3>8
  <2>4. CASE \A f \in EntriesOf(t, d) : f.name # p[i]
    <3> DEFINE f == LevelEntry(ino, p, i)
    <3>1. f.ino = ino[i] /\ f.name = p[i]
      BY DEF LevelEntry, Entry
    <3>2. f \in EntriesBelow(t, ino, p, d)
      BY <2>4 DEF EntriesBelow, L
    <3> HIDE DEF f
    <3>3. f \in r.dirs[d]
      BY <1>1, <2>1, <3>2
    <3> QED BY <2>2, <3>1, <3>3
  <2> QED BY <2>3, <2>4
<1>14. ASSUME NEW q \in Paths, IsBelow(q, p), ~Lost(D, q) PROVE Reached(r, q)
  <2> SUFFICES ASSUME NEW y \in NonRoot, IsBelow(y, q) PROVE Linked(r, y)
    BY DEF Reached
  <2>1. y \in Paths /\ IsBelow(y, p) /\ ~Lost(D, y)
    BY <1>14, BelowTrans, LostBelow DEF NonRoot
  <2>2. Len(y) \in 0..L /\ y = lv(Len(y)) /\ Len(y) > 0
    BY <1>7, <2>1, NonRootLen DEF NonRoot
  <2>3. Len(y) \in 1..L
    BY <1>3, <2>2
  <2> QED BY <1>13, <2>1, <2>2, <2>3
<1>15. r.inodes[<<>>] \in DOMAIN r.dirs
  BY <1>1, <1>8, <1>10
<1>16. Placed(r, D)
  <2> SUFFICES ASSUME NEW i \in DOMAIN r.paths, ~Lost(D, r.paths[i])
               PROVE  r.paths[i] \in DOMAIN r.inodes /\ r.inodes[r.paths[i]] = i
    BY DEF Placed
  <2>1. CASE i \in DOMAIN t.paths
    BY <1>1, <1>10, <2>1 DEF Placed
  <2>2. CASE \E k \in M : i = ino[k]
    BY <1>1, <1>3, <1>11, <2>2
  <2> QED BY <1>1, <2>1, <2>2
<1>17. \A i \in DOMAIN t.dirs : i \in DOMAIN r.paths => i \in DOMAIN t.paths
  BY <1>1, <1>3, <1>8
<1>18. DirsReached(r, D)
  <2> SUFFICES ASSUME NEW i \in DOMAIN r.dirs \cap DOMAIN r.paths, ~Lost(D, r.paths[i])
               PROVE  Reached(r, r.paths[i])
    BY DEF DirsReached
  <2>1. CASE i \in DOMAIN t.dirs
    <3>1. i \in DOMAIN t.dirs \cap DOMAIN t.paths /\ r.paths[i] = t.paths[i]
      BY <1>1, <1>17, <2>1
    <3> QED BY <1>10, <1>12, <3>1 DEF DirsReached
  <2>2. CASE \E k \in 0..(L - 1) : i = ino[k]
    <3>1. PICK k \in 0..(L - 1) : i = ino[k]
      BY <2>2
    <3>2. k \in 0..L
      BY <1>3
    <3>3. r.paths[i] = lv(k) /\ lv(k) \in Paths /\ IsBelow(lv(k), p)
      BY <1>5, <1>11, <3>1, <3>2
    <3> QED BY <1>14, <3>3
  <2> QED BY <1>1, <2>1, <2>2
<1>19. FilesReached(r, D, X)
  <2> SUFFICES ASSUME NEW i \in DOMAIN r.paths, ~Crossed(D, r.paths[i]), r.paths[i] \notin X
               PROVE  Reached(r, r.paths[i])
    BY DEF FilesReached
  <2>1. CASE i \in DOMAIN t.paths
    BY <1>1, <1>10, <1>12, <2>1 DEF FilesReached
  <2>2. CASE \E k \in M : i = ino[k]
    <3>1. PICK k \in M : i = ino[k]
      BY <2>2
    <3>2. r.paths[i] = lv(k) /\ lv(k) \in Paths /\ IsBelow(lv(k), p)
      BY <1>3, <1>5, <1>11, <3>1
    <3> QED BY <1>14, <3>2, LostCrossed
  <2> QED BY <1>1, <2>1, <2>2
<1>20. Listings(r, D, G, S)
  <2> SUFFICES ASSUME NEW d \in DOMAIN r.dirs \cap DOMAIN r.paths, NEW f \in r.dirs[d],
                      ~Lost(D, Append(r.paths[d], f.name))
               PROVE  Shows(r, G, S, d, f)
    BY DEF Listings
  <2>1. CASE f \in EntriesOf(t, d)
    <3>1. d \in DOMAIN t.dirs \cap DOMAIN t.paths /\ f \in t.dirs[d] /\ r.paths[d] = t.paths[d]
      BY <1>1, <1>17, <2>1 DEF EntriesOf
    <3> DEFINE q == Append(t.paths[d], f.name)
    <3>2. ~Lost(D, q)
      BY <3>1
    <3>3. Shows(t, F, S, d, f)
      BY <3>1, <3>2 DEF Listings
    <3>4. /\ q \in NonRoot /\ q \in DOMAIN t.inodes /\ t.inodes[q] = f.ino
          /\ f.ino \in DOMAIN t.paths /\ t.paths[f.ino] = q
          /\ Parent(q) = t.paths[d] /\ IsBelow(t.paths[d], q)
      BY <3>1, <3>3, EntryPath
    <3>5. /\ f.kind = "dir" => f.ino \in DOMAIN t.dirs /\ f.ino \in DOMAIN t.parents /\ t.parents[f.ino] = d
          /\ f.kind = "file" => q \in F \/ f.ino \in S
      BY <3>3 DEF Shows
    <3>6. q = Append(r.paths[d], f.name)
      BY <3>1
    <3> HIDE DEF q
    <3>7. ASSUME f.kind = "dir"
          PROVE  f.ino \in DOMAIN r.dirs /\ f.ino \in DOMAIN r.parents /\ r.parents[f.ino] = d
      <4>1. f.ino \in DOMAIN r.dirs /\ f.ino \in DOMAIN r.parents
        BY <1>1, <1>2, <3>5, <3>7
      <4>2. CASE f.ino \notin {ino[k] : k \in 1..L}
        BY <1>2, <3>5, <3>7, <4>1, <4>2
      <4>3. CASE \E k \in 1..L : f.ino = ino[k]
        <5>1. PICK k \in 1..L : f.ino = ino[k]
          BY <4>3
        <5>2. k \in 0..L /\ k - 1 \in 0..L /\ Parent(lv(k)) = lv(k - 1)
          BY <1>6
        <5>3. q = lv(k)
          BY <1>1, <1>11, <3>4, <5>1, <5>2
        <5>4. t.paths[d] = lv(k - 1)
          BY <3>4, <5>2, <5>3
        <5>5. t.paths[d] \in Paths /\ ~Lost(D, t.paths[d])
          BY <1>9, <3>1, <3>2, <3>4, LostBelow DEF NonRoot, q
        <5>6. t.paths[d] \in DOMAIN t.inodes /\ t.inodes[t.paths[d]] = d
          BY <1>10, <3>1, <5>5 DEF Placed
        <5>7. d = ino[k - 1]
          BY <1>1, <5>2, <5>4, <5>6
        <5> QED BY <1>2, <4>1, <5>1, <5>7
      <4> QED BY <4>2, <4>3
    <3>8. q \in DOMAIN r.inodes /\ r.inodes[q] = f.ino
      BY <1>1, <3>4
    <3> QED BY <3>5, <3>6, <3>7, <3>8 DEF Shows
  <2>2. CASE f \in EntriesBelow(t, ino, p, d)
    <3>1. PICK i \in 1..L : f = LevelEntry(ino, p, i) /\ ino[i - 1] = d
      BY <2>2 DEF EntriesBelow, L
    <3>2. f.ino = ino[i] /\ f.name = p[i] /\ f.kind = IF i = L THEN "file" ELSE "dir"
      BY <3>1 DEF LevelEntry, Entry, L
    <3>3. r.paths[d] = lv(i - 1) /\ Append(r.paths[d], f.name) = lv(i)
      BY <1>6, <1>11, <3>1, <3>2
    <3>4. lv(i) \in DOMAIN r.inodes /\ r.inodes[lv(i)] = f.ino
      BY <1>1, <1>6, <1>11, <3>2
    <3>5. ASSUME f.kind = "dir"
          PROVE  f.ino \in DOMAIN r.dirs /\ f.ino \in DOMAIN r.parents /\ r.parents[f.ino] = d
      <4>1. i # L
        BY <3>2, <3>5
      <4>2. i \in 0..(L - 1)
        BY <1>3, <4>1
      <4> QED BY <1>1, <1>2, <3>1, <3>2, <4>2
    <3>6. f.kind = "file" => lv(i) = p
      BY <1>7, <3>2
    <3> QED BY <3>3, <3>4, <3>5, <3>6 DEF Shows
  <2> QED BY <1>1, <2>1, <2>2
<1>21. p \in DOMAIN r.inodes
  BY <1>7, <1>11
<1>22. ASSUME p \notin DOMAIN t.inodes PROVE r.inodes[p] \notin DOMAIN r.dirs
  <2>1. L \in M /\ r.inodes[p] = ino[L]
    BY <1>1, <1>3, <1>7, <1>22
  <2>2. ino[L] \notin DOMAIN t.dirs
    BY <1>3, <1>8, <2>1
  <2>3. ASSUME NEW k \in 0..(L - 1) PROVE ino[L] # ino[k]
    <3>1. k \in 0..L /\ k # L
      BY <1>3
    <3> QED BY <1>4, <1>7, <3>1
  <2> QED BY <1>1, <2>1, <2>2, <2>3
<1>23. ASSUME NEW q \in DOMAIN t.inodes
       PROVE  /\ q \in DOMAIN r.inodes /\ r.inodes[q] = t.inodes[q]
              /\ r.inodes[q] \in DOMAIN r.dirs => t.inodes[q] \in DOMAIN t.dirs \/ (IsBelow(q, p) /\ q # p)
  <2>1. q \in DOMAIN r.inodes /\ r.inodes[q] = t.inodes[q]
    BY <1>1
  <2>2. ASSUME NEW k \in 0..(L - 1), r.inodes[q] = ino[k] PROVE IsBelow(q, p) /\ q # p
    <3>1. k \in 0..L /\ k # L
      BY <1>3
    <3>2. q = lv(k)
      BY <1>9, <1>11, <2>1, <2>2, <3>1
    <3> QED BY <1>5, <3>1, <3>2 DEF L
  <2> QED BY <1>1, <2>1, <2>2
<1> QED BY <1>15, <1>16, <1>18, <1>19, <1>20, <1>21, <1>22, <1>23 DEF InOrder

\* The inode maps r have p beside the paths of t, as a file unless t has it,
\* and what is above p.
Joins(t, r, p) ==
  /\ p \in DOMAIN r.inodes
  /\ p \notin DOMAIN t.inodes => r.inodes[p] \notin DOMAIN r.dirs
  /\ \A q \in DOMAIN t.inodes :
       /\ q \in DOMAIN r.inodes /\ r.inodes[q] = t.inodes[q]
       /\ r.inodes[q] \in DOMAIN r.dirs => t.inodes[q] \in DOMAIN t.dirs \/ (IsBelow(q, p) /\ q # p)
  /\ \A q \in DOMAIN r.inodes : q \in DOMAIN t.inodes \/ IsBelow(q, p)

\* Registering a file, as the handlers and the mount do.
LEMMA RegisteredFile ==
  ASSUME NEW t, NEW D, NEW X, NEW S, NEW F, NEW G, NEW p \in Paths,
         TreeOK(t), D \subseteq Paths, InOrder(t, D, X), Listings(t, D, F, S), F \subseteq G, p \in G
  PROVE  LET r == RegisterFile(t, p)
         IN  /\ InOrder(r, D, X) /\ Listings(r, D, G, S)
             /\ Joins(t, r, p)
<1>1. PICK r, ino, M : r = RegisterFile(t, p) /\ ino = InodeFor(t, p) /\ M = Missing(t, p)
  OBVIOUS
<1>2. Registration(t, p, r, ino, M) /\ TreeOK(r)
  BY <1>1, Registered, RegisterOK
<1>3. ino = InodeFor(t, p) /\ M = Missing(t, p)
  BY <1>1
<1>4. InOrder(r, D, X) /\ Listings(r, D, G, S)
  BY <1>2, <1>3, RegisteredOrder
<1>5. p \in DOMAIN r.inodes /\ (p \notin DOMAIN t.inodes => r.inodes[p] \notin DOMAIN r.dirs)
  BY <1>2, <1>3, RegisteredOrder
<1>6. \A q \in DOMAIN t.inodes :
        /\ q \in DOMAIN r.inodes /\ r.inodes[q] = t.inodes[q]
        /\ r.inodes[q] \in DOMAIN r.dirs => t.inodes[q] \in DOMAIN t.dirs \/ (IsBelow(q, p) /\ q # p)
  BY <1>2, <1>3, RegisteredOrder
<1>7. ASSUME NEW q \in DOMAIN r.inodes, q \notin DOMAIN t.inodes PROVE IsBelow(q, p)
  <2>1. PICK k \in M : q = SubSeq(p, 1, k)
    BY <1>2, <1>7 DEF Registration
  <2>2. k \in 0..Len(p)
    BY <1>1, <2>1, PathLen DEF Missing
  <2> QED BY <2>1, <2>2, LevelAbove
<1>8. Joins(t, r, p)
  BY <1>5, <1>6, <1>7 DEF Joins
<1> QED BY <1>1, <1>4, <1>8
-----------------------------------------------------------------------------
(* Files and their listings *)

DeletedPaths == {p \in DOMAIN store : store[p].deleted}
FileNames == DOMAIN acked \cup {SlashlessFiles[i] : i \in DOMAIN SlashlessFiles}

\* p has an inode that is no directory.
FileAt(p) == p \in DOMAIN tree.inodes /\ tree.inodes[p] \notin DOMAIN tree.dirs

\* What was acknowledged is there, and nothing else that is live.
AckedThere ==
  \A p \in DOMAIN acked : ~Crossed(disturbed, p) => Live(p) /\ store[p].data = acked[p] /\ FileAt(p)
LiveAcked ==
  \A p \in DOMAIN store : ~store[p].deleted /\ ~Crossed(disturbed, p) => p \in DOMAIN acked

\* The handles on what the store does not know (yet): symlinks and the like.
HandlesThere ==
  \A fh \in DOMAIN openFiles :
    ~Crossed(disturbed, openFiles[fh].path) /\ openFiles[fh].path \notin DOMAIN store
      => FileAt(openFiles[fh].path)

\* The invariant of the files and their listings.
Tidy ==
  /\ disturbed \subseteq Paths /\ DOMAIN acked \subseteq Seq(Names)
  /\ InOrder(tree, disturbed, DeletedPaths)
  /\ Listings(tree, disturbed, FileNames, DOMAIN symlinks)
  /\ AckedThere /\ LiveAcked /\ HandlesThere

\* A file is written.
LEMMA WrittenStore ==
  ASSUME NEW p, NEW d, store' = Written(p, d), p \in DOMAIN store => ~store[p].deleted
  PROVE  /\ DOMAIN store' = DOMAIN store \cup {p}
         /\ ~store'[p].deleted /\ store'[p].data = d
         /\ \A q \in DOMAIN store : q # p => store'[q] = store[q]
         /\ DeletedPaths' = DeletedPaths
<1>1. /\ DOMAIN store' = DOMAIN store \cup {p}
      /\ ~store'[p].deleted /\ store'[p].data = d
      /\ \A q \in DOMAIN store : q # p => store'[q] = store[q]
  BY DEF Written, With
<1>2. ASSUME NEW q PROVE q \in DeletedPaths' <=> q \in DeletedPaths
  BY <1>1 DEF DeletedPaths
<1> QED BY <1>1, <1>2

\* A file is deleted.
LEMMA DeletedStore ==
  ASSUME StoreOK, NEW p, Live(p), store' = Deleted(p)
  PROVE  /\ DOMAIN store' = DOMAIN store /\ store'[p].deleted
         /\ \A q \in DOMAIN store : q # p => store'[q] = store[q]
         /\ DeletedPaths' = DeletedPaths \cup {p}
<1> DEFINE e == [store[p] EXCEPT !.deleted = TRUE, !.version = @ + 1]
<1>1. p \in DOMAIN store /\ store[p].deleted = FALSE /\ store[p] = Record(store[p])
      /\ store[p].version \in 0..MaxVersion /\ Fn(store)
  BY DEF Live, StoreOK
<1>2. store' = [store EXCEPT ![p] = e]
  BY <1>1 DEF Deleted, Fn
<1>3. e.deleted = TRUE
  BY <1>1, EntryDeleted
<1> HIDE DEF e
<1>4. /\ DOMAIN store' = DOMAIN store /\ store'[p].deleted
      /\ \A q \in DOMAIN store : q # p => store'[q] = store[q]
  BY <1>1, <1>2, <1>3
<1>5. ASSUME NEW q PROVE q \in DeletedPaths' <=> q \in DeletedPaths \cup {p}
  BY <1>1, <1>4 DEF DeletedPaths
<1> QED BY <1>4, <1>5

\* A file is copied, and deleted under its old name.
LEMMA CopiedStore ==
  ASSUME StoreOK, NEW p, NEW q, p # q, Live(p), store' = Copied(p, q)
  PROVE  /\ DOMAIN store \subseteq DOMAIN store' /\ DOMAIN store' \subseteq DOMAIN store \cup {q}
         /\ p \in DOMAIN store /\ store'[p].deleted
         /\ \A x \in DOMAIN store : x # p => x = q \/ store'[x] = store[x]
         /\ q \notin DOMAIN store =>
              q \in DOMAIN store' /\ ~store'[q].deleted /\ store'[q].data = store[p].data
<1> DEFINE e == [store[p] EXCEPT !.deleted = TRUE, !.version = @ + 1]
           c == [version |-> 0, deleted |-> FALSE, data |-> store[p].data]
<1>1. p \in DOMAIN store /\ store[p].deleted = FALSE /\ store[p] = Record(store[p])
      /\ store[p].version \in 0..MaxVersion /\ Fn(store)
  BY DEF Live, StoreOK
<1>2. e.deleted = TRUE
  BY <1>1, EntryDeleted
<1>3. ~c.deleted /\ c.data = store[p].data
  OBVIOUS
<1>4. CASE Accepts(q, NoVersion)
  <2>1. store' = [With(store, q, c) EXCEPT ![p].deleted = TRUE, ![p].version = @ + 1]
    BY <1>4 DEF Copied
  <2>2. Fn(With(store, q, c)) /\ p \in DOMAIN With(store, q, c) /\ With(store, q, c)[p] = store[p]
    BY <1>1 DEF With, Fn
  <2> HIDE DEF c
  <2>3. store' = [With(store, q, c) EXCEPT ![p] = e]
    BY <2>1, <2>2 DEF Fn
  <2> HIDE DEF e
  <2>4. /\ DOMAIN store' = DOMAIN store \cup {q} /\ store'[p] = e /\ store'[q] = c
        /\ \A x \in DOMAIN store : x # p /\ x # q => store'[x] = store[x]
    BY <1>1, <2>3 DEF With
  <2> QED BY <1>1, <1>2, <1>3, <2>4
<1>5. CASE ~Accepts(q, NoVersion)
  <2>1. q \in DOMAIN store
    BY <1>5 DEF Accepts
  <2>2. store' = [store EXCEPT ![p] = e]
    BY <1>1, <1>5 DEF Copied, Fn
  <2> HIDE DEF e
  <2> QED BY <1>1, <1>2, <2>1, <2>2
<1> QED BY <1>4, <1>5

\* The entries after one is dropped.
LEMMA DroppedDirs ==
  ASSUME NEW t, NEW d, NEW name, t = Tree(t.paths, t.inodes, t.dirs, t.parents, t.next)
  PROVE  LET x == DropEntry(t, d, name)
         IN  /\ x = Tree(t.paths, t.inodes, x.dirs, t.parents, t.next)
             /\ x.paths = t.paths /\ x.inodes = t.inodes /\ x.parents = t.parents /\ x.next = t.next
             /\ DOMAIN x.dirs = DOMAIN t.dirs /\ Drops(t, x, d, name)
<1> DEFINE drop == [y \in DOMAIN t.dirs |-> IF y = d THEN {f \in t.dirs[y] : f.name # name} ELSE t.dirs[y]]
           x == DropEntry(t, d, name)
<1>1. x = [t EXCEPT !.dirs = drop]
  BY Zenon DEF DropEntry
<1>2. /\ DOMAIN drop = DOMAIN t.dirs
      /\ \A y \in DOMAIN drop :
           /\ \A f \in drop[y] : f \in t.dirs[y] /\ (y = d => f.name # name)
           /\ \A f \in t.dirs[y] : f \in drop[y] \/ (y = d /\ f.name = name)
  OBVIOUS
<1> HIDE DEF drop, x
<1>3. x = Tree(t.paths, t.inodes, drop, t.parents, t.next)
  BY <1>1 DEF Tree
<1>4. /\ x.paths = t.paths /\ x.inodes = t.inodes /\ x.dirs = drop /\ x.parents = t.parents
      /\ x.next = t.next
  BY <1>3 DEF Tree
<1>5. Drops(t, x, d, name)
  BY <1>2, <1>4 DEF Drops
<1> QED BY <1>2, <1>3, <1>4, <1>5 DEF x

\* The entries after one is added.
LEMMA AddedDirs ==
  ASSUME NEW t, NEW d, NEW e, t = Tree(t.paths, t.inodes, t.dirs, t.parents, t.next)
  PROVE  LET x == AddEntry(t, d, e)
         IN  /\ x.paths = t.paths /\ x.inodes = t.inodes /\ x.parents = t.parents /\ x.next = t.next
             /\ DOMAIN x.dirs = DOMAIN t.dirs
             /\ \A z \in DOMAIN t.dirs : x.dirs[z] = IF z = d THEN t.dirs[z] \cup {e} ELSE t.dirs[z]
<1> DEFINE add == [y \in DOMAIN t.dirs |-> IF y = d THEN t.dirs[y] \cup {e} ELSE t.dirs[y]]
           x == AddEntry(t, d, e)
<1>1. x = [t EXCEPT !.dirs = add]
  BY Zenon DEF AddEntry
<1>2. /\ DOMAIN add = DOMAIN t.dirs
      /\ \A z \in DOMAIN t.dirs : add[z] = IF z = d THEN t.dirs[z] \cup {e} ELSE t.dirs[z]
  OBVIOUS
<1> HIDE DEF add, x
<1>3. x = Tree(t.paths, t.inodes, add, t.parents, t.next)
  BY <1>1 DEF Tree
<1>4. /\ x.paths = t.paths /\ x.inodes = t.inodes /\ x.dirs = add /\ x.parents = t.parents
      /\ x.next = t.next
  BY <1>3 DEF Tree
<1> QED BY <1>2, <1>4 DEF x

\* A directory that a program holds, and a name in it.
LEMMA HeldPath ==
  ASSUME TreeOK(tree), NEW parent \in Held, NEW name \in Names
  PROVE  LET p == Append(tree.paths[parent], name)
         IN  /\ parent \in DOMAIN tree.dirs \cap DOMAIN tree.paths
             /\ tree.paths[parent] \in Paths
             /\ p \in Paths /\ p \in NonRoot /\ Parent(p) = tree.paths[parent]
             /\ IsBelow(tree.paths[parent], p)
<1>1. parent \in DOMAIN tree.dirs \cap DOMAIN tree.paths /\ tree.paths[parent] \in Paths
  BY DEF Held, TreeOK
<1>2. Append(tree.paths[parent], name) \in Paths
  BY ChildPath
<1> QED BY <1>1, <1>2, ChildOf

\* What lies above a directory is a directory, or was one that a rename
\* went through.
LEMMA AboveDir ==
  ASSUME NEW t, TreeOK(t), NEW D, D \subseteq Paths, NEW X, InOrder(t, D, X),
         NEW d \in DOMAIN t.dirs \cap DOMAIN t.paths, NEW q \in Paths, IsBelow(q, t.paths[d]),
         ~Crossed(D, q)
  PROVE  q \in DOMAIN t.inodes /\ t.inodes[q] \in DOMAIN t.dirs
<1> DEFINE r == t.paths[d]
<1>1. r \in Paths
  BY DEF TreeOK
<1>2. CASE Lost(D, r)
  <2>1. PICK c \in D : IsBelow(c, r)
    BY <1>2 DEF Lost
  <2>2. IsBelow(c, q) \/ IsBelow(q, c)
    BY <1>1, <2>1, BelowLinear
  <2> QED BY <2>2 DEF Crossed
<1>3. CASE ~Lost(D, r)
  <2>1. r \in DOMAIN t.inodes /\ t.inodes[r] = d /\ Reached(t, r)
    BY <1>3 DEF InOrder, Placed, DirsReached
  <2>2. CASE q = r
    BY <2>1, <2>2
  <2>3. CASE q # r
    BY <1>1, <2>1, <2>3, ReachedThrough
  <2> QED BY <2>2, <2>3
<1> QED BY <1>2, <1>3

\* The invariant when only the handles change.
LEMMA TidyHandles ==
  ASSUME Tidy, UNCHANGED <<tree, symlinks, store, acked, disturbed>>,
         \A fh \in DOMAIN openFiles' :
           \/ fh \in DOMAIN openFiles /\ openFiles'[fh].path = openFiles[fh].path
           \/ /\ ~Crossed(disturbed, openFiles'[fh].path) /\ openFiles'[fh].path \notin DOMAIN store
                   => FileAt(openFiles'[fh].path)
  PROVE  Tidy'
<1>1. HandlesThere'
  BY DEF Tidy, HandlesThere, FileAt
<1>2. DeletedPaths' = DeletedPaths /\ FileNames' = FileNames /\ AckedThere' /\ LiveAcked'
  BY DEF Tidy, DeletedPaths, FileNames, AckedThere, LiveAcked, FileAt, Live
<1> QED BY <1>1, <1>2 DEF Tidy

\* The invariant when a file's content changes.
LEMMA TidyWritten ==
  ASSUME Tidy, NEW p \in Paths, NEW d, store' = Written(p, d), acked' = With(acked, p, d),
         p \in DOMAIN store => ~store[p].deleted,
         ~Crossed(disturbed, p) => FileAt(p),
         UNCHANGED <<tree, symlinks, disturbed>>, DOMAIN openFiles' = DOMAIN openFiles,
         \A fh \in DOMAIN openFiles : openFiles'[fh].path = openFiles[fh].path
  PROVE  Tidy'
<1>1. /\ DOMAIN store' = DOMAIN store \cup {p} /\ ~store'[p].deleted /\ store'[p].data = d
      /\ \A q \in DOMAIN store : q # p => store'[q] = store[q]
      /\ DeletedPaths' = DeletedPaths
  BY WrittenStore
<1>2. /\ DOMAIN acked' = DOMAIN acked \cup {p} /\ acked'[p] = d
      /\ \A q \in DOMAIN acked : q # p => acked'[q] = acked[q]
  BY DEF With
<1>3. p \in Seq(Names)
  BY PathIsSeq
<1>4. DOMAIN acked' \subseteq Seq(Names) /\ FileNames \subseteq FileNames'
  BY <1>2, <1>3 DEF Tidy, FileNames
<1>5. Listings(tree, disturbed, FileNames', DOMAIN symlinks)
  BY <1>4, ListingsMore DEF Tidy
<1>6. AckedThere'
  BY <1>1, <1>2 DEF Tidy, AckedThere, FileAt, Live
<1>7. LiveAcked'
  BY <1>1, <1>2 DEF Tidy, LiveAcked
<1>8. HandlesThere'
  BY <1>1 DEF Tidy, HandlesThere, FileAt
<1> QED BY <1>1, <1>4, <1>5, <1>6, <1>7, <1>8 DEF Tidy
-----------------------------------------------------------------------------
(* The handlers, one after the other *)

\* A path away from those a rename disturbed is not below one of them.
LEMMA UncrossedHas ==
  ASSUME Tidy, NEW i \in DOMAIN tree.paths, ~Crossed(disturbed, tree.paths[i])
  PROVE  tree.paths[i] \in DOMAIN tree.inodes /\ tree.inodes[tree.paths[i]] = i
<1>1. ~Lost(disturbed, tree.paths[i])
  BY LostCrossed
<1> QED BY <1>1 DEF Tidy, InOrder, Placed

\* What an inode that is no directory stands for.
LEMMA UncrossedFile ==
  ASSUME Tidy, NEW i \in DOMAIN tree.paths \ DOMAIN tree.dirs, ~Crossed(disturbed, tree.paths[i])
  PROVE  FileAt(tree.paths[i])
BY UncrossedHas DEF FileAt

\* A file that is live has its place.
LEMMA LiveAt ==
  ASSUME Tidy, NEW p, Live(p), ~Crossed(disturbed, p)
  PROVE  p \in DOMAIN acked /\ FileAt(p)
<1>1. p \in DOMAIN acked
  BY DEF Tidy, LiveAcked, Live
<1> QED BY <1>1 DEF Tidy, AckedThere

\* open
LEMMA OpenTidy ==
  ASSUME Agreement, Tidy, NEW ino \in DOMAIN tree.paths \ DOMAIN tree.dirs, Open(ino)
  PROVE  Tidy'
<1> DEFINE p == tree.paths[ino]
           h == [path |-> p, version |-> IF Live(p) THEN store[p].version ELSE 0]
<1>1. openFiles' = With(openFiles, nextFh, h) /\ h.path = p
  BY DEF Open, AllocateFh
<1>2. UNCHANGED <<tree, symlinks, store, acked, disturbed>>
  BY DEF Open
<1>3. ~Crossed(disturbed, p) => FileAt(p)
  BY UncrossedFile
<1> HIDE DEF p, h
<1>4. \A fh \in DOMAIN openFiles' :
        \/ fh \in DOMAIN openFiles /\ openFiles'[fh].path = openFiles[fh].path
        \/ openFiles'[fh].path = p
  BY <1>1 DEF With
<1> QED BY <1>2, <1>3, <1>4, TidyHandles

\* release
LEMMA ReleaseTidy ==
  ASSUME Tidy, NEW fh, Release(fh)
  PROVE  Tidy'
<1>1. \A x \in DOMAIN openFiles' : x \in DOMAIN openFiles /\ openFiles'[x] = openFiles[x]
  BY DEF Release, Without
<1>2. UNCHANGED <<tree, symlinks, store, acked, disturbed>>
  BY DEF Release
<1> QED BY <1>1, <1>2, TidyHandles

\* Nothing that the invariant is about changes.
LEMMA StutterTidy ==
  ASSUME Tidy, UNCHANGED <<tree, symlinks, openFiles, store, acked, disturbed>>
  PROVE  Tidy'
<1>1. \A x \in DOMAIN openFiles' : x \in DOMAIN openFiles /\ openFiles'[x].path = openFiles[x].path
  OBVIOUS
<1> QED BY <1>1, TidyHandles

\* write
LEMMA WriteTidy ==
  ASSUME Agreement, Versions, Tidy, NEW fh \in DOMAIN openFiles, NEW offset, NEW data,
         Write(fh, offset, data)
  PROVE  Tidy'
<1> DEFINE p == openFiles[fh].path
           buffer == Overlay(ReadOrEmpty(p), offset, data)
           v == store'[p].version
<1>1. /\ store' = Written(p, buffer) /\ acked' = With(acked, p, buffer)
      /\ openFiles' = [openFiles EXCEPT ![fh].version = v]
      /\ UNCHANGED <<tree, symlinks, disturbed>>
  BY DEF Write
<1>2. p \in Paths
  BY DEF Agreement, HandleTypes
<1>3. StoreOK /\ HandlesOK
  BY DEF Versions
<1>4. p \in DOMAIN store => ~store[p].deleted
  BY <1>3, WriteOfLive
<1>5. openFiles[fh] = [path |-> p, version |-> openFiles[fh].version]
  BY <1>3 DEF HandlesOK
<1> HIDE DEF buffer, v
<1>6. DOMAIN openFiles' = DOMAIN openFiles /\ \A x \in DOMAIN openFiles : openFiles'[x].path = openFiles[x].path
  BY <1>1, <1>5
<1>7. ASSUME ~Crossed(disturbed, p) PROVE FileAt(p)
  <2>1. CASE p \in DOMAIN store
    BY <1>4, <1>7, <2>1, LiveAt DEF Live
  <2>2. CASE p \notin DOMAIN store
    BY <1>7, <2>2 DEF Tidy, HandlesThere
  <2> QED BY <2>1, <2>2
<1> HIDE DEF p
<1> QED BY <1>1, <1>2, <1>4, <1>6, <1>7, TidyWritten

\* setattr
LEMMA TruncateTidy ==
  ASSUME Agreement, Tidy, NEW ino \in DOMAIN tree.paths, NEW size, Truncate(ino, size)
  PROVE  Tidy'
<1> DEFINE p == tree.paths[ino]
           resized == [i \in 1..size |-> IF i <= Len(store[p].data) THEN store[p].data[i] ELSE 0]
<1>1. /\ store' = Written(p, resized) /\ acked' = With(acked, p, resized)
      /\ UNCHANGED <<tree, symlinks, openFiles, disturbed>> /\ Live(p)
  BY DEF Truncate
<1>2. p \in Paths
  BY DEF Agreement, TreeOK
<1> HIDE DEF p, resized
<1>3. ~Crossed(disturbed, p) => FileAt(p)
  BY <1>1, LiveAt
<1>4. p \in DOMAIN store => ~store[p].deleted
  BY <1>1 DEF Live
<1> QED BY <1>1, <1>2, <1>3, <1>4, TidyWritten

\* create
LEMMA CreateTidy ==
  ASSUME Agreement, Versions, Tidy, NEW parent \in Held, NEW name \in Names, Create(parent, name)
  PROVE  Tidy'
<1> DEFINE h(p) == [path |-> p, version |-> 0]
           S == DOMAIN symlinks
<1>1. PICK p : p = Append(tree.paths[parent], name)
  OBVIOUS
<1>2. /\ store' = Written(p, <<>>) /\ acked' = With(acked, p, <<>>) /\ tree' = RegisterFile(tree, p)
      /\ openFiles' = With(openFiles, nextFh, h(p)) /\ h(p).path = p
      /\ UNCHANGED <<symlinks, disturbed>> /\ Accepts(p, NoVersion)
  BY <1>1 DEF Create, AllocateFh
<1>3. TreeOK(tree)
  BY DEF Agreement
<1>4. /\ p \notin DOMAIN tree.inodes /\ p \in Paths /\ p \in NonRoot /\ Parent(p) = tree.paths[parent]
      /\ parent \in DOMAIN tree.dirs \cap DOMAIN tree.paths
  BY <1>1, <1>3, LookupFails, HeldPath DEF Create
<1> HIDE DEF h
<1>5. p \notin DOMAIN store
  BY <1>2, BoundsAssumption DEF Accepts, NoVersion, Versions, StoreOK
<1>6. /\ DOMAIN store' = DOMAIN store \cup {p} /\ ~store'[p].deleted /\ store'[p].data = <<>>
      /\ \A q \in DOMAIN store : q # p => store'[q] = store[q]
      /\ DeletedPaths' = DeletedPaths
  BY <1>2, <1>5, WrittenStore
<1>7. /\ disturbed \subseteq Paths
      /\ InOrder(tree, disturbed, DeletedPaths) /\ Listings(tree, disturbed, FileNames, S)
  BY DEF Tidy
<1> HIDE DEF S
<1>8. /\ DOMAIN acked' = DOMAIN acked \cup {p} /\ acked'[p] = <<>>
       /\ \A q \in DOMAIN acked : q # p => acked'[q] = acked[q]
  BY <1>2 DEF With
<1>9. p \in Seq(Names)
  BY <1>4, PathIsSeq
<1>10. DOMAIN acked' \subseteq Seq(Names) /\ FileNames \subseteq FileNames' /\ p \in FileNames'
  BY <1>8, <1>9 DEF Tidy, FileNames
<1>11. /\ InOrder(tree', disturbed, DeletedPaths) /\ Listings(tree', disturbed, FileNames', S)
      /\ p \in DOMAIN tree'.inodes /\ tree'.inodes[p] \notin DOMAIN tree'.dirs
      /\ \A q \in DOMAIN tree.inodes :
           /\ q \in DOMAIN tree'.inodes /\ tree'.inodes[q] = tree.inodes[q]
           /\ tree'.inodes[q] \in DOMAIN tree'.dirs =>
                tree.inodes[q] \in DOMAIN tree.dirs \/ (IsBelow(q, p) /\ q # p)
  <2>1. p \in Paths /\ FileNames \subseteq FileNames' /\ p \in FileNames'
    BY <1>4, <1>10
  <2>2. InOrder(tree', disturbed, DeletedPaths) /\ Listings(tree', disturbed, FileNames', S)
        /\ Joins(tree, tree', p)
    BY <1>2, <1>3, <1>7, <2>1, RegisteredFile
  <2> QED BY <1>4, <2>2 DEF Joins
<1>12. ASSUME NEW q, FileAt(q), ~Crossed(disturbed, q)
      PROVE  q \in DOMAIN tree'.inodes /\ tree'.inodes[q] \notin DOMAIN tree'.dirs
  <2>1. q \in DOMAIN tree.inodes /\ tree.inodes[q] \notin DOMAIN tree.dirs /\ q \in Paths
    BY <1>3, <1>12 DEF FileAt, TreeOK
  <2>2. ~ (IsBelow(q, p) /\ q # p)
    <3> SUFFICES ASSUME IsBelow(q, p), q # p PROVE FALSE
      OBVIOUS
    <3>1. IsBelow(q, tree.paths[parent])
      BY <1>4, <2>1, BelowParent
    <3> QED BY <1>3, <1>4, <1>7, <1>12, <2>1, <3>1, AboveDir
  <2> QED BY <1>11, <2>1, <2>2
<1>13. AckedThere'
  <2> SUFFICES ASSUME NEW q \in DOMAIN acked', ~Crossed(disturbed', q)
               PROVE  (Live(q) /\ store[q].data = acked[q] /\ FileAt(q))'
    BY DEF AckedThere
  <2>1. CASE q = p
    BY <1>6, <1>11, <1>8, <2>1 DEF Live, FileAt
  <2>2. CASE q # p
    <3>1. q \in DOMAIN acked /\ acked'[q] = acked[q] /\ ~Crossed(disturbed, q)
      BY <1>2, <1>8, <2>2
    <3>2. Live(q) /\ store[q].data = acked[q] /\ FileAt(q)
      BY <3>1 DEF Tidy, AckedThere
    <3>3. FileAt(q)'
      BY <1>12, <3>1, <3>2 DEF FileAt
    <3> QED BY <1>6, <2>2, <3>1, <3>2, <3>3 DEF Live
  <2> QED BY <2>1, <2>2
<1>14. LiveAcked'
  BY <1>2, <1>6, <1>8 DEF Tidy, LiveAcked
<1>15. HandlesThere'
  <2>1. \A fh \in DOMAIN openFiles' :
          \/ fh \in DOMAIN openFiles /\ openFiles'[fh].path = openFiles[fh].path
          \/ openFiles'[fh].path = p
    BY <1>2 DEF With
  <2> SUFFICES ASSUME NEW fh \in DOMAIN openFiles', ~Crossed(disturbed', openFiles'[fh].path),
                      openFiles'[fh].path \notin DOMAIN store'
               PROVE  FileAt(openFiles[fh].path)'
    BY DEF HandlesThere
  <2>2. /\ fh \in DOMAIN openFiles /\ openFiles'[fh].path = openFiles[fh].path
        /\ ~Crossed(disturbed, openFiles[fh].path) /\ openFiles[fh].path \notin DOMAIN store
    BY <1>2, <1>6, <2>1
  <2>3. FileAt(openFiles[fh].path)
    BY <2>2 DEF Tidy, HandlesThere
  <2> QED BY <1>12, <2>2, <2>3 DEF FileAt
<1>16. InOrder(tree', disturbed', DeletedPaths') /\ Listings(tree', disturbed', FileNames', DOMAIN symlinks')
  BY <1>2, <1>6, <1>11, <1>10 DEF S
<1>17. disturbed' \subseteq Paths
  BY <1>2, <1>7
<1> QED BY <1>10, <1>13, <1>14, <1>15, <1>16, <1>17 DEF Tidy

\* The invariant when only the tree and the symlinks change.
LEMMA TidyTree ==
  ASSUME Tidy, UNCHANGED <<openFiles, store, acked, disturbed>>,
         InOrder(tree', disturbed, DeletedPaths),
         Listings(tree', disturbed, FileNames, DOMAIN symlinks'),
         \A q : FileAt(q) => q \in DOMAIN tree'.inodes /\ tree'.inodes[q] \notin DOMAIN tree'.dirs
  PROVE  Tidy'
<1>1. DeletedPaths' = DeletedPaths /\ FileNames' = FileNames
  BY DEF DeletedPaths, FileNames
<1>2. InOrder(tree', disturbed', DeletedPaths') /\ Listings(tree', disturbed', FileNames', DOMAIN symlinks')
  BY <1>1
<1>3. AckedThere'
  <2> SUFFICES ASSUME NEW q \in DOMAIN acked', ~Crossed(disturbed', q)
               PROVE  (Live(q) /\ store[q].data = acked[q] /\ FileAt(q))'
    BY DEF AckedThere
  <2>1. Live(q) /\ store[q].data = acked[q] /\ FileAt(q)
    BY DEF Tidy, AckedThere
  <2>2. FileAt(q)'
    BY <2>1 DEF FileAt
  <2> QED BY <2>1, <2>2 DEF Live
<1>4. LiveAcked'
  BY DEF Tidy, LiveAcked
<1>5. HandlesThere'
  <2> SUFFICES ASSUME NEW fh \in DOMAIN openFiles', ~Crossed(disturbed', openFiles'[fh].path),
                      openFiles'[fh].path \notin DOMAIN store'
               PROVE  FileAt(openFiles[fh].path)'
    BY DEF HandlesThere
  <2>1. FileAt(openFiles[fh].path)
    BY DEF Tidy, HandlesThere
  <2> QED BY <2>1 DEF FileAt
<1> QED BY <1>2, <1>3, <1>4, <1>5 DEF Tidy

\* unlink
LEMMA UnlinkTidy ==
  ASSUME Agreement, Versions, Tidy, NEW parent \in Held, NEW name \in Names, Unlink(parent, name)
  PROVE  Tidy'
<1> DEFINE S == DOMAIN symlinks
<1>1. PICK p : p = Append(tree.paths[parent], name)
  OBVIOUS
<1>2. /\ Lookup(parent, name) # 0 /\ Kind(Lookup(parent, name)) = "file" /\ Live(p)
      /\ store' = Deleted(p) /\ tree' = DropEntry(tree, parent, name) /\ acked' = Without(acked, p)
      /\ UNCHANGED <<symlinks, openFiles, disturbed>>
  BY <1>1 DEF Unlink
<1>3. TreeOK(tree) /\ tree = Tree(tree.paths, tree.inodes, tree.dirs, tree.parents, tree.next)
  BY DEF Agreement, TreeOK
<1>4. p \in Paths /\ parent \in DOMAIN tree.dirs \cap DOMAIN tree.paths
  BY <1>1, <1>3, HeldPath
<1>5. p \in DOMAIN tree.inodes /\ tree.inodes[p] = Lookup(parent, name)
  BY <1>1, <1>2, <1>3, LookupOK
<1>6. tree.inodes[p] \notin DOMAIN tree.dirs
  BY <1>2, <1>5 DEF Kind, Attr
<1>7. /\ DOMAIN store' = DOMAIN store /\ store'[p].deleted
      /\ \A q \in DOMAIN store : q # p => store'[q] = store[q]
      /\ DeletedPaths' = DeletedPaths \cup {p}
  BY <1>2, DeletedStore DEF Versions
<1>8. /\ tree'.paths = tree.paths /\ tree'.inodes = tree.inodes /\ tree'.parents = tree.parents
      /\ DOMAIN tree'.dirs = DOMAIN tree.dirs /\ Drops(tree, tree', parent, name)
  BY <1>2, <1>3, DroppedDirs
<1>9. /\ DOMAIN acked' = DOMAIN acked \ {p} /\ \A q \in DOMAIN acked' : acked'[q] = acked[q]
  BY <1>2 DEF Without
<1>10. /\ DOMAIN acked' \subseteq Seq(Names) /\ \A q \in FileNames : q # p => q \in FileNames'
       /\ DeletedPaths \subseteq DeletedPaths' /\ p \in DeletedPaths'
  BY <1>7, <1>9 DEF Tidy, FileNames
<1>11. /\ disturbed \subseteq Paths
       /\ InOrder(tree, disturbed, DeletedPaths) /\ Listings(tree, disturbed, FileNames, S)
  BY DEF Tidy
<1> HIDE DEF S
<1>12. InOrder(tree', disturbed, DeletedPaths') /\ Listings(tree', disturbed, FileNames', S)
  <2>1. Unlinked(tree, tree', parent, name, p)
    BY <1>1, <1>3, <1>4, <1>5, <1>6, <1>8 DEF Unlinked
  <2> QED BY <1>10, <1>11, <2>1, UnlinkedOrder
<1>13. \A q : FileAt(q)' <=> FileAt(q)
  BY <1>8 DEF FileAt
<1>14. AckedThere'
  BY <1>2, <1>7, <1>9, <1>13 DEF Tidy, AckedThere, Live
<1>15. LiveAcked'
  BY <1>2, <1>7, <1>9 DEF Tidy, LiveAcked
<1>16. HandlesThere'
  BY <1>2, <1>7, <1>13 DEF Tidy, HandlesThere
<1>17. InOrder(tree', disturbed', DeletedPaths') /\ Listings(tree', disturbed', FileNames', DOMAIN symlinks')
  BY <1>2, <1>12 DEF S
<1>18. disturbed' \subseteq Paths
  BY <1>2, <1>11
<1> QED BY <1>10, <1>14, <1>15, <1>16, <1>17, <1>18 DEF Tidy

\* symlink
LEMMA SymlinkTidy ==
  ASSUME Agreement, Tidy, NEW parent \in Held, NEW name \in Names, NEW target, Symlink(parent, name, target)
  PROVE  Tidy'
<1> DEFINE S == DOMAIN symlinks'
<1>1. PICK p : p = Append(tree.paths[parent], name)
  OBVIOUS
<1>2. PICK u, e : u = Allocate(tree, p) /\ e = Entry(tree.next, name, "symlink")
  OBVIOUS
<1>3. /\ tree' = AddEntry(u, parent, e) /\ symlinks' = With(symlinks, tree.next, target)
      /\ UNCHANGED <<openFiles, store, acked, disturbed>> /\ Lookup(parent, name) = 0
  BY <1>1, <1>2 DEF Symlink
<1>4. e.ino = tree.next /\ e.name = name /\ e.kind = "symlink"
  BY <1>2 DEF Entry
<1>5. /\ u = Tree(u.paths, u.inodes, u.dirs, u.parents, u.next)
      /\ u.paths = With(tree.paths, tree.next, p) /\ u.inodes = With(tree.inodes, p, tree.next)
      /\ u.dirs = tree.dirs /\ u.parents = tree.parents
  BY <1>2 DEF Allocate, Tree
<1>6. TreeOK(tree)
  BY DEF Agreement
<1>7. p \notin DOMAIN tree.inodes /\ p \in Paths /\ parent \in DOMAIN tree.dirs \cap DOMAIN tree.paths
  BY <1>1, <1>3, <1>6, LookupFails, HeldPath
<1>8. /\ tree'.paths = u.paths /\ tree'.inodes = u.inodes /\ tree'.parents = tree.parents
      /\ DOMAIN tree'.dirs = DOMAIN tree.dirs
      /\ \A d \in DOMAIN tree.dirs : tree'.dirs[d] = IF d = parent THEN tree.dirs[d] \cup {e} ELSE tree.dirs[d]
  BY <1>3, <1>5, AddedDirs
<1>9. tree.next \notin DOMAIN tree.dirs
  BY <1>6 DEF TreeOK, Given
<1>10. DOMAIN symlinks \subseteq S
  BY <1>3 DEF With
<1> HIDE DEF S
<1>11. disturbed \subseteq Paths /\ InOrder(tree, disturbed, DeletedPaths)
       /\ Listings(tree, disturbed, FileNames, S)
  BY <1>10, ListingsMore DEF Tidy
<1>12. /\ DOMAIN tree.dirs \subseteq DOMAIN tree'.dirs /\ DOMAIN tree'.dirs \subseteq DOMAIN tree.dirs \cup {tree.next}
       /\ tree.next \notin DOMAIN tree'.dirs /\ e.kind # "file" /\ e.kind # "dir"
       /\ tree'.paths = With(tree.paths, tree.next, p) /\ tree'.inodes = With(tree.inodes, p, tree.next)
       /\ \A i \in DOMAIN tree.parents : i \in DOMAIN tree'.parents /\ tree'.parents[i] = tree.parents[i]
  BY <1>4, <1>5, <1>8, <1>9
<1>13. InOrder(tree', disturbed, DeletedPaths) /\ Listings(tree', disturbed, FileNames, S)
  <2>1. Added(tree, tree', parent, name, p, e)
    BY <1>1, <1>4, <1>6, <1>7, <1>8, <1>12 DEF Added
  <2> QED BY <1>11, <2>1, NewChild
<1>14. ASSUME NEW q, FileAt(q) PROVE q \in DOMAIN tree'.inodes /\ tree'.inodes[q] \notin DOMAIN tree'.dirs
  BY <1>5, <1>7, <1>8, <1>14 DEF FileAt, With
<1> QED BY <1>3, <1>13, <1>14, TidyTree DEF S

\* mkdir
LEMMA MkDirTidy ==
  ASSUME Agreement, Tidy, NEW parent \in Held, NEW name \in Names, MkDir(parent, name)
  PROVE  Tidy'
<1> DEFINE S == DOMAIN symlinks
<1>1. PICK p : p = Append(tree.paths[parent], name)
  OBVIOUS
<1>2. PICK t, e : t = Allocate(tree, p) /\ e = Entry(tree.next, name, "dir")
  OBVIOUS
<1>3. PICK u : u = Tree(t.paths, t.inodes, With(t.dirs, tree.next, {}),
                        With(t.parents, tree.next, parent), t.next)
  OBVIOUS
<1>4. /\ tree' = AddEntry(u, parent, e) /\ Lookup(parent, name) = 0
      /\ UNCHANGED <<symlinks, openFiles, store, acked, disturbed>>
  BY <1>1, <1>2, <1>3 DEF MkDir
<1>5. e.ino = tree.next /\ e.name = name /\ e.kind = "dir"
  BY <1>2 DEF Entry
<1>6. /\ u = Tree(u.paths, u.inodes, u.dirs, u.parents, u.next)
      /\ u.paths = With(tree.paths, tree.next, p) /\ u.inodes = With(tree.inodes, p, tree.next)
      /\ u.dirs = With(tree.dirs, tree.next, {}) /\ u.parents = With(tree.parents, tree.next, parent)
  <2>1. /\ t.paths = With(tree.paths, tree.next, p) /\ t.inodes = With(tree.inodes, p, tree.next)
        /\ t.dirs = tree.dirs /\ t.parents = tree.parents
    BY <1>2 DEF Allocate, Tree
  <2> QED BY <1>3, <2>1 DEF Tree
<1>7. TreeOK(tree)
  BY DEF Agreement
<1>8. p \notin DOMAIN tree.inodes /\ p \in Paths /\ parent \in DOMAIN tree.dirs \cap DOMAIN tree.paths
  BY <1>1, <1>4, <1>7, LookupFails, HeldPath
<1>9. tree.next \notin DOMAIN tree.dirs /\ tree.next \notin DOMAIN tree.paths
  BY <1>7 DEF TreeOK, Given
<1>10. /\ tree'.paths = u.paths /\ tree'.inodes = u.inodes /\ tree'.parents = u.parents
       /\ DOMAIN tree'.dirs = DOMAIN u.dirs
       /\ \A d \in DOMAIN u.dirs : tree'.dirs[d] = IF d = parent THEN u.dirs[d] \cup {e} ELSE u.dirs[d]
  BY <1>4, <1>6, AddedDirs
<1>11. /\ DOMAIN tree'.dirs = DOMAIN tree.dirs \cup {tree.next} /\ tree'.dirs[tree.next] = {}
       /\ \A d \in DOMAIN tree.dirs : tree'.dirs[d] = IF d = parent THEN tree.dirs[d] \cup {e} ELSE tree.dirs[d]
  BY <1>6, <1>8, <1>9, <1>10 DEF With
<1>12. /\ tree.next \in DOMAIN tree'.parents /\ tree'.parents[tree.next] = parent
       /\ \A i \in DOMAIN tree.parents : i # tree.next => i \in DOMAIN tree'.parents /\ tree'.parents[i] = tree.parents[i]
  BY <1>6, <1>10 DEF With
<1>13. /\ disturbed \subseteq Paths
       /\ InOrder(tree, disturbed, DeletedPaths) /\ Listings(tree, disturbed, FileNames, S)
  BY DEF Tidy
<1> HIDE DEF S
<1>14. /\ DOMAIN tree.dirs \subseteq DOMAIN tree'.dirs /\ DOMAIN tree'.dirs \subseteq DOMAIN tree.dirs \cup {tree.next}
       /\ tree.next \in DOMAIN tree'.dirs /\ e.kind # "file"
       /\ tree'.paths = With(tree.paths, tree.next, p) /\ tree'.inodes = With(tree.inodes, p, tree.next)
  BY <1>5, <1>6, <1>10, <1>11
<1>15. InOrder(tree', disturbed, DeletedPaths) /\ Listings(tree', disturbed, FileNames, S)
  <2>1. Added(tree, tree', parent, name, p, e)
    BY <1>1, <1>5, <1>7, <1>8, <1>11, <1>12, <1>14 DEF Added
  <2> QED BY <1>13, <2>1, NewChild
<1>16. ASSUME NEW q, FileAt(q) PROVE q \in DOMAIN tree'.inodes /\ tree'.inodes[q] \notin DOMAIN tree'.dirs
  <2>1. q \in DOMAIN tree.inodes /\ tree.inodes[q] \notin DOMAIN tree.dirs /\ tree.inodes[q] # tree.next
    BY <1>7, <1>9, <1>16 DEF FileAt, TreeOK
  <2>2. q \in DOMAIN tree'.inodes /\ tree'.inodes[q] = tree.inodes[q]
    BY <1>8, <1>14, <2>1 DEF With
  <2> QED BY <1>11, <2>1, <2>2
<1> QED BY <1>4, <1>15, <1>16, TidyTree DEF S

\* rmdir
LEMMA RmDirTidy ==
  ASSUME Agreement, Tidy, NEW parent \in Held, NEW name \in Names, RmDir(parent, name)
  PROVE  Tidy'
<1> DEFINE S == DOMAIN symlinks
<1>1. PICK p, ino : p = Append(tree.paths[parent], name) /\ ino = Lookup(parent, name)
  OBVIOUS
<1>2. PICK u : u = Tree(Without(tree.paths, ino), Without(tree.inodes, p),
                        Without(tree.dirs, ino), Without(tree.parents, ino), tree.next)
  OBVIOUS
<1>3. /\ tree' = DropEntry(u, parent, name) /\ ino \in DOMAIN tree.dirs /\ tree.dirs[ino] = {}
      /\ UNCHANGED <<symlinks, openFiles, store, acked, disturbed>>
  BY <1>1, <1>2 DEF RmDir
<1>4. TreeOK(tree) /\ ino # 0
  BY <1>3 DEF Agreement, TreeOK, Given
<1>5. /\ p \in DOMAIN tree.inodes /\ tree.inodes[p] = ino
      /\ p \in Paths /\ parent \in DOMAIN tree.dirs \cap DOMAIN tree.paths
  BY <1>1, <1>4, LookupOK, HeldPath
<1>6. /\ u = Tree(u.paths, u.inodes, u.dirs, u.parents, u.next)
      /\ u.paths = Without(tree.paths, ino) /\ u.inodes = Without(tree.inodes, p)
      /\ u.dirs = Without(tree.dirs, ino) /\ u.parents = Without(tree.parents, ino)
  BY <1>2 DEF Tree
<1>7. /\ tree'.paths = u.paths /\ tree'.inodes = u.inodes /\ tree'.parents = u.parents
      /\ DOMAIN tree'.dirs = DOMAIN u.dirs /\ Drops(u, tree', parent, name)
  BY <1>3, <1>6, DroppedDirs
<1>8. DOMAIN u.dirs = DOMAIN tree.dirs \ {ino} /\ \A d \in DOMAIN u.dirs : u.dirs[d] = tree.dirs[d]
  BY <1>6 DEF Without
<1>9. Drops(tree, tree', parent, name)
  BY <1>7, <1>8 DEF Drops
<1>10. /\ tree'.paths = Without(tree.paths, ino) /\ tree'.inodes = Without(tree.inodes, p)
       /\ tree'.parents = Without(tree.parents, ino) /\ DOMAIN tree'.dirs = DOMAIN tree.dirs \ {ino}
  BY <1>6, <1>7, <1>8
<1>11. /\ disturbed \subseteq Paths
       /\ InOrder(tree, disturbed, DeletedPaths) /\ Listings(tree, disturbed, FileNames, S)
  BY DEF Tidy
<1> HIDE DEF S
<1>12. InOrder(tree', disturbed, DeletedPaths) /\ Listings(tree', disturbed, FileNames, S)
  <2>1. Removed(tree, tree', parent, name, p, ino)
    BY <1>1, <1>3, <1>4, <1>5, <1>9, <1>10 DEF Removed
  <2> QED BY <1>11, <2>1, RemovedOrder
<1>13. ASSUME NEW q, FileAt(q) PROVE q \in DOMAIN tree'.inodes /\ tree'.inodes[q] \notin DOMAIN tree'.dirs
  BY <1>3, <1>5, <1>10, <1>13 DEF FileAt, Without
<1> QED BY <1>3, <1>12, <1>13, TidyTree DEF S
-----------------------------------------------------------------------------
(* rename *)

\* What the programs expect elsewhere than below the two paths of a rename
\* does not change, and everything that moves is below the new path.
LEMMA RenamedAcked ==
  ASSUME DOMAIN acked \subseteq Seq(Names), NEW old \in Paths, NEW new \in NonRoot, acked' = Renamed(old, new)
  PROVE  /\ DOMAIN acked' \subseteq Seq(Names)
         /\ \A q \in DOMAIN acked : ~IsBelow(old, q) /\ ~IsBelow(new, q) =>
              q \in DOMAIN acked' /\ acked'[q] = acked[q]
         /\ \A q \in DOMAIN acked' :
              IsBelow(new, q) \/ (q \in DOMAIN acked /\ ~IsBelow(old, q) /\ ~IsBelow(new, q))
         /\ (\A q \in DOMAIN acked : q = old \/ ~IsBelow(old, q)) =>
              /\ old \in DOMAIN acked => new \in DOMAIN acked' /\ acked'[new] = acked[old]
              /\ \A q \in DOMAIN acked' :
                   \/ q = new /\ old \in DOMAIN acked
                   \/ q \in DOMAIN acked /\ ~IsBelow(old, q) /\ ~IsBelow(new, q)
<1> DEFINE stay == {p \in DOMAIN acked : ~IsBelow(old, p) /\ ~IsBelow(new, p)}
           moved == {p \in DOMAIN acked : IsBelow(old, p)}
           To(p) == new \o SubSeq(p, Len(old) + 1, Len(p))
           from(q) == CHOOSE p \in moved : To(p) = q
<1>1. acked' = [q \in stay \cup {To(p) : p \in moved} |-> IF q \in stay THEN acked[q] ELSE acked[from(q)]]
  BY DEF Renamed
<1>2. /\ Len(old) \in Nat /\ Len(new) \in Nat \ {0} /\ new \in Paths /\ old \in Seq(Names) /\ new \in Seq(Names)
  BY PathIsSeq, PathLen, NonRootLen DEF NonRoot
<1>3. ASSUME NEW p \in moved PROVE To(p) \in Seq(Names) /\ IsBelow(new, To(p))
  <2> DEFINE s == SubSeq(p, Len(old) + 1, Len(p))
  <2>1. p \in Seq(Names) /\ Len(p) \in Nat /\ \A i \in 1..Len(p) : p[i] \in Names
    BY LenProperties
  <2>2. \A i \in (Len(old) + 1)..Len(p) : i \in 1..Len(p)
    BY <1>2, <2>1
  <2>3. s \in Seq(Names)
    <3>1. \A i \in (Len(old) + 1)..Len(p) : p[i] \in Names
      BY <2>1, <2>2
    <3>2. Len(old) + 1 \in Int /\ Len(p) \in Int
      BY <1>2, <2>1
    <3> QED BY <3>1, <3>2, SubSeqProperties
  <2> HIDE DEF s
  <2>4. new \o s \in Seq(Names) /\ Len(new \o s) = Len(new) + Len(s) /\ Len(s) \in Nat
    BY <1>2, <2>3, ConcatProperties, LenProperties
  <2>5. SubSeq(new \o s, 1, Len(new)) = new
    <3>1. 1 \in 1..Len(new) /\ Len(new) \in 1..Len(new)
      BY <1>2
    <3>2. SubSeq(new \o s, 1, Len(new)) = SubSeq(new, 1, Len(new))
      BY <1>2, <2>3, <3>1, SubSeqOfConcat1
    <3> QED BY <1>2, <3>2, SubSeqFull
  <2>6. Len(new \o s) >= Len(new)
    BY <1>2, <2>4
  <2> QED BY <2>4, <2>5, <2>6 DEF IsBelow, s
<1> HIDE DEF To, from
<1>4. /\ \A q \in stay : q \in DOMAIN acked' /\ acked'[q] = acked[q]
      /\ \A q \in DOMAIN acked' : q \in stay \/ \E p \in moved : q = To(p)
  BY <1>1
<1>5. \A q \in DOMAIN acked' : q \in Seq(Names) /\ (q \in stay \/ IsBelow(new, q))
  BY <1>3, <1>4
<1>6. ASSUME \A q \in DOMAIN acked : q = old \/ ~IsBelow(old, q)
      PROVE  /\ old \in DOMAIN acked => new \in DOMAIN acked' /\ acked'[new] = acked[old]
             /\ \A q \in DOMAIN acked' : (q = new /\ old \in DOMAIN acked) \/ q \in stay
  <2>1. \A p \in moved : p = old
    BY <1>6
  <2>2. To(old) = new
    <3>1. SubSeq(old, Len(old) + 1, Len(old)) = <<>>
      <4>1. Len(old) + 1 \in Int /\ Len(old) \in Int /\ Len(old) < Len(old) + 1
        BY <1>2
      <4> QED BY <4>1, SubSeqEmpty
    <3> QED BY <1>2, <3>1, ConcatEmptySeq DEF To
  <2>3. \A q \in DOMAIN acked' : (q = new /\ old \in DOMAIN acked) \/ q \in stay
    BY <1>4, <2>1, <2>2
  <2>4. ASSUME old \in DOMAIN acked PROVE new \in DOMAIN acked' /\ acked'[new] = acked[old]
    <3>1. old \in moved /\ new \notin stay
      BY <1>2, <2>4, BelowRefl
    <3>2. from(new) = old
      BY <2>1, <2>2, <3>1 DEF from
    <3> HIDE DEF stay, moved
    <3> QED BY <1>1, <2>2, <3>1, <3>2
  <2> QED BY <2>3, <2>4
<1> QED BY <1>4, <1>5, <1>6

\* What a listing gains.
Gains(t, x, d, e) ==
  \A z \in DOMAIN t.dirs : x.dirs[z] = IF z = d THEN t.dirs[z] \cup {e} ELSE t.dirs[z]

\* An entry taken out of a listing and another one put there.
LEMMA PutOver ==
  ASSUME NEW u, NEW d, NEW name, NEW e, NEW v, NEW x,
         u = Tree(u.paths, u.inodes, u.dirs, u.parents, u.next),
         v = DropEntry(u, d, name), x = AddEntry(v, d, e)
  PROVE  /\ x.paths = u.paths /\ x.inodes = u.inodes /\ x.parents = u.parents
         /\ DOMAIN v.dirs = DOMAIN u.dirs /\ DOMAIN x.dirs = DOMAIN u.dirs
         /\ Drops(u, v, d, name) /\ Gains(v, x, d, e)
<1>1. /\ v = Tree(u.paths, u.inodes, v.dirs, u.parents, u.next)
      /\ v.paths = u.paths /\ v.inodes = u.inodes /\ v.parents = u.parents /\ v.next = u.next
      /\ DOMAIN v.dirs = DOMAIN u.dirs /\ Drops(u, v, d, name)
  BY DroppedDirs
<1>2. v = Tree(v.paths, v.inodes, v.dirs, v.parents, v.next)
  BY <1>1
<1>3. /\ x.paths = v.paths /\ x.inodes = v.inodes /\ x.parents = v.parents
      /\ DOMAIN x.dirs = DOMAIN v.dirs
      /\ \A z \in DOMAIN v.dirs : x.dirs[z] = IF z = d THEN v.dirs[z] \cup {e} ELSE v.dirs[z]
  BY <1>2, AddedDirs
<1> QED BY <1>1, <1>3 DEF Gains

\* The tree after a rename.
LEMMA MovedTree ==
  ASSUME TreeOK(tree), NEW parent \in Held, NEW name \in Names, NEW newparent \in Held,
         NEW newname \in Names, NEW ino, NEW old, NEW new, NEW e, NEW x,
         ino = Lookup(parent, name), ino # 0,
         old = Append(tree.paths[parent], name), new = Append(tree.paths[newparent], newname), old # new,
         e = Entry(ino, newname, IF ino \in DOMAIN tree.dirs THEN "dir" ELSE "file"),
         x = Moved(ino, parent, name, newparent, newname)
  PROVE  RenamedTree(tree, x, parent, name, newparent, newname, ino, old, new, e)
<1>1. /\ old \in DOMAIN tree.inodes /\ tree.inodes[old] = ino /\ ino \in DOMAIN tree.paths
      /\ old \in Paths /\ new \in Paths
      /\ parent \in DOMAIN tree.dirs /\ parent \in DOMAIN tree.paths
      /\ newparent \in DOMAIN tree.dirs /\ newparent \in DOMAIN tree.paths
  BY LookupOK, HeldPath
<1>2. tree = Tree(tree.paths, tree.inodes, tree.dirs, tree.parents, tree.next)
  BY DEF TreeOK
<1>3. PICK t : t = DropEntry(tree, parent, name)
  OBVIOUS
<1>4. PICK u : u = Tree(With(t.paths, ino, new), With(Without(t.inodes, old), new, ino),
                        t.dirs, With(t.parents, ino, newparent), t.next)
  OBVIOUS
<1>5. PICK v : v = DropEntry(u, newparent, newname)
  OBVIOUS
<1>6. x = AddEntry(v, newparent, e)
  BY <1>3, <1>4, <1>5 DEF Moved
<1>7. /\ t.paths = tree.paths /\ t.inodes = tree.inodes /\ t.parents = tree.parents
      /\ DOMAIN t.dirs = DOMAIN tree.dirs /\ Drops(tree, t, parent, name)
  BY <1>2, <1>3, DroppedDirs
<1>8. /\ u = Tree(u.paths, u.inodes, u.dirs, u.parents, u.next) /\ u.dirs = t.dirs
      /\ u.paths = With(tree.paths, ino, new)
      /\ u.inodes = With(Without(tree.inodes, old), new, ino)
      /\ u.parents = With(tree.parents, ino, newparent)
  BY <1>4, <1>7 DEF Tree
<1>9. /\ x.paths = u.paths /\ x.inodes = u.inodes /\ x.parents = u.parents
      /\ DOMAIN v.dirs = DOMAIN u.dirs /\ DOMAIN x.dirs = DOMAIN u.dirs
      /\ Drops(u, v, newparent, newname) /\ Gains(v, x, newparent, e)
  BY <1>5, <1>6, <1>8, PutOver
<1>10. TakesPath(tree, x, ino, old, new, newparent)
  <2>1. x.paths = With(tree.paths, ino, new) /\ x.parents = With(tree.parents, ino, newparent)
        /\ x.inodes = With(Without(tree.inodes, old), new, ino)
    BY <1>8, <1>9
  <2>2. /\ DOMAIN x.paths = DOMAIN tree.paths /\ x.paths[ino] = new
        /\ \A i \in DOMAIN tree.paths : i # ino => x.paths[i] = tree.paths[i]
    BY <1>1, <2>1 DEF With
  <2>3. /\ DOMAIN x.inodes = (DOMAIN tree.inodes \ {old}) \cup {new} /\ x.inodes[new] = ino
        /\ \A q \in DOMAIN x.inodes : q # new => x.inodes[q] = tree.inodes[q]
    BY <2>1 DEF With, Without
  <2>4. /\ DOMAIN x.parents = DOMAIN tree.parents \cup {ino} /\ x.parents[ino] = newparent
        /\ \A i \in DOMAIN tree.parents : i # ino => x.parents[i] = tree.parents[i]
    BY <2>1 DEF With
  <2> QED BY <2>2, <2>3, <2>4 DEF TakesPath
<1>11. TakesEntry(tree, x, parent, name, newparent, newname, e)
  <2>1. DOMAIN x.dirs = DOMAIN tree.dirs /\ DOMAIN v.dirs = DOMAIN tree.dirs /\ DOMAIN t.dirs = DOMAIN tree.dirs
    BY <1>7, <1>8, <1>9
  <2>2. \A d \in DOMAIN tree.dirs :
          /\ \A f \in v.dirs[d] : f \in tree.dirs[d] /\ (d = parent => f.name # name)
                                                     /\ (d = newparent => f.name # newname)
          /\ \A f \in tree.dirs[d] : f \in v.dirs[d] \/ (d = parent /\ f.name = name)
                                                     \/ (d = newparent /\ f.name = newname)
    BY <1>7, <1>8, <1>9, <2>1 DEF Drops
  <2>3. \A d \in DOMAIN tree.dirs :
          /\ v.dirs[d] \subseteq x.dirs[d]
          /\ \A f \in x.dirs[d] : f \in v.dirs[d] \/ (d = newparent /\ f = e)
    BY <1>9, <2>1 DEF Gains
  <2>4. e \in x.dirs[newparent]
    BY <1>1, <1>9, <2>1 DEF Gains
  <2> QED BY <2>1, <2>2, <2>3, <2>4 DEF TakesEntry
<1>12. e.ino = ino /\ e.name = newname
  BY DEF Entry
<1> QED BY <1>1, <1>10, <1>11, <1>12 DEF RenamedTree

\* The store has changed at the two paths only, and has lost neither.
StoreElsewhere(old, new) ==
  /\ DOMAIN store \subseteq DOMAIN store'
  /\ \A q : q # old /\ q # new => (q \in DOMAIN store' <=> q \in DOMAIN store)
  /\ \A q \in DOMAIN store : q # old /\ q # new => store'[q] = store[q]

\* As after a rename.
LEMMA RenamedStore ==
  ASSUME StoreOK, NEW old, NEW new, old # new,
         (Live(old) /\ store' = Copied(old, new)) \/ store' = store
  PROVE  StoreElsewhere(old, new)
<1>1. CASE Live(old) /\ store' = Copied(old, new)
  BY <1>1, CopiedStore DEF StoreElsewhere
<1>2. CASE store' = store
  BY <1>2 DEF StoreElsewhere
<1> QED BY <1>1, <1>2

\* A rename that is not carried through: the two paths are lost.
LEMMA RenameOver ==
  ASSUME StoreOK, Tidy, NEW parent, NEW name, NEW newparent, NEW newname,
         NEW ino, NEW old, NEW new, NEW e,
         RenamedTree(tree, tree', parent, name, newparent, newname, ino, old, new, e),
         store' = IF ino \notin DOMAIN tree.dirs /\ Live(old) THEN Copied(old, new) ELSE store,
         acked' = Renamed(old, new), disturbed' = disturbed \cup {old, new},
         UNCHANGED <<symlinks, openFiles>>
  PROVE  Tidy'
<1> DEFINE S == DOMAIN symlinks
<1>1. /\ old \in NonRoot /\ new \in NonRoot /\ old \in Paths /\ new \in Paths /\ old # new
      /\ DOMAIN tree'.inodes = (DOMAIN tree.inodes \ {old}) \cup {new}
      /\ \A q \in DOMAIN tree'.inodes : q # new => tree'.inodes[q] = tree.inodes[q]
      /\ DOMAIN tree'.dirs = DOMAIN tree.dirs
  <2>1. old \in NonRoot /\ new \in NonRoot
    BY RenamedPaths
  <2> QED BY <2>1 DEF RenamedTree, TakesPath, TakesEntry
<1>2. /\ DOMAIN store \subseteq DOMAIN store'
      /\ \A q : q # old /\ q # new => (q \in DOMAIN store' <=> q \in DOMAIN store)
      /\ \A q \in DOMAIN store : q # old /\ q # new => store'[q] = store[q]
  <2>1. old # new
    BY <1>1
  <2>2. (Live(old) /\ store' = Copied(old, new)) \/ store' = store
    OBVIOUS
  <2>3. StoreElsewhere(old, new)
    BY <2>1, <2>2, RenamedStore
  <2> QED BY <2>3 DEF StoreElsewhere
<1>3. /\ DOMAIN acked' \subseteq Seq(Names)
      /\ \A q \in DOMAIN acked : ~IsBelow(old, q) /\ ~IsBelow(new, q) =>
           q \in DOMAIN acked' /\ acked'[q] = acked[q]
      /\ \A q \in DOMAIN acked' :
           IsBelow(new, q) \/ (q \in DOMAIN acked /\ ~IsBelow(old, q) /\ ~IsBelow(new, q))
  BY <1>1, RenamedAcked DEF Tidy
<1>4. \A q : q \notin {old, new} /\ q \notin DeletedPaths' => q \notin DeletedPaths
  BY <1>2 DEF DeletedPaths
<1>5. /\ disturbed' \subseteq Paths /\ disturbed \subseteq disturbed' /\ {old, new} \subseteq disturbed'
      /\ InOrder(tree, disturbed, DeletedPaths) /\ Listings(tree, disturbed, FileNames, S)
  BY <1>1 DEF Tidy
<1>6. \A q : ~Lost(disturbed', q) => ~IsBelow(old, q) /\ ~IsBelow(new, q)
  BY <1>5 DEF Lost
<1>7. \A q \in FileNames : ~Lost(disturbed', q) => q \in FileNames'
  BY <1>3, <1>6 DEF FileNames
<1> HIDE DEF S
<1>8. InOrder(tree', disturbed', DeletedPaths') /\ Listings(tree', disturbed', FileNames', S)
  BY <1>4, <1>5, <1>7, RenamedLost
<1>9. \A q : ~Crossed(disturbed', q) =>
        ~Crossed(disturbed, q) /\ ~IsBelow(old, q) /\ ~IsBelow(new, q) /\ q # old /\ q # new
  <2>1. IsBelow(old, old) /\ IsBelow(new, new)
    BY <1>1, BelowRefl
  <2> QED BY <1>5, <2>1 DEF Crossed
<1>10. \A q : FileAt(q) /\ q # old /\ q # new => FileAt(q)'
  BY <1>1 DEF FileAt
<1>11. AckedThere'
  <2> SUFFICES ASSUME NEW q \in DOMAIN acked', ~Crossed(disturbed', q)
               PROVE  (Live(q) /\ store[q].data = acked[q] /\ FileAt(q))'
    BY DEF AckedThere
  <2>1. /\ ~Crossed(disturbed, q) /\ q # old /\ q # new
        /\ q \in DOMAIN acked /\ acked'[q] = acked[q]
    BY <1>3, <1>9
  <2>2. Live(q) /\ store[q].data = acked[q] /\ FileAt(q)
    BY <2>1 DEF Tidy, AckedThere
  <2>3. FileAt(q)'
    BY <1>10, <2>1, <2>2
  <2> QED BY <1>2, <2>1, <2>2, <2>3 DEF Live
<1>12. LiveAcked'
  BY <1>2, <1>3, <1>9 DEF Tidy, LiveAcked
<1>13. HandlesThere'
  <2> SUFFICES ASSUME NEW fh \in DOMAIN openFiles', ~Crossed(disturbed', openFiles'[fh].path),
                      openFiles'[fh].path \notin DOMAIN store'
               PROVE  FileAt(openFiles[fh].path)'
    BY DEF HandlesThere
  <2>1. PICK q : q = openFiles[fh].path
    OBVIOUS
  <2>2. ~Crossed(disturbed, q) /\ q # old /\ q # new /\ q \notin DOMAIN store
    BY <1>2, <1>9, <2>1
  <2>3. FileAt(q)
    BY <2>1, <2>2 DEF Tidy, HandlesThere
  <2>4. FileAt(q)'
    BY <1>10, <2>2, <2>3
  <2> QED BY <2>1, <2>4
<1> QED BY <1>3, <1>5, <1>8, <1>11, <1>12, <1>13 DEF Tidy, S

\* A rename that is carried through: the file or the empty directory has the
\* new path, and the old one is free.
LEMMA RenameThrough ==
  ASSUME StoreOK, Tidy, NEW parent, NEW name, NEW newparent, NEW newname,
         NEW ino, NEW old, NEW new, NEW e,
         RenamedTree(tree, tree', parent, name, newparent, newname, ino, old, new, e),
         e.kind = "dir" => ino \in DOMAIN tree.dirs, e.kind = "file" => ino \notin DOMAIN tree.dirs,
         ~IsBelow(old, new), ~GoesOver(ino, old, new), ~Crossed(disturbed, old),
         store' = IF ino \notin DOMAIN tree.dirs /\ Live(old) THEN Copied(old, new) ELSE store,
         acked' = Renamed(old, new), UNCHANGED <<disturbed, symlinks, openFiles>>
  PROVE  Tidy'
<1> DEFINE S == DOMAIN symlinks
<1>1. /\ old \in NonRoot /\ new \in NonRoot /\ old \in Paths /\ new \in Paths /\ old # new
      /\ TreeOK(tree) /\ old \in DOMAIN tree.inodes /\ ino = tree.inodes[old]
      /\ DOMAIN tree'.inodes = (DOMAIN tree.inodes \ {old}) \cup {new} /\ tree'.inodes[new] = ino
      /\ \A q \in DOMAIN tree'.inodes : q # new => tree'.inodes[q] = tree.inodes[q]
      /\ DOMAIN tree'.dirs = DOMAIN tree.dirs
  <2>1. old \in NonRoot /\ new \in NonRoot
    BY RenamedPaths
  <2> QED BY <2>1 DEF RenamedTree, TakesPath, TakesEntry
<1>2. /\ new \notin DOMAIN store /\ new \notin DOMAIN tree.inodes
      /\ ino \in DOMAIN tree.dirs => tree.dirs[ino] = {}
      /\ ino \notin DOMAIN tree.dirs => Live(old)
      /\ \A q \in DOMAIN acked : q = old \/ ~IsBelow(old, q)
  BY DEF GoesOver
<1>3. /\ DOMAIN acked' \subseteq Seq(Names)
      /\ \A q \in DOMAIN acked : ~IsBelow(old, q) /\ ~IsBelow(new, q) =>
           q \in DOMAIN acked' /\ acked'[q] = acked[q]
      /\ old \in DOMAIN acked => new \in DOMAIN acked' /\ acked'[new] = acked[old]
      /\ \A q \in DOMAIN acked' :
           \/ q = new /\ old \in DOMAIN acked
           \/ q \in DOMAIN acked /\ ~IsBelow(old, q) /\ ~IsBelow(new, q)
  BY <1>1, <1>2, RenamedAcked DEF Tidy
<1>4. /\ DOMAIN store \subseteq DOMAIN store'
      /\ \A q : q # old /\ q # new => (q \in DOMAIN store' <=> q \in DOMAIN store)
      /\ \A q \in DOMAIN store : q # old /\ q # new => store'[q] = store[q]
  <2>1. old # new
    BY <1>1
  <2>2. (Live(old) /\ store' = Copied(old, new)) \/ store' = store
    OBVIOUS
  <2>3. StoreElsewhere(old, new)
    BY <2>1, <2>2, RenamedStore
  <2> QED BY <2>3 DEF StoreElsewhere
<1>5. ASSUME ino \notin DOMAIN tree.dirs
      PROVE  /\ old \in DOMAIN acked /\ store[old].data = acked[old]
             /\ old \in DOMAIN store' /\ store'[old].deleted
             /\ new \in DOMAIN store' /\ ~store'[new].deleted /\ store'[new].data = acked[old]
  <2>1. Live(old) /\ store' = Copied(old, new)
    BY <1>2, <1>5
  <2>2. old \in DOMAIN acked /\ store[old].data = acked[old]
    BY <2>1, LiveAt DEF Tidy, AckedThere
  <2>3. /\ old \in DOMAIN store' /\ store'[old].deleted
        /\ new \in DOMAIN store' /\ ~store'[new].deleted /\ store'[new].data = store[old].data
    BY <1>1, <1>2, <2>1, CopiedStore
  <2> QED BY <2>2, <2>3
<1>6. ASSUME ino \in DOMAIN tree.dirs
      PROVE  store' = store /\ old \notin DOMAIN acked /\ ~FileAt(old)
  <2>1. store' = store /\ ~FileAt(old)
    BY <1>1, <1>6 DEF FileAt
  <2> QED BY <2>1 DEF Tidy, AckedThere
<1>7. IsBelow(old, old) /\ IsBelow(new, new)
  BY <1>1, BelowRefl
<1>8. DeletedPaths \subseteq DeletedPaths'
  <2>1. old \in DeletedPaths => old \in DeletedPaths'
    BY <1>5, <1>6 DEF DeletedPaths
  <2> QED BY <1>2, <1>4, <2>1 DEF DeletedPaths
<1>9. /\ disturbed \subseteq Paths /\ ~Lost(disturbed, old)
      /\ InOrder(tree, disturbed, DeletedPaths) /\ Listings(tree, disturbed, FileNames, S)
  BY LostCrossed DEF Tidy
<1>10. \A q \in FileNames : ~IsBelow(old, q) /\ ~IsBelow(new, q) => q \in FileNames'
  BY <1>3 DEF FileNames
<1>11. e.kind = "file" => new \in FileNames'
  BY <1>3, <1>5 DEF FileNames
<1> HIDE DEF S
<1>12. InOrder(tree', disturbed, DeletedPaths') /\ Listings(tree', disturbed, FileNames', S)
  BY <1>2, <1>8, <1>9, <1>10, <1>11, RenamedKept
<1>13. \A q : FileAt(q) /\ q # old /\ q # new => FileAt(q)'
  BY <1>1 DEF FileAt
<1>14. AckedThere'
  <2> SUFFICES ASSUME NEW q \in DOMAIN acked', ~Crossed(disturbed', q)
               PROVE  (Live(q) /\ store[q].data = acked[q] /\ FileAt(q))'
    BY DEF AckedThere
  <2>1. CASE q = new /\ old \in DOMAIN acked
    <3>1. ino \notin DOMAIN tree.dirs
      BY <1>6, <2>1
    <3>2. FileAt(q)'
      BY <1>1, <2>1, <3>1 DEF FileAt
    <3> QED BY <1>3, <1>5, <2>1, <3>1, <3>2 DEF Live
  <2>2. CASE q \in DOMAIN acked /\ ~IsBelow(old, q) /\ ~IsBelow(new, q)
    <3>1. Live(q) /\ store[q].data = acked[q] /\ FileAt(q) /\ q # old /\ q # new /\ acked'[q] = acked[q]
      BY <1>3, <1>7, <2>2 DEF Tidy, AckedThere
    <3>2. FileAt(q)'
      BY <1>13, <3>1
    <3> QED BY <1>4, <3>1, <3>2 DEF Live
  <2> QED BY <1>3, <2>1, <2>2
<1>15. LiveAcked'
  <2> SUFFICES ASSUME NEW q \in DOMAIN store', ~store'[q].deleted, ~Crossed(disturbed', q)
               PROVE  q \in DOMAIN acked'
    BY DEF LiveAcked
  <2>1. CASE q = new
    BY <1>2, <1>3, <1>5, <1>6, <2>1
  <2>2. CASE q = old
    <3>1. store' = store /\ old \notin DOMAIN acked
      BY <1>5, <1>6, <2>2
    <3> QED BY <2>2, <3>1 DEF Tidy, LiveAcked
  <2>3. CASE q # new /\ q # old
    <3>1. q \in DOMAIN store /\ ~store[q].deleted /\ ~Crossed(disturbed, q) /\ q \notin DeletedPaths
      BY <1>4, <2>3 DEF DeletedPaths
    <3>2. q \in DOMAIN acked /\ FileAt(q)
      BY <3>1, LiveAt DEF Live
    <3>3. ~IsBelow(old, q)
      BY <1>2, <2>3, <3>2
    <3>4. ~IsBelow(new, q)
      <4>1. PICK i : i = tree.inodes[q]
        OBVIOUS
      <4>2. i \in DOMAIN tree.paths /\ tree.paths[i] = q /\ q \in Paths
        BY <1>1, <3>2, <4>1 DEF FileAt, TreeOK
      <4>3. Reached(tree, q)
        BY <1>9, <3>1, <4>2 DEF InOrder, FilesReached
      <4> QED BY <1>1, <1>2, <2>3, <4>2, <4>3, ReachedThrough
    <3> QED BY <1>3, <3>2, <3>3, <3>4
  <2> QED BY <2>1, <2>2, <2>3
<1>16. HandlesThere'
  <2> SUFFICES ASSUME NEW fh \in DOMAIN openFiles', ~Crossed(disturbed', openFiles'[fh].path),
                      openFiles'[fh].path \notin DOMAIN store'
               PROVE  FileAt(openFiles[fh].path)'
    BY DEF HandlesThere
  <2>1. PICK q : q = openFiles[fh].path
    OBVIOUS
  <2>2. FileAt(q) /\ q \notin DOMAIN store'
    BY <1>4, <2>1 DEF Tidy, HandlesThere
  <2>3. q # new
    BY <1>2, <2>2 DEF FileAt
  <2>4. q # old
    BY <1>5, <1>6, <2>2
  <2>5. FileAt(q)'
    BY <1>13, <2>2, <2>3, <2>4
  <2> QED BY <2>1, <2>5
<1>17. InOrder(tree', disturbed', DeletedPaths') /\ Listings(tree', disturbed', FileNames', DOMAIN symlinks')
  BY <1>12 DEF S
<1> QED BY <1>3, <1>9, <1>14, <1>15, <1>16, <1>17 DEF Tidy

\* rename
LEMMA RenameTidy ==
  ASSUME Agreement, Versions, Tidy, NEW parent \in Held, NEW name \in Names,
         NEW newparent \in Held, NEW newname \in Names, Rename(parent, name, newparent, newname)
  PROVE  Tidy'
<1>1. PICK old, new, ino : /\ old = Append(tree.paths[parent], name)
                           /\ new = Append(tree.paths[newparent], newname)
                           /\ ino = Lookup(parent, name)
  OBVIOUS
<1>2. PICK e : e = Entry(ino, newname, IF ino \in DOMAIN tree.dirs THEN "dir" ELSE "file")
  OBVIOUS
<1>3. /\ ino # 0 /\ ~IsBelow(old, new)
      /\ tree' = Moved(ino, parent, name, newparent, newname)
      /\ store' = IF ino \notin DOMAIN tree.dirs /\ Live(old) THEN Copied(old, new) ELSE store
      /\ acked' = Renamed(old, new)
      /\ disturbed' = disturbed \cup (IF GoesOver(ino, old, new) \/ Shaken(old) THEN {old, new} ELSE {})
      /\ UNCHANGED <<symlinks, openFiles>>
  BY <1>1 DEF Rename
<1>4. TreeOK(tree) /\ StoreOK
  BY DEF Agreement, Versions
<1>5. old # new
  BY <1>1, <1>3, <1>4, HeldPath, BelowRefl
<1>6. RenamedTree(tree, tree', parent, name, newparent, newname, ino, old, new, e)
  BY <1>1, <1>2, <1>3, <1>4, <1>5, MovedTree
<1>7. /\ e.kind = "dir" => ino \in DOMAIN tree.dirs
      /\ e.kind = "file" => ino \notin DOMAIN tree.dirs
  BY <1>2 DEF Entry
<1>8. Shaken(old) <=> Crossed(disturbed, old)
  BY DEF Shaken, Disturbed, Crossed
<1>9. CASE GoesOver(ino, old, new) \/ Shaken(old)
  <2>1. disturbed' = disturbed \cup {old, new}
    BY <1>3, <1>9
  <2> QED BY <1>3, <1>4, <1>6, <2>1, RenameOver
<1>10. CASE ~GoesOver(ino, old, new) /\ ~Shaken(old)
  <2>1. disturbed' = disturbed
    BY <1>3, <1>10
  <2> QED BY <1>3, <1>4, <1>6, <1>7, <1>8, <1>10, <2>1, RenameThrough
<1> QED BY <1>9, <1>10

\* Every step keeps the files and their listings.
LEMMA TidyNext == ASSUME Agreement, Versions, Tidy, [Next]_vars PROVE Tidy'
<1>1. CASE OnHandles
  <2>1. ASSUME NEW ino \in DOMAIN tree.paths \ DOMAIN tree.dirs, Open(ino) PROVE Tidy'
    BY <2>1, OpenTidy
  <2>2. ASSUME NEW ino \in DOMAIN tree.paths \ DOMAIN tree.dirs, NEW size \in 0..MaxLen, Truncate(ino, size)
        PROVE  Tidy'
    BY <2>2, TruncateTidy
  <2>3. ASSUME NEW fh \in DOMAIN openFiles, Release(fh) PROVE Tidy'
    BY <2>3, ReleaseTidy
  <2>4. ASSUME NEW fh \in DOMAIN openFiles, NEW offset \in 0..(MaxLen - 1), NEW b \in Bytes,
               Write(fh, offset, <<b>>)
        PROVE  Tidy'
    BY <2>4, WriteTidy
  <2> QED BY <1>1, <2>1, <2>2, <2>3, <2>4 DEF OnHandles
<1>2. CASE OnNames
  <2>1. PICK parent \in Held, name \in Names :
          \/ Create(parent, name)
          \/ Unlink(parent, name)
          \/ \E target \in Targets : Symlink(parent, name, target)
          \/ MkDir(parent, name)
          \/ RmDir(parent, name)
          \/ \E newparent \in Held, newname \in Names : Rename(parent, name, newparent, newname)
    BY <1>2 DEF OnNames
  <2>2. CASE Create(parent, name)
    BY <2>2, CreateTidy
  <2>3. CASE Unlink(parent, name)
    BY <2>3, UnlinkTidy
  <2>4. CASE \E target \in Targets : Symlink(parent, name, target)
    BY <2>4, SymlinkTidy
  <2>5. CASE MkDir(parent, name)
    BY <2>5, MkDirTidy
  <2>6. CASE RmDir(parent, name)
    BY <2>6, RmDirTidy
  <2>7. CASE \E newparent \in Held, newname \in Names : Rename(parent, name, newparent, newname)
    BY <2>7, RenameTidy
  <2> QED BY <2>1, <2>2, <2>3, <2>4, <2>5, <2>6, <2>7
<1>3. CASE OnXattrs
  <2>1. UNCHANGED <<tree, symlinks, openFiles, store, acked, disturbed>>
    BY <1>3 DEF OnXattrs, SetXattr, RemoveXattr
  <2> QED BY <2>1, StutterTidy
<1>4. CASE UNCHANGED vars
  BY <1>4, StutterTidy DEF vars
<1> QED BY <1>1, <1>2, <1>3, <1>4 DEF Next
-----------------------------------------------------------------------------
(* The mount *)

\* The tree after the first n files are registered: they are in order, each of
\* them has an inode that is no directory, and only what is above them has one
\* that is.
Rebuilt(t, files, n) ==
  /\ InOrder(t, {}, {}) /\ Listings(t, {}, {files[i] : i \in 1..n}, {})
  /\ \A i \in 1..n : files[i] \in DOMAIN t.inodes /\ t.inodes[files[i]] \notin DOMAIN t.dirs
  /\ \A q \in DOMAIN t.inodes : t.inodes[q] \in DOMAIN t.dirs =>
       q = <<>> \/ \E i \in 1..n : IsBelow(q, files[i]) /\ q # files[i]

\* The tree of the root alone.
LEMMA RebuiltRoot == ASSUME NEW files PROVE Rebuilt(RootTree, files, 0)
<1>1. /\ RootTree.paths = [i \in {RootIno} |-> <<>>] /\ RootTree.inodes = [p \in {<<>>} |-> RootIno]
      /\ RootTree.dirs = [i \in {RootIno} |-> {}]
  BY DEF RootTree, Tree
<1>2. /\ \A i \in DOMAIN RootTree.paths : i = RootIno /\ RootTree.paths[i] = <<>>
      /\ \A p \in DOMAIN RootTree.inodes : p = <<>> /\ RootTree.inodes[p] = RootIno
      /\ <<>> \in DOMAIN RootTree.inodes /\ RootIno \in DOMAIN RootTree.dirs
      /\ \A i \in DOMAIN RootTree.dirs : i = RootIno /\ RootTree.dirs[i] = {}
  BY <1>1
<1>3. Reached(RootTree, <<>>)
  <2> SUFFICES ASSUME NEW x \in NonRoot, IsBelow(x, <<>>) PROVE FALSE
    BY DEF Reached
  <2>1. Len(x) \in Nat \ {0} /\ Len(<<>>) = 0
    BY NonRootLen, EmptySeq DEF NonRoot
  <2> QED BY <2>1 DEF IsBelow
<1>4. InOrder(RootTree, {}, {})
  BY <1>2, <1>3 DEF InOrder, Placed, DirsReached, FilesReached
<1>5. Listings(RootTree, {}, {files[i] : i \in 1..0}, {})
  BY <1>2 DEF Listings
<1> QED BY <1>2, <1>4, <1>5 DEF Rebuilt

\* One file more, which is not below another one nor above it.
LEMMA RebuiltNext ==
  ASSUME NEW t, NEW files, NEW n \in Nat, n # 0, TreeOK(t), Rebuilt(t, files, n - 1),
         \A i \in 1..n : files[i] \in Paths /\ files[i] # <<>>,
         \A i, j \in 1..n : IsBelow(files[i], files[j]) => files[i] = files[j]
  PROVE  Rebuilt(RegisterFile(t, files[n]), files, n)
<1> DEFINE F == {files[i] : i \in 1..(n - 1)}
           G == {files[i] : i \in 1..n}
           none == {}
<1>1. PICK p, r : p = files[n] /\ r = RegisterFile(t, p)
  OBVIOUS
<1>2. /\ n \in 1..n /\ (\A i \in 1..(n - 1) : i \in 1..n) /\ \A i \in 1..n : i = n \/ i \in 1..(n - 1)
      /\ p \in Paths /\ p # <<>>
  BY <1>1
<1>3. F \subseteq G /\ p \in G
  BY <1>1, <1>2
<1>4. /\ none \subseteq Paths /\ InOrder(t, none, none) /\ Listings(t, none, F, none)
      /\ \A i \in 1..(n - 1) : files[i] \in DOMAIN t.inodes /\ t.inodes[files[i]] \notin DOMAIN t.dirs
      /\ \A q \in DOMAIN t.inodes : t.inodes[q] \in DOMAIN t.dirs =>
           q = <<>> \/ \E i \in 1..(n - 1) : IsBelow(q, files[i]) /\ q # files[i]
  BY DEF Rebuilt
<1> HIDE DEF F, G, none
<1>5. /\ InOrder(r, none, none) /\ Listings(r, none, G, none)
      /\ p \in DOMAIN r.inodes
      /\ p \notin DOMAIN t.inodes => r.inodes[p] \notin DOMAIN r.dirs
      /\ \A q \in DOMAIN t.inodes :
           /\ q \in DOMAIN r.inodes /\ r.inodes[q] = t.inodes[q]
           /\ r.inodes[q] \in DOMAIN r.dirs => t.inodes[q] \in DOMAIN t.dirs \/ (IsBelow(q, p) /\ q # p)
      /\ \A q \in DOMAIN r.inodes : q \in DOMAIN t.inodes \/ IsBelow(q, p)
  <2>1. InOrder(r, none, none) /\ Listings(r, none, G, none) /\ Joins(t, r, p)
    BY <1>1, <1>2, <1>3, <1>4, RegisteredFile
  <2> QED BY <2>1 DEF Joins
<1>6. r.inodes[p] \notin DOMAIN r.dirs
  <2>1. CASE p \in DOMAIN t.inodes
    <3>1. t.inodes[p] \notin DOMAIN t.dirs
      BY <1>1, <1>2, <1>4, <2>1
    <3> QED BY <1>5, <2>1, <3>1
  <2> QED BY <1>5, <2>1
<1>7. ASSUME NEW i \in 1..n
      PROVE  files[i] \in DOMAIN r.inodes /\ r.inodes[files[i]] \notin DOMAIN r.dirs
  <2>1. CASE i = n
    BY <1>1, <1>5, <1>6, <2>1
  <2>2. CASE i \in 1..(n - 1)
    <3>1. ~ (IsBelow(files[i], p) /\ files[i] # p)
      BY <1>1, <1>2
    <3> QED BY <1>4, <1>5, <2>2, <3>1
  <2> QED BY <1>2, <2>1, <2>2
<1>8. ASSUME NEW q \in DOMAIN r.inodes, r.inodes[q] \in DOMAIN r.dirs
      PROVE  q = <<>> \/ \E i \in 1..n : IsBelow(q, files[i]) /\ q # files[i]
  <2>1. CASE IsBelow(q, p)
    BY <1>1, <1>2, <1>6, <1>8, <2>1
  <2>2. CASE ~IsBelow(q, p)
    <3>1. q \in DOMAIN t.inodes /\ t.inodes[q] \in DOMAIN t.dirs
      BY <1>5, <1>8, <2>2
    <3> QED BY <1>2, <1>4, <3>1
  <2> QED BY <2>1, <2>2
<1> QED BY <1>1, <1>5, <1>7, <1>8 DEF Rebuilt, none, G

\* The tree of the mount.
LEMMA MountOrdered ==
  ASSUME NEW files \in Seq(Paths), \A i \in DOMAIN files : files[i] # <<>>,
         \A i, j \in DOMAIN files : IsBelow(files[i], files[j]) => files[i] = files[j]
  PROVE  Rebuilt(RebuildDirectoryStructure(files), files, Len(files))
<1> DEFINE step == CHOOSE g : g = [n \in 0..Len(files) |->
                                     IF n = 0 THEN RootTree ELSE RegisterFile(g[n - 1], files[n])]
<1>1. Len(files) \in Nat /\ DOMAIN files = 1..Len(files) /\ \A i \in 1..Len(files) : files[i] \in Paths
  BY LenProperties
<1>2. Rebuilds(step, files, Len(files))
  BY <1>1, RebuildsExist DEF Rebuilds
<1>3. RebuildDirectoryStructure(files) = step[Len(files)]
  BY DEF RebuildDirectoryStructure
<1> HIDE DEF step
<1>4. \A n \in 0..Len(files) :
        /\ TreeOK(step[n])
        /\ step[n] = IF n = 0 THEN RootTree ELSE RegisterFile(step[n - 1], files[n])
  <2>1. \A n \in 0..Len(files) : TreeOK(step[n])
    BY <1>2, RebuildsOK
  <2> QED BY <1>2, <2>1 DEF Rebuilds
<1> DEFINE T == {n \in 0..Len(files) : ~Rebuilt(step[n], files, n)}
<1> SUFFICES ASSUME Len(files) \in T PROVE FALSE
  BY <1>1, <1>3
<1>5. PICK n \in T : \A k \in T : n <= k
  <2>1. T \subseteq Nat /\ T # {}
    BY <1>1
  <2> HIDE DEF T
  <2> QED BY <2>1, LeastNat
<1>6. n \in 0..Len(files) /\ ~Rebuilt(step[n], files, n)
  OBVIOUS
<1>7. n # 0
  BY <1>4, <1>6, RebuiltRoot
<1>8. n \in Nat /\ n - 1 \in 0..Len(files) /\ ~ (n <= n - 1) /\ \A i \in 1..n : i \in 1..Len(files)
  BY <1>1, <1>6, <1>7
<1>9. TreeOK(step[n - 1]) /\ Rebuilt(step[n - 1], files, n - 1) /\ step[n] = RegisterFile(step[n - 1], files[n])
  BY <1>4, <1>5, <1>6, <1>7, <1>8
<1> HIDE DEF T
<1>10. /\ \A i \in 1..n : files[i] \in Paths /\ files[i] # <<>>
       /\ \A i, j \in 1..n : IsBelow(files[i], files[j]) => files[i] = files[j]
  BY <1>1, <1>8
<1>11. Rebuilt(RegisterFile(step[n - 1], files[n]), files, n)
  BY <1>7, <1>8, <1>9, <1>10, RebuiltNext
<1> QED BY <1>6, <1>9, <1>11

\* The mounted store and its tree.
LEMMA TidyInit == ASSUME FilesFormTree, Init PROVE Tidy
<1> DEFINE keys == [i \in DOMAIN InitFiles |-> InitFiles[i][1]]
           F == {ListFiles[i] : i \in 1..Len(ListFiles)}
           X == {}
           none == {}
<1>1. /\ keys \in Seq(Paths) /\ Len(keys) \in Nat /\ Len(keys) = Len(InitFiles)
      /\ DOMAIN keys = DOMAIN InitFiles /\ DOMAIN keys = 1..Len(keys)
      /\ \A i \in DOMAIN InitFiles : InitFiles[i][1] \in Paths /\ keys[i] = InitFiles[i][1]
  <2>1. InitFiles \in Seq(Paths \X Seq(Nat))
    BY InitAssumption
  <2>2. /\ DOMAIN InitFiles = 1..Len(InitFiles) /\ Len(InitFiles) \in Nat
        /\ \A i \in DOMAIN InitFiles : InitFiles[i][1] \in Paths
    BY <2>1
  <2>3. keys \in Seq(Paths) /\ DOMAIN keys = DOMAIN InitFiles
    BY <2>2, SeqDef
  <2> HIDE DEF keys
  <2>4. DOMAIN keys = 1..Len(keys) /\ Len(keys) \in Nat
    BY <2>3, LenProperties
  <2>5. Len(keys) = Len(InitFiles)
    BY <2>2, <2>3, <2>4
  <2> QED BY <2>2, <2>3, <2>4, <2>5 DEF keys
<1>2. /\ store = [p \in {InitFiles[i][1] : i \in DOMAIN InitFiles} |->
                    [version |-> 0, deleted |-> FALSE,
                     data |-> InitFiles[CHOOSE i \in DOMAIN InitFiles : InitFiles[i][1] = p][2]]]
      /\ acked = [p \in DOMAIN store |-> store[p].data]
      /\ disturbed = {} /\ openFiles = <<>> /\ symlinks = <<>>
      /\ tree = RebuildDirectoryStructure(ListFiles)
  BY DEF Init
<1>3. /\ DOMAIN store = {InitFiles[i][1] : i \in DOMAIN InitFiles}
      /\ \A p \in DOMAIN store : ~store[p].deleted
      /\ DOMAIN acked = DOMAIN store /\ \A p \in DOMAIN acked : acked[p] = store[p].data
      /\ DOMAIN openFiles = {} /\ DOMAIN symlinks = {}
  BY <1>2
<1> HIDE DEF keys
<1>4. /\ ListFiles \in Seq(Paths) /\ DOMAIN ListFiles = 1..Len(ListFiles)
      /\ Len(ListFiles) = Len(keys) + Len(SlashlessFiles)
      /\ \A i \in 1..Len(ListFiles) :
           ListFiles[i] = IF i <= Len(keys) THEN keys[i] ELSE SlashlessFiles[i - Len(keys)]
  <2>1. ListFiles = keys \o SlashlessFiles /\ SlashlessFiles \in Seq(Paths)
    BY InitAssumption DEF ListFiles, keys
  <2> QED BY <1>1, <2>1, ConcatProperties, LenProperties
<1>5. Rebuilt(tree, ListFiles, Len(ListFiles))
  BY <1>2, <1>4, MountOrdered DEF FilesFormTree
<1>6. /\ none = {} /\ X = {} /\ InOrder(tree, none, X) /\ Listings(tree, none, F, none)
      /\ \A q \in F : FileAt(q)
  BY <1>5 DEF Rebuilt, FileAt
<1>7. ASSUME NEW p \in DOMAIN store PROVE p \in F /\ p \in Paths
  <2>1. PICK i \in DOMAIN InitFiles : p = InitFiles[i][1]
    BY <1>3
  <2>2. i \in 1..Len(keys) /\ i \in 1..Len(ListFiles) /\ i <= Len(keys)
    <3>1. Len(SlashlessFiles) \in Nat
      BY InitAssumption, LenProperties
    <3> QED BY <1>1, <1>4, <2>1, <3>1
  <2> QED BY <1>1, <1>4, <2>1, <2>2
<1>8. ASSUME NEW i \in 1..Len(ListFiles) PROVE ListFiles[i] \in FileNames
  <2>1. Len(SlashlessFiles) \in Nat /\ DOMAIN SlashlessFiles = 1..Len(SlashlessFiles)
    BY InitAssumption, LenProperties
  <2>2. CASE i <= Len(keys)
    <3>1. i \in DOMAIN InitFiles
      BY <1>1, <2>2
    <3> QED BY <1>1, <1>3, <1>4, <2>2, <3>1 DEF FileNames
  <2>3. CASE ~(i <= Len(keys))
    <3>1. i - Len(keys) \in DOMAIN SlashlessFiles
      BY <1>1, <1>4, <2>1, <2>3
    <3> QED BY <1>4, <2>3, <3>1 DEF FileNames
  <2> QED BY <2>2, <2>3
<1>9. F \subseteq FileNames /\ none \subseteq DOMAIN symlinks
  BY <1>8
<1>10. DeletedPaths = {} /\ disturbed = none
  BY <1>2, <1>3 DEF DeletedPaths
<1> HIDE DEF F, X, none
<1>11. InOrder(tree, disturbed, DeletedPaths) /\ Listings(tree, disturbed, FileNames, DOMAIN symlinks)
  BY <1>6, <1>9, <1>10, ListingsMore
<1>12. disturbed \subseteq Paths /\ DOMAIN acked \subseteq Seq(Names)
  BY <1>2, <1>3, <1>7, PathIsSeq
<1>13. AckedThere
  BY <1>3, <1>6, <1>7 DEF AckedThere, Live
<1>14. LiveAcked /\ HandlesThere
  BY <1>3 DEF LiveAcked, HandlesThere
<1> QED BY <1>11, <1>12, <1>13, <1>14 DEF Tidy

\* What the invariant is for.
LEMMA TidyFilesKept == Agreement /\ Tidy => FilesKept
<1> SUFFICES ASSUME Agreement, Tidy, NEW p \in DOMAIN acked, ~Shaken(p)
             PROVE  /\ Live(p) /\ store[p].data = acked[p]
                    /\ p \in DOMAIN tree.inodes
                    /\ Attr(tree.inodes[p], p) = [kind |-> "file", size |-> Len(acked[p])]
                    /\ Parent(p) \in DOMAIN tree.inodes
                    /\ \E e \in ReadDir(tree.inodes[Parent(p)]) : e.ino = tree.inodes[p] /\ e.name = BaseName(p)
  BY DEF FilesKept
<1>1. TreeOK(tree)
  BY DEF Agreement
<1>2. ~Crossed(disturbed, p)
  BY DEF Shaken, Disturbed, Crossed
<1>3. Live(p) /\ store[p].data = acked[p] /\ FileAt(p)
  BY <1>2 DEF Tidy, AckedThere
<1>4. Attr(tree.inodes[p], p) = [kind |-> "file", size |-> Len(acked[p])]
  BY <1>3 DEF Attr, FileAt, ReadOrEmpty
<1>5. PICK i : i = tree.inodes[p]
  OBVIOUS
<1>6. i \in DOMAIN tree.paths /\ tree.paths[i] = p /\ p \in Paths /\ p \in DOMAIN tree.inodes
  BY <1>1, <1>3, <1>5 DEF FileAt, TreeOK
<1>7. p \notin DeletedPaths
  BY <1>3 DEF DeletedPaths, Live
<1>8. Reached(tree, p) /\ tree.inodes[<<>>] \in DOMAIN tree.dirs
  BY <1>2, <1>6, <1>7 DEF Tidy, InOrder, FilesReached
<1>9. p \in NonRoot
  BY <1>3, <1>6, <1>8 DEF NonRoot, FileAt
<1>10. Linked(tree, p)
  BY <1>6, <1>8, <1>9, BelowRefl DEF Reached
<1>11. /\ Parent(p) \in DOMAIN tree.inodes
       /\ \E e \in ReadDir(tree.inodes[Parent(p)]) : e.ino = tree.inodes[p] /\ e.name = BaseName(p)
  BY <1>10 DEF Linked, ReadDir
<1> QED BY <1>3, <1>4, <1>6, <1>11

LEMMA TidyNoGhosts == Tidy => NoGhosts
<1> SUFFICES ASSUME Tidy, NEW d \in DOMAIN tree.dirs \cap DOMAIN tree.paths, NEW e \in tree.dirs[d],
                    ~Disturbed(Append(tree.paths[d], e.name))
             PROVE  LET p == Append(tree.paths[d], e.name)
                    IN  /\ Lookup(d, e.name) = e.ino
                        /\ e.kind = "dir" => e.ino \in DOMAIN tree.dirs /\ tree.parents[e.ino] = d
                        /\ e.kind = "file" =>
                             \/ p \in DOMAIN acked
                             \/ e.ino \in DOMAIN symlinks
                             \/ \E i \in DOMAIN SlashlessFiles : SlashlessFiles[i] = p
  BY DEF NoGhosts
<1>1. PICK p : p = Append(tree.paths[d], e.name)
  OBVIOUS
<1>2. ~Lost(disturbed, p)
  BY <1>1 DEF Disturbed, Lost
<1>3. Shows(tree, FileNames, DOMAIN symlinks, d, e)
  BY <1>1, <1>2 DEF Tidy, Listings
<1>4. /\ p \in DOMAIN tree.inodes /\ tree.inodes[p] = e.ino
      /\ e.kind = "dir" => e.ino \in DOMAIN tree.dirs /\ tree.parents[e.ino] = d
      /\ e.kind = "file" => p \in FileNames \/ e.ino \in DOMAIN symlinks
  BY <1>1, <1>3 DEF Shows
<1>5. Lookup(d, e.name) = e.ino
  BY <1>1, <1>4 DEF Lookup
<1>6. p \in FileNames => p \in DOMAIN acked \/ \E i \in DOMAIN SlashlessFiles : SlashlessFiles[i] = p
  BY DEF FileNames
<1> QED BY <1>1, <1>4, <1>5, <1>6

\* The invariant holds in every state of a mount of such a store.
LEMMA TidyAlways == ASSUME FilesFormTree PROVE Spec => [](Agreement /\ Versions /\ Tidy)
<1>1. Init => Agreement /\ Versions /\ Tidy
  BY AgreementInit, VersionsInit, TidyInit
<1>2. Agreement /\ Versions /\ Tidy /\ [Next]_vars => (Agreement /\ Versions /\ Tidy)'
  BY AgreementNext, VersionsNext, TidyNext
<1> QED BY <1>1, <1>2, PTL DEF Spec

\* What the programs were told is in a file stays what its lookup, its listing
\* and its read give, through every create, write, truncate, unlink, mkdir,
\* rmdir, symlink and rename of other files and of this one, as long as no
\* rename went over a path in use or moved a directory with contents at a
\* path above or below the file's.
THEOREM FilesAlwaysKept == ASSUME FilesFormTree PROVE Spec => []FilesKept
<1>1. Agreement /\ Versions /\ Tidy => FilesKept
  BY TidyFilesKept
<1> QED BY <1>1, TidyAlways, PTL

\* And nothing else is listed: no entry survives the unlink, the rmdir or the
\* rename of what it stood for, and a directory that is listed knows the one
\* that lists it.
THEOREM NothingElseListed == ASSUME FilesFormTree PROVE Spec => []NoGhosts
<1>1. Agreement /\ Versions /\ Tidy => NoGhosts
  BY TidyNoGhosts
<1> QED BY <1>1, TidyAlways, PTL
=============================================================================
