---------------------------- MODULE VersionedFuse ----------------------------
(***************************************************************************)
(* VersionedFUSE (versioned_fuse.rs): the read-write FUSE adapter over a   *)
(* VersionedEmbrFS.  fuser hands the requests of one mount to handlers     *)
(* that take &mut self, so a handler is one atomic step; what interleaves  *)
(* are the requests of different programs and open handles.                *)
(*                                                                         *)
(* The adapter keeps its own tree of inodes beside the store of files, and *)
(* nothing ties the two together but the code of the handlers.  A path is  *)
(* a sequence of names (the root is <<>>), an inode a number, a content a  *)
(* short sequence of bytes.  A request reaches the adapter only after the  *)
(* kernel has looked its names up, so create, mkdir and symlink come with  *)
(* a name whose lookup failed, unlink, rmdir and rename with one whose     *)
(* lookup gave an inode of the right kind; the parent can be any directory *)
(* whose inode a program still holds.                                      *)
(***************************************************************************)
EXTENDS Naturals, Sequences, FiniteSets, Maps

CONSTANTS
  Names,         \* file names
  InitFiles,     \* <<path, content>>: the files of the store when it is mounted
  SlashlessFiles,\* paths of files written under a name without leading slash
  Bytes,         \* the byte values written; 0 is the fill of a gap
  Targets,       \* symlink targets
  XattrNames,    \* user attributes
  MaxLen,        \* bound: offsets and sizes
  MaxDepth,      \* bound: names in a path
  MaxIno,        \* bound: inodes allocated
  MaxFh,         \* bound: handles allocated
  MaxVersion,    \* bound: versions of a file
  MaxRenames,    \* bound: renames
  MaxXattrs,     \* bound: attributes set
  Requests       \* the kinds of request that arrive

RootIno == 1
Paths == UNION {[1..n -> Names] : n \in 0..MaxDepth}
Inos == 1..(MaxIno + 1)

ASSUME BoundsAssumption ==
  MaxLen \in Nat /\ MaxDepth \in Nat /\ MaxIno \in Nat /\ MaxFh \in Nat /\ MaxVersion \in Nat

VARIABLES
  tree,       \* the maps of the adapter, see Tree
  symlinks,   \* ino -> target
  openFiles,  \* fh -> [path, version]
  nextFh,
  xattrs,     \* the user attributes: pairs of an inode and a name
  store,      \* path -> [version, deleted, data], the VersionedEmbrFS below
  acked,      \* history: path -> content the programs were told is there
  disturbed,  \* history: paths below which a rename went over something
  renames     \* counter for the bound

vars == <<tree, symlinks, openFiles, nextFh, xattrs, store, acked, disturbed, renames>>

IsBelow(p, q) == Len(q) >= Len(p) /\ SubSeq(q, 1, Len(p)) = p
Parent(p) == SubSeq(p, 1, Len(p) - 1)
BaseName(p) == p[Len(p)]
-----------------------------------------------------------------------------
(* The inode tree.  paths and inodes are inode_paths and path_inodes, dirs  *)
(* the directory entries (a set: their order only shows in readdir),        *)
(* parents the parent inodes, next the next inode number.                   *)

Tree(paths, inodes, dirs, parents, next) ==
  [paths |-> paths, inodes |-> inodes, dirs |-> dirs, parents |-> parents, next |-> next]

Entry(ino, name, kind) == [ino |-> ino, name |-> name, kind |-> kind]

RootTree ==
  Tree([i \in {RootIno} |-> <<>>], [p \in {<<>>} |-> RootIno], [i \in {RootIno} |-> {}],
       [i \in {RootIno} |-> RootIno], RootIno + 1)

\* The levels of p that have no inode yet.
Missing(t, p) == {i \in 1..Len(p) : SubSeq(p, 1, i) \notin DOMAIN t.inodes}

\* get_or_create_inode for every prefix of p, in order: the known ones keep
\* their inode, the others get the next numbers.
InodeFor(t, p) ==
  [i \in 0..Len(p) |->
     IF i \in Missing(t, p)
     THEN t.next + Cardinality({j \in Missing(t, p) : j < i})
     ELSE t.inodes[SubSeq(p, 1, i)]]

\* register_file: every level of the path gets an inode and an entry in its
\* parent, unless the parent has an entry of that name.
RegisterFile(t, p) ==
  LET ino    == InodeFor(t, p)
      levels == 1..Len(p)
      fresh  == Missing(t, p)
      dirs0  == Over(t.dirs, [d \in {ino[i] : i \in 0..(Len(p) - 1)} |-> {}])
      added  == [d \in DOMAIN dirs0 |->
                   {Entry(ino[i], p[i], IF i = Len(p) THEN "file" ELSE "dir") :
                      i \in {j \in levels : /\ ino[j - 1] = d
                                            /\ \A e \in dirs0[d] : e.name # p[j]}}]
  IN  Tree(Over([n \in {ino[i] : i \in fresh} |->
                   SubSeq(p, 1, CHOOSE i \in fresh : ino[i] = n)], t.paths),
           Over([q \in {SubSeq(p, 1, i) : i \in fresh} |-> ino[Len(q)]], t.inodes),
           [d \in DOMAIN dirs0 |-> dirs0[d] \cup added[d]],
           Over([n \in {ino[i] : i \in levels} |->
                   ino[(CHOOSE i \in levels : ino[i] = n) - 1]], t.parents),
           t.next + Cardinality(fresh))

\* rebuild_directory_structure: list_files() in order.  A name without slash
\* is registered as a name below the root, which is not the store's key.
RebuildDirectoryStructure(files) ==
  LET step[n \in 0..Len(files)] ==
        IF n = 0 THEN RootTree ELSE RegisterFile(step[n - 1], files[n])
  IN  step[Len(files)]

\* What list_files gives.
ListFiles == [i \in DOMAIN InitFiles |-> InitFiles[i][1]] \o SlashlessFiles

\* No file of the mounted store lies below another one: the store is flat and
\* would hold both, the tree of the adapter cannot.
FilesFormTree ==
  \A i, j \in DOMAIN ListFiles :
    /\ ListFiles[i] # <<>>
    /\ IsBelow(ListFiles[i], ListFiles[j]) => ListFiles[i] = ListFiles[j]

ASSUME InitAssumption ==
  /\ InitFiles \in Seq(Paths \X Seq(Nat)) /\ SlashlessFiles \in Seq(Paths)
  /\ RebuildDirectoryStructure(ListFiles).next <= MaxIno + 1

Init ==
  /\ tree = RebuildDirectoryStructure(ListFiles)
  /\ symlinks = <<>>
  /\ openFiles = <<>>
  /\ nextFh = 1
  /\ xattrs = {}
  /\ store = [p \in {InitFiles[i][1] : i \in DOMAIN InitFiles} |->
                [version |-> 0, deleted |-> FALSE,
                 data |-> InitFiles[CHOOSE i \in DOMAIN InitFiles : InitFiles[i][1] = p][2]]]
  /\ acked = [p \in DOMAIN store |-> store[p].data]
  /\ disturbed = {}
  /\ renames = 0
-----------------------------------------------------------------------------
(* The store below: read_file, write_file and delete_file of VersionedEmbrFS. *)

Live(p) == p \in DOMAIN store /\ ~store[p].deleted

\* The content a handler works on: FileNotFound counts as an empty file.
ReadOrEmpty(p) == IF Live(p) THEN store[p].data ELSE <<>>

NoVersion == MaxVersion + 2

\* write_file's first check.  A deleted file still has an entry.
Accepts(p, expected) ==
  IF p \in DOMAIN store THEN expected = store[p].version ELSE expected = NoVersion

Written(p, data) ==
  With(store, p, [version |-> IF p \in DOMAIN store THEN store[p].version + 1 ELSE 0,
                  deleted |-> FALSE, data |-> data])

\* Mutant: remove_file marks the entry and leaves its version.
DeletedSameVersion(p) == [store EXCEPT ![p].deleted = TRUE]

Deleted(p) == [store EXCEPT ![p].deleted = TRUE, ![p].version = @ + 1]
-----------------------------------------------------------------------------
(* The read-only handlers. *)

\* lookup: the path of the parent and the name, not the parent's entries.
Lookup(parent, name) ==
  LET p == Append(tree.paths[parent], name)
  IN  IF p \in DOMAIN tree.inodes THEN tree.inodes[p] ELSE 0

\* make_file_attr, for lookup and getattr: only directories are told apart.
Attr(ino, p) ==
  IF ino \in DOMAIN tree.dirs
  THEN [kind |-> "dir", size |-> 0]
  ELSE [kind |-> "file", size |-> Len(ReadOrEmpty(p))]

\* readdir: the entries, with . and .. before them.
ReadDir(ino) ==
  {Entry(ino, ".", "dir"),
   Entry(IF ino \in DOMAIN tree.parents THEN tree.parents[ino] ELSE RootIno, "..", "dir")}
  \cup tree.dirs[ino]

\* A directory some program can name in a request.
Held == {d \in DOMAIN tree.dirs : d \in DOMAIN tree.paths /\ Len(tree.paths[d]) < MaxDepth}

Kind(ino) == Attr(ino, tree.paths[ino]).kind
-----------------------------------------------------------------------------
(* Handles. *)

AllocateFh(p, version) ==
  /\ nextFh <= MaxFh
  /\ openFiles' = With(openFiles, nextFh, [path |-> p, version |-> version])
  /\ nextFh' = nextFh + 1

\* open: of a file by its inode; version 0 if the store has no such file.
Open(ino) ==
  /\ "open" \in Requests
  /\ AllocateFh(tree.paths[ino], IF Live(tree.paths[ino]) THEN store[tree.paths[ino]].version ELSE 0)
  /\ UNCHANGED <<tree, symlinks, xattrs, store, acked, disturbed, renames>>

Release(fh) ==
  /\ openFiles' = Without(openFiles, fh)
  /\ UNCHANGED <<tree, symlinks, nextFh, xattrs, store, acked, disturbed, renames>>

\* The buffer write assembles: the file as it is now, grown with zeros.
Overlay(old, offset, data) ==
  LET end == offset + Len(data)
  IN  [i \in 1..(IF end > Len(old) THEN end ELSE Len(old)) |->
         IF i > offset /\ i <= end THEN data[i - offset]
         ELSE IF i <= Len(old) THEN old[i] ELSE 0]

\* "New file" is concluded from the length of the buffer.
Expected(fh, offset, data) ==
  IF Len(Overlay(ReadOrEmpty(openFiles[fh].path), offset, data)) = Len(data)
  THEN NoVersion ELSE openFiles[fh].version

\* write: an accepted one stores the buffer and moves the handle's version; a
\* refused one (EAGAIN, EIO) changes nothing.
Write(fh, offset, data) ==
  LET p == openFiles[fh].path
      buffer == Overlay(ReadOrEmpty(p), offset, data)
  IN  /\ "write" \in Requests
      /\ Accepts(p, Expected(fh, offset, data))
      /\ store' = Written(p, buffer)
      /\ store'[p].version <= MaxVersion
      /\ openFiles' = [openFiles EXCEPT ![fh].version = store'[p].version]
      /\ acked' = With(acked, p, buffer)
      /\ UNCHANGED <<tree, symlinks, nextFh, xattrs, disturbed, renames>>

\* setattr with a size.
Truncate(ino, size) ==
  LET p == tree.paths[ino]
      resized == [i \in 1..size |-> IF i <= Len(store[p].data) THEN store[p].data[i] ELSE 0]
  IN  /\ "truncate" \in Requests
      /\ Live(p)
      /\ store' = Written(p, resized)
      /\ store'[p].version <= MaxVersion
      /\ acked' = With(acked, p, resized)
      /\ UNCHANGED <<tree, symlinks, openFiles, nextFh, xattrs, disturbed, renames>>
-----------------------------------------------------------------------------
(* The handlers that change the tree. *)

AddEntry(t, parent, e) ==
  [t EXCEPT !.dirs = [d \in DOMAIN @ |-> IF d = parent THEN @[d] \cup {e} ELSE @[d]]]

\* Mutant: unlink leaves the directory entry.
KeepEntry(t, parent, name) == t

DropEntry(t, parent, name) ==
  [t EXCEPT !.dirs = [d \in DOMAIN @ |-> IF d = parent THEN {e \in @[d] : e.name # name} ELSE @[d]]]

\* create: of a name the store has never had; otherwise EIO.
Create(parent, name) ==
  LET p == Append(tree.paths[parent], name)
  IN  /\ "create" \in Requests
      /\ Lookup(parent, name) = 0
      /\ Accepts(p, NoVersion)
      /\ store' = Written(p, <<>>)
      /\ tree' = RegisterFile(tree, p)
      /\ tree'.next <= MaxIno + 1
      /\ AllocateFh(p, 0)
      /\ acked' = With(acked, p, <<>>)
      /\ UNCHANGED <<symlinks, xattrs, disturbed, renames>>

\* unlink: the inode and its path stay in the maps.
Unlink(parent, name) ==
  LET p == Append(tree.paths[parent], name)
  IN  /\ "unlink" \in Requests
      /\ Lookup(parent, name) # 0
      /\ Kind(Lookup(parent, name)) = "file"
      /\ Live(p)
      /\ store' = Deleted(p)
      /\ store'[p].version <= MaxVersion + 1
      /\ tree' = DropEntry(tree, parent, name)
      /\ acked' = Without(acked, p)
      /\ UNCHANGED <<symlinks, openFiles, nextFh, xattrs, disturbed, renames>>

\* A new inode for path p, as mkdir and symlink allocate it.
Allocate(t, p) ==
  Tree(With(t.paths, t.next, p), With(t.inodes, p, t.next), t.dirs, t.parents, t.next + 1)

\* symlink: no entry in parents, and the store knows nothing of it.
Symlink(parent, name, target) ==
  LET p == Append(tree.paths[parent], name)
  IN  /\ "symlink" \in Requests
      /\ Lookup(parent, name) = 0
      /\ tree.next <= MaxIno
      /\ tree' = AddEntry(Allocate(tree, p), parent, Entry(tree.next, name, "symlink"))
      /\ symlinks' = With(symlinks, tree.next, target)
      /\ UNCHANGED <<openFiles, nextFh, xattrs, store, acked, disturbed, renames>>

MkDir(parent, name) ==
  LET p == Append(tree.paths[parent], name)
      t == Allocate(tree, p)
  IN  /\ "mkdir" \in Requests
      /\ Lookup(parent, name) = 0
      /\ tree.next <= MaxIno
      /\ tree' = AddEntry(Tree(t.paths, t.inodes, With(t.dirs, tree.next, {}),
                               With(t.parents, tree.next, parent), t.next),
                          parent, Entry(tree.next, name, "dir"))
      /\ UNCHANGED <<symlinks, openFiles, nextFh, xattrs, store, acked, disturbed, renames>>

\* rmdir: of a directory without entries; its attributes stay behind.
RmDir(parent, name) ==
  LET ino == Lookup(parent, name)
      p == Append(tree.paths[parent], name)
  IN  /\ "rmdir" \in Requests
      /\ ino \in DOMAIN tree.dirs
      /\ tree.dirs[ino] = {}
      /\ tree' = DropEntry(Tree(Without(tree.paths, ino), Without(tree.inodes, p),
                                Without(tree.dirs, ino), Without(tree.parents, ino), tree.next),
                           parent, name)
      /\ UNCHANGED <<symlinks, openFiles, nextFh, xattrs, store, acked, disturbed, renames>>
-----------------------------------------------------------------------------
(* rename *)

\* Mutant: the old path keeps its inode.
MovedKeepingOld(ino, parent, name, newparent, newname) ==
  LET new == Append(tree.paths[newparent], newname)
      t   == DropEntry(tree, parent, name)
      u   == Tree(With(t.paths, ino, new), With(t.inodes, new, ino),
                  t.dirs, With(t.parents, ino, newparent), t.next)
  IN  AddEntry(DropEntry(u, newparent, newname), newparent,
               Entry(ino, newname, IF ino \in DOMAIN tree.dirs THEN "dir" ELSE "file"))

\* The maps: the entry and the inode move, the entry that was at the new name
\* is dropped, an inode that had the new path keeps it in paths.
Moved(ino, parent, name, newparent, newname) ==
  LET old == Append(tree.paths[parent], name)
      new == Append(tree.paths[newparent], newname)
      t   == DropEntry(tree, parent, name)
      u   == Tree(With(t.paths, ino, new), With(Without(t.inodes, old), new, ino),
                  t.dirs, With(t.parents, ino, newparent), t.next)
  IN  AddEntry(DropEntry(u, newparent, newname), newparent,
               Entry(ino, newname, IF ino \in DOMAIN tree.dirs THEN "dir" ELSE "file"))

\* Mutant: the copy is never deleted under its old name.
CopiedOnly(old, new) ==
  IF Accepts(new, NoVersion)
  THEN With(store, new, [version |-> 0, deleted |-> FALSE, data |-> store[old].data])
  ELSE store

\* The store: copy and delete, the results of both ignored.  The copy is
\* refused when the store has, or ever had, the new path.
Copied(old, new) ==
  LET copy == IF Accepts(new, NoVersion)
              THEN With(store, new, [version |-> 0, deleted |-> FALSE, data |-> store[old].data])
              ELSE store
  IN  [copy EXCEPT ![old].deleted = TRUE, ![old].version = @ + 1]

\* What the programs expect after the rename: everything below the old path
\* is below the new one, and what was there is gone.
Renamed(old, new) ==
  LET stay  == {p \in DOMAIN acked : ~IsBelow(old, p) /\ ~IsBelow(new, p)}
      moved == {p \in DOMAIN acked : IsBelow(old, p)}
      To(p) == new \o SubSeq(p, Len(old) + 1, Len(p))
  IN  [q \in stay \cup {To(p) : p \in moved} |->
         IF q \in stay THEN acked[q] ELSE acked[CHOOSE p \in moved : To(p) = q]]

Disturbed(p) == \E d \in disturbed : IsBelow(d, p)

\* Or such a rename went through p, when p was a directory: a program that
\* holds a directory lost below p can still create files there, and
\* register_file makes a directory again of whatever p is by then.
Shaken(p) == Disturbed(p) \/ \E d \in disturbed : IsBelow(p, d)

\* The renames that the handler does not carry through: onto a path the store
\* or the tree knows, of a directory with contents, and of what is no file of
\* the store (a symlink, or an unlinked file whose lookup still succeeds).
GoesOver(ino, old, new) ==
  \/ new \in DOMAIN store \cup DOMAIN tree.inodes
  \/ ino \in DOMAIN tree.dirs /\ tree.dirs[ino] # {}
  \/ \E p \in DOMAIN acked : p # old /\ IsBelow(old, p)
  \/ ino \notin DOMAIN tree.dirs /\ ~Live(old)

Rename(parent, name, newparent, newname) ==
  LET old == Append(tree.paths[parent], name)
      new == Append(tree.paths[newparent], newname)
      ino == Lookup(parent, name)
      target == Lookup(newparent, newname)
  IN  /\ "rename" \in Requests
      /\ renames < MaxRenames
      /\ renames' = renames + 1
      /\ ino # 0 /\ ino # target
      /\ target # 0 => Kind(ino) = Kind(target)
      /\ ~IsBelow(old, new)
      /\ tree' = Moved(ino, parent, name, newparent, newname)
      /\ store' = IF ino \notin DOMAIN tree.dirs /\ Live(old) THEN Copied(old, new) ELSE store
      /\ acked' = Renamed(old, new)
      /\ disturbed' = disturbed \cup
           (IF GoesOver(ino, old, new) \/ Shaken(old) THEN {old, new} ELSE {})
      /\ UNCHANGED <<symlinks, openFiles, nextFh, xattrs>>
-----------------------------------------------------------------------------
\* setxattr and removexattr, by inode.
SetXattr(ino, x) ==
  /\ "xattr" \in Requests
  /\ Cardinality(xattrs) < MaxXattrs
  /\ xattrs' = xattrs \cup {<<ino, x>>}
  /\ UNCHANGED <<tree, symlinks, openFiles, nextFh, store, acked, disturbed, renames>>

RemoveXattr(ino, x) ==
  /\ "xattr" \in Requests
  /\ xattrs' = xattrs \ {<<ino, x>>}
  /\ UNCHANGED <<tree, symlinks, openFiles, nextFh, store, acked, disturbed, renames>>

OnHandles ==
  \/ \E ino \in DOMAIN tree.paths \ DOMAIN tree.dirs :
       Open(ino) \/ \E size \in 0..MaxLen : Truncate(ino, size)
  \/ \E fh \in DOMAIN openFiles :
       \/ Release(fh)
       \/ \E offset \in 0..(MaxLen - 1), b \in Bytes : Write(fh, offset, <<b>>)

OnNames ==
  \E parent \in Held, name \in Names :
    \/ Create(parent, name)
    \/ Unlink(parent, name)
    \/ \E target \in Targets : Symlink(parent, name, target)
    \/ MkDir(parent, name)
    \/ RmDir(parent, name)
    \/ \E newparent \in Held, newname \in Names : Rename(parent, name, newparent, newname)

OnXattrs ==
  \/ \E ino \in DOMAIN tree.paths, x \in XattrNames : SetXattr(ino, x)
  \/ \E ix \in xattrs : RemoveXattr(ix[1], ix[2])

Next == OnHandles \/ OnNames \/ OnXattrs

Spec == Init /\ [][Next]_vars
-----------------------------------------------------------------------------
TypeOK ==
  /\ tree.next \in Inos /\ DOMAIN tree.paths \subseteq 1..(tree.next - 1)
  /\ \A i \in DOMAIN tree.paths : tree.paths[i] \in Paths
  /\ DOMAIN tree.inodes \subseteq Paths
  /\ \A d \in DOMAIN tree.dirs : \A e \in tree.dirs[d] :
       /\ e.ino \in Inos /\ e.name \in Names /\ e.kind \in {"file", "dir", "symlink"}
  /\ \A i \in DOMAIN tree.parents : tree.parents[i] \in Inos
  /\ \A i \in DOMAIN symlinks : i \in Inos /\ symlinks[i] \in Targets
  /\ \A fh \in DOMAIN openFiles : fh < nextFh
  /\ DOMAIN store \subseteq Paths
  /\ \A p \in DOMAIN store : store[p].version \in 0..NoVersion

\* A path the adapter answers for leads to an inode that has this path: two
\* paths never share an inode, and the handlers that take an inode (read,
\* open, setattr) work on the file the kernel looked up.
MapsAgree ==
  TypeOK /\ \A p \in DOMAIN tree.inodes :
    tree.inodes[p] \in DOMAIN tree.paths /\ tree.paths[tree.inodes[p]] = p

\* What the programs were told is in a file is what its lookup, its listing
\* and its read give, wherever the file was created or moved to - as long as
\* no rename that the handler does not carry through went over a path above
\* or below it.
FilesKept ==
  \A p \in DOMAIN acked : ~Shaken(p) =>
    /\ Live(p) /\ store[p].data = acked[p]
    /\ p \in DOMAIN tree.inodes
    /\ Attr(tree.inodes[p], p) = [kind |-> "file", size |-> Len(acked[p])]
    /\ Parent(p) \in DOMAIN tree.inodes
    /\ \E e \in ReadDir(tree.inodes[Parent(p)]) : e.ino = tree.inodes[p] /\ e.name = BaseName(p)

\* Nothing else is listed: a regular file that readdir shows (and that is no
\* symlink) is one the programs created and did not unlink, and a directory
\* that it shows can be entered.
NoGhosts ==
  \A d \in DOMAIN tree.dirs \cap DOMAIN tree.paths : \A e \in tree.dirs[d] :
    LET p == Append(tree.paths[d], e.name)
    IN  \/ Disturbed(p)
        \/ /\ Lookup(d, e.name) = e.ino
           /\ e.kind = "dir" => e.ino \in DOMAIN tree.dirs /\ tree.parents[e.ino] = d
           /\ e.kind = "file" =>
                \/ p \in DOMAIN acked
                \/ e.ino \in DOMAIN symlinks
                \/ \E i \in DOMAIN SlashlessFiles : SlashlessFiles[i] = p

\* An unlinked file never comes back: no handle that was open on it, and none
\* opened on the path afterwards, can make it live again.
NoResurrection ==
  [][\A p \in DOMAIN store : store[p].deleted => store'[p].deleted]_vars

\* "Writing files (create, update)": a write through a handle whose version is
\* the file's version is accepted.
CurrentHandleWrites ==
  \A fh \in DOMAIN openFiles :
    LET p == openFiles[fh].path
    IN  Live(p) /\ openFiles[fh].version = store[p].version
          => \A offset \in 0..(MaxLen - 1), b \in Bytes : Accepts(p, Expected(fh, offset, <<b>>))

\* "we need to rename it there too": a renamed file has its content at the
\* new path, whatever was there before.
RenameKeepsContent == \A p \in DOMAIN acked : Live(p) /\ store[p].data = acked[p]
=============================================================================
