------------------------------ MODULE FuseShim ------------------------------
(***************************************************************************)
(* EngramFS (fuse_shim.rs): the tree of decoded files that is mounted read-*)
(* only by default.  It is filled through &self by add_file, add_symlink,  *)
(* add_device, add_fifo and add_socket, every map behind a lock of its own *)
(* that is taken and released around one insertion: adders of several      *)
(* threads interleave between any two of them.  Mounting takes the file    *)
(* system by value, so that later only the session's thread works on it.   *)
(*                                                                         *)
(* A path is a sequence of names (normalize_path: one leading slash, none  *)
(* at the end), the root <<>>.                                             *)
(***************************************************************************)
EXTENDS Naturals, Sequences, FiniteSets, Maps, Mount

CONSTANTS
  Threads,   \* adders
  Fuser,     \* the thread of the session
  Calls,     \* [op, path]: the calls adders make; op as in Kinds
  MaxCalls,  \* bound: calls in all
  Names,     \* names a request to the mount can use
  NodKinds,  \* what symlink and mknod requests make
  MaxDepth,  \* bound: names in a path
  ReadOnly   \* read_only

RootIno == 1
Kinds == {"file", "symlink", "char", "block", "fifo", "socket"}

\* The names that occur, and the paths made of them.
AllNames == Names \cup UNION {{call.path[i] : i \in 1..Len(call.path)} : call \in Calls}
Path == Seq(AllNames)

ASSUME CallsAssumption ==
  /\ \A call \in Calls :
       call = [op |-> call.op, path |-> call.path] /\ call.op \in Kinds /\ call.path \in Path
  /\ NodKinds \subseteq Kinds
ASSUME BoundsAssumption == MaxCalls \in Nat /\ MaxDepth \in Nat
ASSUME FuserAssumption == Fuser \notin Threads

VARIABLES
  nodes,        \* inodes and inode_paths: ino -> [kind, nlink, path]
  pathInodes,   \* path_inodes
  directories,  \* ino -> entries, in the order they were pushed
  payload,      \* file_cache, symlinks and devices: the inodes with an entry
  nextIno,
  adder,        \* per thread, see Idle
  calls,        \* counter for the bound
  answered      \* history: the calls that returned, [path, ino, result]

fsVars == <<nodes, pathInodes, directories, payload, nextIno, adder, calls, answered>>
vars == <<fsVars, mountVars>>

\* One add_* call: pc, the call, the directories ensure_directory has found
\* missing (outermost first), the innermost one found, the inode allocated.
AddCall(pc, call, missing, parent, ino) ==
  [pc |-> pc, call |-> call, missing |-> missing, parent |-> parent, ino |-> ino]

Idle == AddCall("idle", [op |-> "file", path |-> <<>>], <<>>, 0, 0)

Parent(p) == SubSeq(p, 1, Len(p) - 1)
BaseName(p) == p[Len(p)]
Entry(ino, p, kind) == [ino |-> ino, name |-> BaseName(p), kind |-> kind]
Node(kind, p) == [kind |-> kind, nlink |-> IF kind = "dir" THEN 2 ELSE 1, path |-> p]

Init ==
  /\ nodes = [i \in {RootIno} |-> Node("dir", <<>>)]
  /\ pathInodes = [p \in {<<>>} |-> RootIno]
  /\ directories = [i \in {RootIno} |-> <<>>]
  /\ payload = {}
  /\ nextIno = RootIno + 1
  /\ adder = [t \in Threads \cup {Fuser} |-> Idle]
  /\ calls = 0
  /\ answered = {}
  /\ MountInit

Goto(t, pc) ==
  LET a == adder[t] IN adder' = [adder EXCEPT ![t] = AddCall(pc, a.call, a.missing, a.parent, a.ino)]

Return(t, result) ==
  /\ adder' = [adder EXCEPT ![t] = Idle]
  /\ answered' = answered \cup
       {[call |-> adder[t].call, ino |-> adder[t].ino, result |-> result]}

\* The head of every add_*: "already exists" is decided here, with the read
\* lock dropped before anything else is done.
Start(t, call) ==
  /\ adder[t].pc = "idle"
  /\ calls < MaxCalls
  /\ calls' = calls + 1
  /\ IF call.path \in DOMAIN pathInodes
     THEN /\ answered' = answered \cup
               {[call |-> call, ino |-> 0, result |-> "exists"]}
          /\ UNCHANGED adder
     ELSE /\ adder' = [adder EXCEPT ![t] = AddCall("climb", call, <<>>, 0, 0)]
          /\ UNCHANGED answered
  /\ UNCHANGED <<nodes, pathInodes, directories, payload, nextIno>>

\* ensure_directory, the way up: the next missing level, or the one found,
\* which may be any inode that has the path.
Climb(t) ==
  LET a == adder[t]
      p == SubSeq(a.call.path, 1, Len(a.call.path) - 1 - Len(a.missing))
  IN  /\ a.pc = "climb"
      /\ adder' = [adder EXCEPT ![t] =
           IF p \in DOMAIN pathInodes
           THEN AddCall("publish", a.call, a.missing, pathInodes[p], 0)
           ELSE AddCall("climb", a.call, <<p>> \o a.missing, 0, 0)]
      /\ UNCHANGED <<nodes, pathInodes, directories, payload, nextIno, calls, answered>>

\* What the call creates next: a missing directory, in the end the node.
Target(a) == IF a.missing = <<>> THEN a.call.path ELSE Head(a.missing)
KindOf(a) == IF a.missing = <<>> THEN a.call.op ELSE "dir"

\* alloc_ino and the insertions into inodes, inode_paths and path_inodes.
Publish(t) ==
  LET a == adder[t]
  IN  /\ a.pc = "publish"
      /\ nodes' = With(nodes, nextIno, Node(KindOf(a), Target(a)))
      /\ pathInodes' = With(pathInodes, Target(a), nextIno)
      /\ nextIno' = nextIno + 1
      /\ adder' = [adder EXCEPT ![t] = AddCall("store", a.call, a.missing, a.parent, nextIno)]
      /\ UNCHANGED <<directories, payload, calls, answered>>

\* Mutant: the node is linked into its directory without its content.
StoreNothing(t) ==
  LET a == adder[t]
  IN  /\ a.pc = "store"
      /\ Goto(t, "link")
      /\ UNCHANGED <<nodes, pathInodes, directories, payload, nextIno, calls, answered>>

\* The insertion into directories, file_cache, symlinks or devices.
Store(t) ==
  LET a == adder[t]
  IN  /\ a.pc = "store"
      /\ directories' = IF KindOf(a) = "dir" THEN With(directories, a.ino, <<>>) ELSE directories
      /\ payload' = IF KindOf(a) \in {"file", "symlink", "char", "block"}
                    THEN payload \cup {a.ino} ELSE payload
      /\ Goto(t, "link")
      /\ UNCHANGED <<nodes, pathInodes, nextIno, calls, answered>>

\* Mutant: the link count of the directory is left alone.
NotCounted(a) == nodes

LinkCounted(a) ==
  IF KindOf(a) = "dir" THEN [nodes EXCEPT ![a.parent].nlink = @ + 1] ELSE nodes

\* What a call answers whose parent has no entries, and a mutant that does
\* not notice.
NoEntriesIgnored == "ok"
NoEntries == "unlinked"

\* The entry in the parent, and its link count.  A parent that has no entries
\* (a file, or a directory whose Store is still to come) fails the call, and
\* what Publish and Store did stays.
Link(t) ==
  LET a == adder[t]
  IN  /\ a.pc = "link"
      /\ IF a.parent \notin DOMAIN directories
         THEN Return(t, NoEntries) /\ UNCHANGED <<nodes, directories>>
         ELSE /\ directories' = [directories EXCEPT ![a.parent] =
                                   Append(@, Entry(a.ino, Target(a), KindOf(a)))]
              /\ nodes' = LinkCounted(a)
              /\ IF a.missing = <<>>
                 THEN Return(t, "ok")
                 ELSE /\ adder' = [adder EXCEPT ![t] =
                            AddCall("publish", a.call, Tail(a.missing), a.ino, 0)]
                      /\ UNCHANGED answered
      /\ UNCHANGED <<pathInodes, payload, nextIno, calls>>

AddStep(t) == Climb(t) \/ Publish(t) \/ Store(t) \/ Link(t)
-----------------------------------------------------------------------------
(* The handlers of the session. *)

\* What readdir lists.
Entries(d) == {directories[d][i] : i \in DOMAIN directories[d]}

\* lookup_entry: the first entry of that name, 0 when there is none.
Lookup(d, name) ==
  LET found == IF d \in DOMAIN directories
               THEN {i \in DOMAIN directories[d] : directories[d][i].name = name} ELSE {}
  IN  IF found = {} THEN 0
      ELSE directories[d][CHOOSE i \in found : \A j \in found : i <= j].ino

\* getattr, opendir, readlink and read find their inode in the maps.
Served(e) ==
  /\ e.ino \in DOMAIN nodes
  /\ nodes[e.ino].kind = e.kind
  /\ e.kind = "dir" => e.ino \in DOMAIN directories
  /\ e.kind \in {"file", "symlink", "char", "block"} => e.ino \in payload

\* get_parent, for .. in readdir: by path, not by entry.
GetParent(ino) ==
  IF ino = RootIno THEN RootIno
  ELSE IF Parent(nodes[ino].path) \in DOMAIN pathInodes THEN pathInodes[Parent(nodes[ino].path)]
  ELSE ino

\* symlink and mknod: the add_* call for the parent's path and the name, for
\* a name whose lookup failed.
Request(op, d, name) ==
  /\ session = "live"
  /\ ~ReadOnly
  /\ nodes[d].kind = "dir" /\ Len(nodes[d].path) < MaxDepth
  /\ Lookup(d, name) = 0
  /\ Start(Fuser, [op |-> op, path |-> Append(nodes[d].path, name)])

\* add_file, add_symlink, add_device, add_fifo and add_socket differ in what
\* they keep for the node: every call takes the same steps.
Adders ==
  \E t \in Threads :
    \/ session = "none" /\ (\E call \in Calls : Start(t, call))
    \/ AddStep(t)

Requests ==
  \/ \E d \in DOMAIN directories, name \in Names, op \in NodKinds : Request(op, d, name)
  \/ AddStep(Fuser)

FileSystem == (Adders \/ Requests) /\ UNCHANGED mountVars

\* The file system is moved into the mount: no call on it is under way.
MountFS(polls) ==
  /\ \A t \in Threads : adder[t].pc = "idle"
  /\ StartMount(polls)
  /\ UNCHANGED fsVars

Session ==
  /\ Handlers \/ Loop \/ UnmountOutside
  /\ UNCHANGED fsVars

Next == FileSystem \/ (\E polls \in BOOLEAN : MountFS(polls)) \/ Session

Fairness ==
  /\ WF_vars(Loop /\ UNCHANGED fsVars)
  /\ \A s \in Signals : WF_vars(StoreFlag(s) /\ UNCHANGED fsVars)

Spec == Init /\ [][Next]_vars /\ Fairness
-----------------------------------------------------------------------------
TypeOK ==
  /\ DOMAIN nodes \subseteq 1..(nextIno - 1)
  /\ \A i \in DOMAIN nodes : nodes[i].kind \in Kinds \cup {"dir"} /\ nodes[i].nlink \in Nat
  /\ \A p \in DOMAIN pathInodes : pathInodes[p] \in DOMAIN nodes /\ nodes[pathInodes[p]].path = p
  /\ DOMAIN directories \subseteq DOMAIN nodes
  /\ payload \subseteq DOMAIN nodes
  /\ adder[Fuser].pc # "idle" => session # "none"
  /\ calls \in 0..MaxCalls

Quiet == \A t \in DOMAIN adder : adder[t].pc = "idle"

\* Whatever readdir lists can be stat'ed, entered, read or followed at once:
\* an entry appears only when everything behind it is in place.  (And the
\* maps are well-formed: TypeOK.)
ListedIsServed == TypeOK /\ \A d \in DOMAIN directories : \A e \in Entries(d) : Served(e)

\* lookup, name by name from the root along p, ends at ino.
LeadsTo(p, ino) ==
  \E walk \in [0..Len(p) -> DOMAIN nodes] :
    /\ walk[0] = RootIno /\ walk[Len(p)] = ino
    /\ \A k \in 1..Len(p) : walk[k] = Lookup(walk[k - 1], p[k])

\* One node has the path, and no call broke off that was to list it.
Settled(p) ==
  /\ \A i, j \in DOMAIN nodes : nodes[i].path = p /\ nodes[j].path = p => i = j
  /\ \A a \in answered : a.result = "unlinked" => nodes[a.ino].path # p

\* Every add that returned Ok can be opened by its path once no call is under
\* way, if the directories above it are settled: lookup along the path ends at
\* a node of that path, the one acknowledged unless another call has made the
\* same path.  Below a directory that two adds have made, lookup enters the
\* first one listed, and what lies in the other is not found.
OkIsReachable ==
  Quiet =>
    \A a \in answered :
      LET p == a.call.path
      IN  a.result = "ok" /\ (\A k \in 1..(Len(p) - 1) : Settled(SubSeq(p, 1, k))) =>
            \E i \in DOMAIN nodes :
              /\ LeadsTo(p, i) /\ nodes[i].path = p
              /\ Settled(p) => i = a.ino

\* What Ok says to the caller of add_file, a file that is in the file system,
\* is more than that: the walk finds every file, also below a directory that
\* two adds have made at the same time.
OkIsFound ==
  Quiet /\ (\A a \in answered : a.result # "unlinked") =>
    \A a \in answered : a.result = "ok" =>
      \E i \in DOMAIN nodes : LeadsTo(a.call.path, i) /\ nodes[i].path = a.call.path

\* A directory counts its subdirectories, and ".." leads back from each of
\* them, unless two adds have made two nodes of one path.
DirectoriesAgree ==
  Quiet => \A d \in DOMAIN directories :
    LET subdirs == {e \in Entries(d) : e.kind = "dir"}
    IN  /\ nodes[d].nlink = 2 + Cardinality(subdirs)
        /\ \A e \in subdirs :
             GetParent(e.ino) = d \/ \E i \in DOMAIN nodes \ {d} : nodes[i].path = nodes[d].path

=============================================================================
