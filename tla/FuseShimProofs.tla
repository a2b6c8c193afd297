--------------------------- MODULE FuseShimProofs ---------------------------
(***************************************************************************)
(* The tree of EngramFS, for any threads, calls, requests and bounds: what *)
(* is listed is served (ListedServed), every add that returned Ok is found *)
(* by lookup along its path unless a directory above it was made twice or  *)
(* left by a call that broke off (OkReached), directories count and find   *)
(* their subdirectories (TreeAgrees).  The mount around it: the message    *)
(* names a signal that arrived (MessageTrue, MountMessageTrue).            *)
(*                                                                         *)
(* The invariant Inv has six parts.  Tables: the maps agree on paths.      *)
(* Listing: an entry is served, it is named for its node, whose path is    *)
(* below its directory's, and a directory's link count counts its entries. *)
(* Adders: where each call stands on the way down from the directory it    *)
(* found, and that the node it is making is its own and listed nowhere.    *)
(* Placed: no other node is listed nowhere, unless a call broke off that   *)
(* was to list it.  Results: what Ok promised.  Control: the bound.        *)
(***************************************************************************)
EXTENDS FuseShim, FiniteSetTheorems, SequenceTheorems, WellFoundedInduction, TLAPS

Callers == Threads \cup {Fuser}

\* The first k names of a path.
Prefix(p, k) == SubSeq(p, 1, k)

\* ensure_directory has found these levels above the path missing.
OnTheWay(path, missing) ==
  /\ path \in Path /\ missing \in Seq(Path) /\ Len(missing) < Len(path)
  /\ \A k \in 1..Len(missing) : missing[k] = Prefix(path, Len(path) - 1 - Len(missing) + k)

\* The directory a call has found or just made.
Base(a) == Prefix(a.call.path, Len(a.call.path) - 1 - Len(a.missing))

\* A call has given an inode to its node, which has no entry yet.
Making(a) == a.pc \in {"store", "link"}
Unlisted(i) == \A d \in DOMAIN directories : \A e \in Entries(d) : e.ino # i

IsMap(f) == f = [x \in DOMAIN f |-> f[x]]

Tables ==
  /\ nextIno \in Nat /\ nextIno > RootIno
  /\ IsMap(nodes) /\ IsMap(pathInodes) /\ IsMap(directories)
  /\ DOMAIN nodes \subseteq 1..(nextIno - 1)
  /\ \A i \in DOMAIN nodes :
       /\ nodes[i] = [kind |-> nodes[i].kind, nlink |-> nodes[i].nlink, path |-> nodes[i].path]
       /\ nodes[i].kind \in Kinds \cup {"dir"} /\ nodes[i].nlink \in Nat
       /\ nodes[i].path \in Path /\ nodes[i].path \in DOMAIN pathInodes
       /\ nodes[i].path = <<>> => i = RootIno
  /\ \A p \in DOMAIN pathInodes : pathInodes[p] \in DOMAIN nodes /\ nodes[pathInodes[p]].path = p
  /\ <<>> \in DOMAIN pathInodes
  /\ DOMAIN directories \subseteq DOMAIN nodes /\ payload \subseteq DOMAIN nodes

Subdirs(d) == {e \in Entries(d) : e.kind = "dir"}

EntryType == [ino : Nat, name : AllNames, kind : Kinds \cup {"dir"}]

\* An entry stands for a node one name further down.
Below(d, e) ==
  /\ nodes[e.ino].path # <<>> /\ Parent(nodes[e.ino].path) = nodes[d].path
  /\ e.name = BaseName(nodes[e.ino].path)

Listing ==
  \A d \in DOMAIN directories :
    /\ directories[d] \in Seq(EntryType) /\ IsFiniteSet(Entries(d))
    /\ nodes[d].nlink = 2 + Cardinality(Subdirs(d))
    /\ \A e \in Entries(d) : Served(e) /\ Below(d, e)

AdderOK(a) ==
  /\ a = AddCall(a.pc, a.call, a.missing, a.parent, a.ino)
  /\ a.pc \in {"idle", "climb", "publish", "store", "link"}
  /\ a.pc # "idle" => a.call.op \in Kinds /\ OnTheWay(a.call.path, a.missing)
  /\ a.pc \in {"publish", "store", "link"} =>
       a.parent \in DOMAIN nodes /\ nodes[a.parent].path = Base(a)
  /\ a.pc = "store" => nodes[a.ino] = Node(KindOf(a), Target(a)) /\ a.ino \notin DOMAIN directories
  /\ a.pc = "link" => Served([ino |-> a.ino, kind |-> KindOf(a)]) /\ nodes[a.ino].path = Target(a)
  /\ Making(a) => a.ino \in DOMAIN nodes /\ Unlisted(a.ino)

AddersOK ==
  /\ adder = [t \in Callers |-> adder[t]]
  /\ \A t \in Callers : AdderOK(adder[t])
  /\ \A t, u \in Callers :
       t # u /\ Making(adder[t]) /\ Making(adder[u]) => adder[t].ino # adder[u].ino

\* A call broke off that was to list the node.
Orphan(i) == \E a \in answered : a.result = "unlinked" /\ a.ino = i

Placed ==
  \A i \in DOMAIN nodes : i # RootIno =>
    \/ ~Unlisted(i)
    \/ \E t \in Callers : Making(adder[t]) /\ adder[t].ino = i
    \/ Orphan(i)

Results ==
  \A a \in answered : a.result = "ok" =>
    a.ino \in DOMAIN nodes /\ nodes[a.ino].path = a.call.path /\ ~Unlisted(a.ino)

Control == calls \in 0..MaxCalls /\ (adder[Fuser].pc # "idle" => session # "none")

Inv == Tables /\ Listing /\ AddersOK /\ Placed /\ Results /\ Control
-----------------------------------------------------------------------------
(* Paths. *)

LEMMA PrefixOK ==
  ASSUME NEW p \in Path, NEW k \in 0..Len(p)
  PROVE  /\ Prefix(p, k) \in Path /\ Len(Prefix(p, k)) = k
         /\ \A i \in 1..k : Prefix(p, k)[i] = p[i]
<1>1. p \in Seq(AllNames) /\ Len(p) \in Nat /\ \A i \in 1..Len(p) : p[i] \in AllNames
  BY LenProperties, ElementOfSeq DEF Path
<1>2. k \in Int /\ 1 \in Int /\ \A i \in 1..k : p[i] \in AllNames
  BY <1>1
<1>3. /\ SubSeq(p, 1, k) \in Seq(AllNames)
      /\ Len(SubSeq(p, 1, k)) = IF 1 <= k THEN k - 1 + 1 ELSE 0
      /\ \A i \in 1..(k - 1 + 1) : SubSeq(p, 1, k)[i] = p[1 + i - 1]
  BY <1>2, SubSeqProperties
<1>4. Len(SubSeq(p, 1, k)) = k
  BY <1>1, <1>3
<1>5. \A i \in 1..k : i \in 1..(k - 1 + 1) /\ 1 + i - 1 = i
  BY <1>1
<1> QED BY <1>3, <1>4, <1>5 DEF Prefix, Path

\* The parent of a prefix is the next shorter one.
LEMMA ParentOfPrefix ==
  ASSUME NEW p \in Path, NEW k \in 1..Len(p)
  PROVE  Parent(Prefix(p, k)) = Prefix(p, k - 1)
<1>1. Len(p) \in Nat
  BY LenProperties DEF Path
<1>2. k \in 0..Len(p) /\ k - 1 \in 0..Len(p)
  BY <1>1
<1>3. /\ Prefix(p, k) \in Path /\ Len(Prefix(p, k)) = k
      /\ \A i \in 1..k : Prefix(p, k)[i] = p[i]
  BY <1>2, PrefixOK
<1>4. /\ Prefix(p, k - 1) \in Path /\ Len(Prefix(p, k - 1)) = k - 1
      /\ \A i \in 1..(k - 1) : Prefix(p, k - 1)[i] = p[i]
  BY <1>2, PrefixOK
<1>5. k - 1 \in 0..Len(Prefix(p, k))
  BY <1>1, <1>3
<1> DEFINE q == Prefix(p, k)
<1>6. /\ Prefix(q, k - 1) \in Path /\ Len(Prefix(q, k - 1)) = k - 1
      /\ \A i \in 1..(k - 1) : Prefix(q, k - 1)[i] = q[i]
  BY <1>3, <1>5, PrefixOK
<1>7. \A i \in 1..(k - 1) : Prefix(q, k - 1)[i] = Prefix(p, k - 1)[i]
  <2>1. \A i \in 1..(k - 1) : i \in 1..k
    BY <1>1
  <2> QED BY <1>3, <1>4, <1>6, <2>1
<1>8. Prefix(q, k - 1) = Prefix(p, k - 1)
  <2> HIDE DEF q
  <2> QED BY <1>4, <1>6, <1>7, SeqEqual DEF Path
<1>9. Parent(q) = Prefix(q, k - 1)
  BY <1>3 DEF Parent, Prefix
<1> QED BY <1>8, <1>9

LEMMA WholePrefix ==
  ASSUME NEW p \in Path PROVE Len(p) \in Nat /\ Prefix(p, Len(p)) = p
BY LenProperties, SubSeqFull DEF Path, Prefix

LEMMA ParentLength ==
  ASSUME NEW p \in Path, p # <<>>
  PROVE  Len(p) \in Nat \ {0} /\ Parent(p) \in Path /\ Len(Parent(p)) = Len(p) - 1
<1>1. Len(p) \in Nat /\ Len(p) # 0
  BY LenProperties, EmptySeq DEF Path
<1>2. Len(p) - 1 \in 0..Len(p)
  BY <1>1
<1>3. Parent(p) = Prefix(p, Len(p) - 1)
  BY DEF Parent, Prefix
<1> QED BY <1>1, <1>2, <1>3, PrefixOK

LEMMA BaseNameOK ==
  ASSUME NEW p \in Path, p # <<>> PROVE BaseName(p) \in AllNames
<1>1. Len(p) \in 1..Len(p)
  BY ParentLength
<1> QED BY <1>1, ElementOfSeq DEF BaseName, Path

\* A path is its parent and its last name.
LEMMA SamePath ==
  ASSUME NEW p \in Path, p # <<>>, NEW q \in Path, q # <<>>,
         Parent(p) = Parent(q), BaseName(p) = BaseName(q)
  PROVE  p = q
<1>1. /\ Len(p) \in Nat \ {0} /\ Len(q) \in Nat \ {0}
      /\ Len(Parent(p)) = Len(p) - 1 /\ Len(Parent(q)) = Len(q) - 1
  BY ParentLength
<1>2. Len(p) = Len(q) /\ Len(p) - 1 \in 0..Len(p)
  BY <1>1
<1>3. Parent(p) = Prefix(p, Len(p) - 1) /\ Parent(q) = Prefix(q, Len(q) - 1)
  BY DEF Parent, Prefix
<1>4. \A i \in 1..(Len(p) - 1) : p[i] = q[i]
  <2>1. \A i \in 1..(Len(p) - 1) : Prefix(p, Len(p) - 1)[i] = p[i]
    BY <1>2, PrefixOK
  <2>2. \A i \in 1..(Len(q) - 1) : Prefix(q, Len(q) - 1)[i] = q[i]
    BY <1>2, PrefixOK
  <2> QED BY <1>2, <1>3, <2>1, <2>2
<1>5. p[Len(p)] = q[Len(p)]
  BY <1>2 DEF BaseName
<1>6. \A i \in 1..Len(p) : i \in 1..(Len(p) - 1) \/ i = Len(p)
  BY <1>1
<1>7. \A i \in 1..Len(p) : p[i] = q[i]
  BY <1>4, <1>5, <1>6
<1> QED BY <1>2, <1>7, SeqEqual DEF Path

\* The node made next lies in the directory found or made last.
LEMMA TargetOK ==
  ASSUME NEW a, OnTheWay(a.call.path, a.missing)
  PROVE  /\ Base(a) \in Path /\ Target(a) \in Path /\ Target(a) # <<>>
         /\ Parent(Target(a)) = Base(a)
<1> DEFINE p == a.call.path
           m == a.missing
           k == Len(p) - Len(m)
<1>1. /\ p \in Path /\ m \in Seq(Path) /\ Len(p) \in Nat /\ Len(m) \in Nat /\ Len(m) < Len(p)
      /\ \A j \in 1..Len(m) : m[j] = Prefix(p, Len(p) - 1 - Len(m) + j)
  BY LenProperties DEF OnTheWay, Path
<1>2. k \in 1..Len(p) /\ k - 1 \in 0..Len(p) /\ k \in 0..Len(p) /\ Len(p) - 1 - Len(m) = k - 1
  <2> HIDE DEF p, m
  <2> QED BY <1>1
<1>3. Target(a) = Prefix(p, k)
  <2>1. CASE m = <<>>
    <3>1. Len(m) = 0
      BY <2>1
    <3>2. k = Len(p)
      BY <1>1, <3>1
    <3> QED BY <1>1, <2>1, <3>2, WholePrefix DEF Target
  <2>2. CASE m # <<>>
    <3>1. Len(m) # 0
      BY <1>1, <2>2, EmptySeq
    <3>2. 1 \in 1..Len(m) /\ Len(p) - 1 - Len(m) + 1 = k
      BY <1>1, <3>1
    <3>3. Target(a) = m[1]
      BY <2>2 DEF Target
    <3>4. m[1] = Prefix(p, Len(p) - 1 - Len(m) + 1)
      BY <1>1, <3>2
    <3> HIDE DEF p, m, k
    <3> QED BY <3>2, <3>3, <3>4
  <2> QED BY <2>1, <2>2
<1>4. Base(a) = Prefix(p, k - 1)
  <2>1. Base(a) = Prefix(p, Len(p) - 1 - Len(m))
    BY DEF Base
  <2> HIDE DEF p, m, k
  <2> QED BY <1>2, <2>1
<1> HIDE DEF p, m, k
<1>5. Prefix(p, k) \in Path /\ Len(Prefix(p, k)) = k
  BY <1>1, <1>2, PrefixOK
<1>6. Prefix(p, k) # <<>>
  <2>1. Len(<<>>) = 0
    OBVIOUS
  <2>2. k # 0
    BY <1>1, <1>2
  <2> QED BY <1>5, <2>1, <2>2
<1>7. Prefix(p, k - 1) \in Path
  BY <1>1, <1>2, PrefixOK
<1> QED BY <1>1, <1>2, <1>3, <1>4, <1>5, <1>6, <1>7, ParentOfPrefix

\* One level more is missing.
LEMMA ClimbsOn ==
  ASSUME NEW path, NEW missing, OnTheWay(path, missing),
         Prefix(path, Len(path) - 1 - Len(missing)) # <<>>
  PROVE  OnTheWay(path, <<Prefix(path, Len(path) - 1 - Len(missing))>> \o missing)
<1> DEFINE k == Len(path) - 1 - Len(missing)
           q == Prefix(path, k)
           more == <<q>> \o missing
<1>1. /\ path \in Path /\ missing \in Seq(Path) /\ Len(path) \in Nat /\ Len(missing) \in Nat
      /\ Len(missing) < Len(path)
      /\ \A j \in 1..Len(missing) : missing[j] = Prefix(path, Len(path) - 1 - Len(missing) + j)
  BY LenProperties DEF OnTheWay, Path
<1>2. k \in 0..Len(path)
  BY <1>1
<1>3. k # 0
  <2> SUFFICES ASSUME k = 0 PROVE FALSE
    OBVIOUS
  <2>1. Prefix(path, 0) = <<>>
    BY SubSeqEmpty DEF Prefix
  <2> QED BY <2>1
<1>4. q \in Path
  BY <1>1, <1>2, PrefixOK
<1>5. <<q>> \in Seq(Path) /\ Len(<<q>>) = 1 /\ <<q>>[1] = q
  BY <1>4
<1>6. /\ more \in Seq(Path) /\ Len(more) = 1 + Len(missing)
      /\ \A j \in 1..(1 + Len(missing)) : more[j] = IF j <= 1 THEN <<q>>[j] ELSE missing[j - 1]
  <2> HIDE DEF q
  <2> QED BY <1>1, <1>5, ConcatProperties
<1> HIDE DEF more
<1>7. Len(more) < Len(path)
  BY <1>1, <1>2, <1>3, <1>6
<1>8. ASSUME NEW j \in 1..Len(more) PROVE more[j] = Prefix(path, Len(path) - 1 - Len(more) + j)
  <2>1. j \in 1..(1 + Len(missing))
    BY <1>6
  <2>2. CASE j = 1
    <3>1. Len(path) - 1 - Len(more) + j = k
      BY <1>1, <1>6, <2>2
    <3>2. more[j] = q
      BY <1>1, <1>5, <1>6, <2>1, <2>2
    <3> HIDE DEF k
    <3> QED BY <3>1, <3>2
  <2>3. CASE j # 1
    <3>1. /\ j - 1 \in 1..Len(missing) /\ ~ (j <= 1)
          /\ Len(path) - 1 - Len(missing) + (j - 1) = Len(path) - 1 - Len(more) + j
      BY <1>1, <1>6, <2>1, <2>3
    <3>2. more[j] = missing[j - 1]
      BY <1>6, <2>1, <3>1
    <3>3. missing[j - 1] = Prefix(path, Len(path) - 1 - Len(missing) + (j - 1))
      BY <1>1, <3>1
    <3> QED BY <3>1, <3>2, <3>3
  <2> QED BY <2>2, <2>3
<1>9. OnTheWay(path, more)
  BY <1>1, <1>6, <1>7, <1>8 DEF OnTheWay
<1> QED BY <1>9 DEF more

\* One level less: the directory just made is the one to go on from.
LEMMA GoesDown ==
  ASSUME NEW path, NEW missing, OnTheWay(path, missing), missing # <<>>
  PROVE  /\ OnTheWay(path, Tail(missing))
         /\ Head(missing) = Prefix(path, Len(path) - 1 - Len(Tail(missing)))
<1> DEFINE rest == Tail(missing)
<1>1. /\ path \in Path /\ missing \in Seq(Path) /\ Len(path) \in Nat /\ Len(missing) \in Nat
      /\ Len(missing) < Len(path)
      /\ \A j \in 1..Len(missing) : missing[j] = Prefix(path, Len(path) - 1 - Len(missing) + j)
  BY LenProperties DEF OnTheWay, Path
<1>2. /\ rest \in Seq(Path) /\ Len(rest) = Len(missing) - 1
      /\ \A j \in 1..Len(rest) : rest[j] = missing[j + 1]
  BY <1>1, HeadTailProperties
<1>3. Len(missing) # 0
  BY <1>1, EmptySeq
<1>4. Head(missing) = missing[1]
  OBVIOUS
<1> HIDE DEF rest
<1>5. Len(rest) < Len(path)
  BY <1>1, <1>2
<1>6. ASSUME NEW j \in 1..Len(rest) PROVE rest[j] = Prefix(path, Len(path) - 1 - Len(rest) + j)
  <2>1. j + 1 \in 1..Len(missing) /\ Len(path) - 1 - Len(missing) + (j + 1) = Len(path) - 1 - Len(rest) + j
    BY <1>1, <1>2
  <2>2. missing[j + 1] = Prefix(path, Len(path) - 1 - Len(missing) + (j + 1))
    BY <1>1, <2>1
  <2> QED BY <1>2, <2>1, <2>2
<1>7. 1 \in 1..Len(missing) /\ Len(path) - 1 - Len(missing) + 1 = Len(path) - 1 - Len(rest)
  BY <1>1, <1>2, <1>3
<1>8. missing[1] = Prefix(path, Len(path) - 1 - Len(missing) + 1)
  BY <1>1, <1>7
<1>9. OnTheWay(path, rest) /\ Head(missing) = Prefix(path, Len(path) - 1 - Len(rest))
  BY <1>1, <1>2, <1>4, <1>5, <1>6, <1>7, <1>8 DEF OnTheWay
<1> QED BY <1>9 DEF rest
-----------------------------------------------------------------------------
(* What a step keeps. *)

\* No step removes a node, a directory or a content, and none renames.
Kept ==
  /\ DOMAIN nodes \subseteq DOMAIN nodes'
  /\ \A i \in DOMAIN nodes : nodes'[i].kind = nodes[i].kind /\ nodes'[i].path = nodes[i].path
  /\ DOMAIN directories \subseteq DOMAIN directories'
  /\ payload \subseteq payload'

LEMMA ServedKept ==
  ASSUME Kept PROVE \A e : Served(e) => Served(e)'
BY DEF Kept, Served

LEMMA SameEntries ==
  ASSUME NEW d, directories'[d] = directories[d] PROVE Entries(d)' = Entries(d) /\ Subdirs(d)' = Subdirs(d)
BY DEF Entries, Subdirs

LEMMA BelowKept ==
  ASSUME Kept, NEW d \in DOMAIN nodes, NEW e, e.ino \in DOMAIN nodes, Below(d, e) PROVE Below(d, e)'
BY DEF Kept, Below, Parent, BaseName

\* The calls of the other threads stand where they stood, when the step leaves
\* alone the nodes they are making.
LEMMA OthersOK ==
  ASSUME AddersOK, Kept, NEW t \in Callers, NEW b, adder' = [adder EXCEPT ![t] = b],
         AdderOK(adder[t])',
         \A u \in Callers \ {t} : Making(adder[u]) =>
           /\ \A d \in DOMAIN directories' : \A e \in Entries(d)' : e.ino # adder[u].ino
           /\ adder[u].pc = "store" =>
                nodes'[adder[u].ino] = nodes[adder[u].ino] /\ adder[u].ino \notin DOMAIN directories',
         Making(b) => (Making(adder[t]) /\ b.ino = adder[t].ino) \/ b.ino \notin DOMAIN nodes
  PROVE  AddersOK'
<1>1. /\ adder' = [u \in Callers |-> adder'[u]]
      /\ adder'[t] = b /\ \A u \in Callers : u # t => adder'[u] = adder[u]
  BY DEF AddersOK
<1>2. \A u \in Callers : AdderOK(adder[u])
  BY DEF AddersOK
<1>3. ASSUME NEW u \in Callers PROVE AdderOK(adder[u])'
  <2>1. CASE u = t
    BY <2>1
  <2>2. CASE u # t
    <3> DEFINE a == adder[u]
    <3>1. a' = a
      BY <1>1, <2>2
    <3>2. AdderOK(a)
      BY <1>2
    <3>3. Making(a) => \A d \in DOMAIN directories' : \A e \in Entries(d)' : e.ino # a.ino
      BY <2>2
    <3>4. a.pc = "store" => nodes'[a.ino] = nodes[a.ino] /\ a.ino \notin DOMAIN directories'
      BY <2>2 DEF Making
    <3>5. Unlisted(a.ino)' <=> \A d \in DOMAIN directories' : \A e \in Entries(d)' : e.ino # a.ino
      BY <3>1 DEF Unlisted
    <3> HIDE DEF a
    <3>6. /\ a = AddCall(a.pc, a.call, a.missing, a.parent, a.ino)
          /\ a.pc \in {"idle", "climb", "publish", "store", "link"}
          /\ a.pc # "idle" => a.call.op \in Kinds /\ OnTheWay(a.call.path, a.missing)
      BY <3>2 DEF AdderOK
    <3>7. a.pc \in {"publish", "store", "link"} =>
            a.parent \in DOMAIN nodes' /\ nodes'[a.parent].path = Base(a)
      BY <3>2 DEF AdderOK, Kept
    <3>8. a.pc = "store" => nodes'[a.ino] = Node(KindOf(a), Target(a)) /\ a.ino \notin DOMAIN directories'
      BY <3>2, <3>4 DEF AdderOK
    <3>9. a.pc = "link" => a.ino \in DOMAIN nodes /\ nodes'[a.ino].path = Target(a)
      BY <3>2 DEF AdderOK, Kept, Making
    <3>10. Served([ino |-> a.ino, kind |-> KindOf(a)]) =>
             LET e == [ino |-> a.ino, kind |-> KindOf(a)]
             IN  /\ e.ino \in DOMAIN nodes' /\ nodes'[e.ino].kind = e.kind
                 /\ e.kind = "dir" => e.ino \in DOMAIN directories'
                 /\ e.kind \in {"file", "symlink", "char", "block"} => e.ino \in payload'
      BY DEF Kept, Served
    <3>11. a.pc = "link" => Served([ino |-> a.ino, kind |-> KindOf(a)])
      BY <3>2 DEF AdderOK
    <3>12. Making(a) => a.ino \in DOMAIN nodes'
      BY <3>2 DEF AdderOK, Kept
    <3>13. KindOf(a)' = KindOf(a) /\ Base(a)' = Base(a) /\ Target(a)' = Target(a)
      BY <3>1 DEF KindOf, Base, Target
    <3>14. a.pc = "link" => Served([ino |-> a.ino, kind |-> KindOf(a)])'
      BY <3>1, <3>10, <3>11, <3>13 DEF Served
    <3>15. AdderOK(a)'
      BY <3>1, <3>3, <3>5, <3>6, <3>7, <3>8, <3>9, <3>12, <3>13, <3>14 DEF AdderOK, Making
    <3> QED BY <3>15 DEF a
  <2> QED BY <2>1, <2>2
<1>4. \A u \in Callers : Making(adder[u]) => adder[u].ino \in DOMAIN nodes
  BY <1>2 DEF AdderOK
<1>5. \A u, v \in Callers :
        u # v /\ Making(adder[u]) /\ Making(adder[v]) => adder[u].ino # adder[v].ino
  BY DEF AddersOK
<1>6. ASSUME NEW u \in Callers, u # t, Making(adder[u]), Making(b) PROVE adder[u].ino # b.ino
  BY <1>4, <1>5, <1>6
<1>7. ASSUME NEW u \in Callers, NEW v \in Callers, u # v, Making(adder'[u]), Making(adder'[v])
      PROVE adder'[u].ino # adder'[v].ino
  <2>1. CASE u = t
    BY <1>1, <1>6, <1>7, <2>1
  <2>2. CASE v = t
    BY <1>1, <1>6, <1>7, <2>2
  <2>3. CASE u # t /\ v # t
    BY <1>1, <1>5, <1>7, <2>3
  <2> QED BY <2>1, <2>2, <2>3
<1>8. \A u, v \in Callers :
        u # v /\ Making(adder[u])' /\ Making(adder[v])' => (adder[u].ino)' # (adder[v].ino)'
  BY <1>7 DEF Making
<1> QED BY <1>1, <1>3, <1>8 DEF AddersOK
-----------------------------------------------------------------------------
(* The steps of a call. *)

LEMMA InitOK == Init => Inv
<1> SUFFICES ASSUME Init PROVE Inv
  OBVIOUS
<1>1. /\ nodes = [i \in {RootIno} |-> Node("dir", <<>>)]
      /\ pathInodes = [p \in {<<>>} |-> RootIno]
      /\ directories = [i \in {RootIno} |-> <<>>]
      /\ payload = {} /\ nextIno = RootIno + 1 /\ calls = 0 /\ answered = {}
      /\ adder = [t \in Callers |-> Idle]
  BY DEF Init, Callers
<1>2. <<>> \in Path
  BY EmptySeq DEF Path
<1>3. nodes[RootIno] = [kind |-> "dir", nlink |-> 2, path |-> <<>>]
  BY <1>1 DEF Node
<1>4. RootIno = 1
  BY DEF RootIno
<1>5. Tables
  BY <1>1, <1>2, <1>3, <1>4 DEF Tables, IsMap
<1>6. Listing
  <2>1. directories[RootIno] = <<>> /\ <<>> \in Seq(EntryType)
    BY <1>1, EmptySeq
  <2>2. Entries(RootIno) = {} /\ Subdirs(RootIno) = {}
    BY <2>1 DEF Entries, Subdirs
  <2>3. IsFiniteSet(Entries(RootIno)) /\ nodes[RootIno].nlink = 2 + Cardinality(Subdirs(RootIno))
    BY <1>3, <2>2, FS_EmptySet
  <2> QED BY <1>1, <2>1, <2>2, <2>3 DEF Listing
<1>7. AddersOK
  <2>1. Idle = AddCall("idle", Idle.call, <<>>, 0, 0) /\ Idle.pc = "idle"
        /\ Idle.missing = <<>> /\ Idle.parent = 0 /\ Idle.ino = 0
    BY DEF Idle, AddCall
  <2>2. AdderOK(Idle) /\ ~Making(Idle)
    BY <2>1 DEF AdderOK, Making
  <2> QED BY <1>1, <2>2 DEF AddersOK
<1>8. Placed
  BY <1>1, <1>4 DEF Placed
<1>9. Results
  BY <1>1 DEF Results
<1>10. Control
  <2>1. adder[Fuser].pc = "idle"
    BY <1>1 DEF Idle, AddCall, Callers
  <2> QED BY <1>1, <2>1, BoundsAssumption DEF Control
<1> QED BY <1>5, <1>6, <1>7, <1>8, <1>9, <1>10 DEF Inv

\* The maps stay as they are and t goes on from b, making nothing new: what
\* Start, Climb and the failure of Link have in common.
LEMMA SameTree ==
  ASSUME Inv, NEW t \in Callers, NEW b, adder' = [adder EXCEPT ![t] = b],
         UNCHANGED <<nodes, pathInodes, directories, payload, nextIno>>,
         AdderOK(adder[t])', ~Making(b), answered \subseteq answered',
         Making(adder[t]) => \E x \in answered' : x.result = "unlinked" /\ x.ino = adder[t].ino
  PROVE  Tables' /\ Listing' /\ AddersOK' /\ Placed'
<1>1. Tables'
  BY DEF Inv, Tables, IsMap
<1>2. \A e : Served(e)' <=> Served(e)
  BY DEF Served
<1>3. Listing'
  <2>1. \A d : Subdirs(d)' = Subdirs(d) /\ Entries(d)' = Entries(d)
    BY SameEntries
  <2>2. \A d, e : Below(d, e)' <=> Below(d, e)
    BY DEF Below, Parent, BaseName
  <2>3. Listing
    BY DEF Inv
  <2> QED BY <1>2, <2>1, <2>2, <2>3 DEF Listing
<1>4. Kept
  BY DEF Kept
<1>5. AddersOK
  BY DEF Inv
<1>6. \A i : Unlisted(i)' <=> Unlisted(i)
  BY DEF Unlisted, Entries
<1>7. \A u \in Callers : Making(adder[u]) =>
        Unlisted(adder[u].ino) /\ (adder[u].pc = "store" => adder[u].ino \notin DOMAIN directories)
  BY <1>5 DEF AddersOK, AdderOK
<1>8. AddersOK'
  <2>1. \A u \in Callers \ {t} : Making(adder[u]) =>
          /\ \A d \in DOMAIN directories' : \A e \in Entries(d)' : e.ino # adder[u].ino
          /\ adder[u].pc = "store" =>
               nodes'[adder[u].ino] = nodes[adder[u].ino] /\ adder[u].ino \notin DOMAIN directories'
    BY <1>7 DEF Unlisted, Entries
  <2> QED BY <1>4, <1>5, <2>1, OthersOK
<1>9. Placed'
  <2>1. \A u \in Callers : u # t => adder'[u] = adder[u]
    BY <1>5 DEF AddersOK
  <2>2. \A i : Orphan(i) => Orphan(i)'
    BY DEF Orphan
  <2>3. \A u \in Callers : \A i : Making(adder[u]) /\ adder[u].ino = i =>
          Orphan(i)' \/ (Making(adder'[u]) /\ adder'[u].ino = adder[u].ino)
    BY <2>1 DEF Orphan
  <2> QED BY <1>6, <2>2, <2>3 DEF Inv, Placed, Making
<1> QED BY <1>1, <1>3, <1>8, <1>9

\* A call that is made, by an adder or for a request.
LEMMA StartOK ==
  ASSUME Inv, NEW t \in Callers, NEW call, call.op \in Kinds, call.path \in Path,
         Start(t, call), t = Fuser => session # "none", UNCHANGED mountVars
  PROVE  Inv'
<1>1. /\ calls \in 0..MaxCalls /\ calls' = calls + 1 /\ calls < MaxCalls
      /\ adder[t].pc = "idle" /\ session' = session
      /\ UNCHANGED <<nodes, pathInodes, directories, payload, nextIno>>
  BY DEF Start, Inv, Control, mountVars
<1>2. answered \subseteq answered' /\ \A a \in answered' : a.result = "ok" => a \in answered
  BY DEF Start
<1>3. /\ adder = [u \in Callers |-> adder[u]]
      /\ \A u \in Callers : AdderOK(adder[u])
      /\ <<>> \in DOMAIN pathInodes
  BY DEF Inv, AddersOK, Tables
<1> DEFINE b == AddCall("climb", call, <<>>, 0, 0)
<1>4. b = AddCall(b.pc, b.call, b.missing, b.parent, b.ino)
      /\ b.pc = "climb" /\ b.call = call /\ b.missing = <<>>
  BY DEF AddCall
<1>5. call.path # <<>> => OnTheWay(call.path, <<>>)
  <2>1. Len(call.path) \in Nat /\ (call.path # <<>> => Len(call.path) # 0)
    BY LenProperties, EmptySeq DEF Path
  <2>2. <<>> \in Seq(Path) /\ Len(<<>>) = 0
    BY EmptySeq
  <2> QED BY <2>1, <2>2 DEF OnTheWay
<1>6. \E c : adder' = [adder EXCEPT ![t] = c] /\ ~Making(c) /\ AdderOK(adder[t])'
  <2>1. CASE call.path \in DOMAIN pathInodes
    <3>1. adder' = [adder EXCEPT ![t] = adder[t]] /\ adder'[t] = adder[t]
      BY <1>3, <2>1 DEF Start
    <3>2. ~Making(adder[t])
      BY <1>1 DEF Making
    <3>3. AdderOK(adder[t])'
      BY <1>1, <1>3, <3>1 DEF AdderOK, Making
    <3> QED BY <3>1, <3>2, <3>3
  <2>2. CASE call.path \notin DOMAIN pathInodes
    <3>1. adder' = [adder EXCEPT ![t] = b] /\ adder'[t] = b
      BY <1>3, <2>2 DEF Start
    <3>2. ~Making(b)
      BY <1>4 DEF Making
    <3>3. OnTheWay(call.path, <<>>)
      BY <1>3, <1>5, <2>2
    <3> HIDE DEF b
    <3>4. AdderOK(adder[t])'
      BY <1>4, <3>1, <3>3 DEF AdderOK, Making
    <3> QED BY <3>1, <3>2, <3>4
  <2> QED BY <2>1, <2>2
<1> HIDE DEF b
<1>7. PICK c : adder' = [adder EXCEPT ![t] = c] /\ ~Making(c) /\ AdderOK(adder[t])'
  BY <1>6
<1>8. ~Making(adder[t])
  BY <1>1 DEF Making
<1>9. Tables' /\ Listing' /\ AddersOK' /\ Placed'
  BY <1>1, <1>2, <1>7, <1>8, SameTree
<1>10. Results'
  BY <1>1, <1>2 DEF Inv, Results, Unlisted, Entries
<1>11. Control'
  <2>1. calls' \in 0..MaxCalls
    BY <1>1, BoundsAssumption
  <2>2. t # Fuser => adder'[Fuser] = adder[Fuser]
    BY <1>3, <1>7 DEF Callers
  <2> QED BY <1>1, <2>1, <2>2 DEF Inv, Control
<1> QED BY <1>9, <1>10, <1>11 DEF Inv

LEMMA ClimbOK ==
  ASSUME Inv, NEW t \in Callers, Climb(t), UNCHANGED mountVars
  PROVE  Inv'
<1> DEFINE a == adder[t]
           p == SubSeq(a.call.path, 1, Len(a.call.path) - 1 - Len(a.missing))
           b == IF p \in DOMAIN pathInodes
                THEN AddCall("publish", a.call, a.missing, pathInodes[p], 0)
                ELSE AddCall("climb", a.call, <<p>> \o a.missing, 0, 0)
<1>1. /\ adder' = [adder EXCEPT ![t] = b] /\ a.pc = "climb"
      /\ UNCHANGED <<nodes, pathInodes, directories, payload, nextIno, calls, answered>>
  BY DEF Climb
<1>2. /\ adder = [u \in Callers |-> adder[u]] /\ AdderOK(a)
      /\ <<>> \in DOMAIN pathInodes
      /\ \A q \in DOMAIN pathInodes : pathInodes[q] \in DOMAIN nodes /\ nodes[pathInodes[q]].path = q
  BY DEF Inv, AddersOK, Tables
<1>3. a.call.op \in Kinds /\ OnTheWay(a.call.path, a.missing) /\ p = Base(a)
  BY <1>1, <1>2 DEF AdderOK, Base, Prefix
<1>4. adder'[t] = b
  BY <1>1, <1>2
<1>5. /\ b.call = a.call /\ b.pc \in {"climb", "publish"}
      /\ b = AddCall(b.pc, b.call, b.missing, b.parent, b.ino)
      /\ p \in DOMAIN pathInodes => b.missing = a.missing /\ b.parent = pathInodes[p]
      /\ p \notin DOMAIN pathInodes => b.missing = <<p>> \o a.missing /\ b.pc = "climb"
  BY DEF AddCall
<1>6. OnTheWay(b.call.path, b.missing)
  <2>1. CASE p \in DOMAIN pathInodes
    BY <1>3, <1>5, <2>1
  <2>2. CASE p \notin DOMAIN pathInodes
    <3>1. p # <<>>
      BY <1>2, <2>2
    <3>2. OnTheWay(a.call.path, <<p>> \o a.missing)
      BY <1>3, <3>1, ClimbsOn DEF Prefix
    <3> QED BY <1>5, <2>2, <3>2
  <2> QED BY <2>1, <2>2
<1>7. b.pc = "publish" => b.parent \in DOMAIN nodes /\ nodes[b.parent].path = Base(b)
  <2>1. p \in DOMAIN pathInodes => Base(b) = Base(a)
    BY <1>5 DEF Base
  <2> HIDE DEF b, a, p
  <2> QED BY <1>2, <1>3, <1>5, <2>1
<1> HIDE DEF b, p
<1>8. AdderOK(adder[t])'
  <2>1. Base(b) = Base(adder[t])'
    BY <1>4 DEF Base
  <2> QED BY <1>1, <1>3, <1>4, <1>5, <1>6, <1>7, <2>1 DEF AdderOK, Making
<1>9. ~Making(b) /\ ~Making(a)
  BY <1>1, <1>5 DEF Making
<1>10. Tables' /\ Listing' /\ AddersOK' /\ Placed'
  BY <1>1, <1>8, <1>9, SameTree
<1>11. Results'
  BY <1>1 DEF Inv, Results, Unlisted, Entries
<1>12. Control'
  <2>1. t # Fuser => adder'[Fuser] = adder[Fuser]
    BY <1>1, <1>2 DEF Callers
  <2> QED BY <1>1, <2>1 DEF Inv, Control, mountVars
<1> QED BY <1>10, <1>11, <1>12 DEF Inv

\* Where a call that is making something stands.
LEMMA AtWork ==
  ASSUME Inv, NEW t \in Callers, adder[t].pc \in {"publish", "store", "link"}
  PROVE  LET a == adder[t]
         IN  /\ AdderOK(a) /\ adder = [u \in Callers |-> adder[u]]
             /\ a.call.op \in Kinds /\ OnTheWay(a.call.path, a.missing)
             /\ a.parent \in DOMAIN nodes /\ nodes[a.parent].path = Base(a)
             /\ Base(a) \in Path /\ Target(a) \in Path /\ Target(a) # <<>>
             /\ Parent(Target(a)) = Base(a)
             /\ KindOf(a) \in Kinds \cup {"dir"}
<1> DEFINE a == adder[t]
<1>1. AdderOK(a) /\ adder = [u \in Callers |-> adder[u]]
  BY DEF Inv, AddersOK
<1>2. /\ a.call.op \in Kinds /\ OnTheWay(a.call.path, a.missing)
      /\ a.parent \in DOMAIN nodes /\ nodes[a.parent].path = Base(a)
  BY <1>1 DEF AdderOK
<1>3. KindOf(a) \in Kinds \cup {"dir"}
  BY <1>2 DEF KindOf
<1> QED BY <1>1, <1>2, <1>3, TargetOK

\* The calls of the other threads know what they are making.
LEMMA OthersWork ==
  ASSUME Inv, NEW t \in Callers, NEW u \in Callers, u # t, Making(adder[u])
  PROVE  /\ adder[u].ino \in DOMAIN nodes /\ Unlisted(adder[u].ino)
         /\ adder[u].pc = "store" => adder[u].ino \notin DOMAIN directories
         /\ Making(adder[t]) => adder[u].ino # adder[t].ino
BY DEF Inv, AddersOK, AdderOK

\* The session goes on, and so do the counters.
LEMMA ControlOK ==
  ASSUME Inv, NEW t \in Callers, NEW b, adder' = [adder EXCEPT ![t] = b], adder[t].pc # "idle",
         calls' = calls, UNCHANGED mountVars
  PROVE  Control'
<1>1. adder = [u \in Callers |-> adder[u]]
  BY DEF Inv, AddersOK
<1>2. t # Fuser => adder'[Fuser] = adder[Fuser]
  BY <1>1 DEF Callers
<1> QED BY <1>2 DEF Inv, Control, mountVars

LEMMA PublishOK ==
  ASSUME Inv, NEW t \in Callers, Publish(t), UNCHANGED mountVars
  PROVE  Inv'
<1> DEFINE a == adder[t]
           n == nextIno
           b == AddCall("store", a.call, a.missing, a.parent, n)
<1>1. /\ a.pc = "publish" /\ adder' = [adder EXCEPT ![t] = b]
      /\ nodes' = With(nodes, n, Node(KindOf(a), Target(a)))
      /\ pathInodes' = With(pathInodes, Target(a), n)
      /\ nextIno' = n + 1 /\ UNCHANGED <<directories, payload, calls, answered>>
  BY DEF Publish
<1>2. /\ AdderOK(a) /\ adder = [u \in Callers |-> adder[u]]
      /\ a.call.op \in Kinds /\ OnTheWay(a.call.path, a.missing)
      /\ a.parent \in DOMAIN nodes /\ nodes[a.parent].path = Base(a)
      /\ Base(a) \in Path /\ Target(a) \in Path /\ Target(a) # <<>>
      /\ KindOf(a) \in Kinds \cup {"dir"}
  BY <1>1, AtWork
<1>3. /\ b = AddCall(b.pc, b.call, b.missing, b.parent, b.ino)
      /\ b.pc = "store" /\ b.call = a.call /\ b.missing = a.missing /\ b.parent = a.parent /\ b.ino = n
  BY DEF AddCall
<1>4. Base(b) = Base(a) /\ Target(b) = Target(a) /\ KindOf(b) = KindOf(a)
  BY <1>3 DEF Base, Target, KindOf
<1> HIDE DEF b
<1>5. adder'[t] = b /\ \A u \in Callers : u # t => adder'[u] = adder[u]
  BY <1>1, <1>2
<1>6. n \in Nat /\ n > RootIno /\ RootIno \in Nat /\ DOMAIN nodes \subseteq 1..(n - 1)
  BY DEF Inv, Tables, RootIno
<1>7. n \notin DOMAIN nodes /\ n # RootIno
  BY <1>6
<1>8. /\ DOMAIN nodes' = DOMAIN nodes \cup {n} /\ IsMap(nodes')
      /\ nodes'[n] = Node(KindOf(a), Target(a))
      /\ \A i \in DOMAIN nodes : nodes'[i] = nodes[i]
  BY <1>1, <1>7 DEF With, IsMap
<1>9. /\ DOMAIN pathInodes' = DOMAIN pathInodes \cup {Target(a)} /\ IsMap(pathInodes')
      /\ pathInodes'[Target(a)] = n
      /\ \A p \in DOMAIN pathInodes : p # Target(a) => pathInodes'[p] = pathInodes[p]
  BY <1>1 DEF With, IsMap
<1>10. LET new == Node(KindOf(a), Target(a))
       IN  /\ new = [kind |-> new.kind, nlink |-> new.nlink, path |-> new.path]
           /\ new.kind = KindOf(a) /\ new.nlink \in Nat /\ new.path = Target(a)
  BY DEF Node
<1> HIDE DEF a, n
<1>11. Tables'
  <2>1. nextIno' \in Nat /\ nextIno' > RootIno /\ DOMAIN nodes' \subseteq 1..(nextIno' - 1)
    BY <1>1, <1>6, <1>8
  <2>2. IsMap(directories') /\ DOMAIN directories' \subseteq DOMAIN nodes'
        /\ payload' \subseteq DOMAIN nodes' /\ <<>> \in DOMAIN pathInodes'
    BY <1>1, <1>8, <1>9 DEF Inv, Tables
  <2>3. \A i \in DOMAIN nodes' :
          /\ nodes'[i] = [kind |-> nodes'[i].kind, nlink |-> nodes'[i].nlink, path |-> nodes'[i].path]
          /\ nodes'[i].kind \in Kinds \cup {"dir"} /\ nodes'[i].nlink \in Nat
          /\ nodes'[i].path \in Path /\ nodes'[i].path \in DOMAIN pathInodes'
          /\ nodes'[i].path = <<>> => i = RootIno
    <3>1. \A i \in DOMAIN nodes :
          /\ nodes[i] = [kind |-> nodes[i].kind, nlink |-> nodes[i].nlink, path |-> nodes[i].path]
          /\ nodes[i].kind \in Kinds \cup {"dir"} /\ nodes[i].nlink \in Nat
          /\ nodes[i].path \in Path /\ nodes[i].path \in DOMAIN pathInodes
          /\ nodes[i].path = <<>> => i = RootIno
      BY DEF Inv, Tables
    <3> QED BY <1>2, <1>8, <1>9, <1>10, <3>1
  <2>4. \A p \in DOMAIN pathInodes' : pathInodes'[p] \in DOMAIN nodes' /\ nodes'[pathInodes'[p]].path = p
    <3>1. \A p \in DOMAIN pathInodes : pathInodes[p] \in DOMAIN nodes /\ nodes[pathInodes[p]].path = p
      BY DEF Inv, Tables
    <3> QED BY <1>8, <1>9, <1>10, <3>1
  <2> QED BY <1>8, <1>9, <2>1, <2>2, <2>3, <2>4 DEF Tables, IsMap
<1>12. Kept
  BY <1>1, <1>8 DEF Kept
<1>13. DOMAIN directories \subseteq DOMAIN nodes
  BY DEF Inv, Tables
<1>14. \A d \in DOMAIN directories : \A e \in Entries(d) : Served(e) /\ e.ino \in DOMAIN nodes
  BY DEF Inv, Listing, Served
<1>15. Listing'
  <2>1. \A d : Subdirs(d)' = Subdirs(d) /\ Entries(d)' = Entries(d)
    BY <1>1, SameEntries
  <2>2. Listing
    BY DEF Inv
  <2>3. \A e : Served(e) => Served(e)'
    BY <1>12, ServedKept
  <2>4. \A d \in DOMAIN directories : \A e \in Entries(d) : Below(d, e)'
    BY <1>12, <1>13, <1>14, <2>2, BelowKept DEF Listing
  <2> QED BY <1>1, <1>8, <1>13, <2>1, <2>2, <2>3, <2>4 DEF Listing
<1>16. AddersOK'
  <2>1. \A d \in DOMAIN directories' : \A e \in Entries(d)' : e.ino # n
    BY <1>1, <1>7, <1>14, SameEntries
  <2>2. b.ino = n /\ n \in DOMAIN nodes' /\ n \notin DOMAIN directories'
    BY <1>1, <1>3, <1>7, <1>8, <1>13
  <2>3. b.parent \in DOMAIN nodes' /\ nodes'[b.parent].path = Base(b)
    BY <1>2, <1>3, <1>4, <1>8
  <2>4. AdderOK(adder[t])'
    <3>1. Base(adder[t])' = Base(b) /\ Target(adder[t])' = Target(b) /\ KindOf(adder[t])' = KindOf(b)
      BY <1>5 DEF Base, Target, KindOf
    <3> QED BY <1>2, <1>3, <1>4, <1>5, <1>8, <2>1, <2>2, <2>3, <3>1 DEF AdderOK, Making, Unlisted
  <2>5. \A u \in Callers \ {t} : Making(adder[u]) =>
          /\ \A d \in DOMAIN directories' : \A e \in Entries(d)' : e.ino # adder[u].ino
          /\ adder[u].pc = "store" =>
               nodes'[adder[u].ino] = nodes[adder[u].ino] /\ adder[u].ino \notin DOMAIN directories'
    BY <1>1, <1>8, OthersWork DEF Unlisted, Entries
  <2> QED BY <1>1, <1>3, <1>7, <1>12, <2>4, <2>5, OthersOK DEF Inv
<1>17. Placed'
  <2>1. Making(b) /\ b.ino = n
    BY <1>3 DEF Making
  <2>2. \A i : Unlisted(i)' <=> Unlisted(i)
    BY <1>1 DEF Unlisted, Entries
  <2>3. ~Making(adder[t])
    BY <1>1 DEF Making, a
  <2>4. \A i : Orphan(i)' <=> Orphan(i)
    BY <1>1 DEF Orphan
  <2> QED BY <1>5, <1>8, <2>1, <2>2, <2>3, <2>4 DEF Inv, Placed, Making
<1>18. Results'
  <2>1. \A i : Unlisted(i)' <=> Unlisted(i)
    BY <1>1 DEF Unlisted, Entries
  <2> QED BY <1>1, <1>8, <2>1 DEF Inv, Results
<1>19. Control'
  BY <1>1, ControlOK DEF a
<1> QED BY <1>11, <1>15, <1>16, <1>17, <1>18, <1>19 DEF Inv

LEMMA StoreOK ==
  ASSUME Inv, NEW t \in Callers, Store(t), UNCHANGED mountVars
  PROVE  Inv'
<1> DEFINE a == adder[t]
           n == a.ino
           b == AddCall("link", a.call, a.missing, a.parent, n)
<1>1. /\ a.pc = "store" /\ adder' = [adder EXCEPT ![t] = b]
      /\ directories' = IF KindOf(a) = "dir" THEN With(directories, n, <<>>) ELSE directories
      /\ payload' = IF KindOf(a) \in {"file", "symlink", "char", "block"}
                    THEN payload \cup {n} ELSE payload
      /\ UNCHANGED <<nodes, pathInodes, nextIno, calls, answered>>
  BY DEF Store, Goto
<1>2. /\ AdderOK(a) /\ adder = [u \in Callers |-> adder[u]]
      /\ a.call.op \in Kinds /\ OnTheWay(a.call.path, a.missing)
      /\ a.parent \in DOMAIN nodes /\ nodes[a.parent].path = Base(a)
      /\ KindOf(a) \in Kinds \cup {"dir"}
  BY <1>1, AtWork
<1>3. /\ nodes[n] = Node(KindOf(a), Target(a)) /\ n \notin DOMAIN directories
      /\ n \in DOMAIN nodes /\ Unlisted(n) /\ Making(a)
  BY <1>1, <1>2 DEF AdderOK, Making
<1>4. /\ b = AddCall(b.pc, b.call, b.missing, b.parent, b.ino)
      /\ b.pc = "link" /\ b.call = a.call /\ b.missing = a.missing /\ b.parent = a.parent /\ b.ino = n
  BY DEF AddCall
<1>5. Base(b) = Base(a) /\ Target(b) = Target(a) /\ KindOf(b) = KindOf(a)
  BY <1>4 DEF Base, Target, KindOf
<1> HIDE DEF b
<1>6. adder'[t] = b /\ \A u \in Callers : u # t => adder'[u] = adder[u]
  BY <1>1, <1>2
<1>7. nodes[n].kind = KindOf(a) /\ nodes[n].path = Target(a)
      /\ (KindOf(a) = "dir" => nodes[n].nlink = 2)
  BY <1>3 DEF Node
<1>8. IsMap(directories)
  BY DEF Inv, Tables
<1> HIDE DEF a, n
<1>9. /\ DOMAIN directories' = DOMAIN directories \cup (IF KindOf(a) = "dir" THEN {n} ELSE {})
      /\ \A d \in DOMAIN directories : directories'[d] = directories[d]
      /\ KindOf(a) = "dir" => directories'[n] = <<>>
      /\ IsMap(directories')
  BY <1>1, <1>3, <1>8 DEF With, IsMap
<1>10. Tables'
  <2>1. IsMap(nodes') /\ IsMap(pathInodes')
    BY <1>1 DEF Inv, Tables, IsMap
  <2>2. DOMAIN directories' \subseteq DOMAIN nodes' /\ payload' \subseteq DOMAIN nodes'
    BY <1>1, <1>3, <1>9 DEF Inv, Tables
  <2> QED BY <1>1, <1>9, <2>1, <2>2 DEF Inv, Tables, IsMap
<1>11. Kept
  BY <1>1, <1>9 DEF Kept
<1>12. Listing'
  <2>1. \A d \in DOMAIN directories : Subdirs(d)' = Subdirs(d) /\ Entries(d)' = Entries(d)
    BY <1>9, SameEntries
  <2>2. Listing
    BY DEF Inv
  <2>3. \A e : Served(e) => Served(e)'
    BY <1>11, ServedKept
  <2>4. ASSUME KindOf(a) = "dir"
        PROVE  nodes'[n].nlink = 2 /\ IsFiniteSet({}) /\ Cardinality({}) = 0
    BY <1>1, <1>7, <2>4, FS_EmptySet
  <2>5. ASSUME NEW d \in DOMAIN directories'
        PROVE  /\ directories'[d] \in Seq(EntryType) /\ IsFiniteSet(Entries(d)')
               /\ nodes'[d].nlink = 2 + Cardinality(Subdirs(d)')
               /\ \A e \in Entries(d)' : Served(e)' /\ Below(d, e)'
    <3>1. CASE d \in DOMAIN directories
      <4>1. \A e \in Entries(d) : Below(d, e)'
        BY <1>1, <2>2, <3>1 DEF Listing, Below, Parent, BaseName
      <4> QED BY <1>1, <1>9, <2>1, <2>2, <2>3, <3>1, <4>1 DEF Listing
    <3>2. CASE d \notin DOMAIN directories
      <4>1. d = n /\ KindOf(a) = "dir"
        BY <1>9, <3>2
      <4>2. directories'[d] = <<>> /\ <<>> \in Seq(EntryType)
        BY <1>9, <4>1, EmptySeq
      <4>3. Entries(d)' = {} /\ Subdirs(d)' = {}
        BY <4>2 DEF Entries, Subdirs
      <4> QED BY <2>4, <4>1, <4>2, <4>3
    <3> QED BY <3>1, <3>2
  <2> QED BY <2>5 DEF Listing
<1>13. \A i : Unlisted(i) => \A d \in DOMAIN directories' : \A e \in Entries(d)' : e.ino # i
  BY <1>9 DEF Unlisted, Entries
<1>14. AddersOK'
  <2>1. \A d \in DOMAIN directories' : \A e \in Entries(d)' : e.ino # n
    BY <1>3, <1>13
  <2>2. b.parent \in DOMAIN nodes' /\ nodes'[b.parent].path = Base(b)
        /\ n \in DOMAIN nodes' /\ nodes'[n].path = Target(b)
    BY <1>1, <1>2, <1>3, <1>4, <1>5, <1>7
  <2>3. LET e == [ino |-> n, kind |-> KindOf(a)]
        IN  /\ e.ino \in DOMAIN nodes' /\ nodes'[e.ino].kind = e.kind
            /\ e.kind = "dir" => e.ino \in DOMAIN directories'
            /\ e.kind \in {"file", "symlink", "char", "block"} => e.ino \in payload'
    BY <1>1, <1>3, <1>7, <1>9
  <2>4. AdderOK(adder[t])'
    <3>1. Base(adder[t])' = Base(b) /\ Target(adder[t])' = Target(b) /\ KindOf(adder[t])' = KindOf(b)
      BY <1>6 DEF Base, Target, KindOf
    <3>2. Served([ino |-> (adder[t]).ino, kind |-> KindOf(adder[t])])'
      BY <1>4, <1>5, <1>6, <2>3, <3>1 DEF Served
    <3> QED BY <1>2, <1>4, <1>6, <2>1, <2>2, <3>1, <3>2 DEF AdderOK, Making, Unlisted
  <2>5. \A u \in Callers \ {t} : Making(adder[u]) =>
          /\ \A d \in DOMAIN directories' : \A e \in Entries(d)' : e.ino # adder[u].ino
          /\ adder[u].pc = "store" =>
               nodes'[adder[u].ino] = nodes[adder[u].ino] /\ adder[u].ino \notin DOMAIN directories'
    <3>1. ASSUME NEW u \in Callers, u # t, Making(adder[u])
          PROVE  /\ Unlisted(adder[u].ino) /\ adder[u].ino # n
                 /\ adder[u].pc = "store" => adder[u].ino \notin DOMAIN directories
      BY <1>3, <3>1, OthersWork DEF a, n
    <3> QED BY <1>1, <1>9, <1>13, <3>1
  <2>6. Making(adder[t]) /\ b.ino = adder[t].ino
    BY <1>3, <1>4 DEF a, n
  <2> QED BY <1>1, <1>11, <2>4, <2>5, <2>6, OthersOK DEF Inv
<1>15. Placed'
  <2>1. Making(b) /\ b.ino = adder[t].ino
    BY <1>4 DEF Making, a, n
  <2>2. \A i : ~Unlisted(i) => ~Unlisted(i)'
    BY <1>9 DEF Unlisted, Entries
  <2>3. \A i : Orphan(i)' <=> Orphan(i)
    BY <1>1 DEF Orphan
  <2>4. \A u \in Callers : Making(adder[u]) => Making(adder'[u]) /\ adder'[u].ino = adder[u].ino
    BY <1>6, <2>1
  <2> QED BY <1>1, <2>2, <2>3, <2>4 DEF Inv, Placed, Making
<1>16. Results'
  <2>1. \A i : ~Unlisted(i) => ~Unlisted(i)'
    BY <1>9 DEF Unlisted, Entries
  <2> QED BY <1>1, <2>1 DEF Inv, Results
<1>17. Control'
  BY <1>1, ControlOK DEF a
<1> QED BY <1>10, <1>12, <1>14, <1>15, <1>16, <1>17 DEF Inv

\* The node gets its entry, or the call breaks off.
LEMMA LinkOK ==
  ASSUME Inv, NEW t \in Callers, Link(t), UNCHANGED mountVars
  PROVE  Inv'
<1> DEFINE a == adder[t]
           n == a.ino
           d == a.parent
           new == Entry(n, Target(a), KindOf(a))
<1>1. a.pc = "link" /\ Making(a) /\ UNCHANGED <<pathInodes, payload, nextIno, calls>>
  BY DEF Link, Making
<1>2. /\ AdderOK(a) /\ adder = [u \in Callers |-> adder[u]]
      /\ a.call.op \in Kinds /\ OnTheWay(a.call.path, a.missing)
      /\ d \in DOMAIN nodes /\ nodes[d].path = Base(a)
      /\ Target(a) # <<>> /\ Parent(Target(a)) = Base(a)
  BY <1>1, AtWork
<1>3. /\ Served([ino |-> n, kind |-> KindOf(a)]) /\ nodes[n].path = Target(a)
      /\ n \in DOMAIN nodes /\ Unlisted(n)
  BY <1>1, <1>2 DEF AdderOK
<1>4. Control'
  <2>1. \E b : adder' = [adder EXCEPT ![t] = b]
    BY DEF Link, Return
  <2> QED BY <1>1, <2>1, ControlOK DEF a
<1>5. Idle = AddCall("idle", Idle.call, <<>>, 0, 0) /\ Idle.pc = "idle"
      /\ Idle.missing = <<>> /\ Idle.parent = 0 /\ Idle.ino = 0
  BY DEF Idle, AddCall
<1>6. AdderOK(Idle) /\ ~Making(Idle)
  BY <1>5 DEF AdderOK, Making
<1>7. CASE d \notin DOMAIN directories
  <2>1. /\ adder' = [adder EXCEPT ![t] = Idle] /\ UNCHANGED <<nodes, directories>>
        /\ answered' = answered \cup {[call |-> a.call, ino |-> n, result |-> "unlinked"]}
    BY <1>7 DEF Link, Return, NoEntries
  <2>2. adder'[t] = Idle
    BY <1>2, <2>1
  <2>3. AdderOK(adder[t])'
    BY <1>5, <2>2 DEF AdderOK, Making
  <2>4. /\ \E x \in answered' : x.result = "unlinked" /\ x.ino = adder[t].ino
        /\ answered \subseteq answered' /\ \A x \in answered' : x.result = "ok" => x \in answered
    <3> DEFINE last == [call |-> a.call, ino |-> n, result |-> "unlinked"]
    <3>1. answered' = answered \cup {last} /\ last.result = "unlinked" /\ last.ino = adder[t].ino
      BY <2>1
    <3> HIDE DEF last
    <3> QED BY <3>1
  <2>5. Tables' /\ Listing' /\ AddersOK' /\ Placed'
    BY <1>1, <1>6, <2>1, <2>3, <2>4, SameTree
  <2>6. Results'
    BY <2>1, <2>4 DEF Inv, Results, Unlisted, Entries
  <2> QED BY <1>4, <2>5, <2>6 DEF Inv
<1>8. CASE d \in DOMAIN directories
  <2> DEFINE b == IF a.missing = <<>> THEN Idle
                  ELSE AddCall("publish", a.call, Tail(a.missing), n, 0)
  <2>1. /\ adder' = [adder EXCEPT ![t] = b]
        /\ directories' = [directories EXCEPT ![d] = Append(@, new)]
        /\ nodes' = IF KindOf(a) = "dir" THEN [nodes EXCEPT ![d].nlink = @ + 1] ELSE nodes
    BY <1>8 DEF Link, Return, LinkCounted
  <2>2. /\ answered \subseteq answered'
        /\ \A x \in answered' : x \in answered \/
             (a.missing = <<>> /\ x = [call |-> a.call, ino |-> n, result |-> "ok"])
    BY <1>8 DEF Link, Return
  <2>3. new.ino = n /\ new.kind = KindOf(a)
    BY DEF Entry
  <2>4. IsMap(directories) /\ IsMap(nodes) /\ DOMAIN directories \subseteq DOMAIN nodes
    BY DEF Inv, Tables
  <2>5. a.missing = <<>> => b = Idle
    OBVIOUS
  <2>6. a.missing # <<>> =>
          /\ b = AddCall(b.pc, b.call, b.missing, b.parent, b.ino)
          /\ b.pc = "publish" /\ b.call = a.call /\ b.missing = Tail(a.missing) /\ b.parent = n
    BY DEF AddCall
  <2>7. ~Making(b)
    BY <1>6, <2>5, <2>6 DEF Making
  <2>8. a.missing # <<>> => OnTheWay(a.call.path, Tail(a.missing)) /\ Target(a) = Base(b)
    <3>1. ASSUME a.missing # <<>>
          PROVE  /\ OnTheWay(a.call.path, Tail(a.missing))
                 /\ Head(a.missing) = Prefix(a.call.path, Len(a.call.path) - 1 - Len(Tail(a.missing)))
      BY <1>2, <3>1, GoesDown
    <3> HIDE DEF b
    <3> QED BY <2>6, <3>1 DEF Base, Target
  <2> HIDE DEF a, n, d, b, new
  <2>9. adder'[t] = b /\ \A u \in Callers : u # t => adder'[u] = adder[u]
    BY <1>2, <2>1
  <2>10. /\ DOMAIN directories' = DOMAIN directories /\ IsMap(directories')
         /\ directories'[d] = Append(directories[d], new)
         /\ \A c \in DOMAIN directories : c # d => directories'[c] = directories[c]
    BY <1>8, <2>1, <2>4 DEF IsMap
  <2>made. /\ new \in EntryType /\ new.name = BaseName(Target(a))
         /\ new = [ino |-> n, name |-> BaseName(Target(a)), kind |-> KindOf(a)]
    <3>1. n \in Nat
      BY <1>3 DEF Inv, Tables
    <3>2. Target(a) \in Path /\ Target(a) # <<>> /\ KindOf(a) \in Kinds \cup {"dir"}
      BY <1>1, AtWork DEF a
    <3>3. BaseName(Target(a)) \in AllNames
      BY <3>2, BaseNameOK
    <3>4. new = [ino |-> n, name |-> BaseName(Target(a)), kind |-> KindOf(a)]
      BY DEF Entry, new
    <3> QED BY <3>1, <3>2, <3>3, <3>4 DEF EntryType
  <2>pushed. \A c \in DOMAIN directories :
           /\ directories'[c] \in Seq(EntryType)
           /\ Entries(c)' = IF c = d THEN Entries(c) \cup {new} ELSE Entries(c)
    <3>1. ASSUME NEW c \in DOMAIN directories, c # d
          PROVE  directories'[c] \in Seq(EntryType) /\ Entries(c)' = Entries(c)
      BY <2>10, <3>1, SameEntries DEF Inv, Listing
    <3>2. ASSUME NEW c \in DOMAIN directories, c = d
          PROVE  directories'[c] \in Seq(EntryType) /\ Entries(c)' = Entries(c) \cup {new}
      <4>1. directories[c] \in Seq(EntryType) /\ directories'[c] = Append(directories[c], new)
        BY <2>10, <3>2 DEF Inv, Listing
      <4>2. /\ directories'[c] \in Seq(EntryType) /\ Len(directories[c]) \in Nat
            /\ DOMAIN directories[c] = 1..Len(directories[c])
            /\ DOMAIN directories'[c] = 1..(Len(directories[c]) + 1)
            /\ \A i \in 1..Len(directories[c]) : directories'[c][i] = directories[c][i]
            /\ directories'[c][Len(directories[c]) + 1] = new
        BY <2>made, <4>1, AppendProperties, LenProperties
      <4>3. \A e : e \in Entries(c)' <=> \E i \in DOMAIN directories'[c] : e = directories'[c][i]
        BY DEF Entries
      <4>4. \A e : e \in Entries(c) <=> \E i \in DOMAIN directories[c] : e = directories[c][i]
        BY DEF Entries
      <4>5. \A i : i \in DOMAIN directories'[c] <=>
              i \in DOMAIN directories[c] \/ i = Len(directories[c]) + 1
        BY <4>2
      <4> HIDE DEF new
      <4> QED BY <4>2, <4>3, <4>4, <4>5, Zenon
    <3> QED BY <3>1, <3>2
  <2>11. /\ DOMAIN nodes' = DOMAIN nodes /\ IsMap(nodes')
         /\ \A i \in DOMAIN nodes : i # d => nodes'[i] = nodes[i]
         /\ KindOf(a) # "dir" => nodes'[d] = nodes[d]
    BY <1>2, <2>1, <2>4 DEF IsMap
  <2>12. /\ nodes[d] = [kind |-> nodes[d].kind, nlink |-> nodes[d].nlink, path |-> nodes[d].path]
         /\ nodes[d].nlink \in Nat
    BY <1>2 DEF Inv, Tables
  <2>13. KindOf(a) = "dir" =>
           nodes'[d] = [kind |-> nodes[d].kind, nlink |-> nodes[d].nlink + 1, path |-> nodes[d].path]
    <3>1. KindOf(a) = "dir" => nodes'[d] = [nodes[d] EXCEPT !.nlink = @ + 1]
      BY <1>2, <2>1, <2>4 DEF IsMap
    <3> QED BY <2>12, <3>1
  <2>14. /\ nodes'[d].kind = nodes[d].kind /\ nodes'[d].path = nodes[d].path
         /\ nodes'[d].nlink = nodes[d].nlink + (IF KindOf(a) = "dir" THEN 1 ELSE 0)
         /\ nodes'[d] = [kind |-> nodes'[d].kind, nlink |-> nodes'[d].nlink, path |-> nodes'[d].path]
    <3>1. CASE KindOf(a) = "dir"
      BY <2>12, <2>13, <3>1
    <3>2. CASE KindOf(a) # "dir"
      BY <2>11, <2>12, <3>2
    <3> QED BY <3>1, <3>2
  <2>15. \A i \in DOMAIN nodes : nodes'[i].kind = nodes[i].kind /\ nodes'[i].path = nodes[i].path
    BY <2>11, <2>14
  <2>16. Tables'
    <3>1. \A i \in DOMAIN nodes :
          /\ nodes[i] = [kind |-> nodes[i].kind, nlink |-> nodes[i].nlink, path |-> nodes[i].path]
          /\ nodes[i].kind \in Kinds \cup {"dir"} /\ nodes[i].nlink \in Nat
          /\ nodes[i].path \in Path /\ nodes[i].path \in DOMAIN pathInodes
          /\ nodes[i].path = <<>> => i = RootIno
      BY DEF Inv, Tables
    <3>2. \A i \in DOMAIN nodes' :
          /\ nodes'[i] = [kind |-> nodes'[i].kind, nlink |-> nodes'[i].nlink, path |-> nodes'[i].path]
          /\ nodes'[i].kind \in Kinds \cup {"dir"} /\ nodes'[i].nlink \in Nat
      <4>1. nodes'[d].nlink \in Nat
        BY <2>12, <2>14
      <4> QED BY <2>11, <2>14, <3>1, <4>1
    <3>3. \A i \in DOMAIN nodes' :
          /\ nodes'[i].path \in Path /\ nodes'[i].path \in DOMAIN pathInodes
          /\ nodes'[i].path = <<>> => i = RootIno
      BY <2>11, <2>15, <3>1
    <3>4. \A p \in DOMAIN pathInodes : pathInodes[p] \in DOMAIN nodes' /\ nodes'[pathInodes[p]].path = p
      <4>1. \A p \in DOMAIN pathInodes : pathInodes[p] \in DOMAIN nodes /\ nodes[pathInodes[p]].path = p
        BY DEF Inv, Tables
      <4> QED BY <2>11, <2>15, <4>1
    <3>5. /\ nextIno' \in Nat /\ nextIno' > RootIno /\ IsMap(pathInodes') /\ <<>> \in DOMAIN pathInodes'
          /\ DOMAIN nodes' \subseteq 1..(nextIno' - 1)
          /\ DOMAIN directories' \subseteq DOMAIN nodes' /\ payload' \subseteq DOMAIN nodes'
      BY <1>1, <2>10, <2>11 DEF Inv, Tables, IsMap
    <3> QED BY <1>1, <2>10, <2>11, <3>2, <3>3, <3>4, <3>5 DEF Tables
  <2>17. Kept
    BY <1>1, <2>10, <2>11, <2>15 DEF Kept
  <2>18. \A e : Served(e) => Served(e)'
    BY <2>17, ServedKept
  <2>19. new \notin Entries(d)
    BY <1>3, <1>8, <2>3 DEF Unlisted
  <2>20. \A e \in Entries(d) : e.ino # n
    BY <1>3, <1>8 DEF Unlisted
  <2>21. Listing'
    <3>1. \A c \in DOMAIN directories :
            /\ IsFiniteSet(Entries(c))
            /\ nodes[c].nlink = 2 + Cardinality(Subdirs(c))
            /\ \A e \in Entries(c) : Served(e) /\ e.ino \in DOMAIN nodes /\ Below(c, e)
      BY DEF Inv, Listing, Served
    <3>2. \A e : e = new => Served(e)'
      <4>1. Served(new)
        BY <1>3, <2>3 DEF Served, a, n
      <4>2. /\ n \in DOMAIN nodes' /\ nodes'[n].kind = KindOf(a)
            /\ KindOf(a) = "dir" => n \in DOMAIN directories'
            /\ KindOf(a) \in {"file", "symlink", "char", "block"} => n \in payload'
        BY <2>3, <2>17, <4>1 DEF Served, Kept
      <4> QED BY <4>2, <2>3 DEF Served
    <3>3. ASSUME NEW c \in DOMAIN directories
          PROVE  IsFiniteSet(Entries(c)') /\ nodes'[c].nlink = 2 + Cardinality(Subdirs(c)')
      <4>1. CASE c # d
        <5>1. Entries(c)' = Entries(c) /\ Subdirs(c)' = Subdirs(c) /\ nodes'[c] = nodes[c]
          BY <2>4, <2>10, <2>11, <4>1, SameEntries
        <5> QED BY <3>1, <5>1
      <4>2. CASE c = d
        <5>1. IsFiniteSet(Entries(c)')
          <6>1. IsFiniteSet(Entries(c) \cup {new})
            BY <3>1, FS_AddElement
          <6> QED BY <2>pushed, <4>2, <6>1
        <5> DEFINE S == Subdirs(c)
        <5>2. Subdirs(c)' = {e \in Entries(c) \cup {new} : e.kind = "dir"}
          BY <2>pushed, <4>2 DEF Subdirs
        <5>3. S \subseteq Entries(c) /\ IsFiniteSet(S) /\ new \notin S
          <6>1. S \subseteq Entries(c)
            BY DEF Subdirs
          <6> QED BY <2>19, <3>1, <4>2, <6>1, FS_Subset
        <5>4. Subdirs(c)' = IF KindOf(a) = "dir" THEN S \cup {new} ELSE S
          BY <2>3, <5>2 DEF Subdirs
        <5>5. nodes[c].nlink = 2 + Cardinality(S) /\ Cardinality(S) \in Nat
          BY <3>1, <5>3, FS_CardinalityType
        <5> HIDE DEF S
        <5>6. Cardinality(S \cup {new}) = Cardinality(S) + 1
          BY <5>3, FS_AddElement
        <5>7. nodes'[c].nlink = 2 + Cardinality(Subdirs(c)')
          <6>1. CASE KindOf(a) = "dir"
            BY <2>14, <4>2, <5>4, <5>5, <5>6, <6>1
          <6>2. CASE KindOf(a) # "dir"
            BY <2>14, <4>2, <5>4, <5>5, <6>2
          <6> QED BY <6>1, <6>2
        <5> QED BY <5>1, <5>7
      <4> QED BY <4>1, <4>2
    <3>4. ASSUME NEW c \in DOMAIN directories, NEW e \in Entries(c)'
          PROVE  Served(e)' /\ Below(c, e)'
      <4>1. CASE e \in Entries(c)
        <5>1. c \in DOMAIN nodes
          BY <2>4
        <5> QED BY <2>17, <2>18, <3>1, <4>1, <5>1, BelowKept
      <4>2. CASE e \notin Entries(c)
        <5>1. c = d /\ e = new
          BY <2>pushed, <4>2
        <5>2. nodes'[n].path = Target(a) /\ nodes'[d].path = Base(a)
          BY <1>2, <1>3, <2>15 DEF a, n, d
        <5>3. e.ino = n /\ e.name = BaseName(Target(a))
          BY <2>3, <2>made, <5>1
        <5>4. nodes'[e.ino].path = Target(a) /\ nodes'[c].path = Base(a)
          BY <5>1, <5>2, <5>3
        <5>5. Target(a) # <<>> /\ Parent(Target(a)) = Base(a)
          BY <1>2 DEF a
        <5>6. /\ nodes'[e.ino].path # <<>> /\ Parent(nodes'[e.ino].path) = nodes'[c].path
              /\ e.name = BaseName(nodes'[e.ino].path)
          BY <5>3, <5>4, <5>5
        <5>7. Below(c, e)'
          BY <5>6 DEF Below, Parent, BaseName
        <5> QED BY <3>2, <5>1, <5>7
      <4> QED BY <4>1, <4>2
    <3> QED BY <2>10, <2>pushed, <3>3, <3>4 DEF Listing
  <2>22. \A i : i # n /\ Unlisted(i) => \A c \in DOMAIN directories' : \A e \in Entries(c)' : e.ino # i
    BY <2>3, <2>10, <2>pushed DEF Unlisted
  <2>23. AddersOK'
    <3>1. AdderOK(adder[t])'
      <4>1. CASE a.missing = <<>>
        <5>1. b = Idle
          BY <2>5, <4>1
        <5>2. adder'[t] = Idle
          BY <2>9, <5>1
        <5> QED BY <1>5, <5>2 DEF AdderOK, Making
      <4>2. CASE a.missing # <<>>
        <5>1. Base(adder[t])' = Base(b)
          BY <2>9 DEF Base
        <5>2. b.parent \in DOMAIN nodes' /\ nodes'[b.parent].path = Base(b)
          BY <1>3, <2>6, <2>8, <2>11, <2>15, <4>2 DEF a, n
        <5> QED BY <1>2, <2>6, <2>7, <2>8, <2>9, <4>2, <5>1, <5>2 DEF AdderOK, Making, a
      <4> QED BY <4>1, <4>2
    <3>2. \A u \in Callers \ {t} : Making(adder[u]) =>
            /\ \A c \in DOMAIN directories' : \A e \in Entries(c)' : e.ino # adder[u].ino
            /\ adder[u].pc = "store" =>
                 nodes'[adder[u].ino] = nodes[adder[u].ino] /\ adder[u].ino \notin DOMAIN directories'
      <4>1. ASSUME NEW u \in Callers, u # t, Making(adder[u])
            PROVE  /\ adder[u].ino \in DOMAIN nodes /\ Unlisted(adder[u].ino) /\ adder[u].ino # n
                   /\ adder[u].pc = "store" => adder[u].ino \notin DOMAIN directories
        BY <1>1, <4>1, OthersWork DEF a, n
      <4> QED BY <1>8, <2>10, <2>11, <2>22, <4>1 DEF d
    <3> QED BY <2>1, <2>7, <2>17, <3>1, <3>2, OthersOK DEF Inv
  <2>24. Placed'
    <3>2. \A i : i = n => ~Unlisted(i)'
      BY <1>8, <2>3, <2>10, <2>pushed DEF Unlisted, d
    <3>3. \A i : ~Unlisted(i) => ~Unlisted(i)'
      <4>1. \A c \in DOMAIN directories : Entries(c) \subseteq Entries(c)'
        BY <2>pushed
      <4> QED BY <2>10, <4>1 DEF Unlisted
    <3>4. \A i : Orphan(i) => Orphan(i)'
      BY <2>2 DEF Orphan
    <3>5. \A u \in Callers : Making(adder[u]) =>
            adder[u].ino = n \/ (Making(adder'[u]) /\ adder'[u].ino = adder[u].ino)
      BY <2>9 DEF a, n
    <3>6. \A i \in DOMAIN nodes : i # RootIno =>
            ~Unlisted(i) \/ (\E u \in Callers : Making(adder[u]) /\ adder[u].ino = i) \/ Orphan(i)
      BY DEF Inv, Placed
    <3> QED BY <2>11, <3>2, <3>3, <3>4, <3>5, <3>6 DEF Placed, Making
  <2>25. Results'
    <3>1. a.missing = <<>> => Target(a) = a.call.path
      BY DEF Target
    <3>2. n \in DOMAIN nodes' /\ nodes'[n].path = Target(a)
      BY <1>3, <2>11, <2>15 DEF a, n
    <3>3. \A i : ~Unlisted(i) \/ i = n => ~Unlisted(i)'
      <4>1. \A i : i = n => ~Unlisted(i)'
        BY <1>8, <2>3, <2>10, <2>pushed DEF Unlisted, d
      <4>2. \A c \in DOMAIN directories : Entries(c) \subseteq Entries(c)'
        BY <2>pushed
      <4>3. \A i : ~Unlisted(i) => ~Unlisted(i)'
        BY <2>10, <4>2 DEF Unlisted
      <4> QED BY <4>1, <4>3
    <3>4. \A x \in answered : x.result = "ok" =>
            x.ino \in DOMAIN nodes' /\ nodes'[x.ino].path = x.call.path /\ ~Unlisted(x.ino)
      BY <2>11, <2>15 DEF Inv, Results
    <3>5. \A x \in answered' : x.result = "ok" =>
            /\ x.ino \in DOMAIN nodes' /\ nodes'[x.ino].path = x.call.path
            /\ ~Unlisted(x.ino) \/ x.ino = n
      BY <2>2, <3>1, <3>2, <3>4
    <3> QED BY <3>3, <3>5 DEF Results
  <2> QED BY <1>4, <2>16, <2>21, <2>23, <2>24, <2>25 DEF Inv
<1> QED BY <1>7, <1>8
-----------------------------------------------------------------------------
(* The mount. *)

HandlersTypeOK ==
  /\ signaled \in BOOLEAN
  /\ handler \in [Signals -> {"none", "number", "done"}]
  /\ loop \in {"none", "poll", "report", "drop", "returned"}

\* The number stored is that of a signal whose handler has begun.
Arrived(n) == n \in Signals /\ handler[n] # "none"

\* A flag that is set, and a handler that is about to set it, have a number
\* before them; the loop goes on only after the flag.
MountInv ==
  /\ HandlersTypeOK
  /\ \A s \in Signals : handler[s] = "number" => Arrived(signalNum)
  /\ signaled => Arrived(signalNum)
  /\ loop \in {"report", "drop", "returned"} => signaled
  /\ ReportedArrived

LEMMA MountInitOK == MountInit => MountInv
BY DEF MountInit, MountInv, HandlersTypeOK, Arrived, ReportedArrived

\* A handler that begins leaves its own number.
LEMMA StoreNumberOK ==
  ASSUME MountInv, NEW s \in Signals, StoreNumber(s) PROVE MountInv'
<1>1. handler' \in [Signals -> {"none", "number", "done"}] /\ handler'[s] = "number"
  BY DEF StoreNumber, MountInv, HandlersTypeOK
<1>2. \A r \in Signals : handler[r] # "none" => handler'[r] # "none"
  BY DEF StoreNumber, MountInv, HandlersTypeOK
<1>3. Arrived(signalNum)'
  BY <1>1 DEF StoreNumber, Arrived
<1>4. ReportedArrived'
  BY <1>2 DEF StoreNumber, MountInv, ReportedArrived
<1> QED
  BY <1>1, <1>3, <1>4 DEF StoreNumber, MountInv, HandlersTypeOK

\* A handler that ends sets the flag after some number, its own or a later one.
LEMMA StoreFlagOK ==
  ASSUME MountInv, NEW s \in Signals, StoreFlag(s) PROVE MountInv'
<1>1. handler' \in [Signals -> {"none", "number", "done"}]
  BY DEF StoreFlag, MountInv, HandlersTypeOK
<1>2. \A r \in Signals : handler[r] # "none" => handler'[r] # "none"
  BY DEF StoreFlag, MountInv, HandlersTypeOK
<1>3. Arrived(signalNum)'
  BY <1>2 DEF StoreFlag, MountInv, Arrived
<1>4. ReportedArrived'
  BY <1>2 DEF StoreFlag, MountInv, ReportedArrived
<1> QED
  BY <1>1, <1>3, <1>4 DEF StoreFlag, MountInv, HandlersTypeOK

LEMMA LoopOK == MountInv /\ Loop => MountInv'
<1> SUFFICES ASSUME MountInv, Loop PROVE MountInv'
  OBVIOUS
<1>1. CASE Poll
  BY <1>1 DEF Poll, MountInv, HandlersTypeOK, Arrived, ReportedArrived
<1>2. CASE Report
  BY <1>2 DEF Report, MountInv, HandlersTypeOK, Arrived, ReportedArrived
<1>3. CASE DropSession
  BY <1>3 DEF DropSession, MountInv, HandlersTypeOK, Arrived, ReportedArrived
<1> QED
  BY <1>1, <1>2, <1>3 DEF Loop

LEMMA MountStepOK == MountInv /\ [MountNext]_mountVars => MountInv'
<1> SUFFICES ASSUME MountInv, [MountNext]_mountVars PROVE MountInv'
  OBVIOUS
<1>1. CASE \E polls \in BOOLEAN : StartMount(polls)
  <2>1. PICK polls \in BOOLEAN : StartMount(polls)
    BY <1>1
  <2>2. loop' \in {"poll", "none"}
    BY <2>1 DEF StartMount
  <2> QED
    BY <2>1, <2>2 DEF StartMount, MountInv, HandlersTypeOK, Arrived, ReportedArrived
<1>2. CASE Handlers
  BY <1>2, StoreNumberOK, StoreFlagOK DEF Handlers
<1>3. CASE Loop
  BY <1>3, LoopOK
<1>4. CASE UnmountOutside
  BY <1>4 DEF UnmountOutside, MountInv, HandlersTypeOK, Arrived, ReportedArrived
<1>5. CASE UNCHANGED mountVars
  BY <1>5 DEF mountVars, MountInv, HandlersTypeOK, Arrived, ReportedArrived
<1> QED
  BY <1>1, <1>2, <1>3, <1>4, <1>5 DEF MountNext

\* What the polling loop of mount_with_signals prints, "Received SIGTERM", is a
\* signal whose handler has run, however the handlers of several interleave.
THEOREM MessageTrue == MountSpec => []ReportedArrived
<1>1. MountSpec => []MountInv
  BY MountInitOK, MountStepOK, PTL DEF MountSpec
<1>2. MountInv => ReportedArrived
  BY DEF MountInv
<1> QED
  BY <1>1, <1>2, PTL

-----------------------------------------------------------------------------
(* Every step. *)

\* A caller goes on with its call.
LEMMA AddStepOK ==
  ASSUME Inv, NEW t \in Callers, AddStep(t), UNCHANGED mountVars PROVE Inv'
BY ClimbOK, PublishOK, StoreOK, LinkOK DEF AddStep

\* symlink and mknod: the path is that of a directory and a name.
LEMMA RequestOK ==
  ASSUME Inv, NEW d \in DOMAIN directories, NEW name \in Names, NEW op \in NodKinds,
         Request(op, d, name), UNCHANGED mountVars
  PROVE  Inv'
<1> DEFINE call == [op |-> op, path |-> Append(nodes[d].path, name)]
<1>1. Start(Fuser, call) /\ session = "live"
  BY DEF Request
<1>2. call.op \in Kinds
  BY CallsAssumption
<1>3. call.path \in Path
  <2>1. nodes[d].path \in Seq(AllNames)
    BY DEF Inv, Tables, Path
  <2>2. name \in AllNames
    BY DEF AllNames
  <2> QED BY <2>1, <2>2, AppendProperties DEF Path
<1> HIDE DEF call
<1>4. Fuser \in Callers
  BY DEF Callers
<1> QED BY <1>1, <1>2, <1>3, <1>4, StartOK

\* The session's steps leave the tree alone and never unmake the session.
LEMMA MountKeeps ==
  ASSUME Inv, UNCHANGED fsVars, session # "none" => session' # "none" PROVE Inv'
<1>1. /\ UNCHANGED <<nodes, pathInodes, directories, payload, nextIno, adder, calls, answered>>
  BY DEF fsVars
<1>2. Tables'
  BY <1>1 DEF Inv, Tables, IsMap
<1>3. Listing'
  <2>1. (\A d : Subdirs(d)' = Subdirs(d) /\ Entries(d)' = Entries(d)) /\ \A e : Served(e)' <=> Served(e)
    BY <1>1, SameEntries DEF Served
  <2>2. Listing
    BY DEF Inv
  <2>3. \A d, e : Below(d, e)' <=> Below(d, e)
    BY <1>1 DEF Below, Parent, BaseName
  <2> QED BY <1>1, <2>1, <2>2, <2>3 DEF Listing
<1>4. \A i : Unlisted(i)' <=> Unlisted(i)
  BY <1>1 DEF Unlisted, Entries
<1>5. AddersOK'
  <2>1. AddersOK
    BY DEF Inv
  <2>2. ASSUME NEW u \in Callers PROVE AdderOK(adder[u])'
    <3>1. AdderOK(adder[u])
      BY <2>1 DEF AddersOK
    <3>2. /\ Base(adder[u])' = Base(adder[u]) /\ Target(adder[u])' = Target(adder[u])
          /\ KindOf(adder[u])' = KindOf(adder[u])
      BY <1>1 DEF Base, Target, KindOf
    <3>3. Served([ino |-> adder[u].ino, kind |-> KindOf(adder[u])])'
            <=> Served([ino |-> adder[u].ino, kind |-> KindOf(adder[u])])
      BY <1>1, <3>2 DEF Served
    <3>4. Unlisted(adder[u].ino)' <=> Unlisted(adder[u].ino)
      BY <1>1 DEF Unlisted, Entries
    <3> QED BY <1>1, <3>1, <3>2, <3>3, <3>4 DEF AdderOK, Making
  <2> QED BY <1>1, <2>1, <2>2 DEF AddersOK, Making
<1>6. Placed' /\ Results' /\ Control'
  BY <1>1, <1>4 DEF Inv, Placed, Orphan, Making, Results, Control
<1> QED BY <1>2, <1>3, <1>5, <1>6 DEF Inv

LEMMA StepOK == Inv /\ [Next]_vars => Inv'
<1> SUFFICES ASSUME Inv, [Next]_vars PROVE Inv'
  OBVIOUS
<1>1. CASE FileSystem
  <2>1. CASE Adders
    <3>1. PICK t \in Threads :
            \/ session = "none" /\ (\E call \in Calls : Start(t, call))
            \/ AddStep(t)
      BY <2>1 DEF Adders
    <3>2. t \in Callers /\ t # Fuser /\ UNCHANGED mountVars
      BY <1>1, FuserAssumption DEF Callers, FileSystem
    <3>3. CASE \E call \in Calls : Start(t, call)
      BY <3>2, <3>3, StartOK, CallsAssumption
    <3>4. CASE AddStep(t)
      BY <3>2, <3>4, AddStepOK
    <3> QED BY <3>1, <3>3, <3>4
  <2>2. CASE Requests
    <3>1. Fuser \in Callers /\ UNCHANGED mountVars
      BY <1>1 DEF Callers, FileSystem
    <3>2. CASE AddStep(Fuser)
      BY <3>1, <3>2, AddStepOK
    <3>3. CASE \E d \in DOMAIN directories, name \in Names, op \in NodKinds : Request(op, d, name)
      BY <3>1, <3>3, RequestOK
    <3> QED BY <2>2, <3>2, <3>3 DEF Requests
  <2> QED BY <1>1, <2>1, <2>2 DEF FileSystem
<1>2. CASE \E polls \in BOOLEAN : MountFS(polls)
  <2>1. PICK polls \in BOOLEAN : MountFS(polls)
    BY <1>2
  <2> QED BY <2>1, MountKeeps DEF MountFS, StartMount
<1>3. CASE Session
  <2>1. UNCHANGED fsVars
    BY <1>3 DEF Session
  <2>2. session # "none" => session' # "none"
    BY <1>3 DEF Session, Handlers, Loop, UnmountOutside, StoreNumber, StoreFlag, Poll, Report, DropSession
  <2> QED BY <2>1, <2>2, MountKeeps
<1>4. CASE UNCHANGED vars
  BY <1>4, MountKeeps DEF vars, mountVars
<1> QED BY <1>1, <1>2, <1>3, <1>4 DEF Next

LEMMA Always == Spec => []Inv
BY InitOK, StepOK, PTL DEF Spec
-----------------------------------------------------------------------------
(* What the tree promises. *)

LEMMA InvServes == Inv => ListedIsServed
<1> SUFFICES ASSUME Inv PROVE ListedIsServed
  OBVIOUS
<1>1. TypeOK
  BY DEF Inv, Tables, Control, TypeOK
<1>2. \A d \in DOMAIN directories : \A e \in Entries(d) : Served(e)
  BY DEF Inv, Listing
<1> QED BY <1>1, <1>2 DEF ListedIsServed

\* Whatever readdir lists can be stat'ed, entered, read or followed at once,
\* however the five add_* calls of any number of threads interleave: every
\* step of Publish, Store and Link is taken in the order the code has.
THEOREM ListedServed == Spec => []ListedIsServed
BY Always, InvServes, PTL

LEMMA InvAgrees == Inv => DirectoriesAgree
<1> SUFFICES ASSUME Inv, NEW d \in DOMAIN directories
             PROVE  /\ nodes[d].nlink = 2 + Cardinality(Subdirs(d))
                    /\ \A e \in Subdirs(d) :
                         GetParent(e.ino) = d \/ \E i \in DOMAIN nodes \ {d} : nodes[i].path = nodes[d].path
  BY DEF DirectoriesAgree, Subdirs
<1>1. nodes[d].nlink = 2 + Cardinality(Subdirs(d))
  BY DEF Inv, Listing
<1>2. /\ \A p \in DOMAIN pathInodes : pathInodes[p] \in DOMAIN nodes /\ nodes[pathInodes[p]].path = p
      /\ <<>> \in DOMAIN pathInodes
      /\ \A i \in DOMAIN nodes : nodes[i].path \in DOMAIN pathInodes /\ (nodes[i].path = <<>> => i = RootIno)
      /\ d \in DOMAIN nodes
  BY DEF Inv, Tables
<1>3. nodes[RootIno].path = <<>>
  BY <1>2
<1>4. ASSUME NEW e \in Subdirs(d)
      PROVE  GetParent(e.ino) = d \/ \E i \in DOMAIN nodes \ {d} : nodes[i].path = nodes[d].path
  <2>1. nodes[e.ino].path # <<>> /\ Parent(nodes[e.ino].path) = nodes[d].path
    BY DEF Inv, Listing, Subdirs, Below
  <2>2. e.ino # RootIno
    BY <1>3, <2>1
  <2>3. GetParent(e.ino) = pathInodes[nodes[d].path]
    BY <1>2, <2>1, <2>2 DEF GetParent
  <2> QED BY <1>2, <2>3
<1> QED BY <1>1, <1>4

\* A directory's link count is that of its listing, and ".." leads back to it
\* unless two adds have made two nodes of its path: the count is taken by the
\* step that adds the entry, whatever other adds work on the directory.
THEOREM TreeAgrees == Spec => []DirectoriesAgree
BY Always, InvAgrees, PTL

\* A set of naturals that is not empty has a least element.
LEMMA LeastNat ==
  ASSUME NEW T, T \subseteq Nat, T # {}
  PROVE  \E x \in T : \A y \in T : x <= y
<1> DEFINE R == OpToRel(<, Nat)
<1>1. IsWellFoundedOn(R, Nat)
  BY NatLessThanWellFounded
<1>2. \A x, y \in Nat : <<y, x>> \in R <=> y < x
  BY DEF OpToRel
<1> HIDE DEF R
<1>3. PICK x \in T : \A y \in T : ~ (<<y, x>> \in R)
  BY <1>1, WFMin
<1>4. x \in Nat /\ \A y \in T : y \in Nat /\ ~ (y < x)
  BY <1>2, <1>3, Zenon
<1> HIDE <1>2, <1>3
<1> QED BY <1>4

\* A name that is listed is found, as its first entry.
LEMMA FirstEntry ==
  ASSUME Inv, NEW d \in DOMAIN directories, NEW e \in Entries(d)
  PROVE  \E f \in Entries(d) : f.name = e.name /\ Lookup(d, e.name) = f.ino
<1> DEFINE found == {i \in DOMAIN directories[d] : directories[d][i].name = e.name}
           first == CHOOSE i \in found : \A j \in found : i <= j
<1>1. directories[d] \in Seq(EntryType)
  BY DEF Inv, Listing
<1>2. DOMAIN directories[d] = 1..Len(directories[d]) /\ Len(directories[d]) \in Nat
  BY <1>1, LenProperties
<1>3. found \subseteq Nat /\ found # {}
  BY <1>2 DEF Entries
<1>4. \E i \in found : \A j \in found : i <= j
  <2> HIDE DEF found
  <2> QED BY <1>3, LeastNat
<1>5. first \in found
  <2> HIDE DEF found
  <2> QED BY <1>4
<1>6. directories[d][first] \in Entries(d) /\ directories[d][first].name = e.name
  <2> HIDE DEF first
  <2> QED BY <1>5 DEF Entries
<1>7. Lookup(d, e.name) = directories[d][first].ino
  BY <1>3 DEF Lookup
<1> HIDE DEF first
<1> QED BY <1>6, <1>7

\* The walk goes one name on.
LEMMA NextName ==
  ASSUME Inv, NEW p \in Path, NEW k \in 1..Len(p),
         NEW j \in DOMAIN nodes, nodes[j].path = Prefix(p, k), ~Unlisted(j)
  PROVE  \E d \in DOMAIN directories :
           /\ d \in DOMAIN nodes /\ nodes[d].path = Prefix(p, k - 1)
           /\ Lookup(d, p[k]) \in DOMAIN nodes /\ nodes[Lookup(d, p[k])].path = Prefix(p, k)
<1>1. PICK d \in DOMAIN directories : \E e \in Entries(d) : e.ino = j
  BY DEF Unlisted
<1>2. PICK e \in Entries(d) : e.ino = j
  BY <1>1
<1>3. d \in DOMAIN nodes /\ \A i \in DOMAIN nodes : nodes[i].path \in Path
  BY DEF Inv, Tables
<1>4. \A f \in Entries(d) : f.ino \in DOMAIN nodes /\ Below(d, f)
  BY DEF Inv, Listing, Served
<1>5. nodes[d].path = Prefix(p, k - 1)
  BY <1>2, <1>4, ParentOfPrefix DEF Below
<1>6. Len(p) \in Nat /\ k \in 0..Len(p)
  BY LenProperties DEF Path
<1>7. Prefix(p, k) \in Path /\ BaseName(Prefix(p, k)) = p[k]
  <2>1. k \in 1..k
    BY <1>6
  <2> QED BY <1>6, <2>1, PrefixOK DEF BaseName
<1>8. e.name = p[k]
  BY <1>2, <1>4, <1>7 DEF Below
<1>9. PICK f \in Entries(d) : f.name = p[k] /\ Lookup(d, p[k]) = f.ino
  BY <1>8, FirstEntry
<1>10. /\ nodes[f.ino].path # <<>> /\ Parent(nodes[f.ino].path) = nodes[d].path
       /\ BaseName(nodes[f.ino].path) = p[k] /\ f.ino \in DOMAIN nodes
  BY <1>4, <1>9 DEF Below
<1>11. /\ nodes[j].path # <<>> /\ Parent(nodes[j].path) = nodes[d].path
       /\ BaseName(nodes[j].path) = p[k]
  BY <1>2, <1>4, <1>7 DEF Below
<1>12. nodes[f.ino].path = nodes[j].path
  BY <1>3, <1>10, <1>11, SamePath
<1> QED BY <1>3, <1>5, <1>9, <1>10, <1>12

\* A node whose path no call broke off at is listed once no call is under way.
LEMMA SettledListed ==
  ASSUME Inv, Quiet, NEW i \in DOMAIN nodes, i # RootIno, Settled(nodes[i].path)
  PROVE  ~Unlisted(i)
<1>1. \A t \in Callers : ~Making(adder[t])
  BY DEF Quiet, Inv, AddersOK, Making
<1>2. ~Orphan(i)
  BY DEF Settled, Orphan
<1> QED BY <1>1, <1>2 DEF Inv, Placed

\* What Ok promises, for one call.
LEMMA OneReached ==
  ASSUME Inv, Quiet, NEW p \in Path, p # <<>>,
         NEW z \in DOMAIN nodes, nodes[z].path = p, ~Unlisted(z),
         \A k \in 1..(Len(p) - 1) : Settled(Prefix(p, k))
  PROVE  \E i \in DOMAIN nodes : LeadsTo(p, i) /\ nodes[i].path = p
<1> DEFINE n == Len(p)
           Dir(k) == \E d \in DOMAIN directories :
                       /\ d \in DOMAIN nodes /\ nodes[d].path = Prefix(p, k)
                       /\ Lookup(d, p[k + 1]) \in DOMAIN nodes
                       /\ nodes[Lookup(d, p[k + 1])].path = Prefix(p, k + 1)
           T == {m \in Nat : m < n /\ ~Dir(n - 1 - m)}
<1>1. n \in Nat /\ n # 0 /\ Prefix(p, n) = p
  BY ParentLength, WholePrefix
<1>2. /\ \A i \in DOMAIN nodes : nodes[i].path = <<>> => i = RootIno
      /\ RootIno \in DOMAIN nodes /\ nodes[RootIno].path = <<>>
  BY DEF Inv, Tables
<1>3. \A k \in 1..n : (\E j \in DOMAIN nodes : nodes[j].path = Prefix(p, k) /\ ~Unlisted(j)) => Dir(k - 1)
  <2> SUFFICES ASSUME NEW k \in 1..n, NEW j \in DOMAIN nodes, nodes[j].path = Prefix(p, k), ~Unlisted(j)
               PROVE  Dir(k - 1)
    OBVIOUS
  <2>1. (k - 1) + 1 = k
    BY <1>1
  <2>2. PICK d \in DOMAIN directories :
          /\ d \in DOMAIN nodes /\ nodes[d].path = Prefix(p, k - 1)
          /\ Lookup(d, p[k]) \in DOMAIN nodes /\ nodes[Lookup(d, p[k])].path = Prefix(p, k)
    BY NextName
  <2> QED BY <2>1, <2>2
<1>4. \A k \in 0..(n - 1) : Dir(k)
  <2> SUFFICES ASSUME T # {} PROVE FALSE
    <3>1. \A k \in 0..(n - 1) : n - 1 - k \in Nat /\ n - 1 - k < n /\ n - 1 - (n - 1 - k) = k
      BY <1>1
    <3> HIDE DEF Dir, n
    <3> QED BY <3>1
  <2>1. PICK m \in T : \A x \in T : m <= x
    <3>1. T \subseteq Nat
      OBVIOUS
    <3> HIDE DEF T
    <3> QED BY <3>1, LeastNat
  <2>2. m \in Nat /\ m < n /\ ~Dir(n - 1 - m)
    OBVIOUS
  <2> HIDE DEF Dir, T
  <2>3. CASE m = 0
    <3>1. n \in 1..n /\ n - 1 - m = n - 1
      BY <1>1, <2>3
    <3>2. Dir(n - 1)
      BY <1>1, <1>3, <3>1
    <3> QED BY <2>2, <3>1, <3>2
  <2>4. CASE m # 0
    <3> DEFINE k == n - m
    <3>1. /\ m - 1 \in Nat /\ m - 1 < n /\ ~ (m <= m - 1) /\ n - 1 - (m - 1) = k
          /\ k \in 1..n /\ k \in 1..(n - 1) /\ k - 1 = n - 1 - m
      BY <1>1, <2>2, <2>4
    <3>2. Dir(k)
      <4>1. m - 1 \notin T
        BY <2>1, <3>1
      <4>2. Dir(n - 1 - (m - 1))
        BY <3>1, <4>1 DEF T
      <4> HIDE DEF k, n
      <4> QED BY <3>1, <4>2
    <3> HIDE DEF k
    <3>3. PICK d \in DOMAIN nodes : nodes[d].path = Prefix(p, k)
      BY <3>2 DEF Dir
    <3>4. d # RootIno
      <4>1. k \in 0..Len(p) /\ k # 0
        BY <1>1, <3>1 DEF n
      <4>2. Len(Prefix(p, k)) = k /\ Len(<<>>) = 0
        BY <4>1, PrefixOK
      <4> QED BY <1>2, <3>3, <4>1, <4>2
    <3>5. ~Unlisted(d)
      <4>1. Settled(nodes[d].path)
        BY <3>1, <3>3 DEF n
      <4> QED BY <3>4, <4>1, SettledListed
    <3>6. Dir(k - 1)
      BY <1>3, <3>1, <3>3, <3>5
    <3> QED BY <2>2, <3>1, <3>6
  <2> QED BY <2>3, <2>4
<1> DEFINE At(k) == CHOOSE i \in DOMAIN nodes : nodes[i].path = Prefix(p, k)
           walk == [k \in 0..n |-> IF k = n THEN Lookup(At(n - 1), p[n]) ELSE At(k)]
<1>5. ASSUME NEW k \in 0..(n - 1)
      PROVE  /\ At(k) \in DOMAIN nodes /\ nodes[At(k)].path = Prefix(p, k)
             /\ \A i \in DOMAIN nodes : nodes[i].path = Prefix(p, k) => i = At(k)
             /\ Lookup(At(k), p[k + 1]) \in DOMAIN nodes
             /\ nodes[Lookup(At(k), p[k + 1])].path = Prefix(p, k + 1)
  <2>1. PICK d \in DOMAIN nodes :
          /\ nodes[d].path = Prefix(p, k)
          /\ Lookup(d, p[k + 1]) \in DOMAIN nodes
          /\ nodes[Lookup(d, p[k + 1])].path = Prefix(p, k + 1)
    BY <1>4
  <2>2. \A i, j \in DOMAIN nodes : nodes[i].path = Prefix(p, k) /\ nodes[j].path = Prefix(p, k) => i = j
    <3>1. CASE k = 0
      <4>1. Prefix(p, 0) = <<>>
        BY SubSeqEmpty DEF Prefix
      <4> QED BY <1>2, <3>1, <4>1
    <3>2. CASE k # 0
      <4>1. k \in 1..(Len(p) - 1)
        BY <1>1, <3>2
      <4> QED BY <4>1 DEF Settled
    <3> QED BY <3>1, <3>2
  <2>3. At(k) \in DOMAIN nodes /\ nodes[At(k)].path = Prefix(p, k)
    BY <2>1
  <2> HIDE DEF At
  <2> QED BY <2>1, <2>2, <2>3
<1> HIDE DEF At, Dir, T
<1>6. /\ \A k \in 0..(n - 1) : walk[k] = At(k) /\ k \in 0..n
      /\ walk[n] = Lookup(At(n - 1), p[n]) /\ n - 1 \in 0..(n - 1) /\ (n - 1) + 1 = n
  <2> HIDE DEF n
  <2> QED BY <1>1
<1>7. walk[n] \in DOMAIN nodes /\ nodes[walk[n]].path = p
  <2> HIDE DEF walk, n
  <2> QED BY <1>1, <1>5, <1>6
<1>8. \A k \in 0..n : walk[k] \in DOMAIN nodes
  <2>1. \A k \in 0..n : k = n \/ k \in 0..(n - 1)
    BY <1>1
  <2> HIDE DEF walk, n
  <2> QED BY <1>5, <1>6, <1>7, <2>1
<1>9. walk \in [0..n -> DOMAIN nodes]
  BY <1>8
<1>10. walk[0] = RootIno
  <2>1. 0 \in 0..(n - 1)
    BY <1>1
  <2>2. Prefix(p, 0) = <<>>
    BY SubSeqEmpty DEF Prefix
  <2> HIDE DEF walk, n
  <2> QED BY <1>2, <1>5, <1>6, <2>1, <2>2
<1>11. ASSUME NEW k \in 1..n PROVE walk[k] = Lookup(walk[k - 1], p[k])
  <2>1. k - 1 \in 0..(n - 1) /\ (k - 1) + 1 = k /\ (k # n => k \in 0..(n - 1))
    BY <1>1
  <2>2. walk[k - 1] = At(k - 1)
    BY <1>6, <2>1
  <2>3. /\ Lookup(At(k - 1), p[k]) \in DOMAIN nodes
        /\ nodes[Lookup(At(k - 1), p[k])].path = Prefix(p, k)
    <3> HIDE DEF walk, n
    <3> QED BY <1>5, <2>1
  <2>4. CASE k = n
    <3> HIDE DEF walk, n
    <3> QED BY <1>6, <2>2, <2>4
  <2>5. CASE k # n
    <3>1. Lookup(At(k - 1), p[k]) = At(k)
      <4> HIDE DEF walk, n
      <4> QED BY <1>5, <2>1, <2>3, <2>5
    <3>2. walk[k] = At(k)
      BY <1>6, <2>1, <2>5
    <3> HIDE DEF walk, n
    <3> QED BY <2>2, <3>1, <3>2
  <2> QED BY <2>4, <2>5
<1>12. LeadsTo(p, walk[n])
  <2> HIDE DEF walk
  <2> QED BY <1>9, <1>10, <1>11 DEF LeadsTo
<1> HIDE DEF walk
<1> QED BY <1>7, <1>12

LEMMA InvReaches == Inv => OkIsReachable
<1> SUFFICES ASSUME Inv, Quiet, NEW a \in answered, a.result = "ok",
                    \A k \in 1..(Len(a.call.path) - 1) : Settled(SubSeq(a.call.path, 1, k))
             PROVE  \E i \in DOMAIN nodes :
                      /\ LeadsTo(a.call.path, i) /\ nodes[i].path = a.call.path
                      /\ Settled(a.call.path) => i = a.ino
  BY DEF OkIsReachable
<1> DEFINE p == a.call.path
<1>1. a.ino \in DOMAIN nodes /\ nodes[a.ino].path = p /\ ~Unlisted(a.ino)
  BY DEF Inv, Results
<1>2. p \in Path /\ p # <<>>
  <2>1. \E d \in DOMAIN directories : \E e \in Entries(d) : e.ino = a.ino
    BY <1>1 DEF Unlisted
  <2> QED BY <1>1, <2>1 DEF Inv, Tables, Listing, Below
<1>3. \A k \in 1..(Len(p) - 1) : Settled(Prefix(p, k))
  BY DEF Prefix
<1> HIDE DEF p
<1>4. PICK i \in DOMAIN nodes : LeadsTo(p, i) /\ nodes[i].path = p
  BY <1>1, <1>2, <1>3, OneReached
<1>5. Settled(p) => i = a.ino
  BY <1>1, <1>4 DEF Settled
<1> QED BY <1>4, <1>5 DEF p

\* Every add that returned Ok can be opened by its path once no call is under
\* way: lookup, which takes the first entry of each name, leads to it when the
\* directories above it are settled, that is when no second node was made of
\* any of them and no call broke off before it had listed one.  This is for
\* any number of threads that fill any other parts of the tree meanwhile.
THEOREM OkReached == Spec => []OkIsReachable
BY Always, InvReaches, PTL

\* The message of a mounted EngramFS names a signal that arrived.
THEOREM MountMessageTrue == Spec => []ReportedArrived
<1>1. Init => MountInv
  BY MountInitOK DEF Init
<1>2. MountInv /\ [Next]_vars => MountInv'
  <2> SUFFICES ASSUME MountInv, [Next]_vars PROVE MountInv'
    OBVIOUS
  <2>1. [MountNext]_mountVars
    BY DEF Next, FileSystem, MountFS, Session, MountNext, vars
  <2> QED BY <2>1, MountStepOK
<1>3. MountInv => ReportedArrived
  BY DEF MountInv
<1> QED BY <1>1, <1>2, <1>3, PTL DEF Spec
=============================================================================
