---------------------------- MODULE VfsNodesProofs ----------------------------
(***************************************************************************)
(* Proofs about VfsNodes, for every tree, page and read size, number of    *)
(* requests and adapter: TypeOK, ItemsMeanOneEntry, ListingIsComplete and  *)
(* ReadsAreTheFile hold.                                                   *)
(*                                                                         *)
(* Requests that populate one directory at once make several inodes for an *)
(* entry, and dir_cache and dir_children name whichever was stored last.   *)
(* So the invariant does not say which inode an entry has: it says that    *)
(* every inode there ever was is a child of the directory it was made in,  *)
(* under an entry of that directory's manifest, and never becomes another  *)
(* one (HangsIn, Grown); that the kernel's items, the two maps and the     *)
(* lists of the requests name such inodes (HeldInv, CacheInv, Listing);    *)
(* and how far a listing or a read has come (Paging, Reading).             *)
(***************************************************************************)
EXTENDS VfsNodes, SequenceTheorems, TLAPS

-----------------------------------------------------------------------------
(* The inductive invariant.                                                *)

\* The manifest's entry that a node was made from.
EntryOf(node) == [name |-> node.name, kind |-> node.kind, digest |-> node.digest]

NodeType ==
    [parent : Nat, name : Names \cup {"/"}, kind : {"file", "symlink", "dir"},
     digest : Digests \cup Blobs, populated : BOOLEAN]

\* A directory has a manifest, anything else has bytes.
HasDigest(node) == node.digest \in (IF node.kind = "dir" THEN Digests ELSE Blobs)

\* A node hangs in its parent, which is a directory, under an entry of it.
HangsIn(id) ==
    /\ nodes[id].parent \in 1..(nextId - 1)
    /\ nodes[nodes[id].parent].kind = "dir"
    /\ EntryOf(nodes[id]) \in ToSet(Manifest(nodes[id].parent))

TreeInv ==
    /\ adapter \in {"nfs", "fskit"}
    /\ nextId \in Nat /\ nextId > 1
    /\ nodes \in [1..(nextId - 1) -> NodeType]
    /\ \A id \in 1..(nextId - 1) : HasDigest(nodes[id])
    /\ nodes[Root].parent = Root /\ EntryOf(nodes[Root]) = RootEntry
    /\ \A id \in 2..(nextId - 1) : HangsIn(id)

\* An inode other than the root's, made in the directory under the name.
ChildOf(dir, name, id) ==
    id \in 2..(nextId - 1) /\ nodes[id].parent = dir /\ nodes[id].name = name

\* dir_cache names an inode that was made for its key.
CacheInv ==
    /\ DOMAIN dirCache \subseteq (1..(nextId - 1)) \X Names
    /\ \A key \in DOMAIN dirCache : ChildOf(key[1], key[2], dirCache[key])

IsDir(dir) == dir \in 1..(nextId - 1) /\ nodes[dir].kind = "dir"

\* The first n entries of a directory have inodes, these among them.
Listing(dir, ids, n) ==
    /\ n \in 0..Len(Manifest(dir))
    /\ ids \in Seq(Nat) /\ Len(ids) = n
    /\ \A k \in 1..n : /\ ChildOf(dir, Manifest(dir)[k].name, ids[k])
                       /\ <<dir, Manifest(dir)[k].name>> \in DOMAIN dirCache

FullListing(dir, ids) == IsDir(dir) /\ Listing(dir, ids, Len(Manifest(dir)))

\* dir_children has whole listings.
ChildrenInv ==
    \A dir \in DOMAIN dirChildren : FullListing(dir, dirChildren[dir])

\* What the kernel can be told of an inode.
HoldingOf(id) == Holding(Wire(id), Wire(nodes[id].parent), EntryOf(nodes[id]), nodes[id])

HeldInv == \A h \in held : \E id \in 1..(nextId - 1) : h = HoldingOf(id)

Outcomes ==
    {"none", "found"} \cup {NfsStatus[e] : e \in DOMAIN NfsStatus}
                      \cup {PosixStatus[e] : e \in DOMAIN PosixStatus}

TaskType ==
    [pc : {"idle", "fast", "children", "fetch", "entry", "make", "store",
           "listed", "blob", "download", "data", "done"},
     op : {"none", "lookup", "getattr", "readlink", "write", "readdir", "read"},
     item : Nat, dir : Nat, name : Names \cup {"none", ".", ".."}, i : Nat,
     ids : Seq(Nat), after : Nat, seen : Seq(Names \cup {"/"} \cup Nat),
     result : Outcomes]

\* A request is about an item that the kernel holds.
About(q) ==
    /\ q.dir \in 1..(nextId - 1)
    /\ ToSet(q.ids) \subseteq 1..(nextId - 1)
    /\ q.op # "none" => q.dir = Inode(q.item) /\ \E h \in held : h.item = q.item
    /\ q.op = "none" => q.pc = "idle"

\* How far ensure_populated has come.
Populating(q) ==
    /\ q.pc \in {"fast", "children", "fetch", "entry", "make", "store", "listed"} =>
          q.op \in {"lookup", "readdir"} /\ q.result = "none"
    /\ q.pc \in {"children", "fetch", "entry", "make", "store", "listed"} => IsDir(q.dir)
    /\ q.pc \in {"entry", "make"} => q.i \in Nat \ {0} /\ Listing(q.dir, q.ids, q.i - 1)
    /\ q.pc = "make" => q.i \in DOMAIN Manifest(q.dir)
    /\ q.pc \in {"store", "listed"} => FullListing(q.dir, q.ids)

\* A directory whose children were stored twice, over NFS.
Redone(dir) == adapter = "nfs" /\ dir \in restored

\* A listing that goes on has the names up to the cookie.
Paging(q) ==
    q.op = "readdir" /\ ~Redone(q.dir) =>
       /\ q.pc \notin {"idle", "done"} =>
             \/ q.after = 0 /\ q.seen = <<>>
             \/ /\ IsDir(q.dir)
                /\ Len(q.seen) \in 1..Len(Manifest(q.dir))
                /\ q.seen = SubSeq(NamesOf(nodes[q.dir].digest), 1, Len(q.seen))
                /\ adapter = "fskit" => q.after = Len(q.seen)
                /\ adapter = "nfs" => /\ q.dir \in DOMAIN dirChildren
                                      /\ q.after = dirChildren[q.dir][Len(q.seen)]
       /\ q.pc = "listed" /\ adapter = "nfs" =>
             q.dir \in DOMAIN dirChildren /\ dirChildren[q.dir] = q.ids
       /\ q.pc = "done" /\ q.result = "found" =>
             IsDir(q.dir) /\ q.seen = NamesOf(nodes[q.dir].digest)

\* What a kernel sees of a file or a link: nothing when the size it was told
\* is 0, or all its bytes.
Whole(node) == IF AttrOf(node).size = 0 THEN <<>> ELSE Data[node.digest]

\* A read that goes on has the bytes up to its offset.
Reading(q) ==
    /\ q.pc \in {"blob", "download", "data"} =>
          /\ q.op = "read" /\ q.result = "none"
          /\ nodes[q.dir].kind = "file"
          /\ q.after \in 0..Len(Data[nodes[q.dir].digest])
          /\ q.seen = SubSeq(Data[nodes[q.dir].digest], 1, q.after)
    /\ q.op \in {"read", "readlink"} /\ q.pc = "done" /\ q.result = "found" =>
          nodes[q.dir].kind # "dir" /\ q.seen = Whole(nodes[q.dir])

\* A name that is denied is not in the directory.
Denied(q) ==
    q.op = "lookup" /\ q.result = Status("NotFound") =>
       IsDir(q.dir) /\ \A e \in ToSet(Manifest(q.dir)) : e.name # q.name

TaskInv(q) ==
    q \in TaskType /\ About(q) /\ Populating(q) /\ Paging(q) /\ Reading(q) /\ Denied(q)

IInv ==
    /\ TreeInv /\ CacheInv /\ ChildrenInv /\ HeldInv
    /\ restored \subseteq 1..(nextId - 1)
    /\ cached \subseteq Blobs /\ calls \in 0..MaxCalls
    /\ DOMAIN task = Tasks
    /\ \A t \in Tasks : TaskInv(task[t])

\* What every step leaves as it is: what an inode stands for, and what there
\* is of the maps.
Grown ==
    /\ adapter' = adapter
    /\ nextId' \in Nat /\ nextId <= nextId'
    /\ \A id \in 1..(nextId - 1) :
          /\ nodes'[id].parent = nodes[id].parent
          /\ nodes'[id].name = nodes[id].name
          /\ nodes'[id].kind = nodes[id].kind
          /\ nodes'[id].digest = nodes[id].digest
    /\ DOMAIN dirCache \subseteq DOMAIN dirCache'
    /\ held \subseteq held' /\ restored \subseteq restored'
    /\ \A dir \in DOMAIN dirChildren :
          /\ dir \in DOMAIN dirChildren'
          /\ dirChildren'[dir] = dirChildren[dir] \/ dir \in restored'

-----------------------------------------------------------------------------
(* The operators.                                                          *)

\* An item's inode is the inode whose item it is.
LEMMA WireInverse ==
    ASSUME NEW id \in Nat \ {0}, adapter \in {"nfs", "fskit"}
    PROVE  Inode(Wire(id)) = id /\ Wire(id) \in Nat
BY DEF Inode, Wire

\* No error is reported as success, and no other as a name that is not there.
LEMMA StatusApart ==
    ASSUME adapter \in {"nfs", "fskit"}
    PROVE  /\ Status("NotFound") \in Outcomes \ {"none", "found"}
           /\ \A e \in {"NotDir", "IsDir", "Invalid", "ReadOnly", "Io", "RateLimited"} :
                 Status(e) \in Outcomes \ {"none", "found", Status("NotFound")}
<1>1. CASE adapter = "nfs"
  BY <1>1 DEF Status, NfsStatus, Outcomes
<1>2. CASE adapter = "fskit"
  BY <1>2 DEF Status, PosixStatus, Outcomes
<1> QED
  BY <1>1, <1>2

\* A sequence has what it has at its positions.
LEMMA Members ==
    ASSUME NEW S, NEW s \in Seq(S)
    PROVE  /\ ToSet(s) \subseteq S
           /\ \A e : e \in ToSet(s) <=> \E k \in 1..Len(s) : e = s[k]
BY LenProperties, ElementOfSeq DEF ToSet

\* A directory's manifest is a sequence of entries of different names.
LEMMA ManifestIs ==
    ASSUME TreeInv, NEW dir, IsDir(dir)
    PROVE  /\ dir \in 1..(nextId - 1) /\ nodes[dir].digest \in Digests
           /\ Manifest(dir) \in Seq(Entries)
           /\ Len(Manifest(dir)) \in Nat
           /\ DOMAIN Manifest(dir) = 1..Len(Manifest(dir))
           /\ \A i, j \in 1..Len(Manifest(dir)) :
                 Manifest(dir)[i].name = Manifest(dir)[j].name => i = j
<1>1. dir \in 1..(nextId - 1) /\ nodes[dir].kind = "dir"
  BY DEF IsDir
<1>2. nodes[dir].digest \in Digests
  BY <1>1 DEF TreeInv, HasDigest
<1>3. Manifest(dir) \in Seq(Entries)
  BY <1>2, VfsNodesAssumption DEF Manifest
<1>4. Len(Manifest(dir)) \in Nat /\ DOMAIN Manifest(dir) = 1..Len(Manifest(dir))
  BY ONLY <1>3, LenProperties
<1>5. \A i, j \in DOMAIN Manifest(dir) :
         Manifest(dir)[i].name = Manifest(dir)[j].name => i = j
  BY <1>2, VfsNodesAssumption DEF Manifest
<1> QED
  BY ONLY <1>1, <1>2, <1>3, <1>4, <1>5

\* An entry has a name, and a directory or bytes behind its digest.
LEMMA EntryType ==
    ASSUME NEW e \in Entries
    PROVE  /\ e.name \in Names /\ e.kind \in {"file", "symlink", "dir"}
           /\ e.digest \in Digests \cup Blobs
           /\ e.digest \in (IF e.kind = "dir" THEN Digests ELSE Blobs)
           /\ e = [name |-> e.name, kind |-> e.kind, digest |-> e.digest]
BY DEF Entries

\* A listing's inodes are inodes, of different names.
LEMMA ListingIs ==
    ASSUME TreeInv, NEW dir, IsDir(dir), NEW ids, NEW n, Listing(dir, ids, n)
    PROVE  /\ ids \in Seq(Nat) /\ n \in Nat /\ n <= Len(Manifest(dir)) /\ Len(ids) = n
           /\ ToSet(ids) \subseteq 2..(nextId - 1)
           /\ \A k \in 1..n : /\ ids[k] \in 2..(nextId - 1)
                              /\ nodes[ids[k]].name = Manifest(dir)[k].name
                              /\ nodes[ids[k]].parent = dir
           /\ \A j, k \in 1..n : ids[j] = ids[k] => j = k
<1> DEFINE m == Len(Manifest(dir))
<1>1. ids \in Seq(Nat) /\ n \in 0..m /\ Len(ids) = n
  BY DEF Listing
<1>2. \A k \in 1..n : /\ ids[k] \in 2..(nextId - 1)
                      /\ nodes[ids[k]].name = Manifest(dir)[k].name
                      /\ nodes[ids[k]].parent = dir
  BY DEF Listing, ChildOf
<1>3. m \in Nat /\ \A i, j \in 1..m : Manifest(dir)[i].name = Manifest(dir)[j].name => i = j
  BY ManifestIs
<1>4. n \in Nat /\ n <= m
  BY ONLY <1>1, <1>3
<1>5. \A k \in 1..n : k \in 1..m
  BY ONLY <1>3, <1>4
<1>6. \A j, k \in 1..n : ids[j] = ids[k] => j = k
  BY ONLY <1>2, <1>3, <1>5
<1>7. ToSet(ids) \subseteq 2..(nextId - 1)
  BY ONLY <1>1, <1>2, Members
<1> QED
  BY ONLY <1>1, <1>2, <1>4, <1>6, <1>7

-----------------------------------------------------------------------------
(* What the kernel holds.                                                  *)

\* The node and the parent of an inode.
LEMMA NodeIs ==
    ASSUME TreeInv, NEW id \in 1..(nextId - 1)
    PROVE  /\ nodes[id] \in NodeType /\ HasDigest(nodes[id])
           /\ nodes[id].parent \in 1..(nextId - 1)
           /\ id \in Nat \ {0} /\ nodes[id].parent \in Nat \ {0}
           /\ adapter \in {"nfs", "fskit"}
<1>1. /\ nextId \in Nat /\ nextId > 1 /\ nodes[id] \in NodeType /\ HasDigest(nodes[id])
      /\ nodes[Root].parent = Root /\ adapter \in {"nfs", "fskit"}
  BY DEF TreeInv
<1>2. \A i \in 2..(nextId - 1) : nodes[i].parent \in 1..(nextId - 1)
  BY DEF TreeInv, HangsIn
<1>3. nodes[id].parent \in 1..(nextId - 1)
  BY ONLY <1>1, <1>2 DEF Root
<1> QED
  BY ONLY <1>1, <1>3

\* What the kernel holds is what it can be told of one inode.
LEMMA ItemIs ==
    ASSUME TreeInv, HeldInv, NEW h \in held
    PROVE  LET id == Inode(h.item)
           IN  /\ id \in 1..(nextId - 1) /\ h = HoldingOf(id)
               /\ h.item = Wire(id) /\ h.item \in Nat
               /\ h.in = Wire(nodes[id].parent) /\ Inode(h.in) = nodes[id].parent
               /\ h.entry = EntryOf(nodes[id])
               /\ h.attr = AttrOf(nodes[id])
<1>1. PICK id \in 1..(nextId - 1) : h = HoldingOf(id)
  BY DEF HeldInv
<1>2. /\ id \in Nat \ {0} /\ nodes[id].parent \in Nat \ {0}
      /\ adapter \in {"nfs", "fskit"}
  BY NodeIs
<1>3. /\ Inode(Wire(id)) = id /\ Wire(id) \in Nat
      /\ Inode(Wire(nodes[id].parent)) = nodes[id].parent
  BY ONLY <1>2, WireInverse
<1>4. /\ h.item = Wire(id) /\ h.in = Wire(nodes[id].parent)
      /\ h.entry = EntryOf(nodes[id]) /\ h.attr = AttrOf(nodes[id])
  BY ONLY <1>1 DEF HoldingOf, Holding
<1> QED
  BY ONLY <1>1, <1>3, <1>4

\* Where the kernel looked there is one entry of a child's name, its own.
LEMMA MeantIs ==
    ASSUME TreeInv, HeldInv, NEW g \in held, IsDir(Inode(g.item)),
           NEW name, NEW id, ChildOf(Inode(g.item), name, id)
    PROVE  Meant(g.item, name) = {EntryOf(nodes[id])}
<1> DEFINE dir == Inode(g.item)
<1>1. id \in 2..(nextId - 1) /\ nodes[id].parent = dir /\ nodes[id].name = name
  BY DEF ChildOf
<1>2. EntryOf(nodes[id]) \in ToSet(Manifest(dir)) /\ EntryOf(nodes[id]).name = name
  BY <1>1 DEF TreeInv, HangsIn, EntryOf
<1>3. /\ nodes[dir].kind = "dir" /\ Manifest(dir) \in Seq(Entries)
      /\ \A i, j \in 1..Len(Manifest(dir)) :
            Manifest(dir)[i].name = Manifest(dir)[j].name => i = j
  BY ManifestIs DEF IsDir
<1>4. \A e \in ToSet(Manifest(dir)) : e.name = name => e = EntryOf(nodes[id])
  BY ONLY <1>2, <1>3, Members
<1>5. \A h \in held : h.item = g.item => h.entry = EntryOf(nodes[dir])
  BY ItemIs
<1>6. \A h \in held : h.item = g.item =>
         h.entry.kind = "dir" /\ Content[h.entry.digest] = Manifest(dir)
  BY ONLY <1>3, <1>5 DEF EntryOf, Manifest
<1>7. \A e : e \in Meant(g.item, name) <=>
         \E h \in held : /\ h.item = g.item /\ h.entry.kind = "dir"
                         /\ e \in ToSet(Content[h.entry.digest]) /\ e.name = name
  BY ONLY DEF Meant
<1>8. \A e : e \in Meant(g.item, name) <=> e \in ToSet(Manifest(dir)) /\ e.name = name
  BY ONLY <1>6, <1>7, g \in held
<1> QED
  BY ONLY <1>2, <1>4, <1>8

\* The kernel is told of children what their inodes stand for.
LEMMA ToldIs ==
    ASSUME TreeInv, HeldInv, NEW g \in held, IsDir(Inode(g.item)), NEW found,
           \A f \in found : ChildOf(Inode(g.item), f[1], f[2])
    PROVE  \A h \in Told(g.item, found) : \E id \in 1..(nextId - 1) : h = HoldingOf(id)
<1>1. SUFFICES ASSUME NEW f \in found
               PROVE  LET entry == IF Meant(g.item, f[1]) = {} THEN RootEntry
                                   ELSE CHOOSE e \in Meant(g.item, f[1]) : TRUE
                      IN  Holding(Wire(f[2]), g.item, entry, nodes[f[2]]) = HoldingOf(f[2])
                          /\ f[2] \in 1..(nextId - 1)
  BY DEF Told
<1>2. ChildOf(Inode(g.item), f[1], f[2])
  OBVIOUS
<1>3. Meant(g.item, f[1]) = {EntryOf(nodes[f[2]])}
  BY <1>2, MeantIs
<1>4. g.item = Wire(Inode(g.item)) /\ nextId \in Nat
  BY ItemIs DEF TreeInv
<1>5. f[2] \in 2..(nextId - 1) /\ nodes[f[2]].parent = Inode(g.item)
  BY <1>2 DEF ChildOf
<1> QED
  BY ONLY <1>3, <1>4, <1>5 DEF HoldingOf

-----------------------------------------------------------------------------
(* What every step keeps.                                                  *)

\* An inode goes on standing for what it stood for.
LEMMA HoldingStays ==
    ASSUME TreeInv, Grown, NEW id \in 1..(nextId - 1)
    PROVE  HoldingOf(id)' = HoldingOf(id)
<1>1. /\ adapter' = adapter /\ nodes'[id].parent = nodes[id].parent
      /\ nodes'[id].name = nodes[id].name
      /\ nodes'[id].kind = nodes[id].kind
      /\ nodes'[id].digest = nodes[id].digest
  BY DEF Grown
<1>2. \A i : Wire(i)' = Wire(i)
  BY ONLY <1>1 DEF Wire
<1> QED
  BY ONLY <1>1, <1>2 DEF HoldingOf, Holding, EntryOf, AttrOf

\* Inodes stay inodes.
LEMMA Wider ==
    ASSUME NEW a \in Nat, NEW b \in Nat, a <= b
    PROVE  1..(a - 1) \subseteq 1..(b - 1) /\ 2..(a - 1) \subseteq 2..(b - 1)
OBVIOUS

\* The kernel is told of inodes only.
LEMMA HeldGrown ==
    ASSUME TreeInv, HeldInv, Grown,
           \A h \in held' : h \in held \/ \E id \in 1..(nextId - 1) : h = HoldingOf(id)
    PROVE  HeldInv'
<1>1. nextId \in Nat /\ nextId' \in Nat /\ nextId <= nextId'
  BY DEF TreeInv, Grown
<1>2. \A h \in held' : \E id \in 1..(nextId - 1) : h = HoldingOf(id)
  BY DEF HeldInv
<1>3. \A h \in held' : \E id \in 1..(nextId - 1) : h = HoldingOf(id)'
  BY ONLY <1>2, HoldingStays, TreeInv, Grown
<1>4. \A id \in 1..(nextId - 1) : id \in 1..(nextId' - 1)
  BY ONLY <1>1, Wider
<1>5. \A h \in held' : \E id \in 1..(nextId' - 1) : h = HoldingOf(id)'
  BY ONLY <1>3, <1>4
<1> QED
  BY ONLY <1>5 DEF HeldInv

\* A directory stays one, with its manifest.
LEMMA DirKeeps ==
    ASSUME TreeInv, Grown, NEW dir, IsDir(dir)
    PROVE  IsDir(dir)' /\ Manifest(dir)' = Manifest(dir)
<1>1. nextId \in Nat /\ nextId' \in Nat /\ nextId <= nextId'
  BY DEF TreeInv, Grown
<1>2. dir \in 1..(nextId - 1) /\ nodes[dir].kind = "dir"
  BY DEF IsDir
<1>3. nodes'[dir].kind = nodes[dir].kind /\ nodes'[dir].digest = nodes[dir].digest
  BY ONLY <1>2, Grown DEF Grown
<1> QED
  BY ONLY <1>1, <1>2, <1>3 DEF IsDir, Manifest

\* A child stays one.
LEMMA ChildKeeps ==
    ASSUME TreeInv, Grown, NEW dir, NEW name, NEW id, ChildOf(dir, name, id)
    PROVE  ChildOf(dir, name, id)'
<1>1. nextId \in Nat /\ nextId' \in Nat /\ nextId <= nextId'
  BY DEF TreeInv, Grown
<1>2. id \in 2..(nextId - 1) /\ nodes[id].parent = dir /\ nodes[id].name = name
  BY DEF ChildOf
<1>3. id \in 1..(nextId - 1)
  BY ONLY <1>1, <1>2
<1>4. nodes'[id].parent = nodes[id].parent /\ nodes'[id].name = nodes[id].name
  BY ONLY <1>3, Grown DEF Grown
<1> QED
  BY ONLY <1>1, <1>2, <1>4 DEF ChildOf

\* A listing stays one.
LEMMA ListingKeeps ==
    ASSUME TreeInv, Grown, NEW dir, IsDir(dir), NEW ids, NEW n, Listing(dir, ids, n)
    PROVE  Listing(dir, ids, n)'
<1>1. Manifest(dir)' = Manifest(dir)
  BY DirKeeps
<1>2. \A k \in 1..n : /\ ChildOf(dir, Manifest(dir)[k].name, ids[k])
                      /\ <<dir, Manifest(dir)[k].name>> \in DOMAIN dirCache
  BY DEF Listing
<1>3. ASSUME NEW k \in 1..n
      PROVE  ChildOf(dir, Manifest(dir)[k].name, ids[k])'
  <2>1. PICK name : name = Manifest(dir)[k].name
    OBVIOUS
  <2>2. ChildOf(dir, name, ids[k])
    BY <1>2, <2>1
  <2>3. ChildOf(dir, name, ids[k])'
    BY <2>2, ChildKeeps
  <2>4. Manifest(dir)[k].name' = name
    BY <1>1, <2>1
  <2> QED
    BY ONLY <2>3, <2>4
<1>4. DOMAIN dirCache \subseteq DOMAIN dirCache'
  BY DEF Grown
<1>5. n \in 0..Len(Manifest(dir)) /\ ids \in Seq(Nat) /\ Len(ids) = n
  BY DEF Listing
<1> QED
  BY ONLY <1>1, <1>2, <1>3, <1>4, <1>5 DEF Listing

\* So does a whole one.
LEMMA FullKeeps ==
    ASSUME TreeInv, Grown, NEW dir, NEW ids, FullListing(dir, ids)
    PROVE  FullListing(dir, ids)'
<1>1. IsDir(dir) /\ Listing(dir, ids, Len(Manifest(dir)))
  BY DEF FullListing
<1>2. IsDir(dir)' /\ Manifest(dir)' = Manifest(dir)
  BY <1>1, DirKeeps
<1>3. PICK n : n = Len(Manifest(dir))
  OBVIOUS
<1>4. Listing(dir, ids, n)'
  BY <1>1, <1>3, ListingKeeps
<1> QED
  BY ONLY <1>2, <1>3, <1>4 DEF FullListing

\* A request about an inode stays one.
LEMMA AboutKeeps ==
    ASSUME TreeInv, Grown, NEW q, About(q)
    PROVE  About(q)'
<1>1. nextId \in Nat /\ nextId' \in Nat /\ nextId <= nextId'
  BY DEF TreeInv, Grown
<1>2. adapter' = adapter /\ held \subseteq held'
  BY DEF Grown
<1>3. /\ q.dir \in 1..(nextId - 1) /\ ToSet(q.ids) \subseteq 1..(nextId - 1)
      /\ q.op # "none" => q.dir = Inode(q.item) /\ \E h \in held : h.item = q.item
      /\ q.op = "none" => q.pc = "idle"
  BY DEF About
<1>4. 1..(nextId - 1) \subseteq 1..(nextId' - 1)
  BY ONLY <1>1, Wider
<1>5. Inode(q.item)' = Inode(q.item)
  BY <1>2 DEF Inode
<1>6. q.dir \in 1..(nextId' - 1) /\ ToSet(q.ids) \subseteq 1..(nextId' - 1)
  BY ONLY <1>3, <1>4
<1>7. q.op # "none" => q.dir = Inode(q.item)' /\ \E h \in held' : h.item = q.item
  BY ONLY <1>2, <1>3, <1>5
<1> QED
  BY ONLY <1>3, <1>6, <1>7 DEF About

\* So does one that populates a directory.
LEMMA PopulatingKeeps ==
    ASSUME TreeInv, Grown, NEW q, Populating(q)
    PROVE  Populating(q)'
<1>1. /\ q.pc \in {"fast", "children", "fetch", "entry", "make", "store", "listed"} =>
            q.op \in {"lookup", "readdir"} /\ q.result = "none"
      /\ q.pc \in {"children", "fetch", "entry", "make", "store", "listed"} => IsDir(q.dir)
      /\ q.pc \in {"entry", "make"} => q.i \in Nat \ {0} /\ Listing(q.dir, q.ids, q.i - 1)
      /\ q.pc = "make" => q.i \in DOMAIN Manifest(q.dir)
      /\ q.pc \in {"store", "listed"} => FullListing(q.dir, q.ids)
  BY DEF Populating
<1>2. q.pc \in {"children", "fetch", "entry", "make", "store", "listed"} => IsDir(q.dir)'
  BY <1>1, DirKeeps
<1>3. q.pc \in {"entry", "make"} => q.i \in Nat \ {0} /\ Listing(q.dir, q.ids, q.i - 1)'
  BY <1>1, ListingKeeps
<1>4. q.pc = "make" => (q.i \in DOMAIN Manifest(q.dir))'
  <2>1. q.pc = "make" => Manifest(q.dir)' = Manifest(q.dir)
    BY <1>1, DirKeeps
  <2> QED
    BY <1>1, <2>1
<1>5. q.pc \in {"store", "listed"} => FullListing(q.dir, q.ids)'
  BY <1>1, FullKeeps
<1> QED
  BY ONLY <1>1, <1>2, <1>3, <1>4, <1>5 DEF Populating

\* So does one that pages.
LEMMA PagingKeeps ==
    ASSUME TreeInv, Grown, NEW q, Paging(q)
    PROVE  Paging(q)'
<1>1. SUFFICES ASSUME q.op = "readdir", ~Redone(q.dir)'
               PROVE  Paging(q)'
  BY DEF Paging
<1>2. adapter' = adapter /\ restored \subseteq restored'
  BY DEF Grown
<1>3. ~Redone(q.dir) /\ (adapter = "nfs" => q.dir \notin restored')
  BY ONLY <1>1, <1>2 DEF Redone
<1>4. adapter = "nfs" /\ q.dir \in DOMAIN dirChildren =>
         q.dir \in DOMAIN dirChildren' /\ dirChildren'[q.dir] = dirChildren[q.dir]
  BY <1>3 DEF Grown
<1>5. IsDir(q.dir) => /\ IsDir(q.dir)' /\ Manifest(q.dir)' = Manifest(q.dir)
                      /\ nodes'[q.dir].digest = nodes[q.dir].digest
  BY DirKeeps DEF IsDir, Grown
<1>6. q.pc \notin {"idle", "done"} =>
         \/ q.after = 0 /\ q.seen = <<>>
         \/ /\ IsDir(q.dir)
            /\ Len(q.seen) \in 1..Len(Manifest(q.dir))
            /\ q.seen = SubSeq(NamesOf(nodes[q.dir].digest), 1, Len(q.seen))
            /\ adapter = "fskit" => q.after = Len(q.seen)
            /\ adapter = "nfs" => /\ q.dir \in DOMAIN dirChildren
                                  /\ q.after = dirChildren[q.dir][Len(q.seen)]
  BY <1>1, <1>3 DEF Paging
<1>7. q.pc = "listed" /\ adapter = "nfs" =>
         q.dir \in DOMAIN dirChildren /\ dirChildren[q.dir] = q.ids
  BY <1>1, <1>3 DEF Paging
<1>8. q.pc = "done" /\ q.result = "found" =>
         IsDir(q.dir) /\ q.seen = NamesOf(nodes[q.dir].digest)
  BY <1>1, <1>3 DEF Paging
<1>9. q.pc \notin {"idle", "done"} =>
         \/ q.after = 0 /\ q.seen = <<>>
         \/ /\ IsDir(q.dir)'
            /\ Len(q.seen) \in 1..Len(Manifest(q.dir)')
            /\ q.seen = SubSeq(NamesOf(nodes'[q.dir].digest), 1, Len(q.seen))
            /\ adapter' = "fskit" => q.after = Len(q.seen)
            /\ adapter' = "nfs" => /\ q.dir \in DOMAIN dirChildren'
                                   /\ q.after = dirChildren'[q.dir][Len(q.seen)]
  BY ONLY <1>2, <1>4, <1>5, <1>6
<1>10. q.pc = "listed" /\ adapter' = "nfs" =>
          q.dir \in DOMAIN dirChildren' /\ dirChildren'[q.dir] = q.ids
  BY ONLY <1>2, <1>4, <1>7
<1>11. q.pc = "done" /\ q.result = "found" =>
          IsDir(q.dir)' /\ q.seen = NamesOf(nodes'[q.dir].digest)
  BY ONLY <1>5, <1>8
<1> QED
  BY ONLY <1>9, <1>10, <1>11 DEF Paging, NamesOf

\* So does one that reads.
LEMMA ReadingKeeps ==
    ASSUME TreeInv, Grown, NEW q, About(q), Reading(q)
    PROVE  Reading(q)'
<1>1. q.dir \in 1..(nextId - 1)
  BY DEF About
<1>2. nodes'[q.dir].kind = nodes[q.dir].kind /\ nodes'[q.dir].digest = nodes[q.dir].digest
  BY ONLY <1>1, Grown DEF Grown
<1>3. Whole(nodes[q.dir])' = Whole(nodes[q.dir])
  BY ONLY <1>2 DEF Whole, AttrOf
<1> QED
  BY ONLY <1>2, <1>3, Reading(q) DEF Reading

\* A name that is denied stays one that is not there.
LEMMA DeniedKeeps ==
    ASSUME TreeInv, Grown, NEW q, Denied(q)
    PROVE  Denied(q)'
<1>1. SUFFICES ASSUME q.op = "lookup", q.result = Status("NotFound")'
               PROVE  (IsDir(q.dir) /\ \A e \in ToSet(Manifest(q.dir)) : e.name # q.name)'
  BY DEF Denied
<1>2. Status("NotFound")' = Status("NotFound")
  BY DEF Status, Grown
<1>3. IsDir(q.dir) /\ \A e \in ToSet(Manifest(q.dir)) : e.name # q.name
  BY ONLY <1>1, <1>2, Denied(q) DEF Denied
<1>4. IsDir(q.dir)' /\ Manifest(q.dir)' = Manifest(q.dir)
  BY <1>3, DirKeeps
<1> QED
  BY ONLY <1>3, <1>4

\* A request keeps what the invariant says of it.
LEMMA TaskKeeps ==
    ASSUME TreeInv, Grown, NEW q, TaskInv(q)
    PROVE  TaskInv(q)'
<1>1. /\ q \in TaskType /\ About(q) /\ Populating(q) /\ Paging(q) /\ Reading(q)
      /\ Denied(q)
  BY DEF TaskInv
<1>2. /\ About(q)' /\ Populating(q)' /\ Paging(q)' /\ Reading(q)' /\ Denied(q)'
  BY <1>1, AboutKeeps, PopulatingKeeps, PagingKeeps, ReadingKeeps, DeniedKeeps
<1> QED
  BY ONLY <1>1, <1>2 DEF TaskInv, TaskType, Outcomes, NfsStatus, PosixStatus

\* A step of one request, which leaves it as r.
LEMMA Turn ==
    ASSUME IInv, Grown, NEW t \in Tasks, NEW r, task' = [task EXCEPT ![t] = r],
           TaskInv(r) \/ TaskInv(r)',
           TreeInv', CacheInv', ChildrenInv',
           \A h \in held' : h \in held \/ \E id \in 1..(nextId - 1) : h = HoldingOf(id),
           restored' \subseteq 1..(nextId' - 1),
           cached' \subseteq Blobs, calls' \in 0..MaxCalls
    PROVE  IInv'
<1>1. TreeInv /\ HeldInv /\ DOMAIN task = Tasks /\ \A u \in Tasks : TaskInv(task[u])
  BY DEF IInv
<1>2. HeldInv'
  BY <1>1, HeldGrown
<1>3. TaskInv(r)'
  BY <1>1, TaskKeeps
<1>4. DOMAIN task' = Tasks /\ task'[t] = r /\ \A u \in Tasks : u # t => task'[u] = task[u]
  BY <1>1
<1>5. ASSUME NEW u \in Tasks
      PROVE  TaskInv(task[u])'
  <2>1. CASE u = t
    BY <1>3, <1>4, <2>1
  <2>2. CASE u # t
    <3>1. PICK q : q = task[u]
      OBVIOUS
    <3>2. TaskInv(q)'
      BY <1>1, <3>1, TaskKeeps
    <3>3. task'[u] = q
      BY <1>4, <2>2, <3>1
    <3> QED
      BY ONLY <3>2, <3>3
  <2> QED
    BY <2>1, <2>2
<1> QED
  BY <1>2, <1>4, <1>5 DEF IInv

\* A step of one request that leaves the table as it is.
LEMMA SmallTurn ==
    ASSUME IInv, UNCHANGED <<table, restored>>, NEW t \in Tasks, NEW r,
           task' = [task EXCEPT ![t] = r], TaskInv(r),
           held \subseteq held',
           \A h \in held' : h \in held \/ \E id \in 1..(nextId - 1) : h = HoldingOf(id),
           cached' \subseteq Blobs, calls' \in 0..MaxCalls
    PROVE  IInv'
<1>1. /\ UNCHANGED <<adapter, nodes, dirCache, dirChildren, nextId, restored>>
  BY DEF table
<1>2. TreeInv /\ CacheInv /\ ChildrenInv /\ restored \subseteq 1..(nextId - 1)
  BY DEF IInv
<1>3. nextId \in Nat
  BY <1>2 DEF TreeInv
<1>4. Grown
  BY ONLY <1>1, <1>3, held \subseteq held' DEF Grown
<1>5. TreeInv'
  BY ONLY <1>1, <1>2 DEF TreeInv, HangsIn, Manifest, EntryOf, HasDigest
<1>6. CacheInv'
  BY ONLY <1>1, <1>2 DEF CacheInv, ChildOf
<1>7. ChildrenInv'
  BY ONLY <1>1, <1>2 DEF ChildrenInv, FullListing, IsDir, Listing, ChildOf, Manifest
<1>8. restored' \subseteq 1..(nextId' - 1)
  BY ONLY <1>1, <1>2
<1> QED
  BY <1>4, <1>5, <1>6, <1>7, <1>8, Turn

-----------------------------------------------------------------------------
(* ensure_populated.                                                       *)

\* A request and what the invariant says of it.
LEMMA TaskIs ==
    ASSUME IInv, NEW t \in Tasks
    PROVE  /\ TreeInv /\ HeldInv /\ CacheInv /\ ChildrenInv
           /\ nextId \in Nat /\ adapter \in {"nfs", "fskit"}
           /\ task[t] \in TaskType /\ TaskInv(task[t])
           /\ About(task[t]) /\ Populating(task[t]) /\ Paging(task[t])
           /\ Reading(task[t]) /\ Denied(task[t])
           /\ DOMAIN task = Tasks
<1>1. TreeInv /\ HeldInv /\ CacheInv /\ ChildrenInv /\ TaskInv(task[t]) /\ DOMAIN task = Tasks
  BY DEF IInv
<1> QED
  BY ONLY <1>1 DEF TaskInv, TreeInv

\* Only a request's place changes.
LEMMA Moved ==
    ASSUME NEW t, NEW pc, Goto(t, pc)
    PROVE  task' = [task EXCEPT ![t] = [task[t] EXCEPT !.pc = pc]]
BY DEF Goto

\* A request ends with a result.
LEMMA Ended ==
    ASSUME NEW t, NEW result, Done(t, result)
    PROVE  task' = [task EXCEPT ![t] =
                       [task[t] EXCEPT !.pc = "done", !.result = result]]
BY DEF Done

\* A request that populates a directory may end with an error.
LEMMA Fails ==
    ASSUME IInv, NEW q, TaskInv(q), q.op # "none", NEW result, NEW r,
           result \in Outcomes \ {"none", "found", Status("NotFound")},
           r = [q EXCEPT !.pc = "done", !.result = result]
    PROVE  TaskInv(r)
<1>1. /\ q \in TaskType /\ About(q) /\ Populating(q) /\ Paging(q) /\ Reading(q)
      /\ Denied(q)
  BY DEF TaskInv
<1>2. result \in Outcomes \ {"none", "found", Status("NotFound")}
  OBVIOUS
<1>3. /\ r \in TaskType
      /\ r.pc = "done" /\ r.result = result /\ r.op = q.op /\ r.item = q.item
      /\ r.dir = q.dir /\ r.name = q.name /\ r.i = q.i /\ r.ids = q.ids
      /\ r.after = q.after /\ r.seen = q.seen
  BY ONLY <1>1, <1>2, r = [q EXCEPT !.pc = "done", !.result = result] DEF TaskType
<1>4. About(r)
  BY ONLY <1>1, <1>3, q.op # "none" DEF About
<1>5. Populating(r)
  BY ONLY <1>3 DEF Populating
<1>6. Paging(r)
  BY ONLY <1>2, <1>3 DEF Paging
<1>7. Reading(r)
  BY ONLY <1>2, <1>3 DEF Reading
<1>8. Denied(r)
  BY ONLY <1>2, <1>3 DEF Denied
<1> QED
  BY ONLY <1>3, <1>4, <1>5, <1>6, <1>7, <1>8 DEF TaskInv

\* Fast keeps the invariant: what goes on is a directory.
LEMMA FastKeeps ==
    ASSUME IInv, NEW t \in Tasks, Fast(t)
    PROVE  IInv'
<1>1. PICK q : q = task[t]
  OBVIOUS
<1>2. /\ TreeInv /\ q \in TaskType /\ TaskInv(q) /\ About(q) /\ Populating(q) /\ Paging(q)
      /\ Reading(q) /\ Denied(q) /\ adapter \in {"nfs", "fskit"}
  BY <1>1, TaskIs
<1>3. q.pc = "fast" /\ UNCHANGED <<table, cached, held, restored, calls>>
  BY <1>1 DEF Fast
<1>4. /\ UNCHANGED <<table, restored>> /\ held' = held /\ cached' \subseteq Blobs
      /\ calls' \in 0..MaxCalls
  BY <1>3 DEF IInv
<1>5. q.op \in {"lookup", "readdir"} /\ q.result = "none" /\ q.dir \in 1..(nextId - 1)
  BY ONLY <1>2, <1>3 DEF Populating, About
<1>6. CASE nodes[q.dir].kind # "dir"
  <2>1. Done(t, Status("NotDir"))
    BY <1>1, <1>6 DEF Fast
  <2>2. PICK result, r : /\ result = Status("NotDir")
                         /\ r = [q EXCEPT !.pc = "done", !.result = result]
    OBVIOUS
  <2>3. task' = [task EXCEPT ![t] = r]
    BY ONLY <1>1, <2>1, <2>2, Ended
  <2>4. TaskInv(r)
    BY <1>2, <1>5, <2>2, StatusApart, Fails
  <2> QED
    BY ONLY <1>4, <2>3, <2>4, IInv, t \in Tasks, SmallTurn
<1>7. CASE nodes[q.dir].kind = "dir"
  <2>1. PICK pc \in {"children", "fetch"} : Goto(t, pc)
    BY <1>1, <1>7 DEF Fast
  <2>2. PICK r : r = [q EXCEPT !.pc = pc]
    OBVIOUS
  <2>3. task' = [task EXCEPT ![t] = r]
    BY ONLY <1>1, <2>1, <2>2, Moved
  <2>4. /\ r \in TaskType
        /\ r.pc = pc /\ r.result = q.result /\ r.op = q.op /\ r.item = q.item
        /\ r.dir = q.dir /\ r.name = q.name /\ r.i = q.i /\ r.ids = q.ids
        /\ r.after = q.after /\ r.seen = q.seen
    BY ONLY <1>2, <2>1, <2>2 DEF TaskType
  <2>5. About(r)
    BY ONLY <1>2, <1>5, <2>4 DEF About
  <2>6. IsDir(r.dir)
    BY ONLY <1>5, <1>7, <2>4 DEF IsDir
  <2>7. Populating(r)
    BY ONLY <1>5, <2>1, <2>4, <2>6 DEF Populating
  <2>8. Paging(r)
    BY ONLY <1>2, <1>3, <2>1, <2>4 DEF Paging
  <2>9. Reading(r)
    BY ONLY <1>5, <2>1, <2>4 DEF Reading
  <2>10. Denied(r)
    BY ONLY <1>2, <2>4 DEF Denied
  <2>11. TaskInv(r)
    BY ONLY <2>4, <2>5, <2>7, <2>8, <2>9, <2>10 DEF TaskInv
  <2> QED
    BY ONLY <1>4, <2>3, <2>11, IInv, t \in Tasks, SmallTurn
<1> QED
  BY <1>6, <1>7

\* Children keeps the invariant: what is stored is a whole listing.
LEMMA ChildrenKeeps ==
    ASSUME IInv, NEW t \in Tasks, Children(t)
    PROVE  IInv'
<1>1. PICK q : q = task[t]
  OBVIOUS
<1>2. /\ TreeInv /\ q \in TaskType /\ TaskInv(q) /\ About(q) /\ Populating(q) /\ Paging(q)
      /\ Reading(q) /\ Denied(q) /\ ChildrenInv /\ nextId \in Nat
  BY <1>1, TaskIs
<1>3. q.pc = "children" /\ UNCHANGED <<table, cached, held, restored, calls>>
  BY <1>1 DEF Children
<1>4. /\ UNCHANGED <<table, restored>> /\ held' = held /\ cached' \subseteq Blobs
      /\ calls' \in 0..MaxCalls
  BY <1>3 DEF IInv
<1>5. /\ q.op \in {"lookup", "readdir"} /\ q.result = "none" /\ IsDir(q.dir)
  BY ONLY <1>2, <1>3 DEF Populating
<1>6. CASE q.dir \in DOMAIN dirChildren
  <2>1. PICK ids : ids = dirChildren[q.dir]
    OBVIOUS
  <2>2. FullListing(q.dir, ids)
    BY <1>2, <1>6, <2>1 DEF ChildrenInv
  <2>3. ids \in Seq(Nat) /\ ToSet(ids) \subseteq 2..(nextId - 1)
    BY <1>2, <2>2, ListingIs DEF FullListing
  <2>4. PICK r : r = [q EXCEPT !.pc = "listed", !.ids = ids]
    OBVIOUS
  <2>5. task' = [task EXCEPT ![t] = r]
    BY <1>1, <1>6, <2>1, <2>4 DEF Children
  <2>6. /\ r \in TaskType
        /\ r.pc = "listed" /\ r.result = q.result /\ r.op = q.op /\ r.item = q.item
        /\ r.dir = q.dir /\ r.name = q.name /\ r.i = q.i /\ r.ids = ids
        /\ r.after = q.after /\ r.seen = q.seen
    BY ONLY <1>2, <2>3, <2>4 DEF TaskType
  <2>7. ToSet(r.ids) \subseteq 1..(nextId - 1)
    BY ONLY <1>2, <2>3, <2>6
  <2>8. About(r)
    BY ONLY <1>2, <1>5, <2>6, <2>7 DEF About
  <2>9. Populating(r)
    BY ONLY <1>5, <2>2, <2>6 DEF Populating
  <2>10. Paging(r)
    BY ONLY <1>2, <1>3, <1>6, <2>1, <2>6 DEF Paging
  <2>11. Reading(r)
    BY ONLY <1>5, <2>6 DEF Reading
  <2>12. Denied(r)
    BY ONLY <1>2, <2>6 DEF Denied
  <2>13. TaskInv(r)
    BY ONLY <2>6, <2>8, <2>9, <2>10, <2>11, <2>12 DEF TaskInv
  <2> QED
    BY ONLY <1>4, <2>5, <2>13, IInv, t \in Tasks, SmallTurn
<1>7. CASE q.dir \notin DOMAIN dirChildren
  <2>1. PICK r : r = [q EXCEPT !.pc = "fetch"]
    OBVIOUS
  <2>2. task' = [task EXCEPT ![t] = r]
    BY <1>1, <1>7, <2>1 DEF Children
  <2>3. /\ r \in TaskType
        /\ r.pc = "fetch" /\ r.result = q.result /\ r.op = q.op /\ r.item = q.item
        /\ r.dir = q.dir /\ r.name = q.name /\ r.i = q.i /\ r.ids = q.ids
        /\ r.after = q.after /\ r.seen = q.seen
    BY ONLY <1>2, <2>1 DEF TaskType
  <2>4. About(r)
    BY ONLY <1>2, <1>5, <2>3 DEF About
  <2>5. Populating(r)
    BY ONLY <1>5, <2>3 DEF Populating
  <2>6. Paging(r)
    BY ONLY <1>2, <1>3, <2>3 DEF Paging
  <2>7. Reading(r)
    BY ONLY <1>5, <2>3 DEF Reading
  <2>8. Denied(r)
    BY ONLY <1>2, <2>3 DEF Denied
  <2>9. TaskInv(r)
    BY ONLY <2>3, <2>4, <2>5, <2>6, <2>7, <2>8 DEF TaskInv
  <2> QED
    BY ONLY <1>4, <2>2, <2>9, IInv, t \in Tasks, SmallTurn
<1> QED
  BY <1>6, <1>7

\* Fetch keeps the invariant: no entry has its inode yet.
LEMMA FetchKeeps ==
    ASSUME IInv, NEW t \in Tasks, Fetch(t)
    PROVE  IInv'
<1>1. PICK q : q = task[t]
  OBVIOUS
<1>2. /\ TreeInv /\ q \in TaskType /\ TaskInv(q) /\ About(q) /\ Populating(q) /\ Paging(q)
      /\ Reading(q) /\ Denied(q) /\ nextId \in Nat /\ adapter \in {"nfs", "fskit"}
  BY <1>1, TaskIs
<1>3. q.pc = "fetch" /\ UNCHANGED <<table, cached, held, restored, calls>>
  BY <1>1 DEF Fetch
<1>4. /\ UNCHANGED <<table, restored>> /\ held' = held /\ cached' \subseteq Blobs
      /\ calls' \in 0..MaxCalls
  BY <1>3 DEF IInv
<1>5. /\ q.op \in {"lookup", "readdir"} /\ q.result = "none" /\ IsDir(q.dir)
  BY ONLY <1>2, <1>3 DEF Populating
<1>6. CASE task' = [task EXCEPT ![t].pc = "entry", ![t].i = 1, ![t].ids = <<>>]
  <2>1. PICK r : r = [q EXCEPT !.pc = "entry", !.i = 1, !.ids = <<>>]
    OBVIOUS
  <2>2. task' = [task EXCEPT ![t] = r]
    BY <1>1, <1>2, <1>6, <2>1 DEF TaskType, IInv
  <2>3. /\ r \in TaskType
        /\ r.pc = "entry" /\ r.result = q.result /\ r.op = q.op /\ r.item = q.item
        /\ r.dir = q.dir /\ r.name = q.name /\ r.i = 1 /\ r.ids = <<>>
        /\ r.after = q.after /\ r.seen = q.seen
    BY ONLY <1>2, <2>1, EmptySeq DEF TaskType
  <2>4. ToSet(r.ids) = {}
    BY ONLY <2>3 DEF ToSet
  <2>5. About(r)
    BY ONLY <1>2, <1>5, <2>3, <2>4 DEF About
  <2>6. Len(Manifest(q.dir)) \in Nat
    BY <1>2, <1>5, ManifestIs
  <2>7. Listing(r.dir, r.ids, 0)
    BY ONLY <2>3, <2>6 DEF Listing
  <2>8. Populating(r)
    BY ONLY <1>5, <2>3, <2>7 DEF Populating
  <2>9. Paging(r)
    BY ONLY <1>2, <1>3, <2>3 DEF Paging
  <2>10. Reading(r)
    BY ONLY <1>5, <2>3 DEF Reading
  <2>11. Denied(r)
    BY ONLY <1>2, <2>3 DEF Denied
  <2>12. TaskInv(r)
    BY ONLY <2>3, <2>5, <2>8, <2>9, <2>10, <2>11 DEF TaskInv
  <2> QED
    BY ONLY <1>4, <2>2, <2>12, IInv, t \in Tasks, SmallTurn
<1>7. CASE Done(t, Status("Io"))
  <2>1. PICK result, r : /\ result = Status("Io")
                         /\ r = [q EXCEPT !.pc = "done", !.result = result]
    OBVIOUS
  <2>2. task' = [task EXCEPT ![t] = r]
    BY ONLY <1>1, <1>7, <2>1, Ended
  <2>3. TaskInv(r)
    BY <1>2, <1>5, <2>1, StatusApart, Fails
  <2> QED
    BY ONLY <1>4, <2>2, <2>3, IInv, t \in Tasks, SmallTurn
<1> QED
  BY <1>6, <1>7 DEF Fetch

\* A listing has one entry more.
LEMMA ListingGrows ==
    ASSUME NEW dir, NEW ids, NEW n \in Nat, NEW id \in Nat, Listing(dir, ids, n),
           Len(Manifest(dir)) \in Nat, n < Len(Manifest(dir)),
           ChildOf(dir, Manifest(dir)[n + 1].name, id),
           <<dir, Manifest(dir)[n + 1].name>> \in DOMAIN dirCache
    PROVE  Listing(dir, Append(ids, id), n + 1)
<1>1. /\ ids \in Seq(Nat) /\ Len(ids) = n
      /\ \A k \in 1..n : /\ ChildOf(dir, Manifest(dir)[k].name, ids[k])
                         /\ <<dir, Manifest(dir)[k].name>> \in DOMAIN dirCache
  BY DEF Listing
<1>2. PICK longer : longer = Append(ids, id)
  OBVIOUS
<1>3. /\ longer \in Seq(Nat) /\ Len(longer) = n + 1
      /\ \A k \in 1..n : longer[k] = ids[k]
      /\ longer[n + 1] = id
  BY ONLY <1>1, <1>2, id \in Nat, AppendProperties
<1>4. n + 1 \in 0..Len(Manifest(dir))
  OBVIOUS
<1>5. ASSUME NEW k \in 1..(n + 1)
      PROVE  /\ ChildOf(dir, Manifest(dir)[k].name, longer[k])
             /\ <<dir, Manifest(dir)[k].name>> \in DOMAIN dirCache
  <2>1. CASE k = n + 1
    BY <1>3, <2>1
  <2>2. CASE k # n + 1
    <3>1. k \in 1..n
      BY ONLY <2>2, n \in Nat, k \in 1..(n + 1)
    <3> QED
      BY ONLY <1>1, <1>3, <3>1
  <2> QED
    BY <2>1, <2>2
<1> QED
  BY ONLY <1>2, <1>3, <1>4, <1>5 DEF Listing

\* And so it has after the step.
LEMMA ListingGrowsNext ==
    ASSUME NEW dir, NEW ids, NEW n \in Nat, NEW id \in Nat, Listing(dir, ids, n)',
           Len(Manifest(dir)') \in Nat, n < Len(Manifest(dir)'),
           ChildOf(dir, Manifest(dir)[n + 1].name, id)',
           (<<dir, Manifest(dir)[n + 1].name>> \in DOMAIN dirCache)'
    PROVE  Listing(dir, Append(ids, id), n + 1)'
<1>1. /\ ids \in Seq(Nat) /\ Len(ids) = n
      /\ \A k \in 1..n : /\ ChildOf(dir, Manifest(dir)[k].name, ids[k])'
                         /\ (<<dir, Manifest(dir)[k].name>> \in DOMAIN dirCache)'
  BY DEF Listing
<1>2. PICK longer : longer = Append(ids, id)
  OBVIOUS
<1>3. /\ longer \in Seq(Nat) /\ Len(longer) = n + 1
      /\ \A k \in 1..n : longer[k] = ids[k]
      /\ longer[n + 1] = id
  BY ONLY <1>1, <1>2, id \in Nat, AppendProperties
<1>4. n + 1 \in 0..Len(Manifest(dir)')
  OBVIOUS
<1>5. ASSUME NEW k \in 1..(n + 1)
      PROVE  /\ ChildOf(dir, Manifest(dir)[k].name, longer[k])'
             /\ (<<dir, Manifest(dir)[k].name>> \in DOMAIN dirCache)'
  <2>1. CASE k = n + 1
    BY <1>3, <2>1
  <2>2. CASE k # n + 1
    <3>1. k \in 1..n
      BY ONLY <2>2, n \in Nat, k \in 1..(n + 1)
    <3> QED
      BY ONLY <1>1, <1>3, <3>1
  <2> QED
    BY <2>1, <2>2
<1>6. Listing(dir, longer, n + 1)'
  BY ONLY <1>3, <1>4, <1>5 DEF Listing
<1> QED
  BY ONLY <1>2, <1>6

\* Seen keeps the invariant: dir_cache has an inode of the entry.
LEMMA SeenKeeps ==
    ASSUME IInv, NEW t \in Tasks, Seen(t)
    PROVE  IInv'
<1>1. PICK q : q = task[t]
  OBVIOUS
<1>2. /\ TreeInv /\ q \in TaskType /\ TaskInv(q) /\ About(q) /\ Populating(q) /\ Paging(q)
      /\ Reading(q) /\ Denied(q) /\ CacheInv /\ nextId \in Nat
  BY <1>1, TaskIs
<1>3. /\ q.pc = "entry" /\ q.i <= Len(Manifest(q.dir))
      /\ UNCHANGED <<table, cached, held, restored, calls>>
  BY <1>1 DEF Seen
<1>4. /\ UNCHANGED <<table, restored>> /\ held' = held /\ cached' \subseteq Blobs
      /\ calls' \in 0..MaxCalls
  BY <1>3 DEF IInv
<1>5. /\ q.op \in {"lookup", "readdir"} /\ q.result = "none" /\ IsDir(q.dir)
      /\ q.i \in Nat \ {0} /\ Listing(q.dir, q.ids, q.i - 1)
  BY ONLY <1>2, <1>3 DEF Populating
<1>6. /\ Len(Manifest(q.dir)) \in Nat /\ DOMAIN Manifest(q.dir) = 1..Len(Manifest(q.dir))
  BY <1>2, <1>5, ManifestIs
<1>7. q.i \in DOMAIN Manifest(q.dir)
  BY ONLY <1>3, <1>5, <1>6
<1>8. PICK key : key = <<q.dir, Manifest(q.dir)[q.i].name>>
  OBVIOUS
<1>9. CASE key \in DOMAIN dirCache
  <2>1. PICK id : id = dirCache[key]
    OBVIOUS
  <2>2. ChildOf(q.dir, Manifest(q.dir)[q.i].name, id)
    BY <1>2, <1>8, <1>9, <2>1 DEF CacheInv
  <2>3. id \in 2..(nextId - 1)
    BY ONLY <2>2 DEF ChildOf
  <2>4. id \in Nat /\ id \in 1..(nextId - 1)
    BY ONLY <1>2, <2>3
  <2>5. PICK ids, n : n = q.i - 1 /\ ids = Append(q.ids, id)
    OBVIOUS
  <2>6. n \in Nat /\ n + 1 = q.i /\ n < Len(Manifest(q.dir)) /\ q.i + 1 - 1 = q.i
    BY ONLY <1>3, <1>5, <1>6, <2>5
  <2>7. Listing(q.dir, q.ids, n) /\ q.i = n + 1
    BY ONLY <1>5, <2>5, <2>6
  <2>8. Listing(q.dir, ids, n + 1)
    BY <1>6, <1>8, <1>9, <2>2, <2>4, <2>5, <2>6, <2>7, ListingGrows
  <2>9. ids \in Seq(Nat)
    BY ONLY <2>8 DEF Listing
  <2>10. ToSet(ids) \subseteq 2..(nextId - 1)
    BY ONLY <1>2, <1>5, <2>8, ListingIs
  <2>11. PICK i, r : i = q.i + 1 /\ r = [q EXCEPT !.i = i, !.ids = ids]
    OBVIOUS
  <2>12. task' = [task EXCEPT ![t] = r]
    BY <1>1, <1>8, <1>9, <2>1, <2>5, <2>11 DEF Seen, Entry
  <2>13. /\ r \in TaskType
         /\ r.pc = "entry" /\ r.result = q.result /\ r.op = q.op /\ r.item = q.item
         /\ r.dir = q.dir /\ r.name = q.name /\ r.i = i /\ r.ids = ids
         /\ r.after = q.after /\ r.seen = q.seen
    <3>1. i \in Nat
      BY ONLY <1>5, <2>11
    <3>2. q \in TaskType /\ q.pc = "entry" /\ r = [q EXCEPT !.i = i, !.ids = ids]
      BY ONLY <1>2, <1>3, <2>11
    <3> QED
      BY ONLY <2>9, <3>1, <3>2 DEF TaskType
  <2>14. ToSet(r.ids) \subseteq 1..(nextId - 1)
    BY ONLY <1>2, <2>10, <2>13
  <2>15. About(r)
    BY ONLY <1>2, <1>5, <2>13, <2>14 DEF About
  <2>16. r.i \in Nat \ {0} /\ r.i - 1 = n + 1
    BY ONLY <1>5, <2>6, <2>11, <2>13
  <2>17. Populating(r)
    BY ONLY <1>5, <2>8, <2>13, <2>16 DEF Populating
  <2>18. Paging(r)
    BY ONLY <1>2, <1>3, <2>13 DEF Paging
  <2>19. Reading(r)
    BY ONLY <1>5, <2>13 DEF Reading
  <2>20. Denied(r)
    BY ONLY <1>2, <2>13 DEF Denied
  <2>21. TaskInv(r)
    BY ONLY <2>13, <2>15, <2>17, <2>18, <2>19, <2>20 DEF TaskInv
  <2> QED
    BY ONLY <1>4, <2>12, <2>21, IInv, t \in Tasks, SmallTurn
<1>10. CASE key \notin DOMAIN dirCache
  <2>1. PICK r : r = [q EXCEPT !.pc = "make"]
    OBVIOUS
  <2>2. task' = [task EXCEPT ![t] = r]
    BY <1>1, <1>8, <1>10, <2>1 DEF Seen, Entry
  <2>3. /\ r \in TaskType
        /\ r.pc = "make" /\ r.result = q.result /\ r.op = q.op /\ r.item = q.item
        /\ r.dir = q.dir /\ r.name = q.name /\ r.i = q.i /\ r.ids = q.ids
        /\ r.after = q.after /\ r.seen = q.seen
    BY ONLY <1>2, <2>1 DEF TaskType
  <2>4. About(r)
    BY ONLY <1>2, <1>5, <2>3 DEF About
  <2>5. Populating(r)
    BY ONLY <1>5, <1>7, <2>3 DEF Populating
  <2>6. Paging(r)
    BY ONLY <1>2, <1>3, <2>3 DEF Paging
  <2>7. Reading(r)
    BY ONLY <1>5, <2>3 DEF Reading
  <2>8. Denied(r)
    BY ONLY <1>2, <2>3 DEF Denied
  <2>9. TaskInv(r)
    BY ONLY <2>3, <2>4, <2>5, <2>6, <2>7, <2>8 DEF TaskInv
  <2> QED
    BY ONLY <1>4, <2>2, <2>9, IInv, t \in Tasks, SmallTurn
<1> QED
  BY <1>9, <1>10

\* The stored listings stay whole.
LEMMA StoredKeep ==
    ASSUME TreeInv, ChildrenInv, Grown, dirChildren' = dirChildren
    PROVE  ChildrenInv'
<1>1. ASSUME NEW dir \in DOMAIN dirChildren
      PROVE  FullListing(dir, dirChildren[dir])'
  <2>1. PICK ids : ids = dirChildren[dir]
    OBVIOUS
  <2>2. FullListing(dir, ids)
    BY <2>1 DEF ChildrenInv
  <2>3. FullListing(dir, ids)'
    BY <2>2, FullKeeps
  <2>4. dirChildren'[dir] = ids
    BY <2>1
  <2> QED
    BY ONLY <2>3, <2>4
<1>2. dirChildren' = dirChildren
  OBVIOUS
<1> QED
  BY ONLY <1>1, <1>2 DEF ChildrenInv

\* What is in dir_cache stays a child.
LEMMA CachedKeep ==
    ASSUME TreeInv, CacheInv, Grown, dirCache' = dirCache
    PROVE  CacheInv'
<1>1. ASSUME NEW k \in DOMAIN dirCache
      PROVE  ChildOf(k[1], k[2], dirCache[k])'
  <2>1. PICK dir, name, id : dir = k[1] /\ name = k[2] /\ id = dirCache[k]
    OBVIOUS
  <2>2. ChildOf(dir, name, id)
    BY <2>1 DEF CacheInv
  <2>3. ChildOf(dir, name, id)'
    BY <2>2, ChildKeeps
  <2>4. dirCache'[k] = id
    BY <2>1
  <2> QED
    BY ONLY <2>1, <2>3, <2>4
<1>2. nextId \in Nat /\ nextId' \in Nat /\ nextId <= nextId'
  BY DEF TreeInv, Grown
<1>3. 1..(nextId - 1) \subseteq 1..(nextId' - 1)
  BY ONLY <1>2, Wider
<1>4. DOMAIN dirCache \subseteq (1..(nextId - 1)) \X Names /\ dirCache' = dirCache
  BY DEF CacheInv
<1>5. DOMAIN dirCache' \subseteq (1..(nextId' - 1)) \X Names
  BY ONLY <1>3, <1>4
<1> QED
  BY ONLY <1>1, <1>4, <1>5 DEF CacheInv

\* A new inode for an entry of a directory's manifest hangs in it.
LEMMA MakeTree ==
    ASSUME TreeInv, NEW dir, IsDir(dir), NEW e \in ToSet(Manifest(dir)),
           NEW new, new = nextId,
           adapter' = adapter, nextId' = nextId + 1, nodes' = Put(nodes, new, Node(dir, e))
    PROVE  /\ TreeInv'
           /\ \A id \in 1..(nextId - 1) : nodes'[id] = nodes[id]
           /\ ChildOf(dir, e.name, new)'
<1>1. /\ adapter \in {"nfs", "fskit"} /\ nextId \in Nat /\ nextId > 1
      /\ nodes \in [1..(nextId - 1) -> NodeType]
      /\ \A id \in 1..(nextId - 1) : HasDigest(nodes[id])
      /\ nodes[Root].parent = Root /\ EntryOf(nodes[Root]) = RootEntry
      /\ \A id \in 2..(nextId - 1) : HangsIn(id)
  BY DEF TreeInv
<1>2. dir \in 1..(nextId - 1) /\ nodes[dir].kind = "dir" /\ Manifest(dir) \in Seq(Entries)
  BY ManifestIs DEF IsDir
<1>3. e \in Entries
  BY ONLY <1>2, e \in ToSet(Manifest(dir)), Members
<1>4. PICK node : node = Node(dir, e)
  OBVIOUS
<1>5. node \in NodeType /\ HasDigest(node) /\ EntryOf(node) = e
      /\ node.parent = dir /\ node.name = e.name
  BY ONLY <1>1, <1>2, <1>3, <1>4, EntryType DEF Node, NodeType, HasDigest, EntryOf
<1>6. /\ DOMAIN nodes' = 1..(nextId - 1) \cup {new}
      /\ nodes'[new] = node
      /\ \A id \in 1..(nextId - 1) : id # new => nodes'[id] = nodes[id]
  <2>1. DOMAIN nodes = 1..(nextId - 1)
    BY ONLY <1>1
  <2>2. nodes' = Put(nodes, new, node)
    BY ONLY <1>4, nodes' = Put(nodes, new, Node(dir, e))
  <2> QED
    BY ONLY <2>1, <2>2 DEF Put
<1>7. /\ 1..(nextId - 1) \cup {new} = 1..(nextId' - 1) /\ nextId' \in Nat /\ nextId' > 1
      /\ \A id \in 1..(nextId - 1) : id # new
      /\ new \in 2..(nextId' - 1) /\ Root \in 1..(nextId - 1)
      /\ \A id \in 2..(nextId' - 1) : id = new \/ id \in 2..(nextId - 1)
      /\ \A id \in 2..(nextId - 1) : id \in 1..(nextId - 1)
  BY ONLY <1>1, new = nextId, nextId' = nextId + 1 DEF Root
<1>8. \A id \in 1..(nextId - 1) : nodes'[id] = nodes[id]
  BY ONLY <1>6, <1>7
<1>9. \A id \in 1..(nextId' - 1) : nodes'[id] \in NodeType /\ HasDigest(nodes'[id])
  BY ONLY <1>1, <1>5, <1>6, <1>7, <1>8
<1>10. nodes' \in [1..(nextId' - 1) -> NodeType]
  <2>1. nodes' = [id \in 1..(nextId' - 1) |-> nodes'[id]]
    BY ONLY <1>7, nodes' = Put(nodes, new, Node(dir, e)), <1>1 DEF Put
  <2> QED
    BY ONLY <1>9, <2>1
<1>11. nodes'[Root].parent = Root /\ EntryOf(nodes'[Root]) = RootEntry
  BY ONLY <1>1, <1>7, <1>8
<1>12. ASSUME NEW id \in 2..(nextId' - 1)
       PROVE  HangsIn(id)'
  <2>1. CASE id = new
    <3>1. Manifest(dir)' = Manifest(dir)
      BY ONLY <1>2, <1>8 DEF Manifest
    <3>2. dir \in 1..(nextId' - 1) /\ nodes'[dir].kind = "dir"
      BY ONLY <1>2, <1>7, <1>8
    <3>3. nodes'[id].parent = dir /\ EntryOf(nodes'[id]) = e
      BY ONLY <1>5, <1>6, <2>1
    <3> QED
      BY ONLY <3>1, <3>2, <3>3, e \in ToSet(Manifest(dir)) DEF HangsIn, Manifest
  <2>2. CASE id \in 2..(nextId - 1)
    <3>1. /\ nodes[id].parent \in 1..(nextId - 1) /\ nodes[nodes[id].parent].kind = "dir"
          /\ EntryOf(nodes[id]) \in ToSet(Content[nodes[nodes[id].parent].digest])
      BY ONLY <1>1, <2>2 DEF HangsIn, Manifest
    <3>2. nodes'[id] = nodes[id] /\ nodes'[nodes[id].parent] = nodes[nodes[id].parent]
      BY ONLY <1>7, <1>8, <2>2, <3>1
    <3>3. nodes[id].parent \in 1..(nextId' - 1)
      BY ONLY <1>7, <3>1
    <3> QED
      BY ONLY <3>1, <3>2, <3>3 DEF HangsIn, Manifest
  <2> QED
    BY <1>7, <2>1, <2>2
<1>13. TreeInv'
  BY ONLY <1>1, <1>7, <1>9, <1>10, <1>11, <1>12, adapter' = adapter
     DEF TreeInv, HasDigest, EntryOf
<1>14. ChildOf(dir, e.name, new)'
  BY ONLY <1>5, <1>6, <1>7 DEF ChildOf
<1> QED
  BY ONLY <1>8, <1>13, <1>14

\* Make keeps the invariant: the entry has one inode more.
LEMMA MakeKeeps ==
    ASSUME IInv, NEW t \in Tasks, Make(t)
    PROVE  IInv'
<1>1. PICK q : q = task[t]
  OBVIOUS
<1>2. /\ TreeInv /\ q \in TaskType /\ TaskInv(q) /\ About(q) /\ Populating(q)
      /\ CacheInv /\ ChildrenInv /\ nextId \in Nat
  BY <1>1, TaskIs
<1>3. PICK e, new : e = Manifest(q.dir)[q.i] /\ new = nextId
  OBVIOUS
<1>4. /\ q.pc = "make" /\ nextId' = nextId + 1
      /\ nodes' = Put(nodes, new, Node(q.dir, e))
      /\ dirCache' = Put(dirCache, <<q.dir, e.name>>, new)
      /\ UNCHANGED <<adapter, dirChildren, cached, held, restored, calls>>
  BY <1>1, <1>3 DEF Make, Entry
<1>5. /\ q.op \in {"lookup", "readdir"} /\ q.result = "none" /\ IsDir(q.dir)
      /\ q.i \in Nat \ {0} /\ Listing(q.dir, q.ids, q.i - 1)
      /\ q.i \in DOMAIN Manifest(q.dir)
  BY ONLY <1>2, <1>4 DEF Populating
<1>6. /\ Len(Manifest(q.dir)) \in Nat /\ DOMAIN Manifest(q.dir) = 1..Len(Manifest(q.dir))
      /\ Manifest(q.dir) \in Seq(Entries) /\ q.dir \in 1..(nextId - 1)
  BY <1>2, <1>5, ManifestIs
<1>7. e \in ToSet(Manifest(q.dir)) /\ e \in Entries
  BY ONLY <1>3, <1>5, <1>6, Members
<1>8. /\ TreeInv'
      /\ \A id \in 1..(nextId - 1) : nodes'[id] = nodes[id]
      /\ ChildOf(q.dir, e.name, new)'
  BY ONLY <1>2, <1>3, <1>4, <1>5, <1>7, MakeTree
<1>9. /\ DOMAIN dirCache' = DOMAIN dirCache \cup {<<q.dir, e.name>>}
      /\ dirCache'[<<q.dir, e.name>>] = new
      /\ \A k \in DOMAIN dirCache : k # <<q.dir, e.name>> => dirCache'[k] = dirCache[k]
  BY ONLY <1>4 DEF Put
<1>10. nextId' \in Nat /\ nextId <= nextId'
  BY ONLY <1>2, <1>4
<1>11. Grown
  BY ONLY <1>4, <1>8, <1>9, <1>10 DEF Grown
<1>12. CacheInv'
  <2>1. /\ DOMAIN dirCache \subseteq (1..(nextId - 1)) \X Names
        /\ \A k \in DOMAIN dirCache : ChildOf(k[1], k[2], dirCache[k])
    BY <1>2 DEF CacheInv
  <2>2. e.name \in Names
    BY <1>7, EntryType
  <2>3. 1..(nextId - 1) \subseteq 1..(nextId' - 1)
    BY ONLY <1>2, <1>10, Wider
  <2>4. DOMAIN dirCache' \subseteq (1..(nextId' - 1)) \X Names
    BY ONLY <1>6, <1>9, <2>1, <2>2, <2>3
  <2>5. ASSUME NEW k \in DOMAIN dirCache'
        PROVE  ChildOf(k[1], k[2], dirCache[k])'
    <3>1. CASE k = <<q.dir, e.name>>
      BY <1>8, <1>9, <3>1
    <3>2. CASE k # <<q.dir, e.name>>
      <4>1. k \in DOMAIN dirCache /\ dirCache'[k] = dirCache[k]
        BY ONLY <1>9, <3>2, k \in DOMAIN dirCache'
      <4>2. PICK dir, name, id : dir = k[1] /\ name = k[2] /\ id = dirCache[k]
        OBVIOUS
      <4>3. ChildOf(dir, name, id)
        BY ONLY <2>1, <4>1, <4>2
      <4>4. ChildOf(dir, name, id)'
        BY <1>2, <1>11, <4>3, ChildKeeps
      <4>5. dirCache'[k] = id
        BY ONLY <4>1, <4>2
      <4> QED
        BY ONLY <4>2, <4>4, <4>5
    <3> QED
      BY <3>1, <3>2
  <2> QED
    BY ONLY <2>4, <2>5 DEF CacheInv
<1>13. ChildrenInv'
  BY <1>2, <1>4, <1>11, StoredKeep
<1>14. PICK ids, i, n : ids = Append(q.ids, new) /\ i = q.i + 1 /\ n = q.i - 1
  OBVIOUS
<1>15. n \in Nat /\ n + 1 = q.i /\ n < Len(Manifest(q.dir)) /\ i \in Nat \ {0} /\ i - 1 = n + 1
  BY ONLY <1>5, <1>6, <1>14
<1>16. TaskInv(q)' /\ Manifest(q.dir)' = Manifest(q.dir) /\ IsDir(q.dir)'
  BY <1>2, <1>5, <1>11, TaskKeeps, DirKeeps
<1>17. Listing(q.dir, ids, n + 1)'
  <2>1. Listing(q.dir, q.ids, n)'
    BY <1>2, <1>5, <1>11, <1>14, ListingKeeps
  <2>2. /\ Len(Manifest(q.dir)') \in Nat /\ n < Len(Manifest(q.dir)')
        /\ (Manifest(q.dir)[n + 1].name)' = e.name
    BY ONLY <1>3, <1>6, <1>15, <1>16
  <2>3. ChildOf(q.dir, Manifest(q.dir)[n + 1].name, new)'
    BY ONLY <1>8, <2>2
  <2>4. (<<q.dir, Manifest(q.dir)[n + 1].name>> \in DOMAIN dirCache)'
    BY ONLY <1>9, <2>2
  <2>5. new \in Nat
    BY ONLY <1>2, <1>3
  <2> QED
    BY ONLY <1>14, <1>15, <2>1, <2>2, <2>3, <2>4, <2>5, ListingGrowsNext
<1>18. PICK r : r = [q EXCEPT !.pc = "entry", !.i = i, !.ids = ids]
  OBVIOUS
<1>19. task' = [task EXCEPT ![t] = r]
  BY <1>1, <1>3, <1>14, <1>18 DEF Make
<1>20. ids \in Seq(Nat)
  BY ONLY <1>17 DEF Listing
<1>21. /\ r \in TaskType
       /\ r.pc = "entry" /\ r.result = q.result /\ r.op = q.op /\ r.item = q.item
       /\ r.dir = q.dir /\ r.name = q.name /\ r.i = i /\ r.ids = ids
       /\ r.after = q.after /\ r.seen = q.seen
  <2>1. q \in TaskType /\ i \in Nat
    BY ONLY <1>2, <1>15
  <2> QED
    BY ONLY <1>18, <1>20, <2>1 DEF TaskType
<1>22. /\ About(q)' /\ Populating(q)' /\ Paging(q)' /\ Reading(q)' /\ Denied(q)'
  BY ONLY <1>16 DEF TaskInv
<1>23. About(r)'
  <2>1. ids \in Seq(Nat) /\ Len(ids) = n + 1
    BY ONLY <1>17 DEF Listing
  <2>2. \A k \in 1..(n + 1) : ids[k] \in 2..(nextId' - 1)
    BY ONLY <1>17 DEF Listing, ChildOf
  <2>3. ToSet(ids) \subseteq 2..(nextId' - 1)
    BY ONLY <2>1, <2>2, Members
  <2>4. ToSet(r.ids) \subseteq 1..(nextId' - 1)
    BY ONLY <1>10, <1>21, <2>3
  <2>5. /\ q.dir \in 1..(nextId' - 1)
        /\ q.dir = Inode(q.item)' /\ \E h \in held' : h.item = q.item
    BY ONLY <1>5, <1>22 DEF About
  <2> QED
    BY ONLY <1>5, <1>21, <2>4, <2>5 DEF About
<1>24. Populating(r)'
  BY ONLY <1>5, <1>15, <1>16, <1>17, <1>21 DEF Populating
<1>25. Paging(r)'
  BY ONLY <1>4, <1>21, <1>22 DEF Paging
<1>26. Reading(r)'
  BY ONLY <1>5, <1>21 DEF Reading
<1>27. Denied(r)'
  BY ONLY <1>21, <1>22 DEF Denied
<1>28. TaskInv(r)'
  BY ONLY <1>21, <1>23, <1>24, <1>25, <1>26, <1>27
     DEF TaskInv, TaskType, Outcomes, NfsStatus, PosixStatus
<1>29. /\ restored' \subseteq 1..(nextId' - 1) /\ held' = held /\ cached' \subseteq Blobs
       /\ calls' \in 0..MaxCalls
  <2>1. restored \subseteq 1..(nextId - 1) /\ cached \subseteq Blobs /\ calls \in 0..MaxCalls
    BY DEF IInv
  <2>2. 1..(nextId - 1) \subseteq 1..(nextId' - 1)
    BY ONLY <1>2, <1>10, Wider
  <2> QED
    BY ONLY <1>4, <2>1, <2>2
<1> QED
  BY ONLY <1>8, <1>11, <1>12, <1>13, <1>19, <1>28, <1>29, IInv, t \in Tasks, Turn

\* MarkPopulated keeps the invariant: every entry has its inode.
LEMMA MarkPopulatedKeeps ==
    ASSUME IInv, NEW t \in Tasks, MarkPopulated(t)
    PROVE  IInv'
<1>1. PICK q : q = task[t]
  OBVIOUS
<1>2. /\ TreeInv /\ q \in TaskType /\ TaskInv(q) /\ About(q) /\ Populating(q) /\ Paging(q)
      /\ Reading(q) /\ Denied(q) /\ CacheInv /\ ChildrenInv /\ nextId \in Nat
  BY <1>1, TaskIs
<1>3. /\ q.pc = "entry" /\ q.i > Len(Manifest(q.dir))
      /\ nodes' = [nodes EXCEPT ![q.dir].populated = TRUE]
      /\ Goto(t, "store")
      /\ UNCHANGED <<adapter, dirCache, dirChildren, nextId, cached, held, restored, calls>>
  BY <1>1 DEF MarkPopulated
<1>4. /\ q.op \in {"lookup", "readdir"} /\ q.result = "none" /\ IsDir(q.dir)
      /\ q.i \in Nat \ {0} /\ Listing(q.dir, q.ids, q.i - 1)
  BY ONLY <1>2, <1>3 DEF Populating
<1>5. Len(Manifest(q.dir)) \in Nat /\ q.dir \in 1..(nextId - 1)
  BY <1>2, <1>4, ManifestIs
<1>6. q.i - 1 = Len(Manifest(q.dir))
  <2>1. q.i - 1 \in 0..Len(Manifest(q.dir))
    BY ONLY <1>4 DEF Listing
  <2> QED
    BY ONLY <1>3, <1>4, <1>5, <2>1
<1>7. FullListing(q.dir, q.ids)
  BY ONLY <1>4, <1>6 DEF FullListing
<1>8. /\ nodes \in [1..(nextId - 1) -> NodeType]
      /\ adapter \in {"nfs", "fskit"} /\ nextId > 1
      /\ \A id \in 1..(nextId - 1) : HasDigest(nodes[id])
      /\ nodes[Root].parent = Root /\ EntryOf(nodes[Root]) = RootEntry
      /\ \A id \in 2..(nextId - 1) : HangsIn(id)
  BY <1>2 DEF TreeInv
<1>9. PICK node : node = [nodes[q.dir] EXCEPT !.populated = TRUE]
  OBVIOUS
<1>10. nodes[q.dir] \in NodeType
  BY ONLY <1>5, <1>8
<1>11. /\ node \in NodeType /\ node.parent = nodes[q.dir].parent
       /\ node.name = nodes[q.dir].name /\ node.kind = nodes[q.dir].kind
       /\ node.digest = nodes[q.dir].digest
  BY ONLY <1>9, <1>10 DEF NodeType
<1>12. nodes' = [nodes EXCEPT ![q.dir] = node]
  BY ONLY <1>3, <1>9
<1>13. /\ nodes' \in [1..(nextId - 1) -> NodeType]
       /\ nodes'[q.dir] = node
       /\ \A id \in 1..(nextId - 1) : id # q.dir => nodes'[id] = nodes[id]
  BY ONLY <1>5, <1>8, <1>11, <1>12
<1>14. \A id \in 1..(nextId - 1) :
          /\ nodes'[id].parent = nodes[id].parent /\ nodes'[id].name = nodes[id].name
          /\ nodes'[id].kind = nodes[id].kind /\ nodes'[id].digest = nodes[id].digest
  BY ONLY <1>11, <1>13
<1>15. Grown
  BY ONLY <1>2, <1>3, <1>14 DEF Grown
<1>16. TreeInv'
  <2>1. \A id \in 1..(nextId - 1) : HasDigest(nodes'[id])
    BY ONLY <1>8, <1>14 DEF HasDigest
  <2>2. Root \in 1..(nextId - 1)
    BY ONLY <1>2, <1>8 DEF Root
  <2>3. nodes'[Root].parent = Root /\ EntryOf(nodes'[Root]) = RootEntry
    BY ONLY <1>8, <1>14, <2>2 DEF EntryOf
  <2>4. ASSUME NEW id \in 2..(nextId - 1)
        PROVE  HangsIn(id)'
    <3>1. /\ nodes[id].parent \in 1..(nextId - 1) /\ nodes[nodes[id].parent].kind = "dir"
          /\ EntryOf(nodes[id]) \in ToSet(Content[nodes[nodes[id].parent].digest])
      BY ONLY <1>8 DEF HangsIn, Manifest
    <3>2. id \in 1..(nextId - 1)
      BY ONLY <1>2
    <3>3. EntryOf(nodes'[id]) = EntryOf(nodes[id])
      BY ONLY <1>14, <3>2 DEF EntryOf
    <3>4. /\ nodes'[id].parent \in 1..(nextId - 1) /\ nodes'[nodes'[id].parent].kind = "dir"
          /\ EntryOf(nodes'[id]) \in ToSet(Content[nodes'[nodes'[id].parent].digest])
      BY ONLY <1>14, <3>1, <3>2, <3>3
    <3> QED
      BY ONLY <1>3, <3>4 DEF HangsIn, Manifest
  <2> QED
    BY ONLY <1>2, <1>3, <1>8, <1>13, <2>1, <2>3, <2>4 DEF TreeInv, HasDigest, EntryOf
<1>17. CacheInv'
  BY <1>2, <1>3, <1>15, CachedKeep
<1>18. ChildrenInv'
  BY <1>2, <1>3, <1>15, StoredKeep
<1>19. PICK r : r = [q EXCEPT !.pc = "store"]
  OBVIOUS
<1>20. task' = [task EXCEPT ![t] = r]
  BY ONLY <1>1, <1>3, <1>19, Moved
<1>21. /\ r \in TaskType
       /\ r.pc = "store" /\ r.result = q.result /\ r.op = q.op /\ r.item = q.item
       /\ r.dir = q.dir /\ r.name = q.name /\ r.i = q.i /\ r.ids = q.ids
       /\ r.after = q.after /\ r.seen = q.seen
  BY ONLY <1>2, <1>19 DEF TaskType
<1>22. About(r)
  BY ONLY <1>2, <1>4, <1>21 DEF About
<1>23. Populating(r)
  BY ONLY <1>4, <1>7, <1>21 DEF Populating
<1>24. Paging(r)
  BY ONLY <1>2, <1>3, <1>21 DEF Paging
<1>25. Reading(r)
  BY ONLY <1>4, <1>21 DEF Reading
<1>26. Denied(r)
  BY ONLY <1>2, <1>21 DEF Denied
<1>27. TaskInv(r)
  BY ONLY <1>21, <1>22, <1>23, <1>24, <1>25, <1>26 DEF TaskInv
<1>28. /\ restored' \subseteq 1..(nextId' - 1) /\ held' = held /\ cached' \subseteq Blobs
       /\ calls' \in 0..MaxCalls
  BY <1>3 DEF IInv
<1> QED
  BY ONLY <1>15, <1>16, <1>17, <1>18, <1>20, <1>27, <1>28, IInv, t \in Tasks, Turn

\* StoreChildren keeps the invariant: the new list is a whole one, and when it
\* takes the place of another the directory is one that was restored.
LEMMA StoreChildrenKeeps ==
    ASSUME IInv, NEW t \in Tasks, StoreChildren(t)
    PROVE  IInv'
<1>1. PICK q : q = task[t]
  OBVIOUS
<1>2. /\ TreeInv /\ q \in TaskType /\ TaskInv(q) /\ About(q) /\ Populating(q) /\ Paging(q)
      /\ Reading(q) /\ Denied(q) /\ CacheInv /\ ChildrenInv /\ nextId \in Nat
  BY <1>1, TaskIs
<1>3. /\ q.pc = "store" /\ Goto(t, "listed")
      /\ dirChildren' = Put(dirChildren, q.dir, q.ids)
      /\ restored' = IF q.dir \in DOMAIN dirChildren THEN restored \cup {q.dir} ELSE restored
      /\ UNCHANGED <<adapter, nodes, dirCache, nextId, cached, held, calls>>
  BY <1>1 DEF StoreChildren
<1>4. /\ q.op \in {"lookup", "readdir"} /\ q.result = "none" /\ IsDir(q.dir)
      /\ FullListing(q.dir, q.ids) /\ q.dir \in 1..(nextId - 1)
  BY ONLY <1>2, <1>3 DEF Populating, About
<1>5. /\ DOMAIN dirChildren' = DOMAIN dirChildren \cup {q.dir}
      /\ dirChildren'[q.dir] = q.ids
      /\ \A dir \in DOMAIN dirChildren : dir # q.dir => dirChildren'[dir] = dirChildren[dir]
  BY ONLY <1>3 DEF Put
<1>6. Grown
  BY ONLY <1>2, <1>3, <1>5 DEF Grown
<1>7. TreeInv'
  BY ONLY <1>2, <1>3 DEF TreeInv, HangsIn, Manifest, EntryOf, HasDigest
<1>8. CacheInv'
  BY ONLY <1>2, <1>3 DEF CacheInv, ChildOf
<1>9. ChildrenInv'
  <2>1. ASSUME NEW dir \in DOMAIN dirChildren'
        PROVE  FullListing(dir, dirChildren[dir])'
    <3>1. PICK ids : ids = dirChildren'[dir]
      OBVIOUS
    <3>2. FullListing(dir, ids)
      <4>1. CASE dir = q.dir
        BY ONLY <1>4, <1>5, <3>1, <4>1
      <4>2. CASE dir # q.dir
        <5>1. dir \in DOMAIN dirChildren /\ dirChildren[dir] = ids
          BY ONLY <1>5, <3>1, <4>2, dir \in DOMAIN dirChildren'
        <5> QED
          BY ONLY <1>2, <5>1 DEF ChildrenInv
      <4> QED
        BY <4>1, <4>2
    <3>3. FullListing(dir, ids)'
      BY <1>2, <1>6, <3>2, FullKeeps
    <3> QED
      BY ONLY <3>1, <3>3
  <2> QED
    BY ONLY <2>1 DEF ChildrenInv
<1>10. PICK r : r = [q EXCEPT !.pc = "listed"]
  OBVIOUS
<1>11. task' = [task EXCEPT ![t] = r]
  BY ONLY <1>1, <1>3, <1>10, Moved
<1>12. /\ r \in TaskType
       /\ r.pc = "listed" /\ r.result = q.result /\ r.op = q.op /\ r.item = q.item
       /\ r.dir = q.dir /\ r.name = q.name /\ r.i = q.i /\ r.ids = q.ids
       /\ r.after = q.after /\ r.seen = q.seen
  BY ONLY <1>2, <1>10 DEF TaskType
<1>13. /\ About(q)' /\ Populating(q)' /\ Paging(q)' /\ Reading(q)' /\ Denied(q)'
  BY <1>2, <1>6, AboutKeeps, PopulatingKeeps, PagingKeeps, ReadingKeeps, DeniedKeeps
<1>14. About(r)'
  BY ONLY <1>4, <1>12, <1>13 DEF About
<1>15. Populating(r)'
  BY ONLY <1>3, <1>4, <1>12, <1>13 DEF Populating
<1>16. Paging(r)'
  BY ONLY <1>3, <1>5, <1>12, <1>13 DEF Paging
<1>17. Reading(r)'
  BY ONLY <1>4, <1>12 DEF Reading
<1>18. Denied(r)'
  BY ONLY <1>12, <1>13 DEF Denied
<1>19. TaskInv(r)'
  BY ONLY <1>12, <1>14, <1>15, <1>16, <1>17, <1>18
     DEF TaskInv, TaskType, Outcomes, NfsStatus, PosixStatus
<1>20. /\ restored' \subseteq 1..(nextId' - 1) /\ held' = held /\ cached' \subseteq Blobs
       /\ calls' \in 0..MaxCalls
  BY <1>3, <1>4 DEF IInv
<1> QED
  BY ONLY <1>6, <1>7, <1>8, <1>9, <1>11, <1>19, <1>20, IInv, t \in Tasks, Turn

-----------------------------------------------------------------------------
(* The answers to lookups and listings.                                    *)

\* AnswerLookup keeps the invariant: after the directory was populated its
\* every name is in dir_cache.
LEMMA AnswerLookupKeeps ==
    ASSUME IInv, NEW t \in Tasks, AnswerLookup(t)
    PROVE  IInv'
<1>1. PICK q : q = task[t]
  OBVIOUS
<1>2. /\ TreeInv /\ q \in TaskType /\ TaskInv(q) /\ About(q) /\ Populating(q) /\ Paging(q)
      /\ Reading(q) /\ Denied(q) /\ CacheInv /\ HeldInv /\ nextId \in Nat
      /\ adapter \in {"nfs", "fskit"} /\ DOMAIN task = Tasks
  BY <1>1, TaskIs
<1>3. /\ q.pc = "listed" /\ q.op = "lookup"
      /\ UNCHANGED <<table, cached, restored, calls>>
  BY <1>1 DEF AnswerLookup
<1>4. /\ UNCHANGED <<table, restored>> /\ cached' \subseteq Blobs /\ calls' \in 0..MaxCalls
  BY <1>3 DEF IInv
<1>5. /\ q.result = "none" /\ IsDir(q.dir) /\ FullListing(q.dir, q.ids)
      /\ q.dir = Inode(q.item) /\ \E h \in held : h.item = q.item
  BY ONLY <1>2, <1>3 DEF Populating, About
<1>6. PICK key : key = <<q.dir, q.name>>
  OBVIOUS
<1>7. PICK result : result = (IF key \in DOMAIN dirCache THEN "found" ELSE Status("NotFound"))
  OBVIOUS
<1>8. result \in Outcomes \ {"none"}
  BY <1>2, <1>7, StatusApart DEF Outcomes
<1>9. PICK r : r = [q EXCEPT !.pc = "done", !.result = result]
  OBVIOUS
<1>10. /\ r \in TaskType
       /\ r.pc = "done" /\ r.result = result /\ r.op = q.op /\ r.item = q.item
       /\ r.dir = q.dir /\ r.name = q.name /\ r.i = q.i /\ r.ids = q.ids
       /\ r.after = q.after /\ r.seen = q.seen
  BY ONLY <1>2, <1>8, <1>9 DEF TaskType
<1>11. task' = [task EXCEPT ![t] = r]
  <2>1. Done(t, result)
    BY <1>1, <1>6, <1>7 DEF AnswerLookup
  <2> QED
    BY ONLY <1>1, <1>9, <2>1, Ended
<1>12. About(r)
  BY ONLY <1>2, <1>3, <1>10 DEF About
<1>13. Populating(r) /\ Paging(r) /\ Reading(r)
  BY ONLY <1>3, <1>10 DEF Populating, Paging, Reading
<1>14. Denied(r)
  <2>1. CASE result # Status("NotFound")
    BY ONLY <1>10, <2>1 DEF Denied
  <2>2. CASE result = Status("NotFound")
    <3>1. key \notin DOMAIN dirCache
      BY <1>2, <1>7, <2>2, StatusApart
    <3>2. Manifest(q.dir) \in Seq(Entries)
      BY <1>2, <1>5, ManifestIs
    <3>3. \A k \in 1..Len(Manifest(q.dir)) :
             <<q.dir, Manifest(q.dir)[k].name>> \in DOMAIN dirCache
      BY ONLY <1>5 DEF FullListing, Listing
    <3>4. \A e \in ToSet(Manifest(q.dir)) : e.name # q.name
      BY ONLY <1>6, <3>1, <3>2, <3>3, Members
    <3> QED
      BY ONLY <1>5, <1>10, <3>4 DEF Denied
  <2> QED
    BY <2>1, <2>2
<1>15. TaskInv(r)
  BY ONLY <1>10, <1>12, <1>13, <1>14 DEF TaskInv
<1>16. /\ held \subseteq held'
       /\ \A h \in held' : h \in held \/ \E id \in 1..(nextId - 1) : h = HoldingOf(id)
  <2>1. CASE key \in DOMAIN dirCache
    <3>1. PICK found : found = {<<q.name, dirCache[key]>>}
      OBVIOUS
    <3>2. held' = held \cup Told(q.item, found)
      BY <1>1, <1>6, <2>1, <3>1 DEF AnswerLookup
    <3>3. ChildOf(q.dir, q.name, dirCache[key])
      BY <1>2, <1>6, <2>1 DEF CacheInv
    <3>4. \A f \in found : ChildOf(q.dir, f[1], f[2])
      BY ONLY <3>1, <3>3
    <3>5. PICK g \in held : g.item = q.item
      BY ONLY <1>5
    <3>6. IsDir(Inode(g.item)) /\ \A f \in found : ChildOf(Inode(g.item), f[1], f[2])
      BY ONLY <1>5, <3>4, <3>5
    <3>7. \A h \in Told(g.item, found) : \E id \in 1..(nextId - 1) : h = HoldingOf(id)
      BY ONLY <1>2, <3>6, ToldIs
    <3> QED
      BY ONLY <3>2, <3>5, <3>7
  <2>2. CASE key \notin DOMAIN dirCache
    BY <1>1, <1>6, <2>2 DEF AnswerLookup
  <2> QED
    BY <2>1, <2>2
<1> QED
  BY ONLY <1>4, <1>11, <1>15, <1>16, IInv, t \in Tasks, SmallTurn

\* NFS: a page starts after the child whose inode is the cookie.
LEMMA StartAfter ==
    ASSUME NEW ids \in Seq(Nat), NEW m \in 1..Len(ids), adapter # "fskit",
           ids[m] # 0, \A j, k \in 1..Len(ids) : ids[j] = ids[k] => j = k
    PROVE  PageStart(ids, ids[m]) = m + 1
<1>1. Len(ids) \in Nat
  BY LenProperties
<1>2. ids[m] \in ToSet(ids)
  BY ONLY Members, ids \in Seq(Nat), m \in 1..Len(ids)
<1>3. {i \in 1..Len(ids) : ids[i] = ids[m]} = {m}
  OBVIOUS
<1>4. Min({m}) = m
  BY ONLY <1>1, m \in 1..Len(ids) DEF Min
<1>5. PageStart(ids, ids[m]) = SelectInSeq(ids, LAMBDA id : id = ids[m]) + 1
  BY ONLY <1>2, adapter # "fskit", ids[m] # 0 DEF PageStart
<1>6. SelectInSeq(ids, LAMBDA id : id = ids[m]) = m
  BY ONLY <1>3, <1>4 DEF SelectInSeq
<1> QED
  BY ONLY <1>5, <1>6

\* The children from the m-th to the last of a page, which is not empty when
\* there are any.
IsPage(page, ids, m, last) ==
    /\ m \in 0..Len(ids) /\ last \in m..Len(ids)
    /\ page \in Seq(Nat) /\ Len(page) = last - m
    /\ \A k \in 1..(last - m) : page[k] = ids[m + k]
    /\ last = m => m = Len(ids)

\* The names that a page shows.
Named(page) == [k \in DOMAIN page |-> nodes[page[k]].name]

\* A page that starts after the first m children has those that follow, and
\* one at least when there is one.
LEMMA PageIs ==
    ASSUME NEW ids \in Seq(Nat), NEW after, NEW m \in 0..Len(ids),
           PageStart(ids, after) = m + 1
    PROVE  \E last : IsPage(Page(ids, after), ids, m, last)
<1>1. PICK n : n = Len(ids)
  OBVIOUS
<1>2. n \in Nat /\ m \in Nat /\ m <= n /\ PageSize \in Nat \ {0}
  BY <1>1, LenProperties, VfsNodesAssumption
<1>3. PICK last : last = IF m + 1 + PageSize > n THEN n ELSE m + 1 + PageSize - 1
  OBVIOUS
<1>4. last \in m..n /\ (last = m => m = n)
  BY ONLY <1>2, <1>3
<1>5. Page(ids, after) = SubSeq(ids, m + 1, last)
  BY ONLY <1>1, <1>3, PageStart(ids, after) = m + 1 DEF Page
<1>6. m + 1 \in Int /\ last \in Int
  BY ONLY <1>2, <1>4
<1>7. \A i \in (m + 1)..last : i \in 1..n
  BY ONLY <1>2, <1>4
<1>8. \A i \in (m + 1)..last : ids[i] \in Nat
  BY ONLY <1>1, <1>7, ids \in Seq(Nat), ElementOfSeq
<1>9. /\ SubSeq(ids, m + 1, last) \in Seq(Nat)
      /\ Len(SubSeq(ids, m + 1, last)) = IF m + 1 <= last THEN last - (m + 1) + 1 ELSE 0
      /\ \A i \in 1..(last - (m + 1) + 1) :
            SubSeq(ids, m + 1, last)[i] = ids[m + 1 + i - 1]
  BY ONLY <1>6, <1>8, SubSeqProperties
<1>10. Len(SubSeq(ids, m + 1, last)) = last - m
  BY ONLY <1>2, <1>4, <1>9
<1>11. \A k \in 1..(last - m) : SubSeq(ids, m + 1, last)[k] = ids[m + k]
  <2>1. ASSUME NEW k \in 1..(last - m)
        PROVE  SubSeq(ids, m + 1, last)[k] = ids[m + k]
    <3>1. k \in 1..(last - (m + 1) + 1) /\ m + 1 + k - 1 = m + k
      BY ONLY <1>2, <1>4, k \in 1..(last - m)
    <3> QED
      BY ONLY <1>9, <3>1
  <2> QED
    BY <2>1
<1> QED
  BY ONLY <1>1, <1>4, <1>5, <1>9, <1>10, <1>11, m \in 0..Len(ids) DEF IsPage

\* Sequences of the same positions are as long as each other.
LEMMA SameCount ==
    ASSUME NEW n \in Nat, NEW k \in Nat, 1..n = 1..k
    PROVE  n = k
<1>1. CASE n < k
  <2>1. k \in 1..k /\ k \notin 1..n
    BY ONLY <1>1, n \in Nat, k \in Nat
  <2> QED
    BY <2>1
<1>2. CASE k < n
  <2>1. n \in 1..n /\ n \notin 1..k
    BY ONLY <1>2, n \in Nat, k \in Nat
  <2> QED
    BY <2>1
<1> QED
  BY ONLY <1>1, <1>2, n \in Nat, k \in Nat

\* A directory's names are as many as its entries.
LEMMA NamesAre ==
    ASSUME TreeInv, NEW dir, IsDir(dir)
    PROVE  LET names == NamesOf(nodes[dir].digest)
           IN  /\ names \in Seq(Names) /\ Len(names) = Len(Manifest(dir))
               /\ \A k \in 1..Len(Manifest(dir)) : names[k] = Manifest(dir)[k].name
<1>1. PICK names, n : names = NamesOf(nodes[dir].digest) /\ n = Len(Manifest(dir))
  OBVIOUS
<1>2. Manifest(dir) \in Seq(Entries) /\ n \in Nat /\ DOMAIN Manifest(dir) = 1..n
  BY <1>1, ManifestIs
<1>3. names = [k \in 1..n |-> Manifest(dir)[k].name]
  BY ONLY <1>1, <1>2 DEF NamesOf, Manifest
<1>4. \A k \in 1..n : Manifest(dir)[k].name \in Names
  BY ONLY <1>1, <1>2, ElementOfSeq, EntryType
<1>5. names \in Seq(Names) /\ Len(names) = n
  <2>1. names \in [1..n -> Names]
    BY ONLY <1>3, <1>4
  <2>2. names \in Seq(Names)
    BY ONLY <1>2, <2>1, SeqDef
  <2>3. Len(names) \in Nat /\ DOMAIN names = 1..Len(names)
    BY ONLY <2>2, LenProperties
  <2>4. DOMAIN names = 1..n
    BY ONLY <1>3
  <2> QED
    BY ONLY <1>2, <2>2, <2>3, <2>4, SameCount
<1> QED
  BY ONLY <1>1, <1>3, <1>5

\* The names of a page follow those of the first m children.
LEMMA NamesGoOn ==
    ASSUME TreeInv, NEW dir, NEW ids, FullListing(dir, ids), NEW m, NEW last, NEW page,
           IsPage(page, ids, m, last), NEW names, names = NamesOf(nodes[dir].digest)
    PROVE  /\ Named(page) \in Seq(Names)
           /\ SubSeq(names, 1, m) \o Named(page) = SubSeq(names, 1, last)
<1>1. PICK named, n : /\ names = NamesOf(nodes[dir].digest) /\ named = Named(page)
                      /\ named = [k \in DOMAIN page |-> nodes[page[k]].name]
                      /\ n = Len(ids)
  BY DEF Named
<1> /\ m \in 0..Len(ids) /\ last \in m..Len(ids)
    /\ page \in Seq(Nat) /\ Len(page) = last - m
    /\ \A k \in 1..(last - m) : page[k] = ids[m + k]
  BY DEF IsPage
<1>2. IsDir(dir) /\ Listing(dir, ids, Len(Manifest(dir)))
  BY DEF FullListing
<1>3. n = Len(Manifest(dir)) /\ n \in Nat
      /\ \A k \in 1..n : nodes[ids[k]].name = Manifest(dir)[k].name
  BY <1>1, <1>2, ListingIs
<1>4. /\ names \in Seq(Names) /\ Len(names) = n
      /\ \A k \in 1..n : names[k] = Manifest(dir)[k].name
  BY <1>1, <1>2, <1>3, NamesAre
<1>5. m \in 0..n /\ last \in m..n
  BY ONLY <1>1, m \in 0..Len(ids), last \in m..Len(ids)
<1>6. DOMAIN page = 1..(last - m)
  BY ONLY page \in Seq(Nat), Len(page) = last - m, LenProperties
<1>7. \A k \in 1..(last - m) : m + k \in 1..n
  BY ONLY <1>3, <1>5
<1>8. \A k \in 1..(last - m) : named[k] = names[m + k] /\ named[k] \in Names
  <2>1. ASSUME NEW k \in 1..(last - m)
        PROVE  named[k] = names[m + k] /\ named[k] \in Names
    <3>1. named[k] = nodes[ids[m + k]].name
      BY ONLY <1>1, <1>6, \A i \in 1..(last - m) : page[i] = ids[m + i], k \in 1..(last - m)
    <3>2. m + k \in 1..n
      BY ONLY <1>7, k \in 1..(last - m)
    <3>3. names[m + k] \in Names
      BY ONLY <1>4, <3>2, ElementOfSeq
    <3> QED
      BY ONLY <1>3, <1>4, <3>1, <3>2, <3>3
  <2> QED
    BY <2>1
<1>9. last - m \in Nat
  BY ONLY <1>3, <1>5
<1>10. named \in Seq(Names) /\ Len(named) = last - m
  <2>1. DOMAIN named = 1..(last - m)
    BY ONLY <1>1, <1>6
  <2>2. named \in [1..(last - m) -> Names]
    BY ONLY <1>1, <1>6, <1>8
  <2>3. named \in Seq(Names)
    BY ONLY <1>9, <2>2, SeqDef
  <2>4. Len(named) \in Nat /\ DOMAIN named = 1..Len(named)
    BY ONLY <2>3, LenProperties
  <2> QED
    BY ONLY <1>9, <2>1, <2>3, <2>4, SameCount
<1>11. named = SubSeq(names, m + 1, last)
  <2>1. PICK rest : rest = SubSeq(names, m + 1, last)
    OBVIOUS
  <2>2. m + 1 \in Int /\ last \in Int /\ \A i \in (m + 1)..last : i \in 1..n
    BY ONLY <1>3, <1>5
  <2>3. \A i \in (m + 1)..last : names[i] \in Names
    BY ONLY <1>4, <2>2, ElementOfSeq
  <2>4. /\ rest \in Seq(Names)
        /\ Len(rest) = IF m + 1 <= last THEN last - (m + 1) + 1 ELSE 0
        /\ \A i \in 1..(last - (m + 1) + 1) : rest[i] = names[m + 1 + i - 1]
    BY ONLY <2>1, <2>2, <2>3, SubSeqProperties
  <2>5. Len(rest) = last - m
    BY ONLY <1>3, <1>5, <2>4
  <2>6. ASSUME NEW k \in 1..(last - m)
        PROVE  named[k] = rest[k]
    <3>1. k \in 1..(last - (m + 1) + 1) /\ m + 1 + k - 1 = m + k
      BY ONLY <1>3, <1>5, k \in 1..(last - m)
    <3> QED
      BY ONLY <1>8, <2>4, <3>1, k \in 1..(last - m)
  <2> QED
    BY ONLY <1>10, <2>1, <2>4, <2>5, <2>6, SeqEqual
<1>12. SubSeq(names, 1, m) \o SubSeq(names, m + 1, last) = SubSeq(names, 1, last)
  <2>1. 1 \in 1..(Len(names) + 1) /\ m \in (1 - 1)..Len(names) /\ last \in m..Len(names)
    BY ONLY <1>3, <1>4, <1>5
  <2> QED
    BY ONLY <1>4, <2>1, ConcatAdjacentSubSeq
<1> QED
  BY ONLY <1>1, <1>10, <1>11, <1>12

\* How far a listing has come, and where its next page starts.
LEMMA Position ==
    ASSUME IInv, NEW q, TaskInv(q), q.pc = "listed", q.op = "readdir",
           NEW ids, ids = q.ids, NEW n, n = Len(ids),
           NEW names, names = NamesOf(nodes[q.dir].digest)
    PROVE  \E m \in 0..n :
              /\ PageStart(ids, q.after) = m + 1
              /\ ~Redone(q.dir) => q.seen = SubSeq(names, 1, m)
<1>1. names = NamesOf(nodes[q.dir].digest) /\ ids = q.ids /\ n = Len(ids)
  OBVIOUS
<1>2. /\ TreeInv /\ q \in TaskType /\ Populating(q) /\ Paging(q)
      /\ adapter \in {"nfs", "fskit"} /\ nextId \in Nat
  BY DEF IInv, TaskInv, TreeInv
<1>3. IsDir(q.dir) /\ Listing(q.dir, ids, Len(Manifest(q.dir)))
  BY ONLY <1>1, <1>2, q.pc = "listed" DEF Populating, FullListing
<1>4. /\ ids \in Seq(Nat) /\ n = Len(Manifest(q.dir)) /\ n \in Nat
      /\ \A k \in 1..n : ids[k] \in 2..(nextId - 1)
      /\ \A j, k \in 1..n : ids[j] = ids[k] => j = k
  <2>1. PICK c : c = Len(Manifest(q.dir))
    OBVIOUS
  <2>2. IsDir(q.dir) /\ Listing(q.dir, ids, c)
    BY ONLY <1>3, <2>1
  <2>3. /\ ids \in Seq(Nat) /\ c \in Nat /\ Len(ids) = c
        /\ \A k \in 1..c : ids[k] \in 2..(nextId - 1)
        /\ \A j, k \in 1..c : ids[j] = ids[k] => j = k
    BY ONLY <1>2, <2>2, ListingIs
  <2>4. n = c
    BY ONLY <1>1, <2>3
  <2> QED
    BY ONLY <2>1, <2>3, <2>4
<1>5. q.after \in Nat /\ \A k \in 1..n : ids[k] # 0
  BY ONLY <1>2, <1>4 DEF TaskType
<1>6. ~Redone(q.dir) =>
         \/ q.after = 0 /\ q.seen = <<>>
         \/ /\ Len(q.seen) \in 1..n
            /\ q.seen = SubSeq(names, 1, Len(q.seen))
            /\ adapter = "fskit" => q.after = Len(q.seen)
            /\ adapter = "nfs" => q.after = ids[Len(q.seen)]
  BY ONLY <1>1, <1>2, <1>4, q.pc = "listed", q.op = "readdir" DEF Paging
<1>7. SubSeq(names, 1, 0) = <<>>
  BY ONLY SubSeqEmpty
<1>8. 0 \in 0..n /\ n \in 0..n /\ \A k \in 1..n : k \in 0..n
  BY ONLY <1>4
<1>9. CASE q.after = 0
  <2>1. PageStart(ids, q.after) = 0 + 1
    BY ONLY <1>9 DEF PageStart
  <2>2. ~Redone(q.dir) => q.seen = <<>>
    <3>1. SUFFICES ASSUME ~Redone(q.dir), q.seen # <<>> PROVE FALSE
      OBVIOUS
    <3>2. /\ Len(q.seen) \in 1..n
          /\ adapter = "fskit" => q.after = Len(q.seen)
          /\ adapter = "nfs" => q.after = ids[Len(q.seen)]
      BY ONLY <1>6, <3>1
    <3>3. Len(q.seen) # 0
      BY ONLY <1>4, <3>2
    <3> QED
      BY ONLY <1>2, <1>5, <1>9, <3>2, <3>3
  <2> QED
    BY ONLY <1>7, <1>8, <2>1, <2>2
<1>10. CASE q.after # 0 /\ adapter = "fskit"
  <2>1. ~Redone(q.dir)
    BY ONLY <1>10 DEF Redone
  <2>2. /\ Len(q.seen) \in 1..n /\ q.seen = SubSeq(names, 1, Len(q.seen))
        /\ q.after = Len(q.seen)
    BY ONLY <1>6, <1>10, <2>1
  <2>3. PageStart(ids, q.after) = q.after + 1
    BY ONLY <1>10 DEF PageStart
  <2> QED
    BY ONLY <1>8, <2>2, <2>3
<1>11. CASE q.after # 0 /\ adapter # "fskit" /\ q.after \in ToSet(ids)
  <2>1. PICK m \in 1..Len(ids) : q.after = ids[m]
    <3>1. PICK id : id = q.after
      OBVIOUS
    <3>2. ids \in Seq(Nat) /\ id \in ToSet(ids)
      BY ONLY <1>4, <1>11, <3>1
    <3>3. \E m \in 1..Len(ids) : ids[m] = id
      BY ONLY <3>2, Members
    <3> QED
      BY ONLY <3>1, <3>3
  <2>2. m \in 1..n /\ ids[m] # 0 /\ \A j, k \in 1..Len(ids) : ids[j] = ids[k] => j = k
    BY ONLY <1>1, <1>4, <1>5, <2>1
  <2>3. PageStart(ids, ids[m]) = m + 1
    BY ONLY <1>4, <1>11, <2>1, <2>2, StartAfter
  <2>4. ~Redone(q.dir) => q.seen = SubSeq(names, 1, m)
    BY ONLY <1>2, <1>4, <1>6, <1>11, <2>1, <2>2
  <2> QED
    BY ONLY <1>8, <2>1, <2>2, <2>3, <2>4
<1>12. CASE q.after # 0 /\ adapter # "fskit" /\ q.after \notin ToSet(ids)
  <2>1. PageStart(ids, q.after) = n + 1
    BY ONLY <1>1, <1>12 DEF PageStart
  <2>2. Redone(q.dir)
    <3>1. SUFFICES ASSUME ~Redone(q.dir) PROVE FALSE
      OBVIOUS
    <3>2. Len(q.seen) \in 1..n /\ q.after = ids[Len(q.seen)]
      BY ONLY <1>2, <1>6, <1>12, <3>1
    <3> QED
      BY ONLY <1>1, <1>4, <1>12, <3>2, Members
  <2> QED
    BY ONLY <1>8, <2>1, <2>2
<1> QED
  BY ONLY <1>9, <1>10, <1>11, <1>12

\* A sequence's last element.
LEMMA LastIs ==
    ASSUME NEW S, NEW s \in Seq(S), s # <<>>
    PROVE  Len(s) \in Nat \ {0} /\ Last(s) = s[Len(s)] /\ Last(s) \in S
<1>1. Len(s) \in Nat \ {0}
  BY EmptySeq
<1>2. Len(s) \in 1..Len(s)
  BY ONLY <1>1
<1> QED
  BY ONLY <1>1, <1>2, s \in Seq(S), ElementOfSeq DEF Last

\* AnswerPage keeps the invariant: what a page shows follows what was shown
\* before it, and the last page ends where the listing does.
LEMMA AnswerPageKeeps ==
    ASSUME IInv, NEW t \in Tasks, AnswerPage(t)
    PROVE  IInv'
<1>1. PICK q : q = task[t]
  OBVIOUS
<1>2. /\ TreeInv /\ q \in TaskType /\ TaskInv(q) /\ About(q) /\ Populating(q) /\ Paging(q)
      /\ Reading(q) /\ Denied(q) /\ HeldInv /\ nextId \in Nat
      /\ adapter \in {"nfs", "fskit"}
  BY <1>1, TaskIs
<1>3. /\ q.pc = "listed" /\ q.op = "readdir"
      /\ UNCHANGED <<table, cached, restored, calls>>
  BY <1>1 DEF AnswerPage
<1>4. /\ UNCHANGED <<table, restored>> /\ cached' \subseteq Blobs /\ calls' \in 0..MaxCalls
  BY <1>3 DEF IInv
<1>5. /\ q.result = "none" /\ IsDir(q.dir) /\ FullListing(q.dir, q.ids)
      /\ q.dir = Inode(q.item) /\ \E h \in held : h.item = q.item
  BY ONLY <1>2, <1>3 DEF Populating, About
<1>6. PICK ids, n, names : /\ ids = q.ids /\ n = Len(ids)
                           /\ names = NamesOf(nodes[q.dir].digest)
  OBVIOUS
<1>7. /\ ids \in Seq(Nat) /\ n \in Nat /\ n = Len(Manifest(q.dir))
      /\ \A k \in 1..n : /\ ids[k] \in 2..(nextId - 1)
                         /\ nodes[ids[k]].parent = q.dir
      /\ \A j, k \in 1..n : ids[j] = ids[k] => j = k
  BY <1>2, <1>5, <1>6, ListingIs DEF FullListing
<1>8. names \in Seq(Names) /\ Len(names) = n
  BY <1>2, <1>5, <1>6, <1>7, NamesAre
<1>9. PICK m \in 0..n : /\ PageStart(ids, q.after) = m + 1
                        /\ ~Redone(q.dir) => q.seen = SubSeq(names, 1, m)
  BY ONLY IInv, <1>2, <1>3, <1>6, Position
<1>10. PICK page, after, dir : page = Page(ids, after) /\ after = q.after /\ dir = q.dir
  OBVIOUS
<1>11. PICK last : /\ IsPage(page, ids, m, last)
                   /\ last \in m..n /\ page \in Seq(Nat) /\ Len(page) = last - m
                   /\ \A k \in 1..(last - m) : page[k] = ids[m + k]
                   /\ last = m => m = n
  <2>1. m \in 0..Len(ids) /\ PageStart(ids, after) = m + 1
    BY ONLY <1>6, <1>9, <1>10
  <2>2. PICK last : IsPage(page, ids, m, last)
    BY ONLY <1>7, <1>10, <2>1, PageIs
  <2> QED
    BY ONLY <1>6, <2>2 DEF IsPage
<1>12. m \in Nat /\ last \in Nat /\ m <= last /\ last <= n
       /\ \A k \in 1..(last - m) : m + k \in 1..n
  BY ONLY <1>7, <1>9, <1>11
<1>13. PICK named : named = Named(page)
  OBVIOUS
<1>14. /\ named \in Seq(Names)
       /\ SubSeq(names, 1, m) \o named = SubSeq(names, 1, last)
  <2>1. FullListing(dir, ids) /\ names = NamesOf(nodes[dir].digest)
    BY ONLY <1>5, <1>6, <1>10
  <2> QED
    BY ONLY <1>2, <1>11, <1>13, <2>1, NamesGoOn
<1>15. PICK seen : seen = q.seen \o named
  OBVIOUS
<1>16. seen \in Seq(Names \cup {"/"} \cup Nat)
  <2>1. q.seen \in Seq(Names \cup {"/"} \cup Nat)
    BY ONLY <1>2 DEF TaskType
  <2>2. named \in Seq(Names \cup {"/"} \cup Nat)
    BY ONLY <1>14, SeqMonotonic
  <2> QED
    BY ONLY <1>15, <2>1, <2>2, ConcatProperties
<1>17. ~Redone(q.dir) => seen = SubSeq(names, 1, last) /\ Len(seen) = last
  <2>1. SUFFICES ASSUME ~Redone(q.dir)
                 PROVE  seen = SubSeq(names, 1, last) /\ Len(seen) = last
    OBVIOUS
  <2>2. seen = SubSeq(names, 1, last)
    BY ONLY <1>9, <1>14, <1>15, <2>1
  <2>3. 1 \in Int /\ last \in Int /\ \A i \in 1..last : i \in 1..n
    BY ONLY <1>7, <1>12
  <2>4. \A i \in 1..last : names[i] \in Names
    BY ONLY <1>8, <2>3, ElementOfSeq
  <2>5. Len(SubSeq(names, 1, last)) = IF 1 <= last THEN last - 1 + 1 ELSE 0
    BY ONLY <2>3, <2>4, SubSeqProperties
  <2>6. Len(SubSeq(names, 1, last)) = last
    BY ONLY <1>12, <2>5
  <2> QED
    BY ONLY <2>2, <2>6
<1>18. IsEnd(ids, page) => last = n
  <2>1. CASE page = <<>>
    <3>1. Len(page) = 0
      BY ONLY <2>1, EmptySeq
    <3> QED
      BY ONLY <1>11, <1>12, <3>1
  <2>2. CASE page # <<>> /\ Last(page) = Last(ids)
    <3>1. Len(page) \in Nat \ {0} /\ Last(page) = page[Len(page)]
      BY ONLY <1>11, <2>2, LastIs
    <3>2. last - m \in 1..(last - m) /\ m + (last - m) = last /\ last \in 1..n /\ n \in 1..n
      BY ONLY <1>7, <1>11, <1>12, <3>1
    <3>3. Last(page) = ids[last]
      BY ONLY <1>11, <3>1, <3>2
    <3>4. ids # <<>>
      BY ONLY <1>6, <3>2, EmptySeq
    <3>5. Last(ids) = ids[n]
      BY ONLY <1>6, <1>7, <3>4, LastIs
    <3> QED
      BY ONLY <1>7, <2>2, <3>2, <3>3, <3>5
  <2> QED
    BY ONLY <2>1, <2>2 DEF IsEnd
<1>19. ~IsEnd(ids, page) => /\ last \in 1..n
                            /\ Last(page) = ids[last] /\ Last(page) \in Nat
  <2>1. SUFFICES ASSUME page # <<>>
                 PROVE  last \in 1..n /\ Last(page) = ids[last] /\ Last(page) \in Nat
    BY DEF IsEnd
  <2>2. Len(page) \in Nat \ {0} /\ Last(page) = page[Len(page)] /\ Last(page) \in Nat
    BY ONLY <1>11, <2>1, LastIs
  <2>3. last - m \in 1..(last - m) /\ m + (last - m) = last /\ last \in 1..n
    BY ONLY <1>7, <1>11, <1>12, <2>2
  <2> QED
    BY ONLY <1>11, <2>2, <2>3
<1>20. /\ held \subseteq held'
       /\ \A h \in held' : h \in held \/ \E id \in 1..(nextId - 1) : h = HoldingOf(id)
  <2>1. PICK found : found = {<<nodes[id].name, id>> : id \in ToSet(page)}
    OBVIOUS
  <2>2. held' = held \cup Told(q.item, found)
    BY <1>1, <1>6, <1>10, <2>1 DEF AnswerPage
  <2>3. \A id \in ToSet(page) : \E k \in 1..(last - m) : id = ids[m + k]
    <3>1. \A id \in ToSet(page) : \E k \in 1..Len(page) : id = page[k]
      BY ONLY <1>11, Members
    <3> QED
      BY ONLY <1>11, <3>1
  <2>4. \A id \in ToSet(page) : ChildOf(q.dir, nodes[id].name, id)
    BY ONLY <1>7, <1>12, <2>3 DEF ChildOf
  <2>5. \A f \in found : ChildOf(q.dir, f[1], f[2])
    BY ONLY <2>1, <2>4
  <2>6. PICK g \in held : g.item = q.item
    BY ONLY <1>5
  <2>7. IsDir(Inode(g.item)) /\ \A f \in found : ChildOf(Inode(g.item), f[1], f[2])
    BY ONLY <1>5, <2>5, <2>6
  <2>8. \A h \in Told(g.item, found) : \E id \in 1..(nextId - 1) : h = HoldingOf(id)
    BY ONLY <1>2, <2>7, ToldIs
  <2> QED
    BY ONLY <2>2, <2>6, <2>8
<1>21. CASE IsEnd(ids, page)
  <2>1. PICK r : r = [q EXCEPT !.pc = "done", !.result = "found", !.seen = seen]
    OBVIOUS
  <2>2. task' = [task EXCEPT ![t] = r]
    BY <1>1, <1>6, <1>10, <1>13, <1>15, <1>21, <2>1 DEF AnswerPage, Named
  <2>3. /\ r \in TaskType
        /\ r.pc = "done" /\ r.result = "found" /\ r.op = q.op /\ r.item = q.item
        /\ r.dir = q.dir /\ r.name = q.name /\ r.i = q.i /\ r.ids = q.ids
        /\ r.after = q.after /\ r.seen = seen
    BY ONLY <1>2, <1>16, <2>1 DEF TaskType, Outcomes
  <2>4. About(r)
    BY ONLY <1>2, <1>3, <2>3 DEF About
  <2>5. Populating(r) /\ Reading(r) /\ Denied(r)
    BY ONLY <1>3, <2>3 DEF Populating, Reading, Denied
  <2>6. SubSeq(names, 1, n) = names
    BY ONLY <1>8, SubSeqFull
  <2>7. Paging(r)
    BY ONLY <1>5, <1>6, <1>17, <1>18, <1>21, <2>3, <2>6 DEF Paging
  <2>8. TaskInv(r)
    BY ONLY <2>3, <2>4, <2>5, <2>7 DEF TaskInv
  <2> QED
    BY ONLY <1>4, <1>20, <2>2, <2>8, IInv, t \in Tasks, SmallTurn
<1>22. CASE ~IsEnd(ids, page)
  <2>1. PICK next : next = IF adapter = "fskit" THEN Len(seen) ELSE Last(page)
    OBVIOUS
  <2>2. PICK r : r = [q EXCEPT !.pc = "fast", !.seen = seen, !.after = next]
    OBVIOUS
  <2>3. task' = [task EXCEPT ![t] = r]
    BY <1>1, <1>6, <1>10, <1>13, <1>15, <1>22, <2>1, <2>2 DEF AnswerPage, Named
  <2>4. next \in Nat
    <3>1. Len(seen) \in Nat
      BY ONLY <1>16, LenProperties
    <3> QED
      BY ONLY <1>19, <1>22, <2>1, <3>1
  <2>5. /\ r \in TaskType
        /\ r.pc = "fast" /\ r.result = q.result /\ r.op = q.op /\ r.item = q.item
        /\ r.dir = q.dir /\ r.name = q.name /\ r.i = q.i /\ r.ids = q.ids
        /\ r.after = next /\ r.seen = seen
    BY ONLY <1>2, <1>16, <2>2, <2>4 DEF TaskType
  <2>6. About(r)
    BY ONLY <1>2, <1>3, <2>5 DEF About
  <2>7. Populating(r) /\ Reading(r) /\ Denied(r)
    BY ONLY <1>3, <1>5, <2>5 DEF Populating, Reading, Denied
  <2>8. Paging(r)
    <3>1. CASE Redone(q.dir)
      BY ONLY <2>5, <3>1 DEF Paging
    <3>2. CASE ~Redone(q.dir)
      <4>1. seen = SubSeq(names, 1, Len(seen)) /\ Len(seen) = last /\ last \in 1..n
        BY ONLY <1>17, <1>19, <1>22, <3>2
      <4>2. adapter = "fskit" => next = Len(seen)
        BY ONLY <2>1
      <4>3. adapter = "nfs" => q.dir \in DOMAIN dirChildren /\ dirChildren[q.dir] = ids
        BY ONLY <1>2, <1>3, <1>6, <3>2 DEF Paging
      <4>4. adapter = "nfs" => next = dirChildren[q.dir][Len(seen)]
        BY ONLY <1>19, <1>22, <2>1, <4>1, <4>3
      <4> QED
        BY ONLY <1>5, <1>6, <1>7, <2>5, <4>1, <4>2, <4>3, <4>4 DEF Paging
    <3> QED
      BY <3>1, <3>2
  <2>9. TaskInv(r)
    BY ONLY <2>5, <2>6, <2>7, <2>8 DEF TaskInv
  <2> QED
    BY ONLY <1>4, <1>20, <2>3, <2>9, IInv, t \in Tasks, SmallTurn
<1> QED
  BY <1>21, <1>22

-----------------------------------------------------------------------------
(* Reads.                                                                  *)

\* A chunk goes on where the last one ended, and is empty only at the end.
LEMMA ChunkIs ==
    ASSUME NEW data \in Seq(Nat), NEW offset \in 0..Len(data),
           NEW chunk, chunk = Chunk(data, offset)
    PROVE  /\ chunk \in Seq(Nat) /\ offset + Len(chunk) \in offset..Len(data)
           /\ SubSeq(data, 1, offset) \o chunk = SubSeq(data, 1, offset + Len(chunk))
           /\ chunk = <<>> => offset = Len(data)
<1>1. PICK n : n = Len(data)
  OBVIOUS
<1>2. n \in Nat /\ offset \in Nat /\ offset <= n /\ ReadSize \in Nat \ {0}
  BY <1>1, LenProperties, VfsNodesAssumption
<1>3. PICK last : last = AtMost(offset + ReadSize, n)
  OBVIOUS
<1>4. AtMost(offset, n) = offset /\ last \in offset..n /\ (last = offset => offset = n)
  BY ONLY <1>2, <1>3 DEF AtMost
<1>5. chunk = SubSeq(data, offset + 1, last)
  BY ONLY <1>1, <1>3, <1>4, chunk = Chunk(data, offset) DEF Chunk
<1>6. offset + 1 \in Int /\ last \in Int /\ \A i \in (offset + 1)..last : i \in 1..n
  BY ONLY <1>2, <1>4
<1>7. \A i \in (offset + 1)..last : data[i] \in Nat
  BY ONLY <1>1, <1>6, data \in Seq(Nat), ElementOfSeq
<1>8. chunk \in Seq(Nat) /\ Len(chunk) = IF offset + 1 <= last THEN last - (offset + 1) + 1 ELSE 0
  BY ONLY <1>5, <1>6, <1>7, SubSeqProperties
<1>9. offset + Len(chunk) = last /\ last \in Nat
  BY ONLY <1>2, <1>4, <1>8
<1>10. SubSeq(data, 1, offset) \o SubSeq(data, offset + 1, last) = SubSeq(data, 1, last)
  <2>1. 1 \in 1..(Len(data) + 1) /\ offset \in (1 - 1)..Len(data) /\ last \in offset..Len(data)
    BY ONLY <1>1, <1>2, <1>4
  <2> QED
    BY ONLY <2>1, data \in Seq(Nat), ConcatAdjacentSubSeq
<1>11. chunk = <<>> => offset = n
  <2>1. chunk = <<>> => Len(chunk) = 0
    BY ONLY EmptySeq
  <2> QED
    BY ONLY <1>2, <1>4, <1>9, <2>1
<1>12. offset + Len(chunk) \in offset..n
  BY ONLY <1>4, <1>9
<1>13. SubSeq(data, 1, offset) \o chunk = SubSeq(data, 1, offset + Len(chunk))
  BY ONLY <1>5, <1>9, <1>10
<1> QED
  BY ONLY <1>1, <1>8, <1>11, <1>12, <1>13

\* A prefix has the length that it was cut to.
LEMMA PrefixLength ==
    ASSUME NEW data \in Seq(Nat), NEW end \in 0..Len(data)
    PROVE  SubSeq(data, 1, end) \in Seq(Nat) /\ Len(SubSeq(data, 1, end)) = end
<1>1. Len(data) \in Nat /\ end \in Int /\ 1 \in Int /\ \A i \in 1..end : i \in 1..Len(data)
  BY ONLY LenProperties, data \in Seq(Nat), end \in 0..Len(data)
<1>2. \A i \in 1..end : data[i] \in Nat
  BY ONLY <1>1, data \in Seq(Nat), ElementOfSeq
<1> QED
  BY ONLY <1>1, <1>2, end \in 0..Len(data), SubSeqProperties

\* A file's bytes, and the size that is told: that of the bytes, or 0.
LEMMA FileIs ==
    ASSUME TreeInv, NEW dir \in 1..(nextId - 1), nodes[dir].kind # "dir"
    PROVE  /\ nodes[dir].digest \in Blobs /\ Data[nodes[dir].digest] \in Seq(Nat)
           /\ AttrOf(nodes[dir]).size \in {0, Len(Data[nodes[dir].digest])}
           /\ nodes[dir].kind = "symlink" =>
                 Whole(nodes[dir]) = Data[nodes[dir].digest]
<1>1. PICK node, digest : node = nodes[dir] /\ digest = node.digest
  OBVIOUS
<1>2. digest \in Blobs /\ node.kind \in {"file", "symlink"}
  <2>1. node \in NodeType /\ HasDigest(node)
    BY <1>1 DEF TreeInv
  <2>2. node.kind \in {"file", "symlink", "dir"} /\ node.kind # "dir"
    BY ONLY <1>1, <2>1, nodes[dir].kind # "dir" DEF NodeType
  <2> QED
    BY ONLY <1>1, <2>1, <2>2 DEF HasDigest
<1>3. Data[digest] \in Seq(Nat) /\ SizeOf[digest] \in {0, Len(Data[digest])}
  BY <1>2, VfsNodesAssumption
<1>4. AttrOf(node).size = IF node.kind = "file" THEN SizeOf[digest] ELSE Len(Data[digest])
  BY ONLY <1>1, <1>2 DEF AttrOf
<1>5. Len(Data[digest]) = 0 => Data[digest] = <<>>
  BY ONLY <1>3, EmptySeq
<1>6. node.kind = "symlink" => Whole(node) = Data[digest]
  BY ONLY <1>1, <1>4, <1>5 DEF Whole
<1>7. AttrOf(node).size \in {0, Len(Data[digest])}
  BY ONLY <1>3, <1>4
<1> QED
  BY ONLY <1>1, <1>2, <1>3, <1>6, <1>7

\* A read that gets its bytes is where it was.
LEMMA ReadGoesOn ==
    ASSUME NEW q \in TaskType, About(q), Reading(q), Denied(q),
           q.pc \in {"blob", "download"}, NEW pc \in {"data", "download"},
           NEW r, r = [q EXCEPT !.pc = pc]
    PROVE  TaskInv(r)
<1>1. /\ r \in TaskType
      /\ r.pc = pc /\ r.result = q.result /\ r.op = q.op /\ r.item = q.item
      /\ r.dir = q.dir /\ r.name = q.name /\ r.i = q.i /\ r.ids = q.ids
      /\ r.after = q.after /\ r.seen = q.seen
  BY DEF TaskType
<1>2. q.op = "read" /\ q.result = "none" /\ nodes[q.dir].kind = "file"
  BY DEF Reading
<1>3. About(r)
  BY ONLY <1>1, <1>2, About(q) DEF About
<1>4. Populating(r) /\ Paging(r)
  BY ONLY <1>1, <1>2, pc \in {"data", "download"} DEF Populating, Paging
<1>5. Reading(r)
  BY ONLY <1>1, Reading(q), q.pc \in {"blob", "download"}, pc \in {"data", "download"}
     DEF Reading
<1>6. Denied(r)
  BY ONLY <1>1, Denied(q) DEF Denied
<1> QED
  BY ONLY <1>1, <1>3, <1>4, <1>5, <1>6 DEF TaskInv

\* Blob keeps the invariant.
LEMMA BlobKeeps ==
    ASSUME IInv, NEW t \in Tasks, Blob(t)
    PROVE  IInv'
<1>1. PICK q : q = task[t]
  OBVIOUS
<1>2. /\ TreeInv /\ q \in TaskType /\ About(q) /\ Reading(q) /\ Denied(q)
  BY <1>1, TaskIs
<1>3. q.pc = "blob" /\ UNCHANGED <<table, cached, held, restored, calls>>
  BY <1>1 DEF Blob
<1>4. /\ UNCHANGED <<table, restored>> /\ held' = held /\ cached' \subseteq Blobs
      /\ calls' \in 0..MaxCalls
  BY <1>3 DEF IInv
<1>5. PICK pc \in {"data", "download"} : Goto(t, pc)
  BY <1>1 DEF Blob
<1>6. PICK r : r = [q EXCEPT !.pc = pc]
  OBVIOUS
<1>7. task' = [task EXCEPT ![t] = r]
  BY ONLY <1>1, <1>5, <1>6, Moved
<1>8. TaskInv(r)
  BY ONLY <1>1, <1>2, <1>3, <1>5, <1>6, ReadGoesOn
<1> QED
  BY ONLY <1>4, <1>7, <1>8, IInv, t \in Tasks, SmallTurn

\* Download keeps the invariant.
LEMMA DownloadKeeps ==
    ASSUME IInv, NEW t \in Tasks, Download(t)
    PROVE  IInv'
<1>1. PICK q : q = task[t]
  OBVIOUS
<1>2. /\ TreeInv /\ q \in TaskType /\ TaskInv(q) /\ About(q) /\ Reading(q) /\ Denied(q)
      /\ adapter \in {"nfs", "fskit"} /\ nextId \in Nat
  BY <1>1, TaskIs
<1>3. q.pc = "download" /\ UNCHANGED <<table, held, restored, calls>>
  BY <1>1 DEF Download
<1>4. /\ UNCHANGED <<table, restored>> /\ held' = held /\ calls' \in 0..MaxCalls
      /\ cached \subseteq Blobs
  BY <1>3 DEF IInv
<1>5. /\ q.op = "read" /\ nodes[q.dir].kind = "file" /\ q.dir \in 1..(nextId - 1)
  BY ONLY <1>2, <1>3 DEF Reading, About
<1>6. nodes[q.dir].digest \in Blobs
  <2>1. nodes[q.dir].kind # "dir"
    BY ONLY <1>5
  <2> QED
    BY <1>2, <1>5, <2>1, FileIs
<1>7. CASE Goto(t, "data") /\ cached' = cached \cup {nodes[q.dir].digest}
  <2>1. PICK pc, r : pc = "data" /\ r = [q EXCEPT !.pc = pc]
    OBVIOUS
  <2>2. task' = [task EXCEPT ![t] = r]
    BY ONLY <1>1, <1>7, <2>1, Moved
  <2>3. TaskInv(r)
    BY ONLY <1>2, <1>3, <2>1, ReadGoesOn
  <2>4. cached' \subseteq Blobs
    BY ONLY <1>4, <1>6, <1>7
  <2> QED
    BY ONLY <1>4, <2>2, <2>3, <2>4, IInv, t \in Tasks, SmallTurn
<1>8. CASE (\E error \in BlobErrors : Done(t, Status(error))) /\ UNCHANGED cached
  <2>1. PICK result : \E error \in BlobErrors : result = Status(error) /\ Done(t, result)
    BY <1>8
  <2>2. PICK r : r = [q EXCEPT !.pc = "done", !.result = result]
    OBVIOUS
  <2>3. task' = [task EXCEPT ![t] = r]
    BY ONLY <1>1, <2>1, <2>2, Ended
  <2>4. result \in Outcomes \ {"none", "found", Status("NotFound")}
    BY <1>2, <2>1, StatusApart DEF BlobErrors
  <2>5. TaskInv(r)
    BY <1>2, <1>5, <2>2, <2>4, Fails
  <2> QED
    BY ONLY <1>4, <1>8, <2>3, <2>5, IInv, t \in Tasks, SmallTurn
<1> QED
  BY <1>1, <1>7, <1>8 DEF Download

\* AnswerRead keeps the invariant: the bytes of a chunk follow those read
\* before it, and a read that ends has them all.
LEMMA AnswerReadKeeps ==
    ASSUME IInv, NEW t \in Tasks, AnswerRead(t)
    PROVE  IInv'
<1>1. PICK q : q = task[t]
  OBVIOUS
<1>2. /\ TreeInv /\ q \in TaskType /\ TaskInv(q) /\ About(q) /\ Reading(q) /\ Denied(q)
      /\ nextId \in Nat
  BY <1>1, TaskIs
<1>3. q.pc = "data" /\ UNCHANGED <<table, cached, held, restored, calls>>
  BY <1>1 DEF AnswerRead
<1>4. /\ UNCHANGED <<table, restored>> /\ held' = held /\ cached' \subseteq Blobs
      /\ calls' \in 0..MaxCalls
  BY <1>3 DEF IInv
<1>5. PICK data : data = Data[nodes[q.dir].digest]
  OBVIOUS
<1>6. /\ q.op = "read" /\ q.result = "none" /\ q.dir \in 1..(nextId - 1)
      /\ nodes[q.dir].kind = "file"
      /\ q.after \in 0..Len(data) /\ q.seen = SubSeq(data, 1, q.after)
  BY ONLY <1>2, <1>3, <1>5 DEF Reading, About
<1>7. nodes[q.dir].kind # "dir"
  BY ONLY <1>6
<1>8. PICK size : size = AttrOf(nodes[q.dir]).size
  OBVIOUS
<1>8a. data \in Seq(Nat) /\ size \in {0, Len(data)}
  BY <1>2, <1>5, <1>6, <1>7, <1>8, FileIs
<1>9. Len(data) \in Nat
  BY ONLY <1>8a, LenProperties
<1>10. PICK offset, chunk : offset = q.after /\ chunk = Chunk(data, offset)
  OBVIOUS
<1>11. PICK end : end = offset + Len(chunk)
  OBVIOUS
<1>12. /\ chunk \in Seq(Nat) /\ end \in offset..Len(data)
       /\ SubSeq(data, 1, offset) \o chunk = SubSeq(data, 1, end)
       /\ chunk = <<>> => offset = Len(data)
  <2>1. offset \in 0..Len(data)
    BY ONLY <1>6, <1>10
  <2> QED
    BY ONLY <1>8a, <1>10, <1>11, <2>1, ChunkIs
<1> DEFINE eof == end >= size \/ chunk = <<>>
<1>14. end \in 0..Len(data) /\ end \in Nat
  BY ONLY <1>6, <1>9, <1>10, <1>12
<1>15. PICK bytes, seen :
          bytes = q.seen \o chunk /\ seen = SubSeq(bytes, 1, AtMost(size, Len(bytes)))
  OBVIOUS
<1>16. bytes = SubSeq(data, 1, end) /\ Len(bytes) = end
  <2>1. bytes = SubSeq(data, 1, end)
    BY ONLY <1>6, <1>10, <1>12, <1>15
  <2> QED
    BY ONLY <1>8a, <1>9, <1>14, <2>1, PrefixLength
<1>17. size = Len(data) => seen = SubSeq(data, 1, end)
  <2> SUFFICES ASSUME size = Len(data) PROVE seen = SubSeq(data, 1, end)
    OBVIOUS
  <2>1. AtMost(size, Len(bytes)) = Len(bytes)
    BY ONLY <1>9, <1>14, <1>16, size = Len(data) DEF AtMost
  <2>2. bytes \in Seq(Nat)
    BY ONLY <1>8a, <1>9, <1>14, <1>16, PrefixLength
  <2>3. seen = bytes
    BY ONLY <1>15, <2>1, <2>2, SubSeqFull
  <2> QED
    BY ONLY <1>16, <2>3
<1>17a. size = 0 => seen = <<>>
  <2> SUFFICES ASSUME size = 0 PROVE seen = <<>>
    OBVIOUS
  <2>1. AtMost(size, Len(bytes)) = 0
    BY ONLY <1>14, <1>16, size = 0 DEF AtMost
  <2> QED
    BY ONLY <1>15, <2>1, SubSeqEmpty
<1>18. seen \in Seq(Names \cup {"/"} \cup Nat)
  <2>1. size = 0 => seen \in Seq(Names \cup {"/"} \cup Nat)
    BY ONLY <1>17a, EmptySeq
  <2>2. size = Len(data) => seen \in Seq(Nat)
    BY ONLY <1>8a, <1>9, <1>14, <1>17, PrefixLength
  <2>3. seen \in Seq(Nat) => seen \in Seq(Names \cup {"/"} \cup Nat)
    BY ONLY SeqMonotonic
  <2> QED
    BY ONLY <1>8a, <2>1, <2>2, <2>3
<1>18a. eof => seen = Whole(nodes[q.dir])
  <2>1. CASE size = 0
    BY ONLY <1>8, <1>17a, <2>1 DEF Whole
  <2>2. CASE size = Len(data) /\ size # 0
    <3>1. eof => end = Len(data)
      BY ONLY <1>9, <1>12, <1>14, <2>2
    <3>2. eof => seen = data
      BY ONLY <1>8a, <1>17, <2>2, <3>1, SubSeqFull
    <3> QED
      BY ONLY <1>5, <1>8, <2>2, <3>2 DEF Whole
  <2> QED
    BY ONLY <1>8a, <2>1, <2>2
<1>18b. ~eof => seen = SubSeq(data, 1, end)
  BY ONLY <1>8a, <1>14, <1>17
<1>19. CASE eof
  <2>1. PICK r : r = [q EXCEPT !.pc = "done", !.after = end, !.seen = seen,
                               !.result = "found"]
    OBVIOUS
  <2>2. task' = [task EXCEPT ![t] = r]
    BY <1>1, <1>5, <1>8, <1>10, <1>11, <1>15, <1>19, <2>1 DEF AnswerRead
  <2>3. /\ r \in TaskType
        /\ r.pc = "done" /\ r.result = "found" /\ r.op = q.op /\ r.item = q.item
        /\ r.dir = q.dir /\ r.name = q.name /\ r.i = q.i /\ r.ids = q.ids
        /\ r.after = end /\ r.seen = seen
    BY ONLY <1>2, <1>14, <1>18, <2>1 DEF TaskType, Outcomes
  <2>4. About(r)
    BY ONLY <1>2, <1>6, <2>3 DEF About
  <2>5. Populating(r) /\ Paging(r) /\ Denied(r)
    BY ONLY <1>6, <2>3 DEF Populating, Paging, Denied
  <2>6. Reading(r)
    BY ONLY <1>7, <1>18a, <1>19, <2>3 DEF Reading
  <2>7. TaskInv(r)
    BY ONLY <2>3, <2>4, <2>5, <2>6 DEF TaskInv
  <2> QED
    BY ONLY <1>4, <2>2, <2>7, IInv, t \in Tasks, SmallTurn
<1>20. CASE ~eof
  <2>1. PICK r : r = [q EXCEPT !.pc = "blob", !.after = end, !.seen = seen,
                               !.result = q.result]
    OBVIOUS
  <2>2. task' = [task EXCEPT ![t] = r]
    BY <1>1, <1>5, <1>8, <1>10, <1>11, <1>15, <1>20, <2>1 DEF AnswerRead
  <2>3. /\ r \in TaskType
        /\ r.pc = "blob" /\ r.result = q.result /\ r.op = q.op /\ r.item = q.item
        /\ r.dir = q.dir /\ r.name = q.name /\ r.i = q.i /\ r.ids = q.ids
        /\ r.after = end /\ r.seen = seen
    BY ONLY <1>2, <1>14, <1>18, <2>1 DEF TaskType
  <2>4. About(r)
    BY ONLY <1>2, <1>6, <2>3 DEF About
  <2>5. Populating(r) /\ Paging(r) /\ Denied(r)
    BY ONLY <1>6, <2>3 DEF Populating, Paging, Denied
  <2>6. Reading(r)
    BY ONLY <1>5, <1>6, <1>14, <1>18b, <1>20, <2>3 DEF Reading
  <2>7. TaskInv(r)
    BY ONLY <2>3, <2>4, <2>5, <2>6 DEF TaskInv
  <2> QED
    BY ONLY <1>4, <2>2, <2>7, IInv, t \in Tasks, SmallTurn
<1> QED
  BY <1>19, <1>20

-----------------------------------------------------------------------------
(* The calls.                                                              *)

\* A call counts as one.
LEMMA StartingIs ==
    ASSUME IInv, NEW t \in Tasks, Starting(t)
    PROVE  calls' \in 0..MaxCalls
<1>1. calls \in 0..MaxCalls /\ calls < MaxCalls /\ calls' = calls + 1 /\ MaxCalls \in Nat
  BY VfsNodesAssumption DEF IInv, Starting
<1> QED
  BY ONLY <1>1

\* A call is about an inode that there is.
LEMMA CallIs ==
    ASSUME IInv, NEW h \in held,
           NEW op \in {"lookup", "getattr", "readlink", "write", "readdir", "read"},
           NEW q, q = Call(op, h.item)
    PROVE  /\ q \in TaskType
           /\ q.pc = "idle" /\ q.op = op /\ q.item = h.item /\ q.dir = Inode(h.item)
           /\ q.name = "none" /\ q.i = 1 /\ q.ids = <<>> /\ q.after = 0 /\ q.seen = <<>>
           /\ q.result = "none"
           /\ q.dir \in 1..(nextId - 1) /\ ToSet(q.ids) = {}
           /\ TreeInv /\ HeldInv /\ CacheInv /\ nextId \in Nat
           /\ adapter \in {"nfs", "fskit"}
<1>1. TreeInv /\ HeldInv /\ CacheInv /\ nextId \in Nat /\ adapter \in {"nfs", "fskit"}
  BY DEF IInv, TreeInv
<1>2. PICK item, dir : item = h.item /\ dir = Inode(item)
  OBVIOUS
<1>3. dir \in 1..(nextId - 1) /\ item \in Nat
  BY ONLY <1>1, <1>2, ItemIs, h \in held
<1>4. dir \in Nat
  BY ONLY <1>1, <1>3
<1>5. q = [pc |-> "idle", op |-> op, item |-> item, dir |-> dir, name |-> "none", i |-> 1,
           ids |-> <<>>, after |-> 0, seen |-> <<>>, result |-> "none"]
  BY <1>2 DEF Call, Idle
<1>6. <<>> \in Seq(Nat) /\ <<>> \in Seq(Names \cup {"/"} \cup Nat)
  BY ONLY EmptySeq
<1>7. q \in TaskType
  BY ONLY <1>3, <1>4, <1>5, <1>6,
     op \in {"lookup", "getattr", "readlink", "write", "readdir", "read"}
     DEF TaskType, Outcomes
<1>8. ToSet(<<>>) = {}
  BY ONLY DEF ToSet
<1> QED
  BY ONLY <1>1, <1>2, <1>3, <1>5, <1>7, <1>8

\* A call that is answered at once keeps the invariant.
LEMMA AnswerNowKeeps ==
    ASSUME IInv, NEW t \in Tasks, NEW h \in held, NEW op \in {"getattr", "readlink", "write"},
           NEW call, call = Call(op, h.item),
           NEW result \in Outcomes \ {"none", Status("NotFound")},
           NEW seen \in Seq(Names \cup {"/"} \cup Nat),
           op = "readlink" /\ result = "found" =>
              nodes[call.dir].kind # "dir" /\ seen = Whole(nodes[call.dir]),
           AnswerNow(t, call, result, seen), held' = held
    PROVE  IInv'
<1>1. /\ call \in TaskType
      /\ call.pc = "idle" /\ call.op = op /\ call.item = h.item
      /\ call.dir = Inode(h.item) /\ call.ids = <<>>
      /\ call.dir \in 1..(nextId - 1) /\ ToSet(call.ids) = {}
  BY CallIs
<1>2. PICK r : r = [call EXCEPT !.pc = "done", !.result = result, !.seen = seen]
  OBVIOUS
<1>3. task' = [task EXCEPT ![t] = r]
  BY <1>2 DEF AnswerNow
<1>4. /\ r \in TaskType
      /\ r.pc = "done" /\ r.result = result /\ r.op = op /\ r.item = h.item
      /\ r.dir = call.dir /\ r.ids = call.ids /\ r.seen = seen
  BY ONLY <1>1, <1>2, result \in Outcomes \ {"none", Status("NotFound")},
     seen \in Seq(Names \cup {"/"} \cup Nat) DEF TaskType
<1>5. About(r)
  BY ONLY <1>1, <1>4, h \in held, op \in {"getattr", "readlink", "write"} DEF About
<1>6. Populating(r) /\ Paging(r) /\ Denied(r)
  BY ONLY <1>4, result \in Outcomes \ {"none", Status("NotFound")},
     op \in {"getattr", "readlink", "write"} DEF Populating, Paging, Denied
<1>7. Reading(r)
  BY ONLY <1>4, op \in {"getattr", "readlink", "write"},
     op = "readlink" /\ result = "found" =>
        nodes[call.dir].kind # "dir" /\ seen = Whole(nodes[call.dir]) DEF Reading
<1>8. TaskInv(r)
  BY ONLY <1>4, <1>5, <1>6, <1>7 DEF TaskInv
<1>9. Starting(t) /\ UNCHANGED <<table, cached, restored>>
  BY DEF AnswerNow
<1>10. calls' \in 0..MaxCalls
  BY <1>9, StartingIs
<1>11. UNCHANGED <<table, restored>> /\ cached' \subseteq Blobs
  BY <1>9 DEF IInv
<1> QED
  BY ONLY <1>3, <1>8, <1>10, <1>11, held' = held, IInv, t \in Tasks, SmallTurn

\* GetAttr keeps the invariant: the kernel is told what it was told before.
LEMMA GetAttrKeeps ==
    ASSUME IInv, NEW t \in Tasks, NEW h \in held, GetAttr(t, h.item)
    PROVE  IInv'
<1>1. PICK op, call, result, seen :
         /\ op = "getattr" /\ call = Call(op, h.item) /\ result = "found" /\ seen = <<>>
  OBVIOUS
<1>2. AnswerNow(t, call, result, seen)
  BY <1>1 DEF GetAttr
<1>3. seen \in Seq(Names \cup {"/"} \cup Nat)
  BY ONLY <1>1, EmptySeq
<1>4. TreeInv /\ HeldInv /\ adapter \in {"nfs", "fskit"}
  BY DEF IInv, TreeInv
<1>5. result \in Outcomes \ {"none", Status("NotFound")}
  BY <1>1, <1>4, StatusApart DEF Outcomes
<1>6. ASSUME NEW g \in held, g.item = h.item
      PROVE  [g EXCEPT !.attr = AttrOf(nodes[Inode(h.item)])] = g
  <2>1. PICK id : id = Inode(g.item)
    OBVIOUS
  <2>2. g = HoldingOf(id) /\ g.attr = AttrOf(nodes[id])
    BY ONLY <1>4, <2>1, g \in held, ItemIs
  <2>3. g = [item |-> g.item, in |-> g.in, entry |-> g.entry, attr |-> g.attr]
    BY ONLY <2>2 DEF HoldingOf, Holding
  <2>4. AttrOf(nodes[Inode(h.item)]) = g.attr
    BY ONLY <2>1, <2>2, g.item = h.item
  <2>5. [g EXCEPT !.attr = g.attr] = g
    BY ONLY <2>3
  <2> QED
    BY ONLY <2>4, <2>5
<1>7. held' = held
  <2>1. held' = held \cup {[g EXCEPT !.attr = AttrOf(nodes[Inode(h.item)])] :
                              g \in {k \in held : k.item = h.item}}
    BY DEF GetAttr
  <2> QED
    BY ONLY <1>6, <2>1
<1> QED
  BY <1>1, <1>2, <1>3, <1>5, <1>7, AnswerNowKeeps

\* ReadLink keeps the invariant: a link's bytes are there at once.
LEMMA ReadLinkKeeps ==
    ASSUME IInv, NEW t \in Tasks, NEW h \in held, ReadLink(t, h.item)
    PROVE  IInv'
<1>1. PICK op, call : op = "readlink" /\ call = Call(op, h.item)
  OBVIOUS
<1>2. /\ TreeInv /\ adapter \in {"nfs", "fskit"} /\ held' = held
      /\ call.dir \in 1..(nextId - 1) /\ call.dir = Inode(h.item)
  BY <1>1, CallIs DEF ReadLink
<1>3. CASE nodes[call.dir].kind = "symlink"
  <2>1. PICK result, seen : result = "found" /\ seen = Data[nodes[call.dir].digest]
    OBVIOUS
  <2>2. AnswerNow(t, call, result, seen)
    BY <1>1, <1>2, <1>3, <2>1 DEF ReadLink
  <2>3. nodes[call.dir].kind # "dir"
    BY ONLY <1>3
  <2>4. seen \in Seq(Nat) /\ seen = Whole(nodes[call.dir])
    BY <1>2, <1>3, <2>1, <2>3, FileIs
  <2>5. seen \in Seq(Names \cup {"/"} \cup Nat)
    BY ONLY <2>4, SeqMonotonic
  <2>6. result \in Outcomes \ {"none", Status("NotFound")}
    BY <1>2, <2>1, StatusApart DEF Outcomes
  <2> QED
    BY <1>1, <1>2, <2>1, <2>2, <2>3, <2>4, <2>5, <2>6, AnswerNowKeeps
<1>4. CASE nodes[call.dir].kind # "symlink"
  <2>1. PICK result, seen : result = Status("Invalid") /\ seen = <<>>
    OBVIOUS
  <2>2. AnswerNow(t, call, result, seen)
    BY <1>1, <1>2, <1>4, <2>1 DEF ReadLink
  <2>3. seen \in Seq(Names \cup {"/"} \cup Nat)
    BY ONLY <2>1, EmptySeq
  <2>4. result \in Outcomes \ {"none", "found", Status("NotFound")}
    BY <1>2, <2>1, StatusApart
  <2> QED
    BY <1>1, <1>2, <2>2, <2>3, <2>4, AnswerNowKeeps
<1> QED
  BY <1>3, <1>4

\* Refuse keeps the invariant.
LEMMA RefuseKeeps ==
    ASSUME IInv, NEW t \in Tasks, NEW h \in held, Refuse(t, h.item)
    PROVE  IInv'
<1>1. PICK op, call, result, seen :
         /\ op = "write" /\ call = Call(op, h.item) /\ result = Status("ReadOnly")
         /\ seen = <<>>
  OBVIOUS
<1>2. AnswerNow(t, call, result, seen) /\ held' = held
  BY <1>1 DEF Refuse
<1>3. seen \in Seq(Names \cup {"/"} \cup Nat)
  BY ONLY <1>1, EmptySeq
<1>4. adapter \in {"nfs", "fskit"}
  BY DEF IInv, TreeInv
<1>5. result \in Outcomes \ {"none", "found", Status("NotFound")}
  BY <1>1, <1>4, StatusApart
<1> QED
  BY <1>1, <1>2, <1>3, <1>5, AnswerNowKeeps

\* A call that has to look at the directory starts with nothing done.
LEMMA FastCall ==
    ASSUME IInv, NEW h \in held, NEW op \in {"lookup", "readdir"}, NEW q,
           q = Call(op, h.item), NEW name \in Names \cup {"none"}, NEW r,
           r = [q EXCEPT !.pc = "fast", !.name = name]
    PROVE  TaskInv(r)
<1>1. /\ q \in TaskType
      /\ q.pc = "idle" /\ q.op = op /\ q.item = h.item /\ q.dir = Inode(h.item)
      /\ q.ids = <<>> /\ q.after = 0 /\ q.seen = <<>> /\ q.result = "none"
      /\ q.dir \in 1..(nextId - 1) /\ ToSet(q.ids) = {} /\ adapter \in {"nfs", "fskit"}
  BY CallIs
<1>2. /\ r \in TaskType
      /\ r.pc = "fast" /\ r.result = "none" /\ r.op = op /\ r.item = h.item
      /\ r.dir = q.dir /\ r.ids = q.ids /\ r.after = 0 /\ r.seen = <<>>
  BY ONLY <1>1, r = [q EXCEPT !.pc = "fast", !.name = name],
     name \in Names \cup {"none"} DEF TaskType
<1>3. About(r)
  BY ONLY <1>1, <1>2, h \in held, op \in {"lookup", "readdir"} DEF About
<1>4. Populating(r) /\ Paging(r) /\ Reading(r)
  BY ONLY <1>2, op \in {"lookup", "readdir"} DEF Populating, Paging, Reading
<1>5. Status("NotFound") # "none"
  BY <1>1, StatusApart
<1>6. Denied(r)
  BY ONLY <1>2, <1>5 DEF Denied
<1> QED
  BY ONLY <1>2, <1>3, <1>4, <1>6 DEF TaskInv

\* List keeps the invariant.
LEMMA ListKeeps ==
    ASSUME IInv, NEW t \in Tasks, NEW h \in held, List(t, h.item)
    PROVE  IInv'
<1>1. PICK op, q, name : op = "readdir" /\ q = Call(op, h.item) /\ name = "none"
  OBVIOUS
<1>2. PICK r : r = [q EXCEPT !.pc = "fast", !.name = name]
  OBVIOUS
<1>3. task' = [task EXCEPT ![t] = r]
  <2>1. q \in TaskType /\ q.name = name
    BY <1>1, CallIs
  <2>2. r = [q EXCEPT !.pc = "fast"]
    BY ONLY <1>2, <2>1 DEF TaskType
  <2>3. task' = [task EXCEPT ![t] = [q EXCEPT !.pc = "fast"]]
    BY <1>1 DEF List
  <2> QED
    BY ONLY <2>2, <2>3
<1>4. TaskInv(r)
  BY <1>1, <1>2, FastCall
<1>5. Starting(t) /\ UNCHANGED <<table, cached, held, restored>>
  BY DEF List
<1>6. calls' \in 0..MaxCalls
  BY <1>5, StartingIs
<1>7. UNCHANGED <<table, restored>> /\ held' = held /\ cached' \subseteq Blobs
  BY <1>5 DEF IInv
<1> QED
  BY ONLY <1>3, <1>4, <1>6, <1>7, IInv, t \in Tasks, SmallTurn

\* Read keeps the invariant: nothing is read yet.
LEMMA ReadKeeps ==
    ASSUME IInv, NEW t \in Tasks, NEW h \in held, Read(t, h.item)
    PROVE  IInv'
<1>1. PICK op, q : op = "read" /\ q = Call(op, h.item)
  OBVIOUS
<1>2. /\ q \in TaskType
      /\ q.pc = "idle" /\ q.op = op /\ q.item = h.item /\ q.dir = Inode(h.item)
      /\ q.ids = <<>> /\ q.after = 0 /\ q.seen = <<>> /\ q.result = "none"
      /\ q.dir \in 1..(nextId - 1) /\ ToSet(q.ids) = {}
      /\ adapter \in {"nfs", "fskit"} /\ TreeInv
  BY <1>1, CallIs
<1>3. Starting(t) /\ UNCHANGED <<table, cached, held, restored>>
  BY DEF Read
<1>4. calls' \in 0..MaxCalls
  BY <1>3, StartingIs
<1>5. UNCHANGED <<table, restored>> /\ held' = held /\ cached' \subseteq Blobs
  BY <1>3 DEF IInv
<1>6. About(q)
  BY ONLY <1>1, <1>2, h \in held DEF About
<1>7. CASE nodes[q.dir].kind = "file"
  <2>1. PICK r : r = [q EXCEPT !.pc = "blob"]
    OBVIOUS
  <2>2. task' = [task EXCEPT ![t] = r]
    BY <1>1, <1>7, <2>1 DEF Read
  <2>3. /\ r \in TaskType
        /\ r.pc = "blob" /\ r.result = "none" /\ r.op = "read" /\ r.item = q.item
        /\ r.dir = q.dir /\ r.ids = q.ids /\ r.after = 0 /\ r.seen = <<>>
    BY ONLY <1>1, <1>2, <2>1 DEF TaskType
  <2>4. About(r)
    BY ONLY <1>1, <1>2, <1>6, <2>3 DEF About
  <2>5. nodes[q.dir].kind # "dir"
    BY ONLY <1>7
  <2>6. Data[nodes[q.dir].digest] \in Seq(Nat)
    BY <1>2, <2>5, FileIs
  <2>7. Len(Data[nodes[q.dir].digest]) \in Nat
    BY ONLY <2>6, LenProperties
  <2>8. SubSeq(Data[nodes[q.dir].digest], 1, 0) = <<>>
    BY ONLY SubSeqEmpty
  <2>9. Reading(r)
    BY ONLY <1>7, <2>3, <2>7, <2>8 DEF Reading
  <2>10. Populating(r) /\ Paging(r) /\ Denied(r)
    BY ONLY <2>3 DEF Populating, Paging, Denied
  <2>11. TaskInv(r)
    BY ONLY <2>3, <2>4, <2>9, <2>10 DEF TaskInv
  <2> QED
    BY ONLY <1>4, <1>5, <2>2, <2>11, IInv, t \in Tasks, SmallTurn
<1>8. CASE nodes[q.dir].kind # "file"
  <2>1. PICK result, r : /\ result = Status("IsDir")
                         /\ r = [q EXCEPT !.pc = "done", !.result = result]
    OBVIOUS
  <2>2. task' = [task EXCEPT ![t] = r]
    BY <1>1, <1>8, <2>1 DEF Read
  <2>3. result \in Outcomes \ {"none", "found", Status("NotFound")}
    BY <1>2, <2>1, StatusApart
  <2>4. /\ r \in TaskType
        /\ r.pc = "done" /\ r.result = result /\ r.op = "read" /\ r.item = q.item
        /\ r.dir = q.dir /\ r.ids = q.ids
    BY ONLY <1>1, <1>2, <2>1, <2>3 DEF TaskType
  <2>5. About(r)
    BY ONLY <1>1, <1>2, <1>6, <2>4 DEF About
  <2>6. Populating(r) /\ Paging(r) /\ Reading(r) /\ Denied(r)
    BY ONLY <2>3, <2>4 DEF Populating, Paging, Reading, Denied
  <2>7. TaskInv(r)
    BY ONLY <2>4, <2>5, <2>6 DEF TaskInv
  <2> QED
    BY ONLY <1>4, <1>5, <2>2, <2>7, IInv, t \in Tasks, SmallTurn
<1> QED
  BY <1>7, <1>8

\* A lookup that is answered at once.
LEMMA FoundCall ==
    ASSUME IInv, NEW h \in held, NEW q, q = Call("lookup", h.item),
           NEW name \in Names \cup {".", ".."}, NEW r,
           r = [q EXCEPT !.name = name, !.pc = "done", !.result = "found"]
    PROVE  TaskInv(r)
<1>1. PICK op \in {"lookup", "getattr", "readlink", "write", "readdir", "read"} :
         op = "lookup" /\ q = Call(op, h.item)
  BY q = Call("lookup", h.item)
<1>2. /\ q \in TaskType
      /\ q.pc = "idle" /\ q.op = op /\ q.item = h.item /\ q.dir = Inode(h.item)
      /\ q.ids = <<>> /\ q.after = 0 /\ q.seen = <<>> /\ q.result = "none"
      /\ q.dir \in 1..(nextId - 1) /\ ToSet(q.ids) = {} /\ adapter \in {"nfs", "fskit"}
  BY ONLY IInv, h \in held, <1>1, CallIs
<1>3. /\ r \in TaskType
      /\ r.pc = "done" /\ r.result = "found" /\ r.op = "lookup" /\ r.item = h.item
      /\ r.dir = q.dir /\ r.ids = q.ids
  <2>1. q \in TaskType /\ q.op = "lookup" /\ q.item = h.item
    BY ONLY <1>1, <1>2
  <2>2. r \in TaskType
    BY ONLY <2>1, name \in Names \cup {".", ".."},
       r = [q EXCEPT !.name = name, !.pc = "done", !.result = "found"]
       DEF TaskType, Outcomes
  <2> QED
    BY ONLY <2>1, <2>2, r = [q EXCEPT !.name = name, !.pc = "done", !.result = "found"]
       DEF TaskType
<1>4. About(r)
  BY ONLY <1>2, <1>3, h \in held DEF About
<1>5. Populating(r) /\ Paging(r) /\ Reading(r)
  BY ONLY <1>3 DEF Populating, Paging, Reading
<1>6. Status("NotFound") # "found"
  BY <1>2, StatusApart
<1>7. Denied(r)
  BY ONLY <1>3, <1>6 DEF Denied
<1> QED
  BY ONLY <1>3, <1>4, <1>5, <1>7 DEF TaskInv

\* Lookup keeps the invariant: what dir_cache has is a child.
LEMMA LookupKeeps ==
    ASSUME IInv, NEW t \in Tasks, NEW h \in held, NEW name \in Names,
           Lookup(t, h.item, name)
    PROVE  IInv'
<1>1. PICK op, q : op = "lookup" /\ q = Call(op, h.item)
  OBVIOUS
<1>2. /\ q.dir = Inode(h.item) /\ TreeInv /\ HeldInv /\ CacheInv
      /\ q \in TaskType /\ nextId \in Nat
  BY <1>1, CallIs
<1>3. Starting(t) /\ UNCHANGED <<table, cached, restored>>
  BY DEF Lookup
<1>4. calls' \in 0..MaxCalls
  BY <1>3, StartingIs
<1>5. UNCHANGED <<table, restored>> /\ cached' \subseteq Blobs
  BY <1>3 DEF IInv
<1>6. PICK key : key = <<q.dir, name>>
  OBVIOUS
<1>7. [q EXCEPT !.name = name].dir = q.dir
  BY ONLY <1>2 DEF TaskType
<1>8. CASE key \in DOMAIN dirCache
  <2>1. PICK r : r = [q EXCEPT !.name = name, !.pc = "done", !.result = "found"]
    OBVIOUS
  <2>2. /\ task' = [task EXCEPT ![t] = r]
        /\ held' = held \cup Told(h.item, {<<name, dirCache[key]>>})
    BY <1>1, <1>6, <1>7, <1>8, <2>1 DEF Lookup
  <2>3. name \in Names \cup {".", ".."}
    OBVIOUS
  <2>4. TaskInv(r)
    BY <1>1, <2>1, <2>3, FoundCall
  <2>5. ChildOf(q.dir, name, dirCache[key])
    BY <1>2, <1>6, <1>8 DEF CacheInv
  <2>6. q.dir \in 1..(nextId - 1) /\ IsDir(q.dir)
    <3>1. dirCache[key] \in 2..(nextId - 1) /\ nodes[dirCache[key]].parent = q.dir
      BY ONLY <2>5 DEF ChildOf
    <3>2. HangsIn(dirCache[key])
      BY <1>2, <3>1 DEF TreeInv
    <3> QED
      BY ONLY <3>1, <3>2 DEF HangsIn, IsDir
  <2>7. PICK found : found = {<<name, dirCache[key]>>}
    OBVIOUS
  <2>8. IsDir(Inode(h.item)) /\ \A f \in found : ChildOf(Inode(h.item), f[1], f[2])
    BY ONLY <1>2, <2>5, <2>6, <2>7
  <2>9. \A g \in Told(h.item, found) : \E id \in 1..(nextId - 1) : g = HoldingOf(id)
    BY ONLY <1>2, <2>8, h \in held, ToldIs
  <2>10. /\ held \subseteq held'
         /\ \A g \in held' : g \in held \/ \E id \in 1..(nextId - 1) : g = HoldingOf(id)
    BY ONLY <2>2, <2>7, <2>9
  <2> QED
    BY ONLY <1>4, <1>5, <2>2, <2>4, <2>10, IInv, t \in Tasks, SmallTurn
<1>9. CASE key \notin DOMAIN dirCache
  <2>1. PICK r : r = [q EXCEPT !.pc = "fast", !.name = name]
    OBVIOUS
  <2>2. r = [[q EXCEPT !.name = name] EXCEPT !.pc = "fast"]
    BY ONLY <1>2, <2>1 DEF TaskType
  <2>3. task' = [task EXCEPT ![t] = r] /\ held' = held
    BY <1>1, <1>6, <1>7, <1>9, <2>2 DEF Lookup
  <2>4. name \in Names \cup {"none"}
    OBVIOUS
  <2>5. TaskInv(r)
    BY <1>1, <2>1, <2>4, FastCall
  <2> QED
    BY ONLY <1>4, <1>5, <2>3, <2>5, IInv, t \in Tasks, SmallTurn
<1> QED
  BY <1>8, <1>9

\* LookupDots keeps the invariant: an item and the one it was found in are
\* what the kernel takes them for.
LEMMA LookupDotsKeeps ==
    ASSUME IInv, NEW t \in Tasks, NEW h \in held, NEW name \in {".", ".."},
           LookupDots(t, h.item, name)
    PROVE  IInv'
<1>1. PICK q : q = Call("lookup", h.item)
  OBVIOUS
<1>2. PICK r : r = [q EXCEPT !.name = name, !.pc = "done", !.result = "found"]
  OBVIOUS
<1>3. Starting(t) /\ UNCHANGED <<table, cached, restored>>
  BY DEF LookupDots
<1>4. calls' \in 0..MaxCalls
  BY <1>3, StartingIs
<1>5. UNCHANGED <<table, restored>> /\ cached' \subseteq Blobs
  BY <1>3 DEF IInv
<1>6. task' = [task EXCEPT ![t] = r]
  BY <1>1, <1>2 DEF LookupDots
<1>7. name \in Names \cup {".", ".."}
  OBVIOUS
<1>8. TaskInv(r)
  BY <1>1, <1>2, <1>7, FoundCall
<1>9. TreeInv /\ HeldInv
  BY DEF IInv
<1>10. PICK dir, to : /\ dir = Inode(h.item)
                      /\ to = IF name = "." THEN dir ELSE nodes[dir].parent
  OBVIOUS
<1>11. PICK k \in held, g \in held :
          /\ k.item = h.item /\ g.item = IF name = "." THEN h.item ELSE k.in
          /\ held' = held \cup {Holding(Wire(to), g.in, g.entry, nodes[to])}
  BY <1>10 DEF LookupDots
<1>12. /\ dir \in 1..(nextId - 1) /\ k.item = Wire(dir)
       /\ k.in = Wire(nodes[dir].parent) /\ Inode(k.in) = nodes[dir].parent
  <2>1. PICK id : id = Inode(k.item)
    OBVIOUS
  <2>2. id \in 1..(nextId - 1) /\ k.item = Wire(id)
        /\ k.in = Wire(nodes[id].parent) /\ Inode(k.in) = nodes[id].parent
    BY ONLY <1>9, <2>1, ItemIs, k \in held
  <2>3. id = dir
    BY ONLY <1>10, <1>11, <2>1
  <2> QED
    BY ONLY <2>2, <2>3
<1>13. Inode(g.item) = to
  BY ONLY <1>10, <1>11, <1>12
<1>14. PICK id : id = Inode(g.item)
  OBVIOUS
<1>15. /\ id \in 1..(nextId - 1) /\ g = HoldingOf(id) /\ g.item = Wire(id)
       /\ g.in = Wire(nodes[id].parent) /\ g.entry = EntryOf(nodes[id])
  BY ONLY <1>9, <1>14, ItemIs, g \in held
<1>16. Holding(Wire(to), g.in, g.entry, nodes[to]) = HoldingOf(id)
  BY ONLY <1>13, <1>14, <1>15 DEF HoldingOf
<1>17. /\ held \subseteq held'
       /\ \A f \in held' : f \in held \/ \E i \in 1..(nextId - 1) : f = HoldingOf(i)
  BY ONLY <1>11, <1>15, <1>16
<1> QED
  BY ONLY <1>4, <1>5, <1>6, <1>8, <1>17, IInv, t \in Tasks, SmallTurn

-----------------------------------------------------------------------------
(* The invariant.                                                          *)

\* The initial states have it.
LEMMA InitHolds == Init => IInv
<1> SUFFICES ASSUME Init PROVE IInv
  OBVIOUS
<1>1. /\ adapter \in {"nfs", "fskit"} /\ nodes = [id \in {1} |-> Node(1, RootEntry)]
      /\ dirCache = <<>> /\ dirChildren = <<>> /\ nextId = 2 /\ cached = {}
      /\ task = [t \in Tasks |-> Idle] /\ restored = {} /\ calls = 0
      /\ held = {Holding(Wire(1), Wire(1), RootEntry, nodes[1])}
  BY DEF Init, Root
<1>2. 1..(nextId - 1) = {1} /\ 2..(nextId - 1) = {} /\ nextId \in Nat /\ nextId > 1
  BY ONLY <1>1
<1>3. nodes[1] = [parent |-> 1, name |-> "/", kind |-> "dir", digest |-> RootDigest,
                  populated |-> FALSE]
  BY ONLY <1>1 DEF Node, RootEntry
<1>4. RootDigest \in Digests /\ MaxCalls \in Nat
  BY VfsNodesAssumption
<1>5. nodes[1] \in NodeType /\ HasDigest(nodes[1]) /\ EntryOf(nodes[1]) = RootEntry
      /\ nodes[1].parent = 1
  BY ONLY <1>3, <1>4 DEF NodeType, HasDigest, EntryOf, RootEntry
<1>6. nodes \in [1..(nextId - 1) -> NodeType]
  BY ONLY <1>1, <1>2, <1>5
<1>7. TreeInv
  BY ONLY <1>1, <1>2, <1>5, <1>6 DEF TreeInv, Root
<1>8. DOMAIN <<>> = {}
  OBVIOUS
<1>9. CacheInv /\ ChildrenInv
  BY ONLY <1>1, <1>8 DEF CacheInv, ChildrenInv
<1>10. HeldInv
  <2>1. HoldingOf(1) = Holding(Wire(1), Wire(1), RootEntry, nodes[1])
    BY ONLY <1>5 DEF HoldingOf
  <2> QED
    BY ONLY <1>1, <1>2, <2>1 DEF HeldInv
<1>11. ASSUME NEW t \in Tasks
       PROVE  TaskInv(task[t])
  <2>1. PICK q : q = task[t]
    OBVIOUS
  <2>2. q = [pc |-> "idle", op |-> "none", item |-> 0, dir |-> 1, name |-> "none", i |-> 1,
             ids |-> <<>>, after |-> 0, seen |-> <<>>, result |-> "none"]
    BY ONLY <1>1, <2>1, t \in Tasks DEF Idle, Root
  <2>3. <<>> \in Seq(Nat) /\ <<>> \in Seq(Names \cup {"/"} \cup Nat)
    BY ONLY EmptySeq
  <2>4. /\ q \in TaskType
        /\ q.pc = "idle" /\ q.op = "none" /\ q.dir = 1 /\ q.ids = <<>> /\ q.result = "none"
    BY ONLY <2>2, <2>3 DEF TaskType, Outcomes
  <2>5. ToSet(<<>>) = {}
    BY ONLY DEF ToSet
  <2>6. About(q)
    BY ONLY <1>2, <2>4, <2>5 DEF About
  <2>7. Populating(q) /\ Paging(q) /\ Reading(q) /\ Denied(q)
    BY ONLY <2>4 DEF Populating, Paging, Reading, Denied
  <2> QED
    BY ONLY <2>1, <2>4, <2>6, <2>7 DEF TaskInv
<1>12. restored \subseteq 1..(nextId - 1) /\ cached \subseteq Blobs /\ calls \in 0..MaxCalls
       /\ DOMAIN task = Tasks
  BY ONLY <1>1, <1>4
<1> QED
  BY ONLY <1>7, <1>9, <1>10, <1>11, <1>12 DEF IInv

\* A step that changes nothing but the cache.
LEMMA StutterKeeps ==
    ASSUME IInv, UNCHANGED <<table, task, held, restored, calls>>, cached' \subseteq cached
    PROVE  IInv'
<1>1. /\ TreeInv /\ CacheInv /\ ChildrenInv /\ HeldInv /\ restored \subseteq 1..(nextId - 1)
      /\ cached \subseteq Blobs /\ calls \in 0..MaxCalls /\ DOMAIN task = Tasks
      /\ \A t \in Tasks : TaskInv(task[t])
  BY DEF IInv
<1>2. UNCHANGED <<adapter, nodes, dirCache, dirChildren, nextId, task, held, restored, calls>>
  BY DEF table
<1>3. nextId \in Nat
  BY ONLY <1>1 DEF TreeInv
<1>4. Grown
  BY ONLY <1>2, <1>3 DEF Grown
<1>5. TreeInv'
  BY ONLY <1>1, <1>2 DEF TreeInv, HangsIn, Manifest, EntryOf, HasDigest
<1>6. CacheInv' /\ ChildrenInv'
  BY ONLY <1>1, <1>2, <1>4, CachedKeep, StoredKeep
<1>7. HeldInv'
  BY ONLY <1>1, <1>2, <1>4, HeldGrown
<1>8. ASSUME NEW t \in Tasks
      PROVE  TaskInv(task[t])'
  <2>1. PICK q : q = task[t]
    OBVIOUS
  <2>2. TaskInv(q)'
    BY <1>1, <1>4, <2>1, TaskKeeps
  <2>3. task'[t] = q
    BY ONLY <1>2, <2>1
  <2> QED
    BY ONLY <2>2, <2>3
<1>9. restored' \subseteq 1..(nextId' - 1) /\ cached' \subseteq Blobs /\ calls' \in 0..MaxCalls
      /\ DOMAIN task' = Tasks
  BY ONLY <1>1, <1>2, cached' \subseteq cached
<1> QED
  BY ONLY <1>5, <1>6, <1>7, <1>8, <1>9 DEF IInv

\* Evict leaves everything but the cache as it is.
LEMMA EvictKeeps ==
    ASSUME IInv, NEW blob \in Blobs, Evict(blob)
    PROVE  IInv'
<1>1. /\ UNCHANGED <<table, task, held, restored, calls>> /\ cached' \subseteq cached
  BY DEF Evict
<1> QED
  BY <1>1, StutterKeeps

\* Every step keeps the invariant.
LEMMA StepKeeps == IInv /\ [Next]_vars => IInv'
<1> SUFFICES ASSUME IInv, [Next]_vars PROVE IInv'
  OBVIOUS
<1>1. CASE \E t \in Tasks, h \in held :
              \/ List(t, h.item) \/ Read(t, h.item)
              \/ GetAttr(t, h.item) \/ ReadLink(t, h.item) \/ Refuse(t, h.item)
              \/ \E name \in Names : Lookup(t, h.item, name)
              \/ \E name \in {".", ".."} : LookupDots(t, h.item, name)
  BY <1>1, ListKeeps, ReadKeeps, GetAttrKeeps, ReadLinkKeeps, RefuseKeeps, LookupKeeps,
     LookupDotsKeeps
<1>2. CASE \E t \in Tasks : Run(t)
  <2>1. PICK t \in Tasks : Run(t)
    BY <1>2
  <2>2. CASE Fast(t) \/ Children(t) \/ Fetch(t)
    BY <2>2, FastKeeps, ChildrenKeeps, FetchKeeps
  <2>3. CASE Seen(t) \/ Make(t) \/ MarkPopulated(t) \/ StoreChildren(t)
    BY <2>3, SeenKeeps, MakeKeeps, MarkPopulatedKeeps, StoreChildrenKeeps
  <2>4. CASE AnswerLookup(t) \/ AnswerPage(t)
    BY <2>4, AnswerLookupKeeps, AnswerPageKeeps
  <2>5. CASE Blob(t) \/ Download(t) \/ AnswerRead(t)
    BY <2>5, BlobKeeps, DownloadKeeps, AnswerReadKeeps
  <2> QED
    BY ONLY <2>1, <2>2, <2>3, <2>4, <2>5 DEF Run
<1>3. CASE \E blob \in Blobs : Evict(blob)
  BY <1>3, EvictKeeps
<1>4. CASE UNCHANGED vars
  <2>1. UNCHANGED <<table, task, held, restored, calls>> /\ cached' \subseteq cached
    BY <1>4 DEF vars
  <2> QED
    BY <2>1, StutterKeeps
<1> QED
  BY <1>1, <1>2, <1>3, <1>4 DEF Next

\* The invariant holds always.
LEMMA Always == Spec => []IInv
<1> QED
  BY InitHolds, StepKeeps, PTL DEF Spec

-----------------------------------------------------------------------------
(* The theorems.                                                           *)

\* The four maps and the requests keep their types: every inode that a map or
\* a request names is one that there is.
THEOREM NodesTypeCorrect == Spec => []TypeOK
<1>1. IInv => TypeOK
  <2> SUFFICES ASSUME IInv PROVE TypeOK
    OBVIOUS
  <2>1. /\ TreeInv /\ CacheInv /\ ChildrenInv /\ cached \subseteq Blobs /\ calls \in 0..MaxCalls
        /\ \A t \in Tasks : TaskInv(task[t])
    BY DEF IInv
  <2>2. /\ adapter \in {"nfs", "fskit"} /\ nextId \in Nat /\ nextId > 1
        /\ nodes \in [1..(nextId - 1) -> NodeType] /\ DOMAIN nodes = 1..(nextId - 1)
    BY ONLY <2>1 DEF TreeInv
  <2>3. \A id \in DOMAIN nodes : /\ nodes[id].parent \in DOMAIN nodes
                                 /\ nodes[id].digest \in Digests \cup Blobs
                                 /\ nodes[id].populated \in BOOLEAN
    BY <2>1, <2>2, NodeIs DEF NodeType
  <2>4. \A id \in 2..(nextId - 1) : id \in 1..(nextId - 1)
    BY ONLY <2>2
  <2>5. \A key \in DOMAIN dirCache : dirCache[key] \in DOMAIN nodes
    BY ONLY <2>1, <2>2, <2>4 DEF CacheInv, ChildOf
  <2>6. ASSUME NEW dir \in DOMAIN dirChildren
        PROVE  ToSet(dirChildren[dir]) \subseteq DOMAIN nodes
    <3>1. PICK ids, n : ids = dirChildren[dir] /\ n = Len(Manifest(dir))
      OBVIOUS
    <3>2. IsDir(dir) /\ Listing(dir, ids, n)
      BY <2>1, <3>1 DEF ChildrenInv, FullListing
    <3>3. ToSet(ids) \subseteq 2..(nextId - 1)
      BY ONLY <2>1, <3>2, ListingIs
    <3> QED
      BY ONLY <2>2, <2>4, <3>1, <3>3
  <2>7. ASSUME NEW t \in Tasks
        PROVE  /\ task[t].pc \in {"idle", "fast", "children", "fetch", "entry", "make", "store",
                                  "listed", "blob", "download", "data", "done"}
               /\ task[t].dir \in DOMAIN nodes
               /\ ToSet(task[t].ids) \subseteq DOMAIN nodes
    BY ONLY <2>1, <2>2, t \in Tasks DEF TaskInv, TaskType, About
  <2> QED
    BY ONLY <2>1, <2>2, <2>3, <2>5, <2>6, <2>7 DEF TypeOK
<1> QED
  BY <1>1, Always, PTL

\* However many inodes concurrent populations make for an entry, an item the
\* kernel holds stands for one entry with that entry's attributes, and no
\* name that is there is denied.
THEOREM ItemsCorrect == Spec => []ItemsMeanOneEntry
<1>1. IInv => ItemsMeanOneEntry
  <2> SUFFICES ASSUME IInv PROVE ItemsMeanOneEntry
    OBVIOUS
  <2>1. TreeInv /\ HeldInv /\ \A t \in Tasks : TaskInv(task[t])
    BY DEF IInv
  <2>2. ASSUME NEW g \in held, NEW h \in held, g.item = h.item
        PROVE  g.entry = h.entry /\ g.in = h.in
    <3>1. PICK id : id = Inode(g.item)
      OBVIOUS
    <3>2. g = HoldingOf(id)
      BY ONLY <2>1, <3>1, ItemIs, g \in held
    <3>3. id = Inode(h.item)
      BY ONLY <3>1, g.item = h.item
    <3>4. h = HoldingOf(id)
      BY ONLY <2>1, <3>3, ItemIs, h \in held
    <3> QED
      BY ONLY <3>2, <3>4
  <2>3. ASSUME NEW h \in held
        PROVE  h.attr = AttrOf(h.entry)
    <3>1. PICK id : id = Inode(h.item)
      OBVIOUS
    <3>2. h.entry = EntryOf(nodes[id]) /\ h.attr = AttrOf(nodes[id])
      BY ONLY <2>1, <3>1, ItemIs, h \in held
    <3>3. h.entry.kind = nodes[id].kind /\ h.entry.digest = nodes[id].digest
      BY ONLY <3>2 DEF EntryOf
    <3> QED
      BY ONLY <3>2, <3>3 DEF AttrOf
  <2>4. ASSUME NEW t \in Tasks, task[t].op = "lookup", task[t].result = Status("NotFound")
        PROVE  Meant(task[t].item, task[t].name) = {}
    <3>1. PICK q : q = task[t]
      OBVIOUS
    <3>2. About(q) /\ Denied(q) /\ q.op = "lookup" /\ q.result = Status("NotFound")
      BY ONLY <2>1, <2>4, <3>1 DEF TaskInv
    <3>3. q.dir = Inode(q.item) /\ \A e \in ToSet(Manifest(q.dir)) : e.name # q.name
      BY ONLY <3>2 DEF About, Denied
    <3>4. ASSUME NEW h \in held, h.item = q.item
          PROVE  Content[h.entry.digest] = Manifest(q.dir)
      <4>1. PICK id : id = Inode(h.item)
        OBVIOUS
      <4>2. h.entry = EntryOf(nodes[id])
        BY ONLY <2>1, <4>1, ItemIs, h \in held
      <4>3. id = q.dir
        BY ONLY <3>3, <3>4, <4>1
      <4> QED
        BY ONLY <4>2, <4>3 DEF EntryOf, Manifest
    <3> QED
      BY ONLY <3>1, <3>3, <3>4 DEF Meant
  <2> QED
    BY ONLY <2>2, <2>3, <2>4 DEF ItemsMeanOneEntry
<1> QED
  BY <1>1, Always, PTL

\* A kernel that pages through a directory to its end sees every entry once,
\* in order, except over NFS when the directory was populated twice.
THEOREM ListingsCorrect == Spec => []ListingIsComplete
<1>1. IInv => ListingIsComplete
  BY DEF IInv, TaskInv, Paging, Redone, ListingIsComplete
<1> QED
  BY <1>1, Always, PTL

\* A kernel that reads a file or a link to the end of the size it was told has
\* its bytes, wherever each chunk came from; a file that the tree gave no size
\* is told and read as empty.
THEOREM ReadsCorrect == Spec => []ReadsAreTheFile
<1>1. IInv => ReadsAreTheFile
  <2> SUFFICES ASSUME IInv, NEW t \in Tasks, NEW h \in held,
                      task[t].op \in {"read", "readlink"}, task[t].pc = "done",
                      task[t].result = "found", h.item = task[t].item
               PROVE  task[t].seen = IF h.attr.size = 0 THEN <<>>
                                     ELSE Data[h.entry.digest]
    BY DEF ReadsAreTheFile
  <2>1. TreeInv /\ HeldInv /\ TaskInv(task[t])
    BY DEF IInv
  <2>2. PICK q, id : q = task[t] /\ id = Inode(h.item)
    OBVIOUS
  <2>3. /\ q.op \in {"read", "readlink"} /\ q.pc = "done" /\ q.result = "found"
        /\ h.item = q.item /\ About(q) /\ Reading(q)
    BY ONLY <2>1, <2>2, task[t].op \in {"read", "readlink"}, task[t].pc = "done",
       task[t].result = "found", h.item = task[t].item DEF TaskInv
  <2>4. q.seen = Whole(nodes[q.dir]) /\ q.dir = Inode(q.item)
    BY ONLY <2>3 DEF About, Reading
  <2>5. h.entry = EntryOf(nodes[id]) /\ h.attr = AttrOf(nodes[id])
    BY ONLY <2>1, <2>2, ItemIs, h \in held
  <2>6. id = q.dir
    BY ONLY <2>2, <2>3, <2>4
  <2> QED
    BY ONLY <2>2, <2>4, <2>5, <2>6 DEF EntryOf, Whole
<1> QED
  BY <1>1, Always, PTL
=============================================================================
