------------------------------ MODULE VfsNodes ------------------------------
(***************************************************************************)
(* VfsState in crates/ctxfs-vfs behind its two adapters, CtxfsNfs and      *)
(* FilesystemAdapter: the inode table and the reads of one mount.  Nodes   *)
(* are made lazily, by whichever lookup or listing first needs a           *)
(* directory; calls run concurrently and share four maps that no lock ties *)
(* together.  A kernel pages through listings, NFS after an inode, FSKit   *)
(* after an index, and reads files a chunk at a time.  FSKit's item ids    *)
(* are the inodes plus one.                                                *)
(***************************************************************************)
EXTENDS Naturals, SequencesExt

CONSTANTS
    Tasks,      \* concurrent requests of the kernel
    Names,      \* names looked up
    Digests,    \* directory objects
    Blobs,      \* contents of files and targets of links
    Content,    \* a digest's manifest: a sequence of entries
    Data,       \* a blob's bytes
    SizeOf,     \* FileEntry::size of a file: 0 when the tree gave no size
    Inlined,    \* blobs that the manifests carry
    RootDigest, \* the snapshot's root, or the subpath's directory
    PageSize,   \* entries the kernel takes at a time
    ReadSize,   \* bytes it reads at a time
    Faults,     \* whether the provider's fetches can fail
    MaxCalls    \* bound: calls of the kernel

Entries == [name : Names, kind : {"file", "symlink"}, digest : Blobs]
           \cup [name : Names, kind : {"dir"}, digest : Digests]

ASSUME VfsNodesAssumption ==
    /\ RootDigest \in Digests
    /\ Content \in [Digests -> Seq(Entries)]
    /\ \A d \in Digests : \A i, j \in DOMAIN Content[d] :
          Content[d][i].name = Content[d][j].name => i = j
    /\ Data \in [Blobs -> Seq(Nat)]
    /\ SizeOf \in [Blobs -> Nat]
    /\ \A b \in Blobs : SizeOf[b] \in {0, Len(Data[b])}
    /\ Inlined \subseteq Blobs
    /\ {PageSize, ReadSize} \subseteq Nat \ {0}
    /\ Faults \in BOOLEAN
    /\ MaxCalls \in Nat

VARIABLES
    adapter,     \* "nfs" or "fskit"
    nodes,       \* VfsState::nodes, by inode
    dirCache,    \* VfsState::dir_cache, by <<directory, name>>
    dirChildren, \* VfsState::dir_children, by directory
    nextId,      \* VfsState::next_id
    cached,      \* blobs in the blob cache
    task,        \* the requests
    held,        \* what the kernel has been told
    restored,    \* history: directories whose children were stored twice
    calls        \* calls made so far

table == <<adapter, nodes, dirCache, dirChildren, nextId>>
vars == <<table, cached, task, held, restored, calls>>

-----------------------------------------------------------------------------
Root == 1

Node(parent, entry) ==
    [parent |-> parent, name |-> entry.name, kind |-> entry.kind,
     digest |-> entry.digest, populated |-> FALSE]

RootEntry == [name |-> "/", kind |-> "dir", digest |-> RootDigest]

\* A map with one more key.
Put(f, key, value) == [k \in DOMAIN f \cup {key} |-> IF k = key THEN value ELSE f[k]]

\* node_to_attr: a directory has the size of a block, a file the one that the
\* manifest gives it, and a link the length of its target.
AttrOf(node) ==
    [kind |-> node.kind,
     size |-> CASE node.kind = "dir" -> 4096
                [] node.kind = "file" -> SizeOf[node.digest]
                [] node.kind = "symlink" -> Len(Data[node.digest])]

\* Mutant: FSKit's root is 2 and every other inode its own id.
WireOfRoot(id) == IF adapter = "fskit" /\ id = Root THEN 2 ELSE id

\* vfs_to_fskit_inode and fskit_to_vfs_inode; NFS has the inodes themselves.
Wire(id) == IF adapter = "fskit" THEN id + 1 ELSE id
Inode(wire) == IF adapter = "fskit" THEN (IF wire <= 2 THEN 1 ELSE wire - 1) ELSE wire

\* vfs_err_to_nfs and vfs_err_to_fskit; both send a throttled client back.
NfsStatus ==
    [NotFound |-> "NFS3ERR_NOENT", NotDir |-> "NFS3ERR_NOTDIR", IsDir |-> "NFS3ERR_ISDIR",
     Invalid |-> "NFS3ERR_INVAL", ReadOnly |-> "NFS3ERR_ROFS", Io |-> "NFS3ERR_IO",
     RateLimited |-> "NFS3ERR_JUKEBOX"]

PosixStatus ==
    [NotFound |-> "ENOENT", NotDir |-> "ENOTDIR", IsDir |-> "EISDIR", Invalid |-> "EINVAL",
     ReadOnly |-> "EROFS", Io |-> "EIO", RateLimited |-> "EAGAIN"]

Status(error) == IF adapter = "nfs" THEN NfsStatus[error] ELSE PosixStatus[error]

\* fetch_blob_content's errors through provider_err_to_vfs: throttled, or
\* anything else.
BlobErrors == {"RateLimited", "Io"}

Idle == [pc |-> "idle", op |-> "none", item |-> 0, dir |-> Root, name |-> "none", i |-> 1,
         ids |-> <<>>, after |-> 0, seen |-> <<>>, result |-> "none"]

Manifest(dir) == Content[nodes[dir].digest]

NamesOf(digest) == [i \in DOMAIN Content[digest] |-> Content[digest][i].name]

\* What the kernel holds: an item, the one it was found in, the manifest's
\* entry the kernel takes it for, and the attributes it was told.
Holding(item, in, entry, node) ==
    [item |-> item, in |-> in, entry |-> entry, attr |-> AttrOf(node)]

Init ==
    /\ adapter \in {"nfs", "fskit"}
    /\ nodes = [id \in {Root} |-> Node(Root, RootEntry)]
    /\ dirCache = <<>>
    /\ dirChildren = <<>>
    /\ nextId = 2
    /\ cached = {}
    /\ task = [t \in Tasks |-> Idle]
    /\ held = {Holding(Wire(Root), Wire(Root), RootEntry, nodes[Root])}
    /\ restored = {}
    /\ calls = 0

\* The entry of this name where the kernel looked, when there is one.
Meant(item, name) ==
    UNION {{e \in ToSet(Content[h.entry.digest]) : e.name = name} :
             h \in {g \in held : g.item = item /\ g.entry.kind = "dir"}}

\* The kernel is told the items of these <<name, inode>> in a directory; a
\* name that is not there stands for nothing.
Told(item, found) ==
    LET entry(name) == IF Meant(item, name) = {} THEN RootEntry
                       ELSE CHOOSE e \in Meant(item, name) : TRUE
    IN  {Holding(Wire(f[2]), item, entry(f[1]), nodes[f[2]]) : f \in found}

Goto(t, pc) == task' = [task EXCEPT ![t].pc = pc]

Done(t, result) == task' = [task EXCEPT ![t].pc = "done", ![t].result = result]

Starting(t) ==
    /\ task[t].pc \in {"idle", "done"}
    /\ calls < MaxCalls
    /\ calls' = calls + 1

Call(op, item) == [Idle EXCEPT !.op = op, !.item = item, !.dir = Inode(item)]

-----------------------------------------------------------------------------
\* lookup: a name in dir_cache is answered at once, any other populates the
\* directory first.
Lookup(t, item, name) ==
    LET call == [Call("lookup", item) EXCEPT !.name = name]
        key == <<call.dir, name>>
    IN  /\ Starting(t)
        /\ IF key \in DOMAIN dirCache
           THEN /\ task' = [task EXCEPT ![t] =
                       [call EXCEPT !.pc = "done", !.result = "found"]]
                /\ held' = held \cup Told(item, {<<name, dirCache[key]>>})
           ELSE /\ task' = [task EXCEPT ![t] = [call EXCEPT !.pc = "fast"]]
                /\ UNCHANGED held
        /\ UNCHANGED <<table, cached, restored>>

\* lookup of "." and "..": the kernel takes the answer for the item itself or
\* for the one it found it in.
LookupDots(t, item, name) ==
    LET dir == Inode(item)
        to == IF name = "." THEN dir ELSE nodes[dir].parent
    IN  /\ Starting(t)
        /\ task' = [task EXCEPT ![t] =
               [Call("lookup", item) EXCEPT !.name = name, !.pc = "done", !.result = "found"]]
        /\ \E h \in held, g \in held :
              /\ h.item = item
              /\ g.item = IF name = "." THEN item ELSE h.in
              /\ held' = held \cup {Holding(Wire(to), g.in, g.entry, nodes[to])}
        /\ UNCHANGED <<table, cached, restored>>

\* A call that is answered at once.
AnswerNow(t, call, result, seen) ==
    /\ Starting(t)
    /\ task' = [task EXCEPT ![t] =
           [call EXCEPT !.pc = "done", !.result = result, !.seen = seen]]
    /\ UNCHANGED <<table, cached, restored>>

\* getattr tells the kernel what the item is now.
GetAttr(t, item) ==
    /\ AnswerNow(t, Call("getattr", item), "found", <<>>)
    /\ held' = held \cup {[h EXCEPT !.attr = AttrOf(nodes[Inode(item)])] :
                             h \in {g \in held : g.item = item}}

\* readlink: the target that the manifest carries.
ReadLink(t, item) ==
    LET node == nodes[Inode(item)]
        call == Call("readlink", item)
    IN  /\ IF node.kind = "symlink"
           THEN AnswerNow(t, call, "found", Data[node.digest])
           ELSE AnswerNow(t, call, Status("Invalid"), <<>>)
        /\ UNCHANGED held

\* Whatever would write is refused.
Refuse(t, item) ==
    /\ AnswerNow(t, Call("write", item), Status("ReadOnly"), <<>>)
    /\ UNCHANGED held

\* readdir, for the first page.
List(t, item) ==
    /\ Starting(t)
    /\ task' = [task EXCEPT ![t] = [Call("readdir", item) EXCEPT !.pc = "fast"]]
    /\ UNCHANGED <<table, cached, held, restored>>

\* ensure_populated: is the directory populated?
Fast(t) ==
    LET node == nodes[task[t].dir]
    IN  /\ task[t].pc = "fast"
        /\ IF node.kind # "dir" THEN Done(t, Status("NotDir"))
           ELSE Goto(t, IF node.populated THEN "children" ELSE "fetch")
        /\ UNCHANGED <<table, cached, held, restored, calls>>

\* The populated directory's children, unless they are not stored yet.
Children(t) ==
    /\ task[t].pc = "children"
    /\ task' = [task EXCEPT ![t] =
           IF task[t].dir \in DOMAIN dirChildren
           THEN [task[t] EXCEPT !.pc = "listed", !.ids = dirChildren[task[t].dir]]
           ELSE [task[t] EXCEPT !.pc = "fetch"]]
    /\ UNCHANGED <<table, cached, held, restored, calls>>

\* Mutant: a failed fetch is tried again.
FetchRetries(t) ==
    /\ task[t].pc = "fetch"
    /\ \/ task' = [task EXCEPT ![t].pc = "entry", ![t].i = 1, ![t].ids = <<>>]
       \/ Faults /\ Goto(t, "fast")
    /\ UNCHANGED <<table, cached, held, restored, calls>>

\* fetch_directory has the object in the cache, or fails.
Fetch(t) ==
    /\ task[t].pc = "fetch"
    /\ \/ task' = [task EXCEPT ![t].pc = "entry", ![t].i = 1, ![t].ids = <<>>]
       \/ Faults /\ Done(t, Status("Io"))
    /\ UNCHANGED <<table, cached, held, restored, calls>>

Entry(t) == Manifest(task[t].dir)[task[t].i]

\* The next entry: its inode is in dir_cache, or has to be made.
Seen(t) ==
    LET q == task[t]
        key == <<q.dir, Entry(t).name>>
    IN  /\ q.pc = "entry"
        /\ q.i <= Len(Manifest(q.dir))
        /\ task' = [task EXCEPT ![t] =
               IF key \in DOMAIN dirCache
               THEN [q EXCEPT !.i = q.i + 1, !.ids = Append(q.ids, dirCache[key])]
               ELSE [q EXCEPT !.pc = "make"]]
        /\ UNCHANGED <<table, cached, held, restored, calls>>

\* Mutant: the counter's new value is the inode.
MakeNext(t) ==
    LET q == task[t]
    IN  /\ q.pc = "make"
        /\ nextId' = nextId + 1
        /\ nodes' = Put(nodes, nextId', Node(q.dir, Entry(t)))
        /\ dirCache' = Put(dirCache, <<q.dir, Entry(t).name>>, nextId')
        /\ task' = [task EXCEPT ![t] =
               [q EXCEPT !.pc = "entry", !.i = q.i + 1, !.ids = Append(q.ids, nextId')]]
        /\ UNCHANGED <<adapter, dirChildren, cached, held, restored, calls>>

\* A new inode for the entry, over one that another call has made meanwhile.
Make(t) ==
    LET q == task[t]
    IN  /\ q.pc = "make"
        /\ nextId' = nextId + 1
        /\ nodes' = Put(nodes, nextId, Node(q.dir, Entry(t)))
        /\ dirCache' = Put(dirCache, <<q.dir, Entry(t).name>>, nextId)
        /\ task' = [task EXCEPT ![t] =
               [q EXCEPT !.pc = "entry", !.i = q.i + 1, !.ids = Append(q.ids, nextId)]]
        /\ UNCHANGED <<adapter, dirChildren, cached, held, restored, calls>>

\* Once every entry has its inode the directory is populated.
MarkPopulated(t) ==
    /\ task[t].pc = "entry"
    /\ task[t].i > Len(Manifest(task[t].dir))
    /\ nodes' = [nodes EXCEPT ![task[t].dir].populated = TRUE]
    /\ Goto(t, "store")
    /\ UNCHANGED <<adapter, dirCache, dirChildren, nextId, cached, held, restored, calls>>

StoreChildren(t) ==
    LET dir == task[t].dir
    IN  /\ task[t].pc = "store"
        /\ dirChildren' = Put(dirChildren, dir, task[t].ids)
        /\ restored' = IF dir \in DOMAIN dirChildren THEN restored \cup {dir} ELSE restored
        /\ Goto(t, "listed")
        /\ UNCHANGED <<adapter, nodes, dirCache, nextId, cached, held, calls>>

\* lookup's second look at dir_cache.
AnswerLookup(t) ==
    LET key == <<task[t].dir, task[t].name>>
    IN  /\ task[t].pc = "listed"
        /\ task[t].op = "lookup"
        /\ IF key \in DOMAIN dirCache
           THEN /\ Done(t, "found")
                /\ held' = held \cup Told(task[t].item, {<<task[t].name, dirCache[key]>>})
           ELSE Done(t, Status("NotFound")) /\ UNCHANGED held
        /\ UNCHANGED <<table, cached, restored, calls>>

-----------------------------------------------------------------------------
\* Mutant: the entry at the cookie is sent again.
PageStartAtCookie(ids, after) ==
    IF after = 0 THEN 1
    ELSE IF adapter = "fskit" THEN after
    ELSE IF after \in ToSet(ids) THEN SelectInSeq(ids, LAMBDA id : id = after) + 1
    ELSE Len(ids) + 1

\* The positions of a page: what follows the cookie, PageSize entries at most.
\* An inode that is not in the list is followed by nothing.
PageStart(ids, after) ==
    IF adapter = "fskit" \/ after = 0 THEN after + 1
    ELSE IF after \in ToSet(ids) THEN SelectInSeq(ids, LAMBDA id : id = after) + 1
    ELSE Len(ids) + 1

Page(ids, after) ==
    LET first == PageStart(ids, after)
    IN  SubSeq(ids, first, IF first + PageSize > Len(ids) THEN Len(ids) ELSE first + PageSize - 1)

\* ReadDirResult::end: an empty page, or the last child's.
IsEnd(ids, page) == page = <<>> \/ Last(page) = Last(ids)

\* The adapter's page; the kernel goes on until the end.
AnswerPage(t) ==
    LET q == task[t]
        ids == q.ids
        page == Page(ids, q.after)
        seen == q.seen \o [k \in DOMAIN page |-> nodes[page[k]].name]
    IN  /\ q.pc = "listed"
        /\ q.op = "readdir"
        /\ held' = held \cup Told(q.item, {<<nodes[id].name, id>> : id \in ToSet(page)})
        /\ task' = [task EXCEPT ![t] =
               IF IsEnd(ids, page)
               THEN [q EXCEPT !.pc = "done", !.result = "found", !.seen = seen]
               ELSE [q EXCEPT !.pc = "fast", !.seen = seen,
                        !.after = IF adapter = "fskit" THEN Len(seen) ELSE Last(page)]]
        /\ UNCHANGED <<table, cached, restored, calls>>

-----------------------------------------------------------------------------
\* read, for the first chunk: a directory or a link has none.
Read(t, item) ==
    LET call == Call("read", item)
    IN  /\ Starting(t)
        /\ task' = [task EXCEPT ![t] =
               IF nodes[call.dir].kind = "file" THEN [call EXCEPT !.pc = "blob"]
               ELSE [call EXCEPT !.pc = "done", !.result = Status("IsDir")]]
        /\ UNCHANGED <<table, cached, held, restored>>

\* fetch_file_bytes: inlined or cached, or from the provider.
Blob(t) ==
    /\ task[t].pc = "blob"
    /\ Goto(t, IF nodes[task[t].dir].digest \in Inlined \cup cached THEN "data" ELSE "download")
    /\ UNCHANGED <<table, cached, held, restored, calls>>

\* fetch_blob: the blob is cached, or the request or the disk fails.
Download(t) ==
    /\ task[t].pc = "download"
    /\ \/ Goto(t, "data") /\ cached' = cached \cup {nodes[task[t].dir].digest}
       \/ /\ Faults
          /\ \E error \in BlobErrors : Done(t, Status(error))
          /\ UNCHANGED cached
    /\ UNCHANGED <<table, held, restored, calls>>

AtMost(a, b) == IF a < b THEN a ELSE b

\* Mutant: count is taken for the end of the chunk.
ChunkToCount(data, offset) ==
    SubSeq(data, AtMost(offset, Len(data)) + 1, AtMost(ReadSize, Len(data)))

\* VfsState::read: count bytes from the offset on, as far as there are any.
Chunk(data, offset) ==
    SubSeq(data, AtMost(offset, Len(data)) + 1, AtMost(offset + ReadSize, Len(data)))

\* The chunk, and NFS's eof; a kernel reads on until it has the size it was
\* told, and shows no byte beyond it.
AnswerRead(t) ==
    LET q == task[t]
        node == nodes[q.dir]
        size == AttrOf(node).size
        chunk == Chunk(Data[node.digest], q.after)
        end == q.after + Len(chunk)
        eof == end >= size \/ chunk = <<>>
        bytes == q.seen \o chunk
    IN  /\ q.pc = "data"
        /\ task' = [task EXCEPT ![t] =
               [q EXCEPT !.pc = IF eof THEN "done" ELSE "blob", !.after = end,
                         !.seen = SubSeq(bytes, 1, AtMost(size, Len(bytes))),
                         !.result = IF eof THEN "found" ELSE q.result]]
        /\ UNCHANGED <<table, cached, held, restored, calls>>

\* Other mounts' insertions evict a blob.
Evict(blob) ==
    /\ blob \in cached
    /\ cached' = cached \ {blob}
    /\ UNCHANGED <<table, task, held, restored, calls>>

Run(t) ==
    \/ Fast(t) \/ Children(t) \/ Fetch(t) \/ Seen(t) \/ Make(t)
    \/ MarkPopulated(t) \/ StoreChildren(t) \/ AnswerLookup(t) \/ AnswerPage(t)
    \/ Blob(t) \/ Download(t) \/ AnswerRead(t)

Next ==
    \/ \E t \in Tasks, h \in held :
          \/ List(t, h.item) \/ Read(t, h.item)
          \/ GetAttr(t, h.item) \/ ReadLink(t, h.item) \/ Refuse(t, h.item)
          \/ \E name \in Names : Lookup(t, h.item, name)
          \/ \E name \in {".", ".."} : LookupDots(t, h.item, name)
    \/ \E t \in Tasks : Run(t)
    \/ \E blob \in Blobs : Evict(blob)

Spec == Init /\ [][Next]_vars

\* The runtime schedules every task and fetches end.
FairSpec == Spec /\ \A t \in Tasks : WF_vars(Run(t))

-----------------------------------------------------------------------------
\* Type invariant of the four maps and of the requests.
TypeOK ==
    /\ adapter \in {"nfs", "fskit"}
    /\ nextId \in Nat
    /\ DOMAIN nodes = 1..(nextId - 1)
    /\ \A id \in DOMAIN nodes :
          /\ nodes[id].parent \in DOMAIN nodes
          /\ nodes[id].digest \in Digests \cup Blobs
          /\ nodes[id].populated \in BOOLEAN
    /\ \A key \in DOMAIN dirCache : dirCache[key] \in DOMAIN nodes
    /\ \A dir \in DOMAIN dirChildren : ToSet(dirChildren[dir]) \subseteq DOMAIN nodes
    /\ cached \subseteq Blobs
    /\ \A t \in Tasks :
          /\ task[t].pc \in {"idle", "fast", "children", "fetch", "entry", "make", "store",
                             "listed", "blob", "download", "data", "done"}
          /\ task[t].dir \in DOMAIN nodes
          /\ ToSet(task[t].ids) \subseteq DOMAIN nodes
    /\ calls \in 0..MaxCalls

\* An item the kernel holds stands for one entry, found in one directory, and
\* has that entry's attributes, however many calls made inodes for it; and no
\* name of the directory is denied.
ItemsMeanOneEntry ==
    /\ \A g, h \in held : g.item = h.item => g.entry = h.entry /\ g.in = h.in
    /\ \A h \in held : h.attr = AttrOf(h.entry)
    /\ \A t \in Tasks :
          task[t].op = "lookup" /\ task[t].result = Status("NotFound") =>
             Meant(task[t].item, task[t].name) = {}

\* A kernel that pages to the end of a directory has seen every entry once,
\* except over NFS when the directory was populated twice: the second list
\* does not have the first one's inode to go on after.
ListingIsComplete ==
    \A t \in Tasks :
       task[t].op = "readdir" /\ task[t].pc = "done" /\ task[t].result = "found" =>
          \/ task[t].seen = NamesOf(nodes[task[t].dir].digest)
          \/ adapter = "nfs" /\ task[t].dir \in restored

\* A kernel that reads an item, or a link, to the end of the size it was told
\* has the bytes of the entry it takes the item for, each once, wherever each
\* chunk came from.  A file whose size the tree did not give is told as empty
\* and reads as empty, whatever its blob has.
ReadsAreTheFile ==
    \A t \in Tasks, h \in held :
       /\ task[t].op \in {"read", "readlink"} /\ task[t].pc = "done" /\ task[t].result = "found"
       /\ h.item = task[t].item
       => task[t].seen = IF h.attr.size = 0 THEN <<>> ELSE Data[h.entry.digest]

\* Every call of the kernel is answered.
EveryCallEnds == \A t \in Tasks : task[t].pc # "idle" ~> task[t].pc = "done"
=============================================================================
