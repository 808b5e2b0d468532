------------------------------ MODULE Snapshots ------------------------------
(***************************************************************************)
(* From a mount request to a mounted manifest: prepare_mount's fetch,      *)
(* GitHubProvider::fetch_snapshot_inner, and the reads of VfsState that    *)
(* go back to the provider.  A request resolves its ref to a commit, looks *)
(* in the machine's tree cache and in the Redis tier that machines share,  *)
(* or fetches the tree from GitHub (walking it directory by directory when *)
(* the answer is truncated), prefetches, builds the directory objects,     *)
(* stores them in the blob cache and the snapshot in both tree caches.     *)
(*                                                                         *)
(* A snapshot is only the commit and the digest of its root directory; the *)
(* directories are objects of the blob cache.  A digest covers everything  *)
(* below it, the inlined contents too, so a directory object is the set of *)
(* entries below it and which of them are inlined.                         *)
(***************************************************************************)
EXTENDS Naturals, FiniteSets, FiniteSetsExt

CONSTANTS
    Machines,           \* each with its daemon and caches
    Redis,              \* the machines with CTXFS_REDIS_URL
    Requests,           \* mount requests
    Commits,
    Tree,               \* the entries of each commit's tree
    Trees, Files, Links, Submodules,    \* the kinds of entries
    Root,               \* the root directory
    In,                 \* the directory an entry is in
    Below,              \* the entries below a directory, at any depth
    Size,               \* bytes of a file or link, or None: GitHub did not say
    SmallBlobThreshold, \* SMALL_BLOB_THRESHOLD_BYTES
    ThresholdCount,     \* prefetch_threshold_count
    MaxBytes,           \* prefetch_max_bytes
    None,
    Stale,              \* a cached tree with another schema version
    OldCommits,         \* the commits whose trees an older version has cached
    MaxEvents           \* bound: moves of the ref, evictions, prunes and crashes

Entries == Trees \cup Files \cup Links \cup Submodules
Dirs == Trees \cup {Root}

ASSUME SnapshotsAssumption ==
    /\ Redis \subseteq Machines
    /\ Tree \in [Commits -> SUBSET Entries]
    /\ Root \notin Entries
    /\ In \in [Entries -> Dirs]
    /\ Below \in [Dirs -> SUBSET Entries]
    /\ \A d \in Dirs : \A e \in Entries :
          e \in Below[d] <=> (In[e] = d \/ In[e] \in Below[d])
    /\ Size \in [Files \cup Links -> Nat \cup {None}]
    /\ OldCommits \subseteq Commits
    /\ MaxEvents \in Nat

ASSUME NoneAssumption == None \notin Machines

\* A commit holds the directories of its entries, and a directory that it holds
\* with all that is in it, because an entry has its content's hash.  Directories
\* are nested without cycles.
ASSUME TreeAssumption ==
    /\ \A c \in Commits : \A e \in Tree[c] : In[e] \in Tree[c] \cup {Root}
    /\ \A c \in Commits : \A e \in Entries : In[e] \in Tree[c] => e \in Tree[c]
    /\ \A c \in Commits : \A X \in SUBSET Tree[c] :
          X # {} => \E e \in X : In[e] \notin X
    /\ Trees \cap (Files \cup Links \cup Submodules) = {}
    /\ Files \cap (Links \cup Submodules) = {}
    /\ Links \cap Submodules = {}

VARIABLES
    head,       \* the commit that the ref names
    blobs,      \* files and links in each machine's blob cache
    dirs,       \* directory objects in each machine's blob cache
    trees,      \* each machine's tree cache
    shared,     \* the Redis tier
    req,        \* the requests
    evicted,    \* history: directory objects that a machine's cache has lost
    named,      \* history: what the ref named while a request was resolving it
    events

vars == <<head, blobs, dirs, trees, shared, req, evicted, named, events>>

-----------------------------------------------------------------------------
\* A snapshot; `by` is the machine that built it, which the code does not know.
Snapshot == [commit : Commits, entries : SUBSET Entries, inl : SUBSET Entries,
             by : Machines]

\* A digest stands for all that is below the directory.
Object == [dir : Dirs, entries : SUBSET Entries, inl : SUBSET Entries]

DirObject(d, s) ==
    [dir |-> d, entries |-> s.entries \cap Below[d], inl |-> s.inl \cap Below[d]]

DirsOf(s) == {Root} \cup (s.entries \cap Trees)

Objects(s) == {DirObject(d, s) : d \in DirsOf(s)}

Policies == {"disabled", "auto", "force"}

\* A request that has not begun, or has ended without a mount.
Idle(pc) ==
    [pc |-> pc, at |-> None, policy |-> "disabled", commit |-> None,
     tree |-> {}, stack |-> {}, left |-> {}, snap |-> None,
     known |-> {}]

Active == {"resolving", "lookup", "shared", "tree", "walking", "prefetching",
           "storing", "caching", "sharing", "prepared"}

Init ==
    /\ head \in Commits
    /\ blobs = [m \in Machines |-> {}]
    /\ dirs = [m \in Machines |-> {}]
    /\ trees = [m \in Machines |-> [c \in Commits |-> IF c \in OldCommits THEN Stale ELSE None]]
    /\ shared = [c \in Commits |-> IF c \in OldCommits THEN Stale ELSE None]
    /\ req = [r \in Requests |-> Idle("off")]
    /\ evicted = [m \in Machines |-> {}]
    /\ named = [r \in Requests |-> {}]
    /\ events = 0

\* Something happens beside the requests.
Event == events < MaxEvents /\ events' = events + 1

caches == <<blobs, dirs, trees, shared>>
history == <<evicted, named>>
world == <<head, history, events>>

Set(r, q) == req' = [req EXCEPT ![r] = q]

\* An error: the registration is rolled back and the RPC answered with it.
Fail(r) == Set(r, Idle("failed")) /\ UNCHANGED <<caches, world>>

-----------------------------------------------------------------------------
\* prepare_mount, up to the fetch; the source and the placeholder are set.
Begin(r, m, policy) ==
    /\ req[r].pc = "off"
    /\ Set(r, [Idle("resolving") EXCEPT !.at = m, !.policy = policy])
    /\ named' = [named EXCEPT ![r] = {head}]
    /\ UNCHANGED <<caches, head, evicted, events>>

\* resolve_ref.  With --prefetch=force the tree caches are passed over.
Resolve(r) ==
    /\ req[r].pc = "resolving"
    /\ Set(r, [req[r] EXCEPT !.commit = head,
                             !.pc = IF req[r].policy = "force" THEN "tree" ELSE "lookup"])
    /\ UNCHANGED <<caches, world>>

\* A request to GitHub fails: no connection, a rate limit, an HTTP error.
RequestFails(r) ==
    /\ req[r].pc \in {"resolving", "tree", "walking"}
    /\ Fail(r)

\* fetch_directory: a directory is in the blob cache, or nowhere.
HasDirectory(m, d, s) == DirObject(d, s) \in dirs[m]

\* Every directory from the root down to x is there.
CanReach(m, x, s) == \A d \in DirsOf(s) : x \in Below[d] => HasDirectory(m, d, s)

\* The files of a cached snapshot, as far as its directories are in the cache.
CollectSnapshotBlobHexes(m, s) ==
    {e \in s.entries \cap Files : CanReach(m, e, s)}

\* Mutant: a new provider's sha_to_path stays empty.
PreparedForgets(r, s, known) ==
    Set(r, [Idle("prepared") EXCEPT !.at = req[r].at, !.commit = s.commit,
                                    !.snap = s])

\* fetch_snapshot_inner answers; add_owners gets the blobs that are known.
Prepared(r, s, known) ==
    Set(r, [Idle("prepared") EXCEPT !.at = req[r].at, !.commit = s.commit,
                                    !.snap = s,
                                    !.known = known])

\* Mutant: the tree cache forgets which commit a tree is of.
TreeHitOther(r) ==
    LET m == req[r].at IN
    /\ req[r].pc = "lookup"
    /\ \E c \in Commits :
          /\ trees[m][c] \notin {None, Stale}
          /\ Prepared(r, trees[m][c], CollectSnapshotBlobHexes(m, trees[m][c]))
    /\ UNCHANGED <<caches, world>>

\* The local tree cache hits.
TreeHit(r) ==
    LET m == req[r].at  s == trees[m][req[r].commit] IN
    /\ req[r].pc = "lookup"
    /\ s \notin {None, Stale}
    /\ Prepared(r, s, CollectSnapshotBlobHexes(m, s))
    /\ UNCHANGED <<caches, world>>

\* TreeCache::get removes a file of another schema version, and misses.
TreeMiss(r) ==
    LET m == req[r].at  c == req[r].commit IN
    /\ req[r].pc = "lookup"
    /\ trees[m][c] \in {None, Stale}
    /\ trees' = [trees EXCEPT ![m][c] = None]
    /\ Set(r, [req[r] EXCEPT !.pc = IF m \in Redis THEN "shared" ELSE "tree"])
    /\ UNCHANGED <<blobs, dirs, shared, world>>

\* The tree cache with a snapshot written, or not when the write failed, and
\* with the oldest files evicted.
TreesAfterPut(m, s) ==
    \/ /\ trees' = [trees EXCEPT ![m][s.commit] = s]
       /\ UNCHANGED events
    \/ /\ Event
       /\ \/ UNCHANGED trees
          \/ \E gone \in SUBSET Commits :
                trees' = [trees EXCEPT ![m] =
                   [c \in Commits |-> IF c \in gone THEN None
                                      ELSE IF c = s.commit THEN s ELSE trees[m][c]]]

\* get_tree hits: the tree cache is filled, the directories are not.
SharedGet(r) ==
    LET m == req[r].at  s == shared[req[r].commit] IN
    /\ req[r].pc = "shared"
    /\ s \notin {None, Stale}
    /\ TreesAfterPut(m, s)
    /\ Prepared(r, s, CollectSnapshotBlobHexes(m, s))
    /\ UNCHANGED <<blobs, dirs, shared, head, history>>

\* get_tree misses: no entry, an old version, an error, or Redis is down.
SharedMiss(r) ==
    /\ req[r].pc = "shared"
    /\ Set(r, [req[r] EXCEPT !.pc = "tree"])
    /\ UNCHANGED <<caches, world>>

-----------------------------------------------------------------------------
\* fetch_tree with recursive=1: the whole tree ...
FetchTree(r) ==
    /\ req[r].pc = "tree"
    /\ Set(r, [req[r] EXCEPT !.tree = Tree[req[r].commit], !.pc = "prefetching"])
    /\ UNCHANGED <<caches, world>>

\* ... or truncated, which is thrown away for a walk from the root.
FetchTreeTruncated(r) ==
    /\ req[r].pc = "tree"
    /\ Set(r, [req[r] EXCEPT !.stack = {Root}, !.pc = "walking"])
    /\ UNCHANGED <<caches, world>>

\* fetch_subtree does not look at the answer's own `truncated`: taken as whole,
\* which GitHub's answer for one directory is up to its limit on entries.
Subtree(c, d) == {e \in Tree[c] : In[e] = d}

\* Mutant: subdirectories are listed and not walked.
WalkShallow(r, d) ==
    /\ req[r].pc = "walking"
    /\ d \in req[r].stack
    /\ Set(r, [req[r] EXCEPT !.tree = @ \cup Subtree(req[r].commit, d),
                             !.stack = {}, !.pc = "prefetching"])
    /\ UNCHANGED <<caches, world>>

\* One turn of fetch_tree_walked.  The order of the stack is left open.
Walk(r, d) ==
    LET sub == Subtree(req[r].commit, d)
        rest == (req[r].stack \ {d}) \cup (sub \cap Trees)
    IN
    /\ req[r].pc = "walking"
    /\ d \in req[r].stack
    /\ Set(r, [req[r] EXCEPT !.tree = @ \cup sub, !.stack = rest,
                             !.pc = IF rest = {} THEN "prefetching" ELSE "walking"])
    /\ UNCHANGED <<caches, world>>

-----------------------------------------------------------------------------
BlobsOf(tree) == tree \cap (Files \cup Links)

\* effective_prefetch_policy: without every size auto is off.
EffectivePolicy(tree, policy) ==
    IF policy = "auto" /\ \E e \in BlobsOf(tree) : Size[e] = None
    THEN "disabled" ELSE policy

EstimatedBytes(tree) ==
    MapThenSumSet(LAMBDA e : IF Size[e] = None THEN 0 ELSE Size[e], BlobsOf(tree))

\* decide_policy
DecidePolicy(tree, policy) ==
    CASE policy = "disabled" -> "lazy"
      [] policy = "force" -> "tarball"
      [] policy = "auto" ->
            IF Cardinality(BlobsOf(tree)) < ThresholdCount THEN "lazy"
            ELSE IF EstimatedBytes(tree) > MaxBytes THEN "oversized"
            ELSE "tarball"

IsSmall(e) == Size[e] # None /\ Size[e] <= SmallBlobThreshold

\* small_blob_shas
Small(tree) == {e \in BlobsOf(tree) : IsSmall(e)}

\* fetch_batch: the tarball leaves some of the blobs in the cache, whatever
\* becomes of it; TarballPrefetch is about which.  It is tried once.
Tarball(r, got) ==
    LET m == req[r].at  tree == req[r].tree IN
    /\ req[r].pc = "prefetching"
    /\ DecidePolicy(tree, EffectivePolicy(tree, req[r].policy)) = "tarball"
    /\ got \subseteq BlobsOf(tree)
    /\ blobs' = [blobs EXCEPT ![m] = @ \cup got]
    /\ Set(r, [req[r] EXCEPT !.policy = "disabled"])
    /\ UNCHANGED <<dirs, trees, shared, world>>

\* prefetch_small_blobs fails with any of the links; build_directories_inner
\* with a link that was not prefetched, because it is not small.
LinksInlined(tree, inl) == tree \cap Links \subseteq inl

\* prefetch_small_blobs: the cached ones and those that GitHub answered.
Inlined(m, tree, fetched) == (Small(tree) \cap blobs[m]) \cup fetched

\* build_directories_inner: submodules are skipped.
Built(m, c, tree, inl) ==
    [commit |-> c, entries |-> tree \ Submodules, inl |-> inl, by |-> m]

\* The small blobs are prefetched and the directories built.
PrefetchAndBuild(r, fetched) ==
    LET m == req[r].at
        tree == req[r].tree
        inl == Inlined(m, tree, fetched)
        s == Built(m, req[r].commit, tree, inl)
    IN
    /\ req[r].pc = "prefetching"
    /\ DecidePolicy(tree, EffectivePolicy(tree, req[r].policy)) # "tarball"
    /\ fetched \subseteq Small(tree) \ blobs[m]
    /\ IF LinksInlined(tree, inl)
       THEN Set(r, [req[r] EXCEPT !.snap = s, !.left = Objects(s), !.pc = "storing"])
       ELSE Set(r, Idle("failed"))
    /\ UNCHANGED <<caches, world>>

\* A directory object is put into the blob cache.
StoreDirectory(r, o) ==
    LET m == req[r].at IN
    /\ req[r].pc = "storing"
    /\ o \in req[r].left
    /\ dirs' = [dirs EXCEPT ![m] = @ \cup {o}]
    /\ Set(r, [req[r] EXCEPT !.left = @ \ {o},
                             !.pc = IF req[r].left = {o} THEN "caching" ELSE "storing"])
    /\ UNCHANGED <<blobs, trees, shared, world>>

\* Mutant: a put that fails is passed over.
StoreSkips(r) ==
    /\ req[r].pc = "storing"
    /\ Set(r, [req[r] EXCEPT !.left = {}, !.pc = "caching"])
    /\ UNCHANGED <<caches, world>>

\* A put fails, and with it the fetch.
StoreFails(r) ==
    /\ req[r].pc = "storing"
    /\ Fail(r)

\* What the provider knows of a tree it has fetched: sha_to_path.
FetchedBlobs(s) == BlobsOf(s.entries)

\* TreeCache::put
CacheTree(r) ==
    LET m == req[r].at  s == req[r].snap IN
    /\ req[r].pc = "caching"
    /\ TreesAfterPut(m, s)
    /\ IF m \in Redis THEN Set(r, [req[r] EXCEPT !.pc = "sharing"])
       ELSE Prepared(r, s, FetchedBlobs(s))
    /\ UNCHANGED <<blobs, dirs, shared, head, history>>

\* put_tree, whose errors are dropped.
ShareTree(r) ==
    LET s == req[r].snap IN
    /\ req[r].pc = "sharing"
    /\ \/ shared' = [shared EXCEPT ![s.commit] = s]
       \/ UNCHANGED shared
    /\ Prepared(r, s, FetchedBlobs(s))
    /\ UNCHANGED <<blobs, dirs, trees, world>>

-----------------------------------------------------------------------------
\* VfsState::new: resolve_subpath reads every directory above the subpath.
Mount(r, d) ==
    LET m == req[r].at  s == req[r].snap IN
    /\ req[r].pc = "prepared"
    /\ d \in DirsOf(s)
    /\ CanReach(m, d, s)
    /\ Set(r, [req[r] EXCEPT !.pc = "mounted"])
    /\ UNCHANGED <<caches, world>>

\* A directory above the subpath, or the subpath itself, is not there.
MountFails(r) ==
    /\ req[r].pc = "prepared"
    /\ Fail(r)

\* Provider::fetch_blob puts what it has fetched; its mount owns it.
ProviderFetchBlob(r, e) ==
    /\ blobs' = [blobs EXCEPT ![req[r].at] = @ \cup {e}]
    /\ Set(r, [req[r] EXCEPT !.known = @ \cup {e}])

\* fetch_file_bytes of a file that is neither inlined nor cached.
ReadFile(r, e) ==
    LET m == req[r].at  s == req[r].snap IN
    /\ req[r].pc = "mounted"
    /\ e \in (s.entries \cap Files) \ (s.inl \cup blobs[m])
    /\ CanReach(m, e, s)
    /\ ProviderFetchBlob(r, e)
    /\ UNCHANGED <<dirs, trees, shared, world>>

\* Evictions, prune_blobs and the first half of cache_prune.
Evict(m, o) ==
    /\ Event
    /\ o \in dirs[m]
    /\ dirs' = [dirs EXCEPT ![m] = @ \ {o}]
    /\ evicted' = [evicted EXCEPT ![m] = @ \cup {o}]
    /\ UNCHANGED <<blobs, trees, shared, req, head, named>>

EvictBlob(m, e) ==
    /\ Event
    /\ e \in blobs[m]
    /\ blobs' = [blobs EXCEPT ![m] = @ \ {e}]
    /\ UNCHANGED <<dirs, trees, shared, req, head, history>>

\* The second half of cache_prune.
PruneTrees(m) ==
    /\ Event
    /\ \E c \in Commits : trees[m][c] # None
    /\ trees' = [trees EXCEPT ![m] = [c \in Commits |-> None]]
    /\ UNCHANGED <<blobs, dirs, shared, req, head, history>>

\* The branch is pushed to.
MoveRef(c) ==
    /\ Event
    /\ c # head
    /\ head' = c
    /\ named' = [r \in Requests |->
                    IF req[r].pc = "resolving" THEN named[r] \cup {c} ELSE named[r]]
    /\ UNCHANGED <<caches, req, evicted>>

\* The daemon of a machine dies; its caches stay.
Crash(m) ==
    /\ Event
    /\ \E r \in Requests : req[r].at = m
    /\ req' = [r \in Requests |-> IF req[r].at = m THEN Idle("failed") ELSE req[r]]
    /\ UNCHANGED <<caches, head, evicted, named>>

\* The rest of a request.
Fetch(r) ==
    \/ Resolve(r) \/ RequestFails(r)
    \/ TreeHit(r) \/ TreeMiss(r) \/ SharedGet(r) \/ SharedMiss(r)
    \/ FetchTree(r) \/ FetchTreeTruncated(r)
    \/ \E d \in Dirs : Walk(r, d)
    \/ \E got \in SUBSET (Files \cup Links) : Tarball(r, got) \/ PrefetchAndBuild(r, got)
    \/ \E o \in req[r].left : StoreDirectory(r, o)
    \/ StoreFails(r) \/ CacheTree(r) \/ ShareTree(r)
    \/ \E d \in Dirs : Mount(r, d)
    \/ MountFails(r)

Next ==
    \/ \E r \in Requests :
          \/ \E m \in Machines, policy \in Policies : Begin(r, m, policy)
          \/ Fetch(r)
          \/ \E e \in Files : ReadFile(r, e)
    \/ \E m \in Machines :
          \/ \E o \in dirs[m] : Evict(m, o)
          \/ \E e \in Files \cup Links : EvictBlob(m, e)
          \/ PruneTrees(m)
          \/ Crash(m)
    \/ \E c \in Commits : MoveRef(c)

Spec == Init /\ [][Next]_vars

-----------------------------------------------------------------------------
Request ==
    [pc : Active \cup {"off", "failed", "mounted"}, at : Machines \cup {None},
     policy : Policies, commit : Commits \cup {None}, tree : SUBSET Entries,
     stack : SUBSET Dirs, left : SUBSET Object, snap : Snapshot \cup {None},
     known : SUBSET (Files \cup Links)]

\* A request that has resolved its ref; one that has its snapshot.
Resolved == (Active \ {"resolving"}) \cup {"mounted"}
Holding == {"storing", "caching", "sharing", "prepared", "mounted"}

\* What a request has by then.
HasIts(q) ==
    /\ q.pc \in Active \cup {"mounted"} => q.at \in Machines
    /\ q.pc \in Resolved => q.commit \in Commits
    /\ q.pc \in Holding => q.snap \in Snapshot

Cached == [Commits -> Snapshot \cup {None, Stale}]

\* Type invariant of the caches and of the requests: what a request has by then.
TypeOK ==
    /\ head \in Commits
    /\ blobs \in [Machines -> SUBSET (Files \cup Links)]
    /\ dirs \in [Machines -> SUBSET Object]
    /\ trees \in [Machines -> Cached]
    /\ shared \in Cached
    /\ req \in [Requests -> Request]
    /\ evicted \in [Machines -> SUBSET Object]
    /\ named \in [Requests -> SUBSET Commits]
    /\ events \in 0..MaxEvents
    /\ \A r \in Requests : HasIts(req[r])

\* A snapshot that can be read is the commit's whole tree: no entry is missing
\* but submodules, which the build skips, and every link has its target.
IsTheTree(s, c) ==
    /\ s.commit = c
    /\ s.entries = Tree[c] \ Submodules
    /\ s.entries \cap Links \subseteq s.inl

\* Whatever was truncated, failed, stale or cut off by a crash: what is mounted
\* and what is left in the tree cache or in Redis is the commit's tree.
SnapshotsAreTheTree ==
    /\ \A r \in Requests : req[r].pc \in {"prepared", "mounted"} =>
          IsTheTree(req[r].snap, req[r].commit)
    /\ \A c \in Commits :
          /\ shared[c] \notin {None, Stale} => IsTheTree(shared[c], c)
          /\ \A m \in Machines :
                trees[m][c] \notin {None, Stale} => IsTheTree(trees[m][c], c)

\* The tree cache never points at directories that this machine has not stored:
\* they were put before the tree, and no crash, failed put or other mount comes
\* in between.  Only evictions, and trees of another machine, leave it dangling.
CachedTreesAreStored ==
    \A m \in Machines : \A c \in Commits :
       trees[m][c] \notin {None, Stale} /\ trees[m][c].by = m =>
          Objects(trees[m][c]) \subseteq dirs[m] \cup evicted[m]

\* The mount is of a commit that the ref named after the request began, from
\* whatever cache the tree came.
MountsAreFresh ==
    \A r \in Requests : req[r].pc \in {"prepared", "mounted"} =>
       req[r].commit \in named[r]

\* add_owners hears of every file, so that the reservation protects them, also
\* when the tree came from the cache (unless its directories were evicted or
\* stored on another machine).
OwnersAreTold ==
    \A r \in Requests :
       /\ req[r].pc \in {"prepared", "mounted"}
       /\ req[r].snap.by = req[r].at
       /\ evicted[req[r].at] = {}
       => Tree[req[r].commit] \cap Files \subseteq req[r].known

\* The request as its user sees it: the steps from the resolved ref to the answer
\* are one, and a mount shows the entries and the links' targets.
MountState(pc) ==
    CASE pc = "off" -> "idle"
      [] pc = "resolving" -> "asked"
      [] pc = "mounted" -> "mounted"
      [] pc = "failed" -> "ended"
      [] OTHER -> "pinned"

Shown(s) == [entries |-> s.entries, links |-> s.entries \cap Links \cap s.inl]

MountOf(q) ==
    [state |-> MountState(q.pc), commit |-> q.commit,
     content |-> IF q.pc = "mounted" THEN Shown(q.snap) ELSE None]

CommitContents ==
    [c \in Commits |-> [entries |-> Tree[c] \ Submodules, links |-> Tree[c] \cap Links]]

Content == INSTANCE MountContent
           WITH Contents <- CommitContents,
                mount <- [r \in Requests |-> MountOf(req[r])]

\* The pipeline with all its caches implements a mount of one commit: the one
\* that the ref named when it was resolved, whole, and the same until the end.
MountsOneCommit == Content!Spec

\* docs/superpowers/specs/2026-04-07-tiered-caching-design.md:80, the cached value
\* is the "Serialized `Snapshot` including all `Directory` objects for the repo":
\* a mount that was answered can list its directories.
MountsAreReadable ==
    \A r \in Requests : req[r].pc = "mounted" =>
       Objects(req[r].snap) \subseteq dirs[req[r].at]
=============================================================================
