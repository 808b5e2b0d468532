--------------------------- MODULE SnapshotsProofs ---------------------------
(***************************************************************************)
(* Proofs about Snapshots, for any machines, requests and commits.         *)
(***************************************************************************)
EXTENDS Snapshots, TLAPS

USE SnapshotsAssumption

Frame == <<head, blobs, dirs, trees, shared, evicted, named, events>>

-----------------------------------------------------------------------------
\* The objects of a snapshot are objects.
LEMMA ObjectsType ==
    ASSUME NEW s \in Snapshot
    PROVE  Objects(s) \subseteq Object
BY DEF Objects, Object, DirObject, DirsOf, Dirs, Snapshot, Entries

\* Requests outside a fetch have their type.
LEMMA IdleType ==
    ASSUME NEW pc \in Active \cup {"off", "failed", "mounted"}
    PROVE  Idle(pc) \in Request
BY DEF Idle, Request, Policies

\* A request changes to q, which has its type, and nothing else does.
LEMMA SetType ==
    ASSUME TypeOK, NEW r \in Requests, NEW q \in Request, HasIts(q), Set(r, q)
    PROVE  /\ req' \in [Requests -> Request]
           /\ \A i \in Requests : HasIts(req[i])'
<1>1. req' \in [Requests -> Request]
  BY DEF TypeOK, Set
<1>2. ASSUME NEW i \in Requests PROVE HasIts(req[i])'
  <2>1. HasIts(req[i])
    BY DEF TypeOK
  <2>2. req'[i] = q \/ req'[i] = req[i]
    BY DEF TypeOK, Set
  <2> QED BY <2>1, <2>2 DEF HasIts
<1> QED BY <1>1, <1>2

-----------------------------------------------------------------------------
\* The types hold at first.
LEMMA TypeInit == Init => TypeOK
<1> SUFFICES ASSUME Init PROVE TypeOK
  OBVIOUS
<1>1. Idle("off") \in Request /\ HasIts(Idle("off"))
  BY IdleType DEF HasIts, Idle, Active, Resolved, Holding
<1>2. req \in [Requests -> Request] /\ \A r \in Requests : HasIts(req[r])
  BY <1>1 DEF Init
<1>3. trees \in [Machines -> Cached] /\ shared \in Cached
  BY DEF Init, Cached
<1>4. events \in 0..MaxEvents
  BY DEF Init
<1> QED BY <1>2, <1>3, <1>4 DEF Init, TypeOK

\* A step of a request that leaves the caches alone.
LEMMA QuietType ==
    ASSUME TypeOK, NEW r \in Requests, NEW q \in Request, HasIts(q), Set(r, q),
           UNCHANGED <<caches, world>>
    PROVE  TypeOK'
<1>1. /\ req' \in [Requests -> Request]
      /\ \A i \in Requests : HasIts(req[i])'
  BY SetType
<1>2. UNCHANGED Frame
  BY DEF Frame, caches, world, history
<1> QED BY <1>1, <1>2 DEF Frame, TypeOK

\* What the types say of one request.
LEMMA RequestType ==
    ASSUME TypeOK, NEW r \in Requests
    PROVE  req[r] \in Request /\ HasIts(req[r])
BY DEF TypeOK

\* A prepared request.
LEMMA PreparedType ==
    ASSUME NEW m \in Machines, NEW s \in Snapshot, NEW known \in SUBSET (Files \cup Links),
           NEW q, q = [Idle("prepared") EXCEPT !.at = m, !.commit = s.commit,
                                               !.snap = s, !.known = known]
    PROVE  q \in Request /\ HasIts(q)
BY DEF Idle, Request, HasIts, Policies, Active, Resolved, Holding, Snapshot

\* What the collection finds are files.
LEMMA CollectType ==
    ASSUME NEW m, NEW s
    PROVE  CollectSnapshotBlobHexes(m, s) \in SUBSET (Files \cup Links)
BY DEF CollectSnapshotBlobHexes

\* The tree cache after a put.
LEMMA TreesAfterPutType ==
    ASSUME TypeOK, NEW m \in Machines, NEW s \in Snapshot, TreesAfterPut(m, s)
    PROVE  trees' \in [Machines -> Cached] /\ events' \in 0..MaxEvents
<1>1. s \in Snapshot \cup {None, Stale} /\ s.commit \in Commits
  BY DEF Snapshot
<1>2. trees \in [Machines -> [Commits -> Snapshot \cup {None, Stale}]] /\ events \in 0..MaxEvents
  BY DEF TypeOK, Cached
<1>3. CASE trees' = [trees EXCEPT ![m][s.commit] = s] /\ UNCHANGED events
  <2> HIDE DEF Snapshot
  <2> QED BY <1>1, <1>2, <1>3 DEF Cached
<1>4. CASE Event /\ UNCHANGED trees
  BY <1>2, <1>4 DEF Event, Cached
<1>5. CASE Event /\ \E gone \in SUBSET Commits :
              trees' = [trees EXCEPT ![m] =
                 [c \in Commits |-> IF c \in gone THEN None
                                    ELSE IF c = s.commit THEN s ELSE trees[m][c]]]
  <2>1. PICK gone \in SUBSET Commits :
              trees' = [trees EXCEPT ![m] =
                 [c \in Commits |-> IF c \in gone THEN None
                                    ELSE IF c = s.commit THEN s ELSE trees[m][c]]]
    BY <1>5
  <2>2. [c \in Commits |-> IF c \in gone THEN None
                           ELSE IF c = s.commit THEN s ELSE trees[m][c]]
           \in [Commits -> Snapshot \cup {None, Stale}]
    BY <1>1, <1>2
  <2> QED BY <1>2, <1>5, <2>1, <2>2 DEF Event, Cached
<1> QED BY <1>3, <1>4, <1>5 DEF TreesAfterPut

\* A step of a request beside its caches.
LEMMA FetchType ==
    ASSUME TypeOK, NEW r \in Requests, Fetch(r)
    PROVE  TypeOK'
<1> DEFINE q0 == req[r]
<1>0. q0 \in Request /\ HasIts(q0)
  BY RequestType
<1>f. ASSUME Fail(r) PROVE TypeOK'
  <2>1. Idle("failed") \in Request /\ HasIts(Idle("failed"))
    BY IdleType DEF HasIts, Idle, Active, Resolved, Holding
  <2> QED BY <1>f, <2>1, QuietType DEF Fail
<1>1. CASE Resolve(r)
  <2> DEFINE q == [q0 EXCEPT !.commit = head,
                             !.pc = IF q0.policy = "force" THEN "tree" ELSE "lookup"]
  <2>1. q \in Request /\ HasIts(q)
    BY <1>0, <1>1 DEF Resolve, TypeOK, Request, HasIts, Active, Resolved, Holding
  <2> QED BY <1>1, <2>1, QuietType DEF Resolve
<1>2. CASE RequestFails(r) \/ StoreFails(r) \/ MountFails(r)
  BY <1>2, <1>f DEF RequestFails, StoreFails, MountFails
<1>3. CASE TreeHit(r)
  <2> DEFINE s == trees[q0.at][q0.commit]
  <2>1. q0.at \in Machines /\ q0.commit \in Commits
    BY <1>0, <1>3 DEF TreeHit, HasIts, Active, Resolved
  <2>2. s \in Snapshot
    BY <1>3, <2>1 DEF TreeHit, TypeOK, Cached
  <2> DEFINE q == [Idle("prepared") EXCEPT !.at = q0.at, !.commit = s.commit, !.snap = s,
                                           !.known = CollectSnapshotBlobHexes(q0.at, s)]
  <2>3. q \in Request /\ HasIts(q)
    BY <2>1, <2>2, PreparedType, CollectType
  <2> QED BY <1>3, <2>3, QuietType DEF TreeHit, Prepared
<1>4. CASE TreeMiss(r)
  <2> DEFINE q == [q0 EXCEPT !.pc = IF q0.at \in Redis THEN "shared" ELSE "tree"]
  <2>1. q \in Request /\ HasIts(q)
    BY <1>0, <1>4 DEF TreeMiss, Request, HasIts, Active, Resolved, Holding
  <2>2. /\ req' \in [Requests -> Request]
        /\ \A i \in Requests : HasIts(req[i])'
    BY <1>4, <2>1, SetType DEF TreeMiss
  <2>3. trees' \in [Machines -> Cached]
    BY <1>4 DEF TreeMiss, TypeOK, Cached
  <2> QED BY <1>4, <2>2, <2>3 DEF TreeMiss, TypeOK, world, history
<1>5. CASE SharedGet(r)
  <2> DEFINE s == shared[q0.commit]
             q == [Idle("prepared") EXCEPT !.at = q0.at, !.commit = s.commit, !.snap = s,
                                           !.known = CollectSnapshotBlobHexes(q0.at, s)]
  <2>1. q0.at \in Machines /\ q0.commit \in Commits
    BY <1>0, <1>5 DEF SharedGet, HasIts, Active, Resolved
  <2>2. s \in Snapshot
    BY <1>5, <2>1 DEF SharedGet, TypeOK, Cached
  <2>3. q \in Request /\ HasIts(q)
    BY <2>1, <2>2, PreparedType, CollectType
  <2>4. /\ req' \in [Requests -> Request]
        /\ \A i \in Requests : HasIts(req[i])'
    BY <1>5, <2>3, SetType DEF SharedGet, Prepared
  <2>5. trees' \in [Machines -> Cached] /\ events' \in 0..MaxEvents
    BY <1>5, <2>1, <2>2, TreesAfterPutType DEF SharedGet
  <2> QED BY <1>5, <2>4, <2>5 DEF SharedGet, TypeOK, history
<1>6. CASE SharedMiss(r)
  <2> DEFINE q == [q0 EXCEPT !.pc = "tree"]
  <2>1. q \in Request /\ HasIts(q)
    BY <1>0, <1>6 DEF SharedMiss, Request, HasIts, Active, Resolved, Holding
  <2> QED BY <1>6, <2>1, QuietType DEF SharedMiss
<1>7. CASE FetchTree(r)
  <2> DEFINE q == [q0 EXCEPT !.tree = Tree[q0.commit], !.pc = "prefetching"]
  <2>1. q \in Request /\ HasIts(q)
    BY <1>0, <1>7 DEF FetchTree, Request, HasIts, Active, Resolved, Holding
  <2> QED BY <1>7, <2>1, QuietType DEF FetchTree
<1>8. CASE FetchTreeTruncated(r)
  <2> DEFINE q == [q0 EXCEPT !.stack = {Root}, !.pc = "walking"]
  <2>1. q \in Request /\ HasIts(q)
    BY <1>0, <1>8 DEF FetchTreeTruncated, Request, HasIts, Active, Resolved, Holding, Dirs
  <2> QED BY <1>8, <2>1, QuietType DEF FetchTreeTruncated
<1>9. CASE \E d \in Dirs : Walk(r, d)
  <2>1. PICK d \in Dirs : Walk(r, d)
    BY <1>9
  <2> DEFINE sub == Subtree(q0.commit, d)
             rest == (q0.stack \ {d}) \cup (sub \cap Trees)
             q == [q0 EXCEPT !.tree = @ \cup sub, !.stack = rest,
                             !.pc = IF rest = {} THEN "prefetching" ELSE "walking"]
  <2>2. q0.commit \in Commits
    BY <1>0, <2>1 DEF Walk, HasIts, Active, Resolved
  <2>3. sub \subseteq Entries /\ sub \cap Trees \subseteq Dirs
    BY <2>2 DEF Subtree, Dirs
  <2>4. q \in Request /\ HasIts(q)
    BY <1>0, <2>1, <2>3 DEF Walk, Request, HasIts, Active, Resolved, Holding
  <2> QED BY <2>1, <2>4, QuietType DEF Walk
<1>10. CASE \E got \in SUBSET (Files \cup Links) : Tarball(r, got)
  <2>1. PICK got \in SUBSET (Files \cup Links) : Tarball(r, got)
    BY <1>10
  <2> DEFINE q == [q0 EXCEPT !.policy = "disabled"]
  <2>2. q \in Request /\ HasIts(q)
    BY <1>0, <2>1 DEF Tarball, Request, HasIts, Policies
  <2>3. /\ req' \in [Requests -> Request]
        /\ \A i \in Requests : HasIts(req[i])'
    BY <2>1, <2>2, SetType DEF Tarball
  <2>4. blobs' \in [Machines -> SUBSET (Files \cup Links)]
    BY <2>1 DEF Tarball, TypeOK
  <2> QED BY <2>1, <2>3, <2>4 DEF Tarball, TypeOK, world, history
<1>11. CASE \E got \in SUBSET (Files \cup Links) : PrefetchAndBuild(r, got)
  <2>1. PICK got \in SUBSET (Files \cup Links) : PrefetchAndBuild(r, got)
    BY <1>11
  <2> DEFINE s == Built(q0.at, q0.commit, q0.tree, Inlined(q0.at, q0.tree, got))
             q == [q0 EXCEPT !.snap = s, !.left = Objects(s), !.pc = "storing"]
  <2>2. q0.at \in Machines /\ q0.commit \in Commits
    BY <1>0, <2>1 DEF PrefetchAndBuild, HasIts, Active, Resolved
  <2>3. Inlined(q0.at, q0.tree, got) \subseteq Entries
    BY DEF Inlined, Small, BlobsOf, Entries
  <2>4. s \in Snapshot
    BY <1>0, <2>2, <2>3 DEF Built, Snapshot, Request
  <2>5. Objects(s) \subseteq Object
    BY <2>4, ObjectsType
  <2> HIDE DEF s
  <2>6. q \in Request /\ HasIts(q)
    BY <1>0, <2>2, <2>4, <2>5 DEF Request, HasIts, Active, Resolved, Holding
  <2>7. CASE Set(r, q)
    BY <2>1, <2>6, <2>7, QuietType DEF PrefetchAndBuild
  <2>8. CASE Set(r, Idle("failed"))
    BY <2>1, <2>8, <1>f DEF PrefetchAndBuild, Fail
  <2> QED BY <2>1, <2>7, <2>8 DEF PrefetchAndBuild, s
<1>12. CASE \E o \in req[r].left : StoreDirectory(r, o)
  <2>1. PICK o \in q0.left : StoreDirectory(r, o)
    BY <1>12
  <2> DEFINE q == [q0 EXCEPT !.left = @ \ {o},
                             !.pc = IF q0.left = {o} THEN "caching" ELSE "storing"]
  <2>2. q \in Request /\ HasIts(q)
    BY <1>0, <2>1 DEF StoreDirectory, Request, HasIts, Active, Resolved, Holding
  <2>3. /\ req' \in [Requests -> Request]
        /\ \A i \in Requests : HasIts(req[i])'
    BY <2>1, <2>2, SetType DEF StoreDirectory
  <2>4. o \in Object
    BY <1>0, <2>1 DEF Request
  <2>5. dirs' \in [Machines -> SUBSET Object]
    BY <2>1, <2>4 DEF StoreDirectory, TypeOK
  <2> QED BY <2>1, <2>3, <2>5 DEF StoreDirectory, TypeOK, world, history
<1>13. ASSUME q0.pc \in {"caching", "sharing"}
       PROVE  /\ q0.at \in Machines
              /\ q0.snap \in Snapshot
              /\ FetchedBlobs(q0.snap) \in SUBSET (Files \cup Links)
  BY <1>0, <1>13 DEF HasIts, Active, Holding, FetchedBlobs, BlobsOf
<1>14. CASE CacheTree(r)
  <2>1. /\ q0.at \in Machines
        /\ q0.snap \in Snapshot
        /\ FetchedBlobs(q0.snap) \in SUBSET (Files \cup Links)
    BY <1>13, <1>14 DEF CacheTree
  <2> DEFINE q == [q0 EXCEPT !.pc = "sharing"]
  <2>2. q \in Request /\ HasIts(q)
    BY <1>0, <1>14 DEF CacheTree, Request, HasIts, Active, Resolved, Holding
  <2>3. \E k \in Request : HasIts(k) /\ Set(r, k)
    BY <1>14, <2>1, <2>2, PreparedType DEF CacheTree, Prepared
  <2>4. /\ req' \in [Requests -> Request]
        /\ \A i \in Requests : HasIts(req[i])'
    BY <2>3, SetType
  <2>5. trees' \in [Machines -> Cached] /\ events' \in 0..MaxEvents
    BY <1>14, <2>1, TreesAfterPutType DEF CacheTree
  <2> QED BY <1>14, <2>4, <2>5 DEF CacheTree, TypeOK, history
<1>15. CASE ShareTree(r)
  <2>1. /\ q0.at \in Machines
        /\ q0.snap \in Snapshot
        /\ FetchedBlobs(q0.snap) \in SUBSET (Files \cup Links)
    BY <1>13, <1>15 DEF ShareTree
  <2>2. \E k \in Request : HasIts(k) /\ Set(r, k)
    BY <1>15, <2>1, PreparedType DEF ShareTree, Prepared
  <2>3. /\ req' \in [Requests -> Request]
        /\ \A i \in Requests : HasIts(req[i])'
    BY <2>2, SetType
  <2>4. shared' \in Cached
    BY <1>15, <2>1 DEF ShareTree, TypeOK, Cached
  <2> QED BY <1>15, <2>3, <2>4 DEF ShareTree, TypeOK, world, history
<1>16. CASE \E d \in Dirs : Mount(r, d)
  <2> DEFINE q == [q0 EXCEPT !.pc = "mounted"]
  <2>1. q \in Request /\ HasIts(q)
    BY <1>0, <1>16 DEF Mount, Request, HasIts, Active, Resolved, Holding
  <2> QED BY <1>16, <2>1, QuietType DEF Mount
<1> QED
  BY <1>1, <1>2, <1>3, <1>4, <1>5, <1>6, <1>7, <1>8, <1>9, <1>10, <1>11, <1>12,
     <1>14, <1>15, <1>16 DEF Fetch

\* The types are kept by every step.
LEMMA TypeStep == TypeOK /\ [Next]_vars => TypeOK'
<1> SUFFICES ASSUME TypeOK, [Next]_vars PROVE TypeOK'
  OBVIOUS
<1>1. CASE UNCHANGED vars
  BY <1>1 DEF vars, TypeOK
<1>2. ASSUME NEW r \in Requests, NEW m \in Machines, NEW policy \in Policies,
             Begin(r, m, policy)
      PROVE  TypeOK'
  <2> DEFINE q == [Idle("resolving") EXCEPT !.at = m, !.policy = policy]
  <2>1. q \in Request /\ HasIts(q)
    BY DEF Idle, Request, HasIts, Active, Resolved, Holding
  <2>2. /\ req' \in [Requests -> Request]
        /\ \A i \in Requests : HasIts(req[i])'
    BY <1>2, <2>1, SetType DEF Begin
  <2>3. named' \in [Requests -> SUBSET Commits]
    BY <1>2 DEF Begin, TypeOK
  <2> QED BY <1>2, <2>2, <2>3 DEF Begin, TypeOK, caches
<1>3. ASSUME NEW r \in Requests, Fetch(r) PROVE TypeOK'
  BY <1>3, FetchType
<1>4. ASSUME NEW r \in Requests, NEW e \in Files, ReadFile(r, e) PROVE TypeOK'
  <2> DEFINE q == [req[r] EXCEPT !.known = @ \cup {e}]
  <2>1. q \in Request /\ HasIts(q)
    BY RequestType DEF Request, HasIts
  <2>2. /\ req' \in [Requests -> Request]
        /\ \A i \in Requests : HasIts(req[i])'
    BY <1>4, <2>1, SetType DEF ReadFile, ProviderFetchBlob
  <2>3. blobs' \in [Machines -> SUBSET (Files \cup Links)]
    BY <1>4 DEF ReadFile, ProviderFetchBlob, TypeOK
  <2> QED BY <1>4, <2>2, <2>3 DEF ReadFile, TypeOK, world, history
<1>5. ASSUME NEW m \in Machines, NEW o \in dirs[m], Evict(m, o) PROVE TypeOK'
  BY <1>5 DEF Evict, Event, TypeOK
<1>6. ASSUME NEW m \in Machines, NEW e \in Files \cup Links, EvictBlob(m, e)
      PROVE  TypeOK'
  BY <1>6 DEF EvictBlob, Event, TypeOK, history
<1>7. ASSUME NEW m \in Machines, PruneTrees(m) PROVE TypeOK'
  <2>1. trees' \in [Machines -> Cached]
    BY <1>7 DEF PruneTrees, TypeOK, Cached
  <2> QED BY <1>7, <2>1 DEF PruneTrees, Event, TypeOK, history
<1>8. ASSUME NEW m \in Machines, Crash(m) PROVE TypeOK'
  <2>1. Idle("failed") \in Request /\ HasIts(Idle("failed"))
    BY IdleType DEF HasIts, Idle, Active, Resolved, Holding
  <2>2. /\ req' \in [Requests -> Request]
        /\ \A i \in Requests : HasIts(req'[i])
    BY <1>8, <2>1 DEF Crash, TypeOK
  <2>3. events' \in 0..MaxEvents
    BY <1>8 DEF Crash, Event, TypeOK
  <2> QED BY <1>8, <2>2, <2>3 DEF Crash, TypeOK, caches
<1>9. ASSUME NEW c \in Commits, MoveRef(c) PROVE TypeOK'
  <2>1. named' \in [Requests -> SUBSET Commits] /\ events' \in 0..MaxEvents
    BY <1>9 DEF MoveRef, Event, TypeOK
  <2> QED BY <1>9, <2>1 DEF MoveRef, TypeOK, caches
<1> QED
  BY <1>1, <1>2, <1>3, <1>4, <1>5, <1>6, <1>7, <1>8, <1>9 DEF Next

\* TypeOK: what a request carries at each point of fetch_snapshot_inner is there,
\* and the caches hold snapshots and directories only.
THEOREM TypeCorrect == Spec => []TypeOK
BY TypeInit, TypeStep, PTL DEF Spec

-----------------------------------------------------------------------------
(* The inductive invariant. *)

\* The walk has everything in the directories that it has seen and that are not
\* on its stack any more.
Walked(q) ==
    /\ q.tree \subseteq Tree[q.commit]
    /\ \A e \in Tree[q.commit] :
          In[e] \in (q.tree \cup {Root}) \ q.stack => e \in q.tree

Sound(q) ==
    /\ q.pc \in {"resolving", "lookup", "shared", "tree"} => q.tree = {}
    /\ q.pc = "walking" => Walked(q)
    /\ q.pc = "prefetching" => q.tree = Tree[q.commit]
    /\ q.pc \in Holding => IsTheTree(q.snap, q.commit)
    /\ q.pc \in {"storing", "caching", "sharing"} => q.snap.by = q.at

\* The directories of a snapshot are, or were, where it was built.
StoredAt(s) == Objects(s) \subseteq dirs[s.by] \cup evicted[s.by]

SnapStored(q) ==
    /\ q.pc = "storing" =>
          Objects(q.snap) \subseteq dirs[q.snap.by] \cup evicted[q.snap.by] \cup q.left
    /\ q.pc \in Holding \ {"storing"} => StoredAt(q.snap)

Told(q) ==
    /\ q.pc \in {"prepared", "mounted"}
    /\ q.snap.by = q.at
    /\ evicted[q.at] = {}
    => Tree[q.commit] \cap Files \subseteq q.known

Fresh(q, commits) ==
    /\ q.pc = "resolving" => head \in commits
    /\ q.pc \in Resolved => q.commit \in commits

RequestInv ==
    \A r \in Requests :
       Sound(req[r]) /\ SnapStored(req[r]) /\ Told(req[r]) /\ Fresh(req[r], named[r])

Good(s, c) == s \in {None, Stale} \/ (IsTheTree(s, c) /\ StoredAt(s))

CacheInv ==
    \A c \in Commits :
       Good(shared[c], c) /\ \A m \in Machines : Good(trees[m][c], c)

IInv == TypeOK /\ RequestInv /\ CacheInv

-----------------------------------------------------------------------------
\* A walk that has nothing on its stack has the whole tree.
LEMMA WalkIsWhole ==
    ASSUME NEW c \in Commits, NEW tree \in SUBSET Tree[c],
           \A e \in Tree[c] : In[e] \in tree \cup {Root} => e \in tree
    PROVE  tree = Tree[c]
<1> DEFINE X == Tree[c] \ tree
<1>1. SUFFICES ASSUME X # {} PROVE FALSE
  OBVIOUS
<1>2. PICK e \in X : In[e] \notin X
  <2>1. X \in SUBSET Tree[c]
    OBVIOUS
  <2>2. \A Y \in SUBSET Tree[c] : Y # {} => \E e \in Y : In[e] \notin Y
    BY TreeAssumption
  <2> HIDE DEF X
  <2> QED BY <1>1, <2>1, <2>2
<1>3. In[e] \in Tree[c] \cup {Root}
  BY TreeAssumption
<1> QED BY <1>2, <1>3

\* Nothing that was stored is neither there nor known to be evicted.
Grown ==
    /\ \A m \in Machines : dirs[m] \cup evicted[m] \subseteq dirs'[m] \cup evicted'[m]
    /\ \A m \in Machines : evicted[m] \subseteq evicted'[m]

LEMMA StoredKept ==
    ASSUME Grown, NEW s \in Snapshot, StoredAt(s)
    PROVE  StoredAt(s)'
<1>1. s.by \in Machines
  BY DEF Snapshot
<1>2. Objects(s) \subseteq dirs'[s.by] \cup evicted'[s.by]
  BY <1>1 DEF Grown, StoredAt
<1> QED BY <1>2 DEF StoredAt

LEMMA RequestKept ==
    ASSUME Grown, NEW q \in Request, HasIts(q), SnapStored(q), Told(q)
    PROVE  SnapStored(q)' /\ Told(q)'
<1>1. q.pc \in Holding => q.snap \in Snapshot /\ q.snap.by \in Machines
  BY DEF HasIts, Snapshot
<1>2. SnapStored(q)'
  <2>1. CASE q.pc = "storing"
    <3>1. Objects(q.snap) \subseteq dirs'[q.snap.by] \cup evicted'[q.snap.by] \cup q.left
      BY <1>1, <2>1 DEF Grown, SnapStored, Holding
    <3> QED BY <2>1, <3>1 DEF SnapStored
  <2>2. CASE q.pc \in Holding \ {"storing"}
    BY <1>1, <2>2, StoredKept DEF SnapStored
  <2> QED BY <2>1, <2>2 DEF SnapStored
<1>3. Told(q)'
  <2>1. q.pc \in {"prepared", "mounted"} => q.at \in Machines
    BY DEF HasIts, Active
  <2> QED BY <2>1 DEF Told, Grown
<1> QED BY <1>2, <1>3

\* One request changes to q, the others are left alone.
LEMMA SetInv ==
    ASSUME TypeOK, RequestInv, Grown, NEW r \in Requests, NEW q, Set(r, q),
           UNCHANGED <<head, named>>,
           Sound(q), SnapStored(q)', Told(q)', Fresh(q, named[r])
    PROVE  RequestInv'
<1> SUFFICES ASSUME NEW i \in Requests
             PROVE  (Sound(req[i]) /\ SnapStored(req[i]) /\ Told(req[i])
                        /\ Fresh(req[i], named[i]))'
  BY DEF RequestInv
<1>1. CASE i = r
  <2>1. req'[i] = q
    BY <1>1 DEF Set, TypeOK
  <2> QED BY <1>1, <2>1 DEF Sound, SnapStored, Told, Fresh, StoredAt
<1>2. CASE i # r
  <2>1. req'[i] = req[i]
    BY <1>2 DEF Set, TypeOK
  <2>2. req[i] \in Request /\ HasIts(req[i])
    BY RequestType
  <2>3. PICK k : k = req[i]
    OBVIOUS
  <2>4. Sound(k) /\ SnapStored(k) /\ Told(k) /\ Fresh(k, named[i])
    BY <2>3 DEF RequestInv
  <2>5. SnapStored(k)' /\ Told(k)'
    BY ONLY <2>2, <2>3, <2>4, Grown, RequestKept
  <2>6. Sound(k)' /\ Fresh(k, named[i])'
    BY ONLY <2>4, UNCHANGED <<head, named>> DEF Sound, Fresh, Walked
  <2>7. req'[i] = k
    BY ONLY <2>1, <2>3
  <2> QED BY ONLY <2>5, <2>6, <2>7 DEF Sound, SnapStored, Told, Fresh, StoredAt
<1> QED BY <1>1, <1>2

\* The caches stay good when all they get is good.
LEMMA CacheKept ==
    ASSUME TypeOK, CacheInv, Grown,
           \A c \in Commits : shared'[c] = shared[c] \/ Good(shared[c], c)',
           \A m \in Machines : \A c \in Commits :
              trees'[m][c] = trees[m][c] \/ Good(trees[m][c], c)'
    PROVE  CacheInv'
<1>1. ASSUME NEW s \in Snapshot \cup {None, Stale}, NEW c, Good(s, c)
      PROVE  Good(s, c)'
  BY <1>1, StoredKept DEF Good
<1>2. ASSUME NEW c \in Commits PROVE Good(shared[c], c)'
  <2>1. shared[c] \in Snapshot \cup {None, Stale} /\ Good(shared[c], c)
    BY DEF TypeOK, Cached, CacheInv
  <2> QED BY <1>1, <2>1 DEF Good, StoredAt
<1>3. ASSUME NEW c \in Commits, NEW m \in Machines PROVE Good(trees[m][c], c)'
  <2>1. trees[m][c] \in Snapshot \cup {None, Stale} /\ Good(trees[m][c], c)
    BY DEF TypeOK, Cached, CacheInv
  <2> QED BY <1>1, <2>1 DEF Good, StoredAt
<1> QED BY <1>2, <1>3 DEF CacheInv

-----------------------------------------------------------------------------
\* A snapshot whose directories are all there is known to its last file.
LEMMA CollectIsWhole ==
    ASSUME NEW c \in Commits, NEW s \in Snapshot, IsTheTree(s, c), StoredAt(s),
           evicted[s.by] = {}
    PROVE  Tree[c] \cap Files \subseteq CollectSnapshotBlobHexes(s.by, s)
<1>1. \A d \in DirsOf(s) : DirObject(d, s) \in dirs[s.by]
  BY DEF StoredAt, Objects
<1>2. Tree[c] \cap Files \subseteq s.entries
  BY TreeAssumption DEF IsTheTree
<1> QED BY <1>1, <1>2 DEF CollectSnapshotBlobHexes, CanReach, HasDirectory

\* A request is answered with a good snapshot.
LEMMA PreparedInv ==
    ASSUME TypeOK, RequestInv, Grown, NEW r \in Requests, NEW s, NEW known,
           Prepared(r, s, known), UNCHANGED <<head, named>>,
           IsTheTree(s, s.commit), StoredAt(s)', s.commit \in named[r],
           (s.by = req[r].at /\ evicted'[req[r].at] = {})
              => Tree[s.commit] \cap Files \subseteq known
    PROVE  RequestInv'
<1>0. PICK q : q = [Idle("prepared") EXCEPT !.at = req[r].at, !.commit = s.commit,
                                            !.snap = s, !.known = known]
  OBVIOUS
<1>1. /\ q.pc = "prepared" /\ q.at = req[r].at /\ q.commit = s.commit
      /\ q.snap = s /\ q.known = known
  BY <1>0 DEF Idle
<1>2. Set(r, q)
  BY <1>0 DEF Prepared
<1>3. Sound(q)
  BY <1>1 DEF Sound, Holding
<1>4. Fresh(q, named[r])
  BY <1>1 DEF Fresh
<1>5. SnapStored(q)'
  BY <1>1 DEF SnapStored, StoredAt
<1>6. Told(q)'
  BY <1>1 DEF Told
<1> QED BY <1>2, <1>3, <1>4, <1>5, <1>6, SetInv

\* A request that has failed, or not begun, promises nothing.
LEMMA IdleInv ==
    ASSUME NEW pc \in {"off", "failed"}, NEW commits
    PROVE  LET q == Idle(pc)
           IN  Sound(q) /\ SnapStored(q) /\ Told(q) /\ Fresh(q, commits)
BY DEF Idle, Sound, SnapStored, Told, Fresh, Holding, Resolved, Active

\* A request goes on without its snapshot, and the caches are left alone.
LEMMA QuietInv ==
    ASSUME IInv, NEW r \in Requests, NEW q, Set(r, q), UNCHANGED <<caches, world>>,
           Sound(q), SnapStored(q), Told(q), Fresh(q, named[r])
    PROVE  RequestInv' /\ CacheInv'
<1>1. UNCHANGED Frame
  BY DEF Frame, caches, world, history
<1>2. Grown
  BY <1>1 DEF Grown, Frame
<1>3. SnapStored(q)' /\ Told(q)'
  BY <1>1 DEF Frame, SnapStored, StoredAt, Told
<1>4. RequestInv'
  BY <1>1, <1>2, <1>3, SetInv DEF IInv, Frame
<1>5. CacheInv'
  BY <1>1, <1>2, CacheKept DEF IInv, Frame
<1> QED BY <1>4, <1>5

\* Before it has a snapshot, a request promises no more than where it is.
LEMMA EarlyInv ==
    ASSUME NEW q, q.pc \notin Holding
    PROVE  SnapStored(q) /\ Told(q)
BY DEF SnapStored, Told, Holding

\* What put leaves under a key: what was there, nothing, or the snapshot itself
\* under its own commit.
LEMMA PutCases ==
    ASSUME trees \in [Machines -> Cached],
           NEW m \in Machines, NEW s, TreesAfterPut(m, s),
           NEW k \in Machines, NEW c \in Commits
    PROVE  \/ trees'[k][c] = trees[k][c]
           \/ trees'[k][c] = None
           \/ c = s.commit /\ trees'[k][c] = s
<1>0. DOMAIN trees = Machines /\ DOMAIN trees[k] = Commits /\ DOMAIN trees[m] = Commits
  BY DEF Cached
<1>1. CASE trees' = [trees EXCEPT ![m][s.commit] = s]
  <2>1. CASE k # m
    <3>1. trees'[k] = trees[k]
      BY <1>1, <2>1
    <3> QED BY <3>1
  <2>2. CASE k = m
    <3>1. trees'[k] = [trees[k] EXCEPT ![s.commit] = s]
      BY <1>1, <2>2
    <3>2. CASE c = s.commit
      <4>1. trees'[k][c] = s
        BY <1>0, <3>1, <3>2
      <4> QED BY <3>2, <4>1
    <3>3. CASE c # s.commit
      <4>1. trees'[k][c] = trees[k][c]
        BY <1>0, <3>1, <3>3
      <4> QED BY <4>1
    <3> QED BY <3>2, <3>3
  <2> QED BY <2>1, <2>2
<1>2. CASE UNCHANGED trees
  BY <1>2
<1>3. ASSUME NEW gone \in SUBSET Commits,
             trees' = [trees EXCEPT ![m] =
                         [d \in Commits |-> IF d \in gone THEN None
                                            ELSE IF d = s.commit THEN s ELSE trees[m][d]]]
      PROVE  \/ trees'[k][c] = trees[k][c]
             \/ trees'[k][c] = None
             \/ c = s.commit /\ trees'[k][c] = s
  <2>1. CASE k # m
    <3>1. trees'[k] = trees[k]
      BY <1>3, <2>1
    <3> QED BY <3>1
  <2>2. CASE k = m
    <3>1. trees'[k] = [d \in Commits |-> IF d \in gone THEN None
                                         ELSE IF d = s.commit THEN s ELSE trees[m][d]]
      BY <1>3, <2>2
    <3>2. trees'[k][c] = IF c \in gone THEN None
                         ELSE IF c = s.commit THEN s ELSE trees[m][c]
      BY <3>1
    <3> QED BY <2>2, <3>2
  <2> QED BY <2>1, <2>2
<1> QED BY <1>1, <1>2, <1>3 DEF TreesAfterPut

\* Caching a good snapshot keeps the tree cache good.
LEMMA PutKept ==
    ASSUME TypeOK, CacheInv, Grown, NEW m \in Machines, NEW s, TreesAfterPut(m, s),
           IsTheTree(s, s.commit), StoredAt(s)', UNCHANGED shared
    PROVE  CacheInv'
<1>0. trees \in [Machines -> Cached]
  BY DEF TypeOK
<1>1. ASSUME NEW k \in Machines, NEW c \in Commits
      PROVE  trees'[k][c] = trees[k][c] \/ Good(trees[k][c], c)'
  <2>1. trees'[k][c] = trees[k][c] \/ trees'[k][c] = None
           \/ (c = s.commit /\ trees'[k][c] = s)
    BY <1>0, PutCases
  <2> QED BY <2>1 DEF Good, StoredAt
<1> QED BY <1>1, CacheKept

\* The steps of a request keep the invariant.
LEMMA FetchInv ==
    ASSUME IInv, NEW r \in Requests, Fetch(r)
    PROVE  RequestInv' /\ CacheInv'
<1> USE DEF IInv
<1>a. PICK q0 : q0 = req[r]
  OBVIOUS
<1>0. /\ q0 \in Request /\ HasIts(q0)
      /\ Sound(q0) /\ SnapStored(q0) /\ Told(q0) /\ Fresh(q0, named[r])
  BY <1>a, RequestType DEF RequestInv
<1>f. ASSUME Fail(r) PROVE RequestInv' /\ CacheInv'
  BY <1>f, IdleInv, QuietInv DEF Fail
<1>1. CASE Resolve(r)
  <2>1. PICK q : q = [q0 EXCEPT !.commit = head,
                                !.pc = IF q0.policy = "force" THEN "tree" ELSE "lookup"]
    OBVIOUS
  <2>2. q.pc \in {"tree", "lookup"} /\ q.tree = {} /\ q.commit \in named[r]
    BY <1>a, <1>0, <1>1, <2>1 DEF Resolve, Sound, Fresh, Request
  <2>3. Sound(q) /\ Fresh(q, named[r]) /\ q.pc \notin Holding
    BY <2>2 DEF Sound, Fresh, Holding, Resolved, Active
  <2> QED BY <1>a, <1>1, <2>1, <2>3, EarlyInv, QuietInv DEF Resolve
<1>2. CASE RequestFails(r) \/ StoreFails(r) \/ MountFails(r)
  BY <1>2, <1>f DEF RequestFails, StoreFails, MountFails
<1>3. CASE TreeHit(r)
  <2>1. PICK s, m : m = q0.at /\ s = trees[m][q0.commit]
    OBVIOUS
  <2>2. m \in Machines /\ q0.commit \in Commits /\ q0.commit \in named[r]
    BY <1>a, <1>0, <1>3, <2>1 DEF TreeHit, HasIts, Fresh, Active, Resolved
  <2>3. s \in Snapshot /\ IsTheTree(s, q0.commit) /\ StoredAt(s)
    BY <1>a, <1>3, <2>1, <2>2 DEF TreeHit, TypeOK, Cached, CacheInv, Good
  <2>4. s.commit = q0.commit
    BY <2>3 DEF IsTheTree
  <2>5. UNCHANGED Frame
    BY <1>3 DEF TreeHit, Frame, caches, world, history
  <2>6. Grown /\ StoredAt(s)'
    BY <2>3, <2>5 DEF Grown, StoredAt, Frame
  <2>7. PICK known : known = CollectSnapshotBlobHexes(m, s)
    OBVIOUS
  <2>8. (s.by = m /\ evicted[m] = {}) => Tree[s.commit] \cap Files \subseteq known
    BY <2>2, <2>3, <2>4, <2>7, CollectIsWhole
  <2>9. Prepared(r, s, known)
    BY <1>a, <1>3, <2>1, <2>7 DEF TreeHit
  <2>10. RequestInv'
    BY <1>a, <2>1, <2>2, <2>3, <2>4, <2>5, <2>6, <2>8, <2>9, PreparedInv DEF Frame
  <2>11. CacheInv'
    BY <2>5, <2>6, CacheKept DEF Frame
  <2> QED BY <2>10, <2>11
<1>4. CASE TreeMiss(r)
  <2>1. PICK q : q = [q0 EXCEPT !.pc = IF q0.at \in Redis THEN "shared" ELSE "tree"]
    OBVIOUS
  <2>2. /\ q.pc \in {"shared", "tree"} /\ q.tree = {} /\ q.commit \in named[r]
    BY <1>a, <1>0, <1>4, <2>1 DEF TreeMiss, Sound, Fresh, Request, Resolved, Active
  <2>3. Sound(q) /\ Fresh(q, named[r]) /\ q.pc \notin Holding
    BY <2>2 DEF Sound, Fresh, Holding, Resolved, Active
  <2>4. Grown /\ SnapStored(q)' /\ Told(q)' /\ UNCHANGED <<head, named, shared>>
    BY <1>4, <2>3 DEF TreeMiss, world, history, Grown, SnapStored, Told, Holding
  <2>5. RequestInv'
    BY <1>a, <1>4, <2>1, <2>3, <2>4, SetInv DEF TreeMiss
  <2>6. \A m \in Machines : \A c \in Commits :
           trees'[m][c] = trees[m][c] \/ trees'[m][c] = None
    BY <1>4 DEF TreeMiss, TypeOK, Cached
  <2>7. CacheInv'
    BY <2>4, <2>6, CacheKept DEF Good
  <2> QED BY <2>5, <2>7
<1>5. CASE SharedGet(r)
  <2>1. PICK s, m : m = q0.at /\ s = shared[q0.commit]
    OBVIOUS
  <2>2. m \in Machines /\ q0.commit \in Commits /\ q0.commit \in named[r]
    BY <1>a, <1>0, <1>5, <2>1 DEF SharedGet, HasIts, Fresh, Active, Resolved
  <2>3. s \in Snapshot /\ IsTheTree(s, q0.commit) /\ StoredAt(s)
    BY <1>a, <1>5, <2>1, <2>2 DEF SharedGet, TypeOK, Cached, CacheInv, Good
  <2>4. s.commit = q0.commit
    BY <2>3 DEF IsTheTree
  <2>5. UNCHANGED <<dirs, shared, head, evicted, named>>
    BY <1>5 DEF SharedGet, history
  <2>6. Grown /\ StoredAt(s)'
    BY <2>3, <2>5 DEF Grown, StoredAt
  <2>7. PICK known : known = CollectSnapshotBlobHexes(m, s)
    OBVIOUS
  <2>8. (s.by = m /\ evicted[m] = {}) => Tree[s.commit] \cap Files \subseteq known
    BY <2>2, <2>3, <2>4, <2>7, CollectIsWhole
  <2>9. Prepared(r, s, known) /\ TreesAfterPut(m, s)
    BY <1>a, <1>5, <2>1, <2>7 DEF SharedGet
  <2>10. RequestInv'
    BY <1>a, <2>1, <2>2, <2>3, <2>4, <2>5, <2>6, <2>8, <2>9, PreparedInv
  <2>11. CacheInv'
    BY <2>2, <2>3, <2>4, <2>5, <2>6, <2>9, PutKept
  <2> QED BY <2>10, <2>11
<1>6. CASE SharedMiss(r)
  <2>1. PICK q : q = [q0 EXCEPT !.pc = "tree"]
    OBVIOUS
  <2>2. q.pc = "tree" /\ q.tree = {} /\ q.commit \in named[r]
    BY <1>a, <1>0, <1>6, <2>1 DEF SharedMiss, Sound, Fresh, Request, Resolved, Active
  <2>3. Sound(q) /\ Fresh(q, named[r]) /\ q.pc \notin Holding
    BY <2>2 DEF Sound, Fresh, Holding, Resolved, Active
  <2> QED BY <1>a, <1>6, <2>1, <2>3, EarlyInv, QuietInv DEF SharedMiss
<1>7. CASE FetchTree(r)
  <2>1. PICK q : q = [q0 EXCEPT !.tree = Tree[q0.commit], !.pc = "prefetching"]
    OBVIOUS
  <2>2. q.pc = "prefetching" /\ q.tree = Tree[q.commit] /\ q.commit \in named[r]
    BY <1>a, <1>0, <1>7, <2>1 DEF FetchTree, Fresh, Request, Resolved, Active
  <2>3. Sound(q) /\ Fresh(q, named[r]) /\ q.pc \notin Holding
    BY <2>2 DEF Sound, Fresh, Holding, Resolved, Active
  <2> QED BY <1>a, <1>7, <2>1, <2>3, EarlyInv, QuietInv DEF FetchTree
<1>8. CASE FetchTreeTruncated(r)
  <2>1. PICK q : q = [q0 EXCEPT !.stack = {Root}, !.pc = "walking"]
    OBVIOUS
  <2>2. q.pc = "walking" /\ q.tree = {} /\ q.stack = {Root} /\ q.commit \in named[r]
    BY <1>a, <1>0, <1>8, <2>1
       DEF FetchTreeTruncated, Sound, Fresh, Request, Resolved, Active
  <2>3. Sound(q) /\ Fresh(q, named[r]) /\ q.pc \notin Holding
    BY <2>2 DEF Sound, Fresh, Holding, Resolved, Active, Walked
  <2> QED BY <1>a, <1>8, <2>1, <2>3, EarlyInv, QuietInv DEF FetchTreeTruncated
<1>9. CASE \E d \in Dirs : Walk(r, d)
  <2>1. PICK d \in Dirs : Walk(r, d)
    BY <1>9
  <2>2. PICK sub, rest, q :
           /\ sub = Subtree(q0.commit, d)
           /\ rest = (q0.stack \ {d}) \cup (sub \cap Trees)
           /\ q = [q0 EXCEPT !.tree = @ \cup sub, !.stack = rest,
                             !.pc = IF rest = {} THEN "prefetching" ELSE "walking"]
    OBVIOUS
  <2>3. /\ q.tree = q0.tree \cup sub /\ q.stack = rest /\ q.commit = q0.commit
        /\ q.pc = IF rest = {} THEN "prefetching" ELSE "walking"
    BY <1>0, <2>2 DEF Request
  <2>4. /\ q0.pc = "walking" /\ Walked(q0) /\ d \in q0.stack
        /\ q0.commit \in Commits /\ q0.commit \in named[r]
    BY <1>a, <1>0, <2>1 DEF Walk, Sound, HasIts, Fresh, Resolved, Active
  <2>5. q.tree \subseteq Tree[q.commit]
    BY <2>2, <2>3, <2>4 DEF Walked, Subtree
  <2>6. ASSUME NEW e \in Tree[q.commit], In[e] \in (q.tree \cup {Root}) \ q.stack
        PROVE  e \in q.tree
    <3>1. CASE In[e] = d
      BY <2>2, <2>3, <3>1 DEF Subtree
    <3>2. CASE In[e] \in sub
      <4>1. In[e] \in Dirs /\ In[e] \in Entries
        BY <2>2, <2>3, <2>4, <3>2 DEF Subtree
      <4> QED BY <2>2, <2>3, <2>6, <3>2, <4>1 DEF Dirs
    <3>3. CASE In[e] # d /\ In[e] \in (q0.tree \cup {Root})
      BY <2>2, <2>3, <2>4, <2>6, <3>3 DEF Walked
    <3> QED BY <2>3, <2>6, <3>1, <3>2, <3>3
  <2>7. Walked(q)
    BY <2>5, <2>6 DEF Walked
  <2>8. ASSUME rest = {}
        PROVE  q.tree = Tree[q.commit]
    <3>1. \A e \in Tree[q.commit] : In[e] \in q.tree \cup {Root} => e \in q.tree
      BY <2>3, <2>6, <2>8
    <3>2. q.commit \in Commits
      BY <2>3, <2>4
    <3>3. PICK c, tree : c = q.commit /\ tree = q.tree
      OBVIOUS
    <3>4. /\ c \in Commits /\ tree \in SUBSET Tree[c]
          /\ \A e \in Tree[c] : In[e] \in tree \cup {Root} => e \in tree
      BY <2>5, <3>1, <3>2, <3>3
    <3>5. tree = Tree[c]
      BY <3>4, WalkIsWhole
    <3> QED BY <3>3, <3>5
  <2>9. Sound(q) /\ Fresh(q, named[r]) /\ q.pc \notin Holding
    BY <2>3, <2>4, <2>7, <2>8 DEF Sound, Fresh, Holding, Resolved, Active
  <2> QED BY <1>a, <2>1, <2>2, <2>9, EarlyInv, QuietInv DEF Walk
<1>10. CASE \E got \in SUBSET (Files \cup Links) : Tarball(r, got)
  <2>1. PICK got \in SUBSET (Files \cup Links) : Tarball(r, got)
    BY <1>10
  <2>2. PICK q : q = [q0 EXCEPT !.policy = "disabled"]
    OBVIOUS
  <2>3. q.pc = "prefetching" /\ q.tree = Tree[q.commit] /\ q.commit \in named[r]
    BY <1>a, <1>0, <2>1, <2>2 DEF Tarball, Sound, Fresh, Request, Resolved, Active
  <2>4. Sound(q) /\ Fresh(q, named[r]) /\ q.pc \notin Holding
    BY <2>3 DEF Sound, Fresh, Holding, Resolved, Active
  <2>5. Grown /\ SnapStored(q)' /\ Told(q)' /\ UNCHANGED <<head, named, shared, trees>>
    BY <2>1, <2>4 DEF Tarball, world, history, Grown, SnapStored, Told, Holding
  <2>6. RequestInv'
    BY <1>a, <2>1, <2>2, <2>4, <2>5, SetInv DEF Tarball
  <2>7. CacheInv'
    BY <2>5, CacheKept
  <2> QED BY <2>6, <2>7
<1>11. CASE \E got \in SUBSET (Files \cup Links) : PrefetchAndBuild(r, got)
  <2>1. PICK got \in SUBSET (Files \cup Links) : PrefetchAndBuild(r, got)
    BY <1>11
  <2>2. PICK inl, s, q :
           /\ inl = Inlined(q0.at, q0.tree, got)
           /\ s = Built(q0.at, q0.commit, q0.tree, inl)
           /\ q = [q0 EXCEPT !.snap = s, !.left = Objects(s), !.pc = "storing"]
    OBVIOUS
  <2>3. CASE LinksInlined(q0.tree, inl) /\ Set(r, q)
    <3>1. q0.tree = Tree[q0.commit] /\ q0.commit \in named[r]
      BY <1>a, <1>0, <2>1 DEF PrefetchAndBuild, Sound, Fresh, Resolved, Active
    <3>2. IsTheTree(s, q0.commit) /\ s.by = q0.at
      BY <2>2, <2>3, <3>1 DEF Built, IsTheTree, LinksInlined
    <3>3. /\ q.pc = "storing" /\ q.snap = s /\ q.left = Objects(s)
          /\ q.commit = q0.commit /\ q.at = q0.at
      BY <1>0, <2>2 DEF Request
    <3>4. Sound(q) /\ SnapStored(q) /\ Told(q) /\ Fresh(q, named[r])
      BY <3>1, <3>2, <3>3 DEF Sound, SnapStored, Told, Fresh, Holding
    <3> QED BY <2>1, <2>3, <3>4, QuietInv DEF PrefetchAndBuild
  <2>4. CASE Set(r, Idle("failed"))
    BY <2>1, <2>4, <1>f DEF PrefetchAndBuild, Fail
  <2> QED BY <1>a, <2>1, <2>2, <2>3, <2>4 DEF PrefetchAndBuild
<1>12. CASE \E o \in req[r].left : StoreDirectory(r, o)
  <2>1. PICK o \in q0.left : StoreDirectory(r, o)
    BY <1>a, <1>12
  <2>2. PICK q : q = [q0 EXCEPT !.left = @ \ {o},
                                !.pc = IF q0.left = {o} THEN "caching" ELSE "storing"]
    OBVIOUS
  <2>3. /\ q.pc \in {"caching", "storing"} /\ (q.pc = "caching" => q0.left = {o})
        /\ q.left = q0.left \ {o} /\ q.snap = q0.snap
        /\ q.commit = q0.commit /\ q.at = q0.at
    BY <1>0, <2>2 DEF Request
  <2>4. /\ q0.pc = "storing" /\ IsTheTree(q0.snap, q0.commit) /\ q0.snap.by = q0.at
        /\ Objects(q0.snap) \subseteq dirs[q0.at] \cup evicted[q0.at] \cup q0.left
        /\ q0.commit \in named[r] /\ q0.at \in Machines
    BY <1>a, <1>0, <2>1
       DEF StoreDirectory, Sound, SnapStored, Fresh, HasIts, Holding, Resolved, Active
  <2>5. /\ dirs'[q0.at] = dirs[q0.at] \cup {o} /\ evicted' = evicted
        /\ UNCHANGED <<head, named, shared, trees>>
    BY <1>a, <2>1, <2>4 DEF StoreDirectory, TypeOK, world, history
  <2>6. Grown
    BY <1>a, <2>1, <2>5 DEF StoreDirectory, TypeOK, Grown
  <2>7. Sound(q) /\ Fresh(q, named[r])
    BY <2>3, <2>4 DEF Sound, Fresh, Holding
  <2>8. SnapStored(q)' /\ Told(q)'
    BY <2>3, <2>4, <2>5 DEF SnapStored, StoredAt, Told
  <2>9. RequestInv'
    BY <1>a, <2>1, <2>2, <2>5, <2>6, <2>7, <2>8, SetInv DEF StoreDirectory
  <2>10. CacheInv'
    BY <2>5, <2>6, CacheKept
  <2> QED BY <2>9, <2>10
<1>13. ASSUME q0.pc \in {"caching", "sharing"}
       PROVE  /\ q0.at \in Machines /\ q0.snap.by = q0.at
              /\ q0.snap.commit = q0.commit /\ q0.commit \in named[r]
              /\ IsTheTree(q0.snap, q0.commit) /\ StoredAt(q0.snap)
              /\ Tree[q0.commit] \cap Files \subseteq FetchedBlobs(q0.snap)
  <2>1. /\ q0.at \in Machines /\ q0.snap.by = q0.at /\ q0.commit \in named[r]
        /\ IsTheTree(q0.snap, q0.commit) /\ StoredAt(q0.snap)
    BY <1>0, <1>13 DEF Sound, SnapStored, Fresh, HasIts, Holding, Resolved, Active
  <2> QED BY <2>1, TreeAssumption DEF IsTheTree, FetchedBlobs, BlobsOf
<1>14. CASE CacheTree(r)
  <2>1. PICK s, m : s = q0.snap /\ m = q0.at
    OBVIOUS
  <2>2. /\ m \in Machines /\ s.by = m /\ s.commit \in named[r]
        /\ s.commit = q0.commit /\ IsTheTree(s, s.commit) /\ StoredAt(s)
        /\ Tree[s.commit] \cap Files \subseteq FetchedBlobs(s)
    BY <1>a, <1>13, <1>14, <2>1 DEF CacheTree
  <2>3. UNCHANGED <<dirs, shared, head, evicted, named>>
    BY <1>14 DEF CacheTree, history
  <2>4. Grown /\ StoredAt(s)'
    BY <2>2, <2>3 DEF Grown, StoredAt
  <2>5. CacheInv'
    BY <1>a, <1>14, <2>1, <2>2, <2>3, <2>4, PutKept DEF CacheTree
  <2>6. CASE m \in Redis
    <3>1. PICK q : q = [q0 EXCEPT !.pc = "sharing"]
      OBVIOUS
    <3>2. q.pc = "sharing" /\ q.snap = s /\ q.commit = s.commit /\ q.at = m
      BY <1>0, <2>1, <2>2, <3>1 DEF Request
    <3>3. Sound(q) /\ SnapStored(q)' /\ Told(q)' /\ Fresh(q, named[r])
      BY <2>2, <2>4, <3>2 DEF Sound, SnapStored, StoredAt, Told, Fresh, Holding
    <3>4. Set(r, q)
      BY <1>a, <1>14, <2>1, <2>6, <3>1 DEF CacheTree
    <3>5. RequestInv'
      BY <2>3, <2>4, <3>3, <3>4, SetInv
    <3> QED BY <2>5, <3>5
  <2>7. CASE m \notin Redis
    <3>1. PICK known : known = FetchedBlobs(s)
      OBVIOUS
    <3>2. Prepared(r, s, known)
      BY <1>a, <1>14, <2>1, <2>7, <3>1 DEF CacheTree
    <3>3. RequestInv'
      BY <2>2, <2>3, <2>4, <3>1, <3>2, PreparedInv
    <3> QED BY <2>5, <3>3
  <2> QED BY <2>6, <2>7
<1>15. CASE ShareTree(r)
  <2>1. PICK s, known : s = q0.snap /\ known = FetchedBlobs(s)
    OBVIOUS
  <2>2. /\ s.commit \in named[r]
        /\ s.commit = q0.commit /\ IsTheTree(s, s.commit) /\ StoredAt(s)
        /\ Tree[s.commit] \cap Files \subseteq known
    BY <1>a, <1>13, <1>15, <2>1 DEF ShareTree
  <2>3. UNCHANGED <<dirs, trees, head, evicted, named>>
    BY <1>15 DEF ShareTree, world, history
  <2>4. Grown /\ StoredAt(s)'
    BY <2>2, <2>3 DEF Grown, StoredAt
  <2>5. Prepared(r, s, known)
    BY <1>a, <1>15, <2>1 DEF ShareTree
  <2>6. RequestInv'
    BY <2>2, <2>3, <2>4, <2>5, PreparedInv
  <2>7. \A c \in Commits : shared'[c] = shared[c] \/ (c = s.commit /\ shared'[c] = s)
    BY <1>a, <1>15, <2>1 DEF ShareTree, TypeOK, Cached
  <2>8. \A c \in Commits : shared'[c] = shared[c] \/ Good(shared[c], c)'
    BY <2>2, <2>4, <2>7 DEF Good, StoredAt
  <2>9. CacheInv'
    BY <2>3, <2>4, <2>8, CacheKept
  <2> QED BY <2>6, <2>9
<1>16. CASE \E d \in Dirs : Mount(r, d)
  <2>1. PICK q : q = [q0 EXCEPT !.pc = "mounted"]
    OBVIOUS
  <2>2. /\ q.pc = "mounted" /\ q.snap = q0.snap /\ q.commit = q0.commit
        /\ q.at = q0.at /\ q.known = q0.known /\ q0.pc = "prepared"
    BY <1>a, <1>0, <1>16, <2>1 DEF Request, Mount
  <2>3. Sound(q) /\ SnapStored(q) /\ Told(q) /\ Fresh(q, named[r])
    BY <1>0, <2>2 DEF Sound, SnapStored, Told, Fresh, Holding, Resolved, Active
  <2> QED BY <1>a, <1>16, <2>1, <2>3, QuietInv DEF Mount
<1> QED
  BY <1>1, <1>2, <1>3, <1>4, <1>5, <1>6, <1>7, <1>8, <1>9, <1>10, <1>11, <1>12,
     <1>14, <1>15, <1>16 DEF Fetch

-----------------------------------------------------------------------------
\* The requests keep what they have when only the caches change.
LEMMA OthersInv ==
    ASSUME IInv, Grown, UNCHANGED <<req, head, named>>
    PROVE  RequestInv'
<1> SUFFICES ASSUME NEW i \in Requests
             PROVE  (Sound(req[i]) /\ SnapStored(req[i]) /\ Told(req[i])
                        /\ Fresh(req[i], named[i]))'
  BY DEF RequestInv
<1>1. PICK k : k = req[i]
  OBVIOUS
<1>2. k \in Request /\ HasIts(k)
  BY <1>1, RequestType DEF IInv
<1>3. Sound(k) /\ SnapStored(k) /\ Told(k) /\ Fresh(k, named[i])
  BY <1>1 DEF IInv, RequestInv
<1>4. SnapStored(k)' /\ Told(k)' /\ req'[i] = k /\ named'[i] = named[i]
  BY <1>1, <1>2, <1>3, RequestKept
<1> QED BY <1>3, <1>4 DEF Sound, SnapStored, Told, Fresh, StoredAt

LEMMA InvInit == Init => IInv
<1> SUFFICES ASSUME Init PROVE IInv
  OBVIOUS
<1>1. TypeOK
  BY TypeInit
<1>2. ASSUME NEW i \in Requests
      PROVE  Sound(req[i]) /\ SnapStored(req[i]) /\ Told(req[i])
                /\ Fresh(req[i], named[i])
  <2>1. req[i] = Idle("off")
    BY DEF Init
  <2> QED BY <2>1, IdleInv
<1>3. CacheInv
  BY DEF Init, CacheInv, Good
<1> QED BY <1>1, <1>2, <1>3 DEF IInv, RequestInv

LEMMA InvStep == IInv /\ [Next]_vars => IInv'
<1> SUFFICES ASSUME IInv, [Next]_vars PROVE RequestInv' /\ CacheInv'
  BY TypeStep DEF IInv
<1>0. TypeOK /\ RequestInv /\ CacheInv
  BY DEF IInv
<1>1. CASE UNCHANGED vars
  <2>1. Grown /\ UNCHANGED <<req, head, named, shared, trees>>
    BY <1>1 DEF vars, Grown
  <2> QED BY <1>0, <2>1, OthersInv, CacheKept
<1>2. ASSUME NEW r \in Requests, NEW m \in Machines, NEW policy \in Policies,
             Begin(r, m, policy)
      PROVE  RequestInv' /\ CacheInv'
  <2>1. Grown /\ UNCHANGED <<dirs, evicted, head, shared, trees>>
    BY <1>2 DEF Begin, caches, Grown
  <2>2. PICK q : q = [Idle("resolving") EXCEPT !.at = m, !.policy = policy]
    OBVIOUS
  <2>3. q.pc = "resolving" /\ q.tree = {}
    BY <2>2 DEF Idle
  <2>4. Sound(q) /\ q.pc \notin Holding
    BY <2>3 DEF Sound, Holding
  <2>5. ASSUME NEW i \in Requests
        PROVE  (Sound(req[i]) /\ SnapStored(req[i]) /\ Told(req[i])
                   /\ Fresh(req[i], named[i]))'
    <3>1. CASE i = r
      <4>1. req'[i] = q /\ named'[i] = {head}
        BY <1>0, <1>2, <2>2, <3>1 DEF Begin, Set, TypeOK
      <4>2. SnapStored(q)' /\ Told(q)'
        BY <2>4 DEF SnapStored, Told, Holding
      <4>3. Fresh(q, {head})
        BY <2>3 DEF Fresh, Resolved, Active
      <4> QED BY <2>1, <2>4, <4>1, <4>2, <4>3
             DEF Sound, SnapStored, Told, Fresh, StoredAt
    <3>2. CASE i # r
      <4>1. PICK k : k = req[i]
        OBVIOUS
      <4>2. k \in Request /\ HasIts(k) /\ req'[i] = k /\ named'[i] = named[i]
        BY <1>0, <1>2, <3>2, <4>1, RequestType DEF Begin, Set, TypeOK
      <4>3. Sound(k) /\ SnapStored(k) /\ Told(k) /\ Fresh(k, named[i])
        BY <1>0, <4>1 DEF RequestInv
      <4>4. SnapStored(k)' /\ Told(k)'
        BY <2>1, <4>2, <4>3, RequestKept
      <4> QED BY <2>1, <4>2, <4>3, <4>4 DEF Sound, SnapStored, Told, Fresh, StoredAt
    <3> QED BY <3>1, <3>2
  <2>6. CacheInv'
    BY <1>0, <2>1, CacheKept
  <2> QED BY <2>5, <2>6 DEF RequestInv
<1>3. ASSUME NEW r \in Requests, Fetch(r) PROVE RequestInv' /\ CacheInv'
  BY <1>3, FetchInv
<1>4. ASSUME NEW r \in Requests, NEW e \in Files, ReadFile(r, e)
      PROVE  RequestInv' /\ CacheInv'
  <2>1. Grown /\ UNCHANGED <<dirs, trees, shared, head, evicted, named>>
    BY <1>4 DEF ReadFile, world, history, Grown
  <2>2. PICK q0, q : q0 = req[r] /\ q = [q0 EXCEPT !.known = @ \cup {e}]
    OBVIOUS
  <2>3. /\ q0 \in Request /\ q0.pc = "mounted"
        /\ Sound(q0) /\ SnapStored(q0) /\ Told(q0) /\ Fresh(q0, named[r])
    BY <1>0, <1>4, <2>2, RequestType DEF RequestInv, ReadFile
  <2>4. /\ q.pc = q0.pc /\ q.snap = q0.snap /\ q.commit = q0.commit
        /\ q.at = q0.at /\ q.known = q0.known \cup {e}
    BY <2>2, <2>3 DEF Request
  <2>5. Sound(q) /\ SnapStored(q) /\ Told(q) /\ Fresh(q, named[r])
    BY <2>3, <2>4 DEF Sound, SnapStored, Told, Fresh, Holding
  <2>6. SnapStored(q)' /\ Told(q)'
    BY <2>1, <2>5 DEF SnapStored, StoredAt, Told
  <2>7. Set(r, q)
    BY <1>4, <2>2 DEF ReadFile, ProviderFetchBlob
  <2>8. RequestInv'
    BY <1>0, <2>1, <2>5, <2>6, <2>7, SetInv
  <2> QED BY <1>0, <2>1, <2>8, CacheKept
<1>5. ASSUME NEW m \in Machines, NEW o, Evict(m, o) PROVE RequestInv' /\ CacheInv'
  <2>1. Grown
    BY <1>0, <1>5 DEF Evict, TypeOK, Grown
  <2>2. UNCHANGED <<req, head, named, shared, trees>>
    BY <1>5 DEF Evict
  <2> QED BY <1>0, <2>1, <2>2, OthersInv, CacheKept
<1>6. ASSUME NEW m \in Machines, NEW e, EvictBlob(m, e)
      PROVE  RequestInv' /\ CacheInv'
  <2>1. Grown /\ UNCHANGED <<req, head, named, shared, trees>>
    BY <1>6 DEF EvictBlob, history, Grown
  <2> QED BY <1>0, <2>1, OthersInv, CacheKept
<1>7. ASSUME NEW m \in Machines, PruneTrees(m) PROVE RequestInv' /\ CacheInv'
  <2>1. Grown /\ UNCHANGED <<req, head, named, shared>>
    BY <1>7 DEF PruneTrees, history, Grown
  <2>2. \A k \in Machines : \A c \in Commits :
           trees'[k][c] = trees[k][c] \/ trees'[k][c] = None
    BY <1>0, <1>7 DEF PruneTrees, TypeOK
  <2>3. \A k \in Machines : \A c \in Commits :
           trees'[k][c] = trees[k][c] \/ Good(trees[k][c], c)'
    BY <2>2 DEF Good
  <2> QED BY <1>0, <2>1, <2>3, OthersInv, CacheKept
<1>8. ASSUME NEW m \in Machines, Crash(m) PROVE RequestInv' /\ CacheInv'
  <2>1. Grown /\ UNCHANGED <<dirs, evicted, head, named, shared, trees>>
    BY <1>8 DEF Crash, caches, Grown
  <2>2. ASSUME NEW i \in Requests
        PROVE  (Sound(req[i]) /\ SnapStored(req[i]) /\ Told(req[i])
                   /\ Fresh(req[i], named[i]))'
    <3>1. PICK k : /\ k = req'[i]
                   /\ Sound(k) /\ SnapStored(k) /\ Told(k) /\ Fresh(k, named[i])
      <4>1. req'[i] = req[i] \/ req'[i] = Idle("failed")
        BY <1>8 DEF Crash
      <4> QED BY <1>0, <4>1, IdleInv DEF RequestInv
    <3> QED BY <2>1, <3>1 DEF Sound, SnapStored, Told, Fresh, StoredAt
  <2>3. CacheInv'
    BY <1>0, <2>1, CacheKept
  <2> QED BY <2>2, <2>3 DEF RequestInv
<1>9. ASSUME NEW c \in Commits, MoveRef(c) PROVE RequestInv' /\ CacheInv'
  <2>1. Grown /\ UNCHANGED <<req, dirs, evicted, shared, trees>>
    BY <1>9 DEF MoveRef, caches, Grown
  <2>2. ASSUME NEW i \in Requests
        PROVE  (Sound(req[i]) /\ SnapStored(req[i]) /\ Told(req[i])
                   /\ Fresh(req[i], named[i]))'
    <3>1. Sound(req[i]) /\ SnapStored(req[i]) /\ Told(req[i]) /\ Fresh(req[i], named[i])
      BY <1>0 DEF RequestInv
    <3>2. /\ named[i] \subseteq named'[i]
          /\ req[i].pc = "resolving" => head' \in named'[i]
      BY <1>9 DEF MoveRef
    <3>3. Fresh(req[i], named[i])'
      BY <2>1, <3>1, <3>2 DEF Fresh
    <3> QED BY <2>1, <3>1, <3>3 DEF Sound, SnapStored, Told, StoredAt
  <2>3. CacheInv'
    BY <1>0, <2>1, CacheKept
  <2> QED BY <2>2, <2>3 DEF RequestInv
<1> QED
  BY <1>1, <1>2, <1>3, <1>4, <1>5, <1>6, <1>7, <1>8, <1>9 DEF Next

\* SnapshotsAreTheTree: fetch_snapshot_inner mounts, caches and shares the whole
\* tree of the commit or nothing, for every tree, walk, failure and crash.
THEOREM TreeCorrect == Spec => []SnapshotsAreTheTree
<1>1. IInv => SnapshotsAreTheTree
  BY DEF IInv, RequestInv, CacheInv, Sound, Good, Holding, SnapshotsAreTheTree
<1> QED BY <1>1, InvInit, InvStep, PTL DEF Spec

\* CachedTreesAreStored: TreeCache::put never runs before the last put of a
\* directory into the blob cache.
THEOREM StoredCorrect == Spec => []CachedTreesAreStored
<1>1. IInv => CachedTreesAreStored
  BY DEF IInv, CacheInv, Good, StoredAt, CachedTreesAreStored
<1> QED BY <1>1, InvInit, InvStep, PTL DEF Spec

\* MountsAreFresh: resolve_ref is asked by every mount, so that no cache answers
\* with a commit that the ref had left before.
THEOREM FreshCorrect == Spec => []MountsAreFresh
<1>1. IInv => MountsAreFresh
  BY DEF IInv, RequestInv, Fresh, Resolved, Active, MountsAreFresh
<1> QED BY <1>1, InvInit, InvStep, PTL DEF Spec

\* OwnersAreTold: add_owners hears of every file of the snapshot, fetched or
\* cached, as long as the directories that collect_snapshot_blob_hexes reads are
\* there.
THEOREM ToldCorrect == Spec => []OwnersAreTold
<1>1. IInv => OwnersAreTold
  BY DEF IInv, RequestInv, Told, OwnersAreTold
<1> QED BY <1>1, InvInit, InvStep, PTL DEF Spec

-----------------------------------------------------------------------------
(* The refinement of MountContent. *)

Seen == [r \in Requests |-> MountOf(req[r])]

\* The request works on, past its ref; its user sees nothing.
Working == Active \ {"resolving"}

\* Only what one user sees changes with the user's request.
LEMMA SeenSet ==
    ASSUME TypeOK, NEW r \in Requests, NEW q, Set(r, q)
    PROVE  Seen' = [Seen EXCEPT ![r] = MountOf(q)]
<1>1. req \in [Requests -> Request]
  BY DEF TypeOK
<1>2. ASSUME NEW i \in Requests
      PROVE  MountOf(req'[i]) = IF i = r THEN MountOf(q) ELSE MountOf(req[i])
  BY <1>1 DEF Set
<1> QED BY <1>2 DEF Seen

LEMMA WorkingSeen ==
    ASSUME NEW p, NEW q, p.pc \in Working, q.pc \in Working, q.commit = p.commit
    PROVE  MountOf(q) = MountOf(p)
BY DEF MountOf, MountState, Working, Active

\* A step that changes nothing of what is seen.
LEMMA SeenStutters ==
    ASSUME TypeOK, NEW r \in Requests, NEW q, Set(r, q), UNCHANGED head,
           MountOf(q) = MountOf(req[r])
    PROVE  UNCHANGED Content!vars
<1>1. Seen' = [Seen EXCEPT ![r] = MountOf(q)]
  BY SeenSet
<1>2. Seen' = Seen
  BY <1>1 DEF Seen
<1> QED BY <1>2 DEF Content!vars, Seen

LEMMA SeenWorks ==
    ASSUME TypeOK, NEW r \in Requests, NEW q, Set(r, q), UNCHANGED head,
           req[r].pc \in Working, q.pc \in Working, q.commit = req[r].commit
    PROVE  UNCHANGED Content!vars
BY WorkingSeen, SeenStutters

LEMMA SeenPrepared ==
    ASSUME TypeOK, NEW r \in Requests, NEW s, NEW known, Prepared(r, s, known),
           UNCHANGED head, req[r].pc \in Working, s.commit = req[r].commit
    PROVE  UNCHANGED Content!vars
<1>1. PICK q : q = [Idle("prepared") EXCEPT !.at = req[r].at, !.commit = s.commit,
                                            !.snap = s, !.known = known]
  OBVIOUS
<1>2. q.pc = "prepared" /\ q.commit = s.commit
  BY <1>1 DEF Idle
<1>3. Set(r, q)
  BY <1>1 DEF Prepared
<1>4. q.pc \in Working
  BY <1>2 DEF Working, Active
<1> QED BY <1>2, <1>3, <1>4, SeenWorks

LEMMA IdleSeen ==
    /\ MountOf(Idle("off")) = Content!Bare("idle")
    /\ MountOf(Idle("failed")) = Content!Bare("ended")
BY DEF MountOf, MountState, Idle, Content!Bare

\* Requests end together when they fail or their daemon dies.
LEMMA SeenEnds ==
    ASSUME TypeOK, UNCHANGED head,
           NEW ended \in SUBSET Requests,
           \A r \in ended : req[r].pc # "off",
           req' = [r \in Requests |-> IF r \in ended THEN Idle("failed") ELSE req[r]]
    PROVE  Content!Next
<1>1. ASSUME NEW r \in ended PROVE MountOf(req[r]).state # "idle"
  BY <1>1 DEF MountOf, MountState
<1>2. Seen' = [r \in Requests |-> IF r \in ended THEN Content!Bare("ended") ELSE Seen[r]]
  BY IdleSeen DEF Seen
<1>3. Content!End(ended)
  BY <1>1, <1>2 DEF Content!End, Seen
<1> QED BY <1>3 DEF Content!Next

LEMMA SeenFails ==
    ASSUME TypeOK, NEW r \in Requests, Fail(r), req[r].pc # "off"
    PROVE  Content!Next
<1>1. PICK ended \in SUBSET Requests : ended = {r}
  OBVIOUS
<1>2. req' = [i \in Requests |-> IF i \in ended THEN Idle("failed") ELSE req[i]]
  BY <1>1 DEF Fail, Set, TypeOK
<1>3. UNCHANGED head /\ \A i \in ended : req[i].pc # "off"
  BY <1>1 DEF Fail, world
<1> QED BY <1>2, <1>3, SeenEnds

\* What each step of a fetch is to the user.
LEMMA FetchSeen ==
    ASSUME IInv, NEW r \in Requests, Fetch(r)
    PROVE  Content!Next \/ UNCHANGED Content!vars
<1>0. TypeOK /\ RequestInv /\ CacheInv
  BY DEF IInv
<1>a. PICK q0 : q0 = req[r]
  OBVIOUS
<1>b. q0 \in Request /\ HasIts(q0) /\ Sound(q0)
  BY <1>0, <1>a, RequestType DEF RequestInv
<1>w. Working = {"lookup", "shared", "tree", "walking", "prefetching", "storing",
                 "caching", "sharing", "prepared"}
  BY DEF Working, Active
<1>1. CASE Resolve(r)
  <2>1. PICK q : q = [q0 EXCEPT !.commit = head,
                                !.pc = IF q0.policy = "force" THEN "tree" ELSE "lookup"]
    OBVIOUS
  <2>2. q.pc \in {"tree", "lookup"} /\ q.commit = head
    BY <1>b, <2>1 DEF Request
  <2>3. Set(r, q) /\ q0.pc = "resolving" /\ UNCHANGED head
    BY <1>1, <1>a, <2>1 DEF Resolve, world
  <2>4. Seen' = [Seen EXCEPT ![r] = MountOf(q)]
    BY <1>0, <2>3, SeenSet
  <2>5. MountOf(q) = [Content!Bare("pinned") EXCEPT !.commit = head]
    BY <2>2 DEF MountOf, MountState, Content!Bare
  <2>6. MountOf(req[r]).state = "asked"
    BY <1>a, <2>3 DEF MountOf, MountState
  <2>7. Content!Pin(r)
    BY <2>3, <2>4, <2>5, <2>6 DEF Content!Pin, Seen
  <2> QED BY <2>7 DEF Content!Next
<1>2. CASE RequestFails(r) \/ StoreFails(r) \/ MountFails(r)
  <2>1. Fail(r) /\ req[r].pc # "off"
    BY <1>2 DEF RequestFails, StoreFails, MountFails
  <2> QED BY <1>0, <2>1, SeenFails
<1>3. CASE TreeHit(r)
  <2>1. PICK s, known : /\ s = trees[q0.at][q0.commit]
                        /\ known = CollectSnapshotBlobHexes(q0.at, s)
    OBVIOUS
  <2>2. q0.at \in Machines /\ q0.commit \in Commits
    BY <1>a, <1>b, <1>3 DEF TreeHit, HasIts, Active, Resolved
  <2>3. s.commit = q0.commit
    <3>1. s \notin {None, Stale}
      BY <1>a, <1>3, <2>1 DEF TreeHit
    <3>2. Good(s, q0.commit)
      BY <1>0, <2>1, <2>2 DEF CacheInv
    <3> QED BY <3>1, <3>2 DEF Good, IsTheTree
  <2>4. Prepared(r, s, known) /\ UNCHANGED head /\ q0.pc \in Working
    BY <1>a, <1>w, <1>3, <2>1 DEF TreeHit, world
  <2> QED BY <1>0, <1>a, <2>3, <2>4, SeenPrepared
<1>4. CASE TreeMiss(r)
  <2>1. PICK q : q = [q0 EXCEPT !.pc = IF q0.at \in Redis THEN "shared" ELSE "tree"]
    OBVIOUS
  <2>2. q.pc \in Working /\ q0.pc \in Working /\ q.commit = q0.commit
    BY <1>a, <1>b, <1>w, <1>4, <2>1 DEF TreeMiss, Request
  <2>3. Set(r, q) /\ UNCHANGED head
    BY <1>a, <1>4, <2>1 DEF TreeMiss, world
  <2> QED BY <1>0, <1>a, <2>2, <2>3, SeenWorks
<1>5. CASE SharedGet(r)
  <2>1. PICK s, known : /\ s = shared[q0.commit]
                        /\ known = CollectSnapshotBlobHexes(q0.at, s)
    OBVIOUS
  <2>2. q0.commit \in Commits
    BY <1>a, <1>b, <1>5 DEF SharedGet, HasIts, Active, Resolved
  <2>3. s.commit = q0.commit
    BY <1>0, <1>a, <1>5, <2>1, <2>2 DEF SharedGet, CacheInv, Good, IsTheTree
  <2>4. Prepared(r, s, known) /\ UNCHANGED head /\ q0.pc \in Working
    BY <1>a, <1>w, <1>5, <2>1 DEF SharedGet
  <2> QED BY <1>0, <1>a, <2>3, <2>4, SeenPrepared
<1>6. CASE SharedMiss(r)
  <2>1. PICK q : q = [q0 EXCEPT !.pc = "tree"]
    OBVIOUS
  <2>2. q.pc \in Working /\ q0.pc \in Working /\ q.commit = q0.commit
    BY <1>a, <1>b, <1>w, <1>6, <2>1 DEF SharedMiss, Request
  <2>3. Set(r, q) /\ UNCHANGED head
    BY <1>a, <1>6, <2>1 DEF SharedMiss, world
  <2> QED BY <1>0, <1>a, <2>2, <2>3, SeenWorks
<1>7. CASE FetchTree(r)
  <2>1. PICK q : q = [q0 EXCEPT !.tree = Tree[q0.commit], !.pc = "prefetching"]
    OBVIOUS
  <2>2. q.pc \in Working /\ q0.pc \in Working /\ q.commit = q0.commit
    BY <1>a, <1>b, <1>w, <1>7, <2>1 DEF FetchTree, Request
  <2>3. Set(r, q) /\ UNCHANGED head
    BY <1>a, <1>7, <2>1 DEF FetchTree, world
  <2> QED BY <1>0, <1>a, <2>2, <2>3, SeenWorks
<1>8. CASE FetchTreeTruncated(r)
  <2>1. PICK q : q = [q0 EXCEPT !.stack = {Root}, !.pc = "walking"]
    OBVIOUS
  <2>2. q.pc \in Working /\ q0.pc \in Working /\ q.commit = q0.commit
    BY <1>a, <1>b, <1>w, <1>8, <2>1 DEF FetchTreeTruncated, Request
  <2>3. Set(r, q) /\ UNCHANGED head
    BY <1>a, <1>8, <2>1 DEF FetchTreeTruncated, world
  <2> QED BY <1>0, <1>a, <2>2, <2>3, SeenWorks
<1>9. CASE \E d \in Dirs : Walk(r, d)
  <2>1. PICK d \in Dirs : Walk(r, d)
    BY <1>9
  <2>2. PICK sub, rest : /\ sub = Subtree(q0.commit, d)
                         /\ rest = (q0.stack \ {d}) \cup (sub \cap Trees)
    OBVIOUS
  <2>3. PICK q : q = [q0 EXCEPT !.tree = @ \cup sub, !.stack = rest,
                                !.pc = IF rest = {} THEN "prefetching" ELSE "walking"]
    OBVIOUS
  <2>4. q.pc \in Working /\ q0.pc \in Working /\ q.commit = q0.commit
    BY <1>a, <1>b, <1>w, <2>1, <2>3 DEF Walk, Request
  <2>5. Set(r, q) /\ UNCHANGED head
    BY <1>a, <2>1, <2>2, <2>3 DEF Walk, world
  <2> QED BY <1>0, <1>a, <2>4, <2>5, SeenWorks
<1>10. CASE \E got \in SUBSET (Files \cup Links) : Tarball(r, got)
  <2>1. PICK got \in SUBSET (Files \cup Links) : Tarball(r, got)
    BY <1>10
  <2>2. PICK q : q = [q0 EXCEPT !.policy = "disabled"]
    OBVIOUS
  <2>3. q.pc \in Working /\ q0.pc \in Working /\ q.commit = q0.commit
    BY <1>a, <1>b, <1>w, <2>1, <2>2 DEF Tarball, Request
  <2>4. Set(r, q) /\ UNCHANGED head
    BY <1>a, <2>1, <2>2 DEF Tarball, world
  <2> QED BY <1>0, <1>a, <2>3, <2>4, SeenWorks
<1>11. CASE \E got \in SUBSET (Files \cup Links) : PrefetchAndBuild(r, got)
  <2>1. PICK got \in SUBSET (Files \cup Links) : PrefetchAndBuild(r, got)
    BY <1>11
  <2>2. PICK s : s = Built(q0.at, q0.commit, q0.tree, Inlined(q0.at, q0.tree, got))
    OBVIOUS
  <2>3. PICK q : q = [q0 EXCEPT !.snap = s, !.left = Objects(s), !.pc = "storing"]
    OBVIOUS
  <2>4. q.pc \in Working /\ q0.pc \in Working /\ q.commit = q0.commit
    BY <1>a, <1>b, <1>w, <2>1, <2>3 DEF PrefetchAndBuild, Request
  <2>5. Set(r, q) \/ Set(r, Idle("failed"))
    BY <1>a, <2>1, <2>2, <2>3 DEF PrefetchAndBuild
  <2>6. UNCHANGED <<caches, world>> /\ UNCHANGED head
    BY <2>1 DEF PrefetchAndBuild, world
  <2>7. CASE Set(r, q)
    BY <1>0, <1>a, <2>4, <2>6, <2>7, SeenWorks
  <2>8. CASE Set(r, Idle("failed"))
    <3>1. Fail(r) /\ req[r].pc # "off"
      BY <1>a, <1>w, <2>4, <2>6, <2>8 DEF Fail
    <3> QED BY <1>0, <3>1, SeenFails
  <2> QED BY <2>5, <2>7, <2>8
<1>12. CASE \E o \in req[r].left : StoreDirectory(r, o)
  <2>1. PICK o \in req[r].left : StoreDirectory(r, o)
    BY <1>12
  <2>2. PICK q : q = [q0 EXCEPT !.left = @ \ {o},
                                !.pc = IF q0.left = {o} THEN "caching" ELSE "storing"]
    OBVIOUS
  <2>3. q.pc \in Working /\ q0.pc \in Working /\ q.commit = q0.commit
    BY <1>a, <1>b, <1>w, <2>1, <2>2 DEF StoreDirectory, Request
  <2>4. Set(r, q) /\ UNCHANGED head
    BY <1>a, <2>1, <2>2 DEF StoreDirectory, world
  <2> QED BY <1>0, <1>a, <2>3, <2>4, SeenWorks
<1>13. CASE CacheTree(r)
  <2>1. PICK s, known : s = q0.snap /\ known = FetchedBlobs(s)
    OBVIOUS
  <2>2. q0.pc = "caching" /\ s.commit = q0.commit /\ q0.pc \in Working
    BY <1>a, <1>b, <1>w, <1>13, <2>1 DEF CacheTree, Sound, Holding, IsTheTree
  <2>3. PICK q : q = [q0 EXCEPT !.pc = "sharing"]
    OBVIOUS
  <2>4. q.pc \in Working /\ q.commit = q0.commit
    BY <1>b, <1>w, <2>3 DEF Request
  <2>5. /\ Set(r, q) \/ Prepared(r, s, known)
        /\ UNCHANGED head
    BY <1>a, <1>13, <2>1, <2>3 DEF CacheTree
  <2>6. CASE Set(r, q)
    BY <1>0, <1>a, <2>2, <2>4, <2>5, <2>6, SeenWorks
  <2>7. CASE Prepared(r, s, known)
    BY <1>0, <1>a, <2>2, <2>5, <2>7, SeenPrepared
  <2> QED BY <2>5, <2>6, <2>7
<1>14. CASE ShareTree(r)
  <2>1. PICK s, known : s = q0.snap /\ known = FetchedBlobs(s)
    OBVIOUS
  <2>2. s.commit = q0.commit /\ q0.pc \in Working
    BY <1>a, <1>b, <1>w, <1>14, <2>1 DEF ShareTree, Sound, Holding, IsTheTree
  <2>3. Prepared(r, s, known) /\ UNCHANGED head
    BY <1>a, <1>14, <2>1 DEF ShareTree, world
  <2> QED BY <1>0, <1>a, <2>2, <2>3, SeenPrepared
<1>15. CASE \E d \in Dirs : Mount(r, d)
  <2>1. PICK q : q = [q0 EXCEPT !.pc = "mounted"]
    OBVIOUS
  <2>2. Set(r, q) /\ q0.pc = "prepared" /\ UNCHANGED head
    BY <1>a, <1>15, <2>1 DEF Mount, world
  <2>3. q.pc = "mounted" /\ q.commit = q0.commit /\ q.snap = q0.snap
    BY <1>b, <2>1 DEF Request
  <2>4. IsTheTree(q0.snap, q0.commit) /\ q0.commit \in Commits
    BY <1>b, <2>2 DEF Sound, Holding, HasIts, Resolved, Active
  <2>5. Shown(q0.snap) = CommitContents[q0.commit]
    <3>1. /\ q0.snap.entries = Tree[q0.commit] \ Submodules
          /\ q0.snap.entries \cap Links \subseteq q0.snap.inl
      BY <2>4 DEF IsTheTree
    <3>2. q0.snap.entries \cap Links \cap q0.snap.inl = Tree[q0.commit] \cap Links
      BY <3>1, TreeAssumption
    <3> QED BY <2>4, <3>1, <3>2 DEF Shown, CommitContents
  <2>6. Seen' = [Seen EXCEPT ![r] = MountOf(q)]
    BY <1>0, <2>2, SeenSet
  <2>7. MountOf(q) = [state |-> "mounted", commit |-> q0.commit,
                      content |-> CommitContents[q0.commit]]
    BY <2>3, <2>5 DEF MountOf, MountState
  <2>8. MountOf(q0) = [state |-> "pinned", commit |-> q0.commit, content |-> None]
    BY <2>2 DEF MountOf, MountState
  <2>9. Seen[r] = MountOf(q0)
    BY <1>a DEF Seen
  <2>10. MountOf(q) = [state |-> "mounted", commit |-> Seen[r].commit,
                       content |-> CommitContents[Seen[r].commit]]
    <3>1. Seen[r].commit = q0.commit
      BY <2>8, <2>9
    <3> QED BY <2>7, <3>1
  <2>11. Seen[r].state = "pinned"
    BY <2>8, <2>9
  <2>12. Content!Show(r)
    BY <2>2, <2>6, <2>10, <2>11 DEF Content!Show, Seen
  <2> QED BY <2>12 DEF Content!Next
<1> QED
  BY <1>1, <1>2, <1>3, <1>4, <1>5, <1>6, <1>7, <1>8, <1>9, <1>10, <1>11, <1>12,
     <1>13, <1>14, <1>15 DEF Fetch

\* A request that has not begun is on no machine, so that no crash ends it.
Unbegun == \A r \in Requests : req[r].pc = "off" => req[r].at = None

\* A step of a fetch is its request's alone, and the request has begun.
LEMMA FetchBegun ==
    ASSUME TypeOK, NEW r \in Requests, Fetch(r)
    PROVE  req'[r].pc # "off" /\ \A i \in Requests \ {r} : req'[i] = req[i]
<1>0. req \in [Requests -> Request]
  BY DEF TypeOK
<1>s. ASSUME NEW q, Set(r, q), q.pc # "off"
      PROVE  req'[r].pc # "off" /\ \A i \in Requests \ {r} : req'[i] = req[i]
  BY <1>0, <1>s DEF Set
<1>f. Idle("failed").pc # "off"
  BY DEF Idle
<1>p. ASSUME NEW s, NEW known, Prepared(r, s, known)
      PROVE  req'[r].pc # "off" /\ \A i \in Requests \ {r} : req'[i] = req[i]
  <2>1. PICK q : q = [Idle("prepared") EXCEPT !.at = req[r].at, !.commit = s.commit,
                                              !.snap = s, !.known = known]
    OBVIOUS
  <2>2. q.pc = "prepared"
    BY <2>1 DEF Idle
  <2> QED BY <1>p, <1>s, <2>1, <2>2 DEF Prepared
<1>1. CASE RequestFails(r) \/ StoreFails(r) \/ MountFails(r)
  BY <1>1, <1>s, <1>f DEF RequestFails, StoreFails, MountFails, Fail
<1>2. CASE TreeHit(r) \/ SharedGet(r) \/ ShareTree(r)
  BY <1>2, <1>p DEF TreeHit, SharedGet, ShareTree
<1>3. CASE CacheTree(r)
  BY <1>0, <1>3, <1>s, <1>p DEF CacheTree, Request
<1>4. CASE Resolve(r)
  BY <1>0, <1>4, <1>s DEF Resolve, Request
<1>5. CASE TreeMiss(r) \/ SharedMiss(r)
  BY <1>0, <1>5, <1>s DEF TreeMiss, SharedMiss, Request
<1>6. CASE FetchTree(r) \/ FetchTreeTruncated(r)
  BY <1>0, <1>6, <1>s DEF FetchTree, FetchTreeTruncated, Request
<1>7. CASE \E d \in Dirs : Walk(r, d)
  BY <1>0, <1>7, <1>s DEF Walk, Request
<1>8. CASE \E got \in SUBSET (Files \cup Links) : Tarball(r, got)
  BY <1>0, <1>8, <1>s DEF Tarball, Request
<1>9. CASE \E got \in SUBSET (Files \cup Links) : PrefetchAndBuild(r, got)
  BY <1>0, <1>9, <1>s, <1>f DEF PrefetchAndBuild, Request
<1>10. CASE \E o \in req[r].left : StoreDirectory(r, o)
  BY <1>0, <1>10, <1>s DEF StoreDirectory, Request
<1>11. CASE \E d \in Dirs : Mount(r, d)
  BY <1>0, <1>11, <1>s DEF Mount, Request
<1> QED
  BY <1>1, <1>2, <1>3, <1>4, <1>5, <1>6, <1>7, <1>8, <1>9, <1>10, <1>11 DEF Fetch

LEMMA UnbegunStep == TypeOK /\ Unbegun /\ [Next]_vars => Unbegun'
<1> SUFFICES ASSUME TypeOK, Unbegun, [Next]_vars PROVE Unbegun'
  OBVIOUS
<1>0. req \in [Requests -> Request]
  BY DEF TypeOK
<1>q. ASSUME UNCHANGED req PROVE Unbegun'
  BY <1>q DEF Unbegun
<1>1. CASE UNCHANGED vars
  BY <1>1, <1>q DEF vars
<1>2. ASSUME NEW r \in Requests, NEW m \in Machines, NEW policy \in Policies,
             Begin(r, m, policy)
      PROVE  Unbegun'
  <2>1. PICK q : q = [Idle("resolving") EXCEPT !.at = m, !.policy = policy]
    OBVIOUS
  <2>2. q.pc = "resolving"
    BY <2>1 DEF Idle
  <2>3. req' = [req EXCEPT ![r] = q]
    BY <1>2, <2>1 DEF Begin, Set
  <2> QED BY <1>0, <2>2, <2>3 DEF Unbegun
<1>3. ASSUME NEW r \in Requests, Fetch(r) PROVE Unbegun'
  BY <1>3, FetchBegun DEF Unbegun
<1>4. ASSUME NEW r \in Requests, NEW e \in Files, ReadFile(r, e) PROVE Unbegun'
  <2>1. PICK q : q = [req[r] EXCEPT !.known = @ \cup {e}]
    OBVIOUS
  <2>2. q.pc = "mounted"
    BY <1>0, <1>4, <2>1 DEF ReadFile, Request
  <2>3. req' = [req EXCEPT ![r] = q]
    BY <1>4, <2>1 DEF ReadFile, ProviderFetchBlob, Set
  <2> QED BY <1>0, <2>2, <2>3 DEF Unbegun
<1>5. ASSUME NEW m \in Machines, NEW o,
             Evict(m, o) \/ EvictBlob(m, o) \/ PruneTrees(m)
      PROVE  Unbegun'
  BY <1>5, <1>q DEF Evict, EvictBlob, PruneTrees
<1>6. ASSUME NEW m \in Machines, Crash(m) PROVE Unbegun'
  <2>1. \A i \in Requests : req'[i] = req[i] \/ req'[i] = Idle("failed")
    BY <1>6 DEF Crash
  <2> QED BY <2>1 DEF Unbegun, Idle
<1>7. ASSUME NEW c \in Commits, MoveRef(c) PROVE Unbegun'
  BY <1>7, <1>q DEF MoveRef
<1> QED
  BY <1>1, <1>2, <1>3, <1>4, <1>5, <1>6, <1>7 DEF Next

\* Every step of the pipeline is a step of MountContent or none.
LEMMA StepSeen ==
    ASSUME IInv, Unbegun, [Next]_vars
    PROVE  Content!Next \/ UNCHANGED Content!vars
<1>0. TypeOK
  BY DEF IInv
<1>q. ASSUME UNCHANGED <<head, req>> PROVE UNCHANGED Content!vars
  BY <1>q DEF Content!vars
<1>1. CASE UNCHANGED vars
  BY <1>1, <1>q DEF vars
<1>2. ASSUME NEW r \in Requests, NEW m \in Machines, NEW policy \in Policies,
             Begin(r, m, policy)
      PROVE  Content!Next
  <2>1. PICK q : q = [Idle("resolving") EXCEPT !.at = m, !.policy = policy]
    OBVIOUS
  <2>2. MountOf(q) = Content!Bare("asked")
    BY <2>1 DEF Idle, MountOf, MountState, Content!Bare
  <2>3. Set(r, q) /\ req[r].pc = "off" /\ UNCHANGED head
    BY <1>2, <2>1 DEF Begin
  <2>4. Seen' = [Seen EXCEPT ![r] = MountOf(q)]
    BY <1>0, <2>3, SeenSet
  <2>5. MountOf(req[r]).state = "idle"
    BY <2>3 DEF MountOf, MountState
  <2>6. Content!Ask(r)
    BY <2>2, <2>3, <2>4, <2>5 DEF Content!Ask, Seen
  <2> QED BY <2>6 DEF Content!Next
<1>3. ASSUME NEW r \in Requests, Fetch(r)
      PROVE  Content!Next \/ UNCHANGED Content!vars
  BY <1>3, FetchSeen
<1>4. ASSUME NEW r \in Requests, NEW e \in Files, ReadFile(r, e)
      PROVE  UNCHANGED Content!vars
  <2>1. PICK q0, q : q0 = req[r] /\ q = [q0 EXCEPT !.known = @ \cup {e}]
    OBVIOUS
  <2>2. q0 \in Request
    BY <1>0, <2>1, RequestType
  <2>3. q.pc = q0.pc /\ q.commit = q0.commit /\ q.snap = q0.snap
    BY <2>1, <2>2 DEF Request
  <2>4. Set(r, q) /\ UNCHANGED head
    BY <1>4, <2>1 DEF ReadFile, ProviderFetchBlob, world
  <2>5. MountOf(q) = MountOf(req[r])
    BY <2>1, <2>3 DEF MountOf
  <2> QED BY <1>0, <2>4, <2>5, SeenStutters
<1>5. ASSUME NEW m \in Machines, NEW o,
             Evict(m, o) \/ EvictBlob(m, o) \/ PruneTrees(m)
      PROVE  UNCHANGED Content!vars
  BY <1>5, <1>q DEF Evict, EvictBlob, PruneTrees
<1>6. ASSUME NEW m \in Machines, Crash(m) PROVE Content!Next
  <2>1. PICK ended \in SUBSET Requests : ended = {r \in Requests : req[r].at = m}
    OBVIOUS
  <2>2. req' = [r \in Requests |-> IF r \in ended THEN Idle("failed") ELSE req[r]]
    BY <1>6, <2>1 DEF Crash
  <2>3. \A r \in ended : req[r].pc # "off"
    BY <2>1, NoneAssumption DEF Unbegun
  <2>4. UNCHANGED head
    BY <1>6 DEF Crash
  <2> QED BY <1>0, <2>2, <2>3, <2>4, SeenEnds
<1>7. ASSUME NEW c \in Commits, MoveRef(c) PROVE Content!Next
  <2>1. Content!MoveRef(c)
    BY <1>7 DEF MoveRef, Content!MoveRef
  <2> QED BY <2>1 DEF Content!Next
<1> QED
  BY <1>1, <1>2, <1>3, <1>4, <1>5, <1>6, <1>7 DEF Next

\* MountsOneCommit: whatever prepare_mount finds in the caches, walks, prefetches
\* or fails at, its user sees a request that takes the commit of the ref at one
\* moment and then that commit's content, whole and unchanged.
THEOREM Refinement == Spec => MountsOneCommit
<1>1. Init => Content!Init
  <2> SUFFICES ASSUME Init PROVE Content!Init
    OBVIOUS
  <2>1. Seen = [r \in Requests |-> Content!Bare("idle")]
    BY IdleSeen DEF Seen, Init
  <2> QED BY <2>1 DEF Init, Content!Init, Seen
<1>2. Init => Unbegun
  BY DEF Init, Unbegun, Idle
<1>3. IInv => TypeOK
  BY DEF IInv
<1>4. IInv /\ Unbegun /\ [Next]_vars => [Content!Next]_(Content!vars)
  BY StepSeen
<1> QED
  BY <1>1, <1>2, <1>3, <1>4, InvInit, InvStep, UnbegunStep, PTL
  DEF Spec, MountsOneCommit, Content!Spec
=============================================================================
