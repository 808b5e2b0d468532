# TLA+ models of ctxfs

ctxfs mounts GitHub repositories and registry packages as read-only local
directories. This directory holds TLA+ specifications of the parts of it whose
correctness depends on the order in which things happen, the TLC
configurations that check them on small instances, and TLAPS proofs that hold
for every instance. Paths below are relative to the repository; `cache/lib.rs`
stands for `crates/ctxfs-cache/src/lib.rs` and so on.

    tlc -config MountsSafety.cfg MCMounts.tla      # model-check one run
    tlapm MountsProofs.tla                         # check one proof module

`PROJECT.json` lists the components, the runs, which lines each definition
models ("map"), for each property a mutation of the model that breaks it, the
hazards of the code, and the theorems.

## 1. The system

    ctxfs (CLI) ---- tarpc over a Unix socket ----> daemon
    ContextFS.app -> ctxfs-app-helper (JSON-RPC) -> daemon
    daemon -> GitHubProvider -> GitHub
       |         \-> BlobCache, tree cache, resolution cache (disk), Redis
       +-> VfsState -> NFS server in the daemon            (backend nfs)
       |          \--> FSKit session <- TCP -> ContextFSExt (backend fskit)
       +-> mounts.json, PID file

| component | state | operations | talks to |
|---|---|---|---|
| **Blob cache** (`cache/lib.rs`, `reservation.rs`) | LRU map of entries, `total_bytes`, `blob_owners`, the reservation table, all behind one mutex; `max_bytes`, an atomic; files `sha1/..`, legacy `sha256/..`, `tmp/..` | `get`, `put`, `put_for`, `commit_atomic`, `BlobTempWriter::finalize`, `prune`, `prune_blobs`, `set_max_bytes`, `add_owner(s)`, `register_mount`, `unregister_mount`, `rebuild_index` at open | every provider and VFS of the daemon, on many threads |
| **Tree cache** (`cache/tree.rs`) | one file per commit, mtime order | `get`, `put`, `prune_all`, eviction | snapshot pipeline |
| **Resolution cache** (`cache/resolution.rs`) | map of `latest` answers with a TTL, persisted whole | `get`, `put`, `clear` | resolvers |
| **Shared tier** (`cache/shared.rs`, `cache-redis`) | none in the process | best-effort get and set of trees | snapshot pipeline |
| **Daemon: mounts** (`daemon.rs`, `mount_state.rs`, `fskit_mount.rs`) | registry of handles by source id, `mounts.json` | mount (NFS, FSKit), unmount, list, ejection watchers | blob cache reservations, provider, VFS, kernel |
| **Daemon: start and stop** (`daemon.rs`, `ipc/transport.rs`) | PID file, socket file | `run`, `cleanup`, `cleanup_stale_mounts` | the CLI's `stop`, signals |
| **VFS** (`vfs/state.rs`) | `nodes`, `dir_cache`, `dir_children`, `next_id` | `lookup`, `getattr`, `readdir`, `read`, `resolve_subpath` | provider, blob cache |
| **Adapters** (`nfs/fs.rs`, `fskit/adapter.rs`) | cookies given to the kernel, the unmount notifier | paging of listings | VFS, kernel |
| **Tarball prefetch** (`github.rs`, `provider-common/fetcher.rs`) | singleflight registry of `OnceCell` slots | `dispatch_tarball_for_requests`, `fetch_tarball_into_cache` | GitHub, blob cache |
| **Snapshot pipeline** (`github.rs`, `manifest/snapshot.rs`) | active source, manifest | `fetch_snapshot`, tree walk of truncated trees, `build_directories`, `prefetch_small_blobs`, `fetch_blob` | GitHub, caches |
| **Rate limits, counters** (`provider-common`) | gauges, atomic counters by repository | `classify`, `check_rate_limit`, merges | status RPC |
| **FSKit bridge** (`fskit-rs`, `ContextFSExt/Socket.swift`) | session, connections, pending promises | authenticate, request and response, reconnect | adapter, kernel extension |
| **App and helper** (`HelperClient.swift`, `app-helper/handler.rs`) | helper process, pending requests; cached daemon client | `send`, `consumeStream`, `dispatch_rpc` | daemon |
| **Configuration** (`core/config.rs`) | `config.toml` | layered load, `write_back` | CLI, helper |
| **Resolvers** (`provider-npm`, `-pypi`, `-crate`) | none | `latest` and pinned versions to a git ref | registries, resolution cache |
| **Command line** (`cli/main.rs`, `deps/mount.rs`, `symlink.rs`) | kernel NFS mounts, symlinks at the user's paths | `mount`, `deps mount`, `unmount`, `unmount --all`, `daemon stop` | daemon, `sudo mount`, the user's directories |
| **Setup, core types** | files written once | sequential scripts, parsing | all |

What is hard in it, and what makes each part correct:

* **Blob cache.** Mounts of several repositories share one byte budget. The
  byte count must be exact through overwrites and evictions; a repository
  within its reservation must not lose blobs to another; the eviction loop,
  which rotates protected entries to the back while it holds the mutex, must
  end, and must not give up while something could go. On disk, files are
  written, renamed, read and unlinked outside the mutex, so an entry and its
  file can come apart; a crash can come between any two steps.
* **Mounts.** Each mount registers its repository with the cache and each
  unmount gives it back; the unmount may come from an RPC, from Finder through
  a watcher, by replacement, or with the process. Registrations must balance,
  listed mounts must run, an ejected volume must free the extension's port.
* **VFS.** Directories are populated on first use by whichever call comes
  first, through four maps that no lock ties together. Lookups must answer the
  right entry, listings must be complete however they are cut into pages.
* **Tarball prefetch.** Concurrent mounts of one commit must share one
  download; a failed or abandoned leader must not strand its waiters, nor leave
  its result for later mounts.
* **Start and stop.** One daemon per cache directory; starting a second must
  not damage the first.
* **Requests.** `latest` is cached with a TTL, in memory and in a file; every
  answer of GitHub is counted once, though the bucket it belongs in changes
  its key when the ref is resolved; two mounts do all this at once.
* **Command line.** An NFS mount is two steps of two processes, the daemon's
  server and the kernel's mount under sudo. Either may fail or time out, in two
  terminals at once. No unmount may leave a kernel mount without a server, no
  server may be left that nobody was told of, and nothing of the user's removed.
* **Bridge and helper.** Answers must reach the request they belong to across
  timeouts, reconnections and restarts of a process.

`PROJECT.json` lists the hazards behind these one by one, with the line where
each bites and the properties that would catch it.

## 2. Modules

| module | models | proofs |
|---|---|---|
| `BlobCache` | `CacheState`: index, owners, reservations | `CacheProofs` |
| `BlobFiles` | the files, and the threads that write, read and unlink them | `CacheProofs` |
| `Mounts` | mount and unmount in the daemon, through restarts | `MountsProofs` |
| `TarballPrefetch` | the singleflight download of a commit's tarball | `ProviderProofs` |
| `VfsNodes` | the inode table, listings and reads behind both adapters | `VfsNodesProofs` |
| `Snapshots` | from a ref to a mounted tree: GitHub, both tree caches, the blob cache | `SnapshotsProofs` |
| `MountContent` | what `Snapshots` promises: a mount of one commit (abstract) | the refinement, in `SnapshotsProofs` |
| `DaemonStart` | daemon processes over one PID file, socket and `mounts.json` | `DaemonStartProofs` |
| `FskitBridge` | the extension's socket and the daemon's FSKit sessions | `FskitBridgeProofs` |
| `Requests` | resolving packages and refs, and the accounts of the GitHub API | `ProviderProofs` |
| `CliMounts` | the command line against the daemon, the kernel and the user | `CliMountsProofs` |

`MC*` modules instantiate them for TLC. `MCCache` has the two halves of the cache
in one run and `MCCommands` the command line and the requests: specifications that
share no variable, of which a behaviour takes one while the other rests.

### BlobCache

One action is one locked section of `cache/lib.rs`, except that one turn of an
eviction loop is an action and the mutex is held (`loop`) until the loop ends.
`lru` is the `LinkedHashMap`'s order, `size` its sizes, `owners` is
`blob_owners`, `reservations` the table (a refcount of 0 is a missing key).
`BeginInsert` is `lru_insert_evict` (233) up to the loop; `SkipProtected`,
`EvictUnprotected` and `EndInsert` are its turns; `PruneOldest` and `EndPrune`
those of `evict_oldest`, which `prune`, `prune_blobs` and `set_max_bytes` run
without looking at reservations. `set_max_bytes` stores the limit before it
takes the lock (`SetMaxBytes`, then `Shrink`), so an insertion may come in
between. `register_mount` and `unregister_mount` load the limit before they take it
(324, 364): `LoadLimit`, then the registration with its rebalance as one locked
section, with the limit as it was loaded. `divided` is the limit that the default
shares in force were made from. The daemon gives `register_mount` no blobs to claim
(daemon.rs:532), other callers may (`Seeds`). Sizes are unbounded naturals: `total_bytes` is a `u64` of bytes on a
disk and does not wrap.

### BlobFiles

`file` says of each path whether it is absent, partial or whole; `index` which
algorithm directory each entry names. A blob is stored and indexed under its
digest's own algorithm (`Algo`): Git blobs under sha1, directory objects
(snapshot.rs:61) under sha256; files of older releases lie under sha256 too, and
`rebuild_index` prefers a sha1 twin. A writer goes through its store step by
step: `put` (213) opens and truncates the canonical file, then completes it or
fails; `commit_atomic` and `BlobTempWriter::finalize` stage bytes elsewhere and
rename; both then index under the mutex, where any set of entries may be evicted
(which ones is BlobCache's matter), and unlink those after it. An unlink may fail
unseen (188, `UnlinkFails`). `attached` and `truncator` model what open descriptors
do when the path is renamed over, unlinked, or truncated by another `put`.
`CrashAndReopen` is a crash and `rebuild_index`. `get` is a lookup under the mutex
and a read after it. Two histories name what the code loses: `orphans` the files
without an entry that a failed removal, a failed `put`, or a new store of a blob
whose entry was a legacy one has left; `broken` the files that a failed or crashed
`put` has cut short.

### Mounts

A request walks through `prepare_mount` (453-588) and `do_mount_nfs` or
`do_mount_fskit`; a task through `do_unmount_by_id` (839-890). Both appear
where they touch shared state: the registry, the reservation refcounts, the
running servers and sessions (`up`), the kernel's volumes, the notifications,
and `mounts.json`, whose read and write are separate steps because no lock
covers them. `Register` drops the handle it replaces, and `Stop` is what
dropping does: a session runs `umount -f`, which calls back and signals its
watcher. `CrashAndRestart` loses everything but the volumes and `mounts.json`,
then runs `cleanup_stale_mounts`; `StopAndRestart` is `cleanup`, in one step.

### TarballPrefetch

A call of `dispatch_tarball_for_requests` (github.rs:1042) looks at the cache
(`Check`), claims or joins the slot (`Claim`), and either initialises the
`OnceCell` (`Begin`, up to `TARBALL_REDIRECT_MAX_DEPTH` redirects, `Answer`,
`Extract` for each archive entry, `FinishOk` or `FinishErr`) or is answered
(`Await`); the leader removes the slot (`Release`). `Tree` is the manifest and
`Archive` what GitHub sends: `Kept` says which entries end up in the cache, those
with a safe name, of a regular file, at a path the manifest has, with the digest
the manifest has. `Cancel` drops a caller's future: the cell is given back, a
leader's slot stays, and the extraction goes on in its blocking thread. In the
daemon the call runs inside `spawn_blocking` and `block_on`, so futures are
dropped by a panic or by other users of the library only; the properties say
which guarantees need it not to happen. `missing` are the manifest's blobs that
are not in the cache.

### VfsNodes

The four maps as functions; each call is a sequence of `Run` steps between
which others may run, as between two awaits or two locks of `ensure_populated`
(state.rs:306-403). `adapter` is chosen at first: NFS items are the inodes, FSKit
items the inodes plus one; a listing is continued after the inode of the last
entry over NFS, after an index over FSKit; an error has a status of either
protocol. Lookups (with `.` and `..`), listings, reads in chunks (inlined, cached
or fetched), links, attributes and refused writes are the calls. `held` is what
the kernel was told: an item, where it found it, its attributes and which entry it
takes it for. `SizeOf` is the size the manifest gives a file, 0 when GitHub's tree
gave none (`entry.size.unwrap_or(0)`, github.rs:918); it is taken to be one of the
blob, and the kernel reads no byte beyond it.
`restored` remembers the directories whose children were stored twice.

### Snapshots

A request goes through `fetch_snapshot_inner` (github.rs:1605) and the part of
`prepare_mount` around it: it resolves the ref, looks into the machine's tree
cache and into Redis, or asks GitHub for the tree, walks it directory by
directory when the answer is truncated, prefetches small blobs and links, stores
the directory objects one by one, and puts the snapshot into both tree caches.
Each is a step, and each may fail where the code has an error path. Machines
share Redis only. A digest stands for everything below its directory, so an
object is the set of entries below it and which of them are inlined. `evicted`
and `named` are history: what a blob cache has lost, and what the ref named while
a request was resolving it. `Content` maps a request to `MountContent`: every
step between the resolved ref and the answer is invisible, and what a mount shows
is the entries and the links' targets of its snapshot. `Subtree` takes GitHub's answer for one directory as
whole; the code does not look at `truncated` there (github.rs:478).

### DaemonStart

A process walks through `Daemon::run` (daemon.rs:176): `cleanup_stale_mounts`,
the PID check and write, `listen` (unlink, bind), serving, and `cleanup`, step by
step as the files are touched. Others start, run and die meanwhile; `Stop` is
`ctxfs daemon stop`, and `ReusePid` lets an unrelated process answer for a dead
PID. `raced` records that a start passed the PID check in one of the two windows
that check-then-write leaves open (before another's write, after another's
removal): in them two daemons run, and nothing is claimed.

### FskitBridge

`call` is a thread of the extension inside `Socket.send`; `channel`, `lock`,
`pending` are `channel`, `channelLock` and `pendingPromises`. What runs on the
one NIO event loop does so only while `loop` is free, since taking a channel
down and `channelInactive` are one turn of it. A connection has two ends: the
extension's, and the task of `handle_stream` (socket.rs:116), which answers one
request at a time. Sessions follow one another on the port; `Stop` drops one,
its connections end when their tasks take the broadcast, and `Crash` kills the
daemon. Tokens are optional at both ends, and the extension and the daemon pass
none at present (Bridge.swift:21, fskit_mount.rs:83); the model has all the
cases of agreement and disagreement. Random 64-bit ids are taken to be distinct.

### Requests

A mount request up to the snapshot's fetch: `PrepareMount` (daemon.rs:453) asks
the resolution cache (`Hit`), a registry (`ResolveLatest`, then `ResolveNpm`,
`ResolvePyPI` or `ResolveCrate`) and stores the answer (`Put`, which persists the
whole map); then the provider resolves the git ref and goes on to the content.
Each answer of GitHub is classified (`Classify`, rate_limit.rs) and counted in
steps, as the code does: the bucket is looked up or made (`GetJson`), then added to
(`Record`), a throttle marked (`Mark`) and counted (`RecordThrottle`). A bucket
is an `Arc`, so `table` holds numbers of `buckets`; `DropPlaceholder` takes the
placeholder of the ref out of the table and `MergeIn` adds what it held to the
commit's bucket. `Restart` keeps the file only. `crossed` are the refs that two
mounts were resolving at once, and `slowest` the longest time between a registry's
answer and its entry. One package, whose versions all registries get at once; one
request of a mount at a time.

### CliMounts

A command is a process with its RPCs and its calls of `sudo mount`, `umount` and
the file system, one step each: `mount` to a point or, over FSKit, to a link path,
`deps mount` and `--mount-dir` (a batch, which skips what the daemon lists),
`--server-only`, `unmount` by path or id, `unmount --all`, `daemon stop`. The
daemon is a registry of servers by source; `kernel` the stack of mounts at each
point. A mount RPC may time out while the daemon goes on (`LateMount`); kernel
mounts and umounts may fail. The path of an FSKit link is looked at (`StatPath`),
checked once more (`CheckLink`, safe_remove_symlink's lstat and readlink) and
cleared (`RemoveDir`, `RemoveLink`) in steps between which `UserWrites` may put
anything in the place of anything there, a ctxfs link included. `told` are the
servers somebody was told of by an error, or asked for (`--server-only`). `Pairs`
are the sources and paths a user mounts; a source may be mounted at several paths
and a path be used for several sources, one at a time or at once. A daemon that has
stopped stays down.

## 3. Runs

| run | question | states |
|---|---|---|
| `cache` | exact bytes, reservations, rebalance, progress of eviction, under every interleaving of stores, claims, mounts and prunes; on disk, no file outside the byte count but named ones, and no get of a truncated file but where a `put` is, failed or crashed | 2.6 M |
| `mounts` | the refcount is off by lost mounts only, mounts keep reservations, listed mounts run, ejected sessions end | 65 k |
| `mounts_refcount` | *violated*: a failed backend leaves its registration | |
| `tarball` | one download at a time, no stale answers, `ok` means that what the archive carries is cached, every caller returns | 403 k |
| `vfs` | an item means one entry, listings and reads are complete, every call answered, over NFS and FSKit | 814 k |
| `snapshots` | what is mounted and cached is the commit's tree, cached trees were stored, owners are told; the pipeline implements `MountContent` | 2.2 M |
| `snapshots_shared` | *violated*: a tree from Redis comes without its directories | |
| `daemon_start` | the serving daemon owns its files, a stopped one leaves no volume, a stop ends | 589 k |
| `daemon_second_start` | *violated*: a second start unmounts the running daemon's volumes | |
| `fskit_bridge` | own answers, own failures, no refusals, every call returns | 628 k |
| `commands` | no server left unannounced at a point of one source, the user's files survive; and of the requests: no answer counted twice or lost, every resolution shown, versions within the TTL | 1.1 M |
| `commands_unmount` | *violated*: an unmount by id leaves the kernel mount without its server | |

**Bounds.**

* `cache`, the index: three blobs of 1 or 2 bytes under limits of 2 and 4, so that
  nothing, some or all fit; two repositories, so that blobs are owned by none,
  one or both; `MaxRefcount` 2, the first count at which an unmount is not the
  last; one thread that holds a limit it loaded while stores, prunes and set_max_bytes
  have the lock (the proof has any number of them). `register_mount` claims no blob or
  all. The files: two writers, which is what every race here takes, a reader, a Git
  blob that is stored both ways and a directory object that `put` stores;
  `MaxCrashes` 1, since a crash resets everything but the files and every set of
  whole files is initial. Blobs and repositories are interchangeable (symmetry).
* `mounts`: two requests, two ids of one repository (two mounts that share a
  reservation, or one id mounted twice), two tasks (an RPC against a watcher),
  `MaxRestarts` 1.
* `tarball`: three callers (leader, waiter, late one); a tree of two files, a
  link and a directory, and an archive with one file as it is, the other changed
  by `export-subst`, an unsafe name, the link as a link and its own directory;
  `MaxEvictions` and `MaxCancels` 1.
* `vfs`: two tasks, `MaxCalls` 3, a root with a file and a directory that holds
  a link, `PageSize` 1, so that a listing is always continued, and `ReadSize` 2 of
  a file of three bytes. Both adapters.
* `snapshots`: two machines with Redis, two requests, two commits that share a
  directory (one has a link, the other a submodule and a file of unknown size),
  thresholds that some of it passes and some does not, one commit cached by an
  older version; `MaxEvents` 2 moves, evictions, prunes and crashes together.
  Machines and requests are interchangeable.
* `daemon_start`: three daemons (one running, one starting, one that finds what
  they left), one volume since a daemon holds the extension's only port,
  `MaxFaults` 1 failing unmount, one daemon whose PID is reused.
* `fskit_bridge`: two calls, which is what a late answer, an overtaken handshake
  or a wrongly failed promise takes; two connections and two sessions, so that
  each is replaced once; one token, with which the ends agree or not;
  `MaxFaults` 1 crash or failing unmount.
* `commands`, the command line: two terminals, two sources, and two mounts at a
  time in the three ways that two meet: two sources at one point, one source at two
  points, and a source at a point and at an FSKit link. `MaxCommands` 3 (two that
  overlap and one that meets what they left), `MaxFaults` 1. Two mounts that share
  neither source nor point, and all mounts at once, are left out, the latter beyond
  TLC; the proofs have any number of them. The requests: two mounts, either of npm's `latest`
  and PyPI's pinned version, whose git ref is the same tag until the next release,
  or of a version crates.io may not have yet and the branch, which have refs of
  their own; two releases, a TTL of 1 and a clock up to 2, so that an entry is
  fresh, at its TTL and past it; `MaxEvents` 3 requests, restarts and failures;
  `MaxCalls` 2 answers of the API, the first number that can be lost or doubled.
  Terminals and mounts are interchangeable.

Deadlock is not checked where requests, mounts or calls are made a bounded
number of times: all may be over. In `cache` there always is a next step, and TLC
checks it.

**Fairness.** `Mounts`: a request whose session runs goes on to its answer, and
a task inside `do_unmount_by_id` goes on (weak fairness): both are ordinary code
on runtime threads without unbounded waits. A notification is received
eventually (strong fairness), as each watcher is its own task on a channel; the
model has a fixed set of tasks, which one watcher may find busy again and again.
Requests, RPCs, ejections and restarts have no fairness. `TarballPrefetch`: a
call that can go on does. This assumes that downloads end; the HTTP client sets
no timeout, and with a peer that never answers nor closes `EveryCallerReturns`
fails. `VfsNodes`: the runtime schedules every call and fetches end, with the
same reservation. `DaemonStart`: a process that was told to stop is scheduled,
and so is a mount request that has its session. `FskitBridge`: the threads and
the event loop of the extension run and its timers fire; nothing is assumed of
the daemon, so `EveryCallReturns` holds whatever it does.

**Findings.** The four violated runs, each quoting the sentence it refutes, are
under "findings" in `PROJECT.json`. In short:

1. `cleanup_stale_mounts` runs before the PID check: a second start unmounts the
   running daemon's volumes, then reports that a daemon is running.
2. The tree caches hold a commit and a root digest, not the directories. A tree
   from Redis is mounted without them and nothing lists, on this and every
   later mount of the commit.
3. `?` after `prepare_mount` skips `unregister_mount` (daemon.rs:631, 726-750): a
   mount whose backend does not start leaves its registration, and the repository
   reserved until the daemon restarts, although reservation.rs:56 calls the refcount
   the "Number of currently active mounts". So does a mount that another of its
   source replaces (780). `OnlyLostMountsDangle` says that these are all.
4. `ctxfs unmount <id>` of an NFS mount runs `umount` on the id, which fails with a
   warning, and then drops the server: "Unmounted", and a dead kernel mount is left
   (main.rs:1019), although the command takes an id (67) and "the CLI must do the
   kernel umount" (1018). `UnmountsAreWhole` fails in four more ways: `daemon stop`
   unmounts by id without any umount (333); a `sudo umount` that fails is only
   warned of; a mount that another terminal makes at the point between the umount
   and the call loses its server to the call; and of two sources at one point the
   umount takes the upper kernel mount, the call either server. (By the same search
   the cleanup that deps/mount.rs:34 promises of a failed kernel mount may end the
   other source's server.)

The models also show the following, for which there is no run:

* `put` truncates the canonical file in place (cache/lib.rs:222): a `get` of a blob
  that is stored again reads it cut short, and a crash or a full disk leaves a
  truncated blob that the next start indexes and serves until it is stored again
  (`ReadsAreWhole` has both as its conditions).
* A removal that fails (188), a `put` that fails, and a new store of a Git blob whose
  entry is a legacy sha256 one, which relabels the entry and forgets the file, leave
  files that `max_bytes` does not count until the next start (`orphans`).
* `set_max_bytes` between the load of the limit and the lock (324, 364), or after a
  rebalance, leaves default shares of the older limit until the next mount or
  unmount (`DefaultsFitPool` has `divided`).
* A file whose size GitHub does not give is told to the kernel as 0 bytes and reads
  as empty (github.rs:918; `ReadsAreTheFile`).
* An evicted blob's file is unlinked after the mutex is released (854) and may
  by then be the file of a fresh store; the entry then has no file: `contains`
  answers true and `get` None.
* The registry is keyed by source, so a second mount of a source elsewhere
  drops the first one's handle, and with it the server behind its mount point
  (daemon.rs:780).
* An ejection watcher unmounts by id (703), so it may take out the mount that
  replaced its own.
* A mount that looks at the cache before, and claims the slot after, another's
  download fetches the tarball a second time (github.rs:1059).
* Two `mounts.json` updates that overlap (mount_state.rs:66) lose one of the
  two entries; the volume of a lost one is not unmounted after a crash.
* A crash between the kernel mount and the `mounts.json` entry (daemon.rs:675)
  leaves a volume that no restart removes, although `cleanup_stale_mounts`
  (331) is there for that.
* The slot of a dropped leader stays in the registry (fetcher.rs:177-181), with
  whatever its waiter stored: later mounts are answered from it. That is why
  `UndroppedMountsFetch` has its condition.
* A dropped caller's extraction runs on next to its successor's (github.rs:1457).
* An entry's inode may change while the mount lives, when two calls populate
  its directory (state.rs:342-381).
* Two first listings of a directory make different inodes; the NFS client whose
  cookie is not among the stored ones is told that the listing is over
  (nfs/fs.rs:214). `ListingIsComplete` excepts it.
* A tarball never carries links, and prefetched links are not put into the blob
  cache, so for a repository with a link `contains_all` is never true and the
  shortcut of github.rs:1059 never taken. What `export-ignore` and `export-subst`
  leave out or change is left to the lazy reads.
* Two mounts that resolve one ref at once share its placeholder bucket; what the
  slower one adds after it was dropped is lost (observability.rs:87). A failed
  resolution leaves its placeholder in the table.
* `clear_expired_throttle` has no caller: once throttled, `ctxfs status` shows
  `[SECONDARY THROTTLE ACTIVE]` for ever (main.rs:891). So has
  `ResolutionCache::clear`: `cache prune --resolutions` removes none.
* An older answer for `latest` that is stored last replaces a newer one, with a
  TTL that starts anew (`slowest` in `VersionsAreRight`). A TTL of 0 still hits
  within the second, though resolution.rs:34 says that it always expires.
* A second mount of a source replaces the server under the first one's kernel
  mount.
* Two sources mounted at one path: an unmount by the path ends the first mount
  with it that the daemon's map yields (daemon.rs:915), which may be the one
  below, whose kernel mount stays while the other's server runs on unmounted and
  nobody is told. That is why `OrphansAreTold` is about points of one source.
* A file that the user puts in the place of a ctxfs link after safe_remove_symlink
  has looked (symlink.rs:46) is removed by its `remove_file` (50), although "Anything
  else is user data" (main.rs:799); `UserFilesSurvive` names that window.
* After a mount RPC that timed out, a retry of `deps mount` or `--mount-dir` says
  "already mounted" though nothing is (deps/mount.rs). `unmount --all` leaves
  FSKit symlinks.
* A connection of a stopped FSKit session is served until its task takes the
  broadcast (socket.rs:131). The extension, which has one channel for all
  volumes, goes on using it, so the first requests of the next mount's volume
  may be answered by the file system of the last one.

## 4. Proofs

All proofs are checked by TLAPS, for any finite or infinite sets unless an
ASSUME says otherwise. The assumptions are on constants only: naturals where
numbers are meant, `None` and `Nothing` outside the sets they are told from, finite
`Repos`, `Requests` and the `Mounts` of `Requests` (they are counted), commits and
puts of known blobs, and directories whose names differ (git has no others).

**CacheProofs, BlobCache.**
`TypeCorrect` proves `TypeOK`, which already holds what the other arguments
need: each key once in `lru`, only cached keys with a size, `rotated` within the
list. `TotalCorrect` is inductive with it; the work is in lemmas about `Bytes`,
the sum defined by counting slots, when an element comes, goes or changes
size. `OverflowCorrect` needs a strengthening, `RotatedAreProtected`: the last
`rotated` entries of the list are protected; then `rotated >= Len(lru)` means
that all are. It holds because inside the loop nothing changes owners,
reservations or sizes except an eviction, which only shrinks working sets and
resets the count. `BudgetCorrect`, `ExplicitCorrect` and
`LoopAdvancesCorrect` are action properties that follow from `TypeOK`.

`DefaultsCorrect` is from `SharesOfDivided`, which says of the limit the shares were
made from what the property says of the limit in force.

**CacheProofs, BlobFiles.** `FilesInv` adds to `NoUncountedFiles`, which is
inductive, that every partial file has a `put` that is writing it or is `broken`
(`PartialsExplained`). `NothingUncounted` and `ReadsCorrectly` follow, for any blobs
of both algorithms, any writers and crashes, and unlinks that fail.

**MountsProofs.** The inductive invariant `IInv` has three parts besides the
types: what is started is up and what is registered is live under its id
(`Registered`); what a task has taken out is no other task's (`Taken`); and the
refcount of each repository is the number of requests that hold a registration
(`Balanced`), kept by counting lemmas for one holder more or less; who holds one is
active or lost, and not both.
`TypeCorrect`, `BalanceCorrect`, `ReservationKept` and `ListedServe` follow.

**ProviderProofs, TarballPrefetch.** `OneFetcherCorrect` is from `Claims`: as long as a
call is at work on a slot, the slot is the one in the registry or its cell is
already full, and only one caller is recorded as running it.
`UndroppedFetch` adds who leads (`Led`) and that a filled cell in the registry
is newer than any look at the cache made while no one else was under way
(`Fresh`). `OkIsCached` says for every manifest and archive what is in the cache
when a mount is told `ok`: its invariant follows an extraction through the archive
(what was read so far and kept is cached) and a filled cell to whoever reads it.

**ProviderProofs, Requests.** `ProviderInv` is `Typed`, `Dates` and `Shows`. What a
mount has at each point (`Staged`), releases that come in order (`InOrder`), and
entries, in memory and in the file, that are worth what their date says (`Worth`,
`Dated`: the version was the latest at that date less `slowest`) give
`VersionsCorrect`, with any TTL and through restarts. `Shown` says of a mount past
its ref that its resolution is counted in the table or in the bucket it is about
to fold in, and `Apart` that without a crossed ref no two mounts resolve the same
one; `ResolvesCorrect` follows. `CallsCorrect` compares a sum over buckets with a
count of answers. `Owned` says that a bucket is in the table under one key or
being folded in by one mount (`OneKey`, `OneFold`, `Removed`), and a call's bucket
is of its mount's ref (`CallOf`), so that a ref's buckets are those in the table and
those being folded in. The sum is the cardinality of a set of numbered counts, and
lemmas say what it becomes when a bucket joins, leaves, changes or is poured into
another. Each step then moves the sum, the adds still to come (`Due`) and the
answers together, or loses a count of a crossed ref (`Fair`).

**VfsNodesProofs.** Calls that populate one directory at once make several inodes
for an entry, and the maps name whichever was stored last. So `IInv` does not say
which inode an entry has, but that every inode there ever was hangs in the
directory it was made in, under an entry of that directory's manifest (`HangsIn`),
and never becomes another (`Grown`), and that the kernel's items (`HeldInv`),
`dir_cache` (`CacheInv`), `dir_children` (`ChildrenInv`) and the lists the calls
hold (`Listing`) name such inodes. Inodes are told apart by what they hang under,
and names are unique in a directory: `ItemsCorrect`. The rest of the invariant
says how far a call has come: how many children it has made (`Populating`), that
what a listing has seen is the manifest's names up to the entry it goes on after
(`Paging`), what a read has seen the file's bytes up to its offset (`Reading`),
and that a name that was denied is not there (`Denied`). `ListingsCorrect` and
`ReadsCorrect` need it for a page or chunk put behind the ones before.

**DaemonStartProofs.** `ServingCorrect` rests on `Sole`: as long as nobody raced,
at most one process is past the PID check and not yet at its end, and each file
is its own from the step that makes it to the step that removes it.
`StoppedCorrect` rests on `Held`: while no unmount has failed, the volumes of a
daemon that lives are those its session holds, so that dropping the session
takes them all. No bound on daemons or volumes is used.

**SnapshotsProofs.** `IInv` is `TypeOK`, `RequestInv` and `CacheInv`.
`RequestInv` says of a request at each point what it has: a walk's tree and
stack together cover the commit (what is not yet listed is below a directory on
the stack, by the assumption that trees are closed and nested without cycles), a
built snapshot is the tree, what it has still to store is all that is not
stored. `CacheInv` says the same of both caches. `TreeCorrect`, `StoredCorrect`,
`FreshCorrect` (a mount's commit is one that the ref named after the request
began) and `ToldCorrect` follow.

**FskitBridgeProofs.** `BridgeInv` adds to the types what makes an answer find
its own call: ids are drawn once (`Ids`), a promise is of the one call that waits
under its id (`Promises`), and a frame with a promise's id is that call's, on
that call's connection (`Routed`, `Sent`). `AnswersCorrect` follows, for late
answers and old connections too.
`failAllPromises` does not ask whose promises it fails. That it fails only those
of a connection that is down (`DownCorrect`) is because `Held` and `Made` leave at
most one connection open (`OneConnection`), and none while the event loop takes
one down (`Down`). `HandshakeCorrect` needs `Handshakes`: a connection is put
where other threads find it only when the session at its other end has accepted the
token. `Results` says what a call that is over was told. The actions of the
daemon are proved in one case: none touches a call, and each only moves or drops
frames.

**CliMountsProofs.** No assumption is made on who mounts what where. `CliInv` says
what each kind of command holds at each point (`Shape`), that what is registered is
one of the user's pairs (`Entries`), that a server that still runs is only mounted,
and is only to be mounted, at the point it was registered for (`Placed`, `Own`), and
that a server of a point of one source is mounted, told of, or some command's to
mount or to end (`Kept`). A kernel umount may take it away from any command, but only
one that then has its point for a target; there the daemon's search can only find
that server (`FoundAlone`), so the call ends it or somebody is told. `OrphansTold` is
`Kept`. `UserFilesAreKept` is by cases: nothing but `remove_dir` and `remove_file`
takes anything away, and the first not a directory that is filled.

**Refinement** (`SnapshotsProofs`) shows that `Snapshots` implements
`MountContent` under the mapping `Content`: initial states map to initial states,
and each step, under `IInv` and `Unbegun` (a request that has not begun is on no
machine), to a step or a stutter. `Resolve` is `Pin`, `Mount` is `Show`, `Begin` is
`Ask`, a failure or a crash `End`, a push `MoveRef`; everything else changes
neither what the request is pinned to nor what it shows. That a snapshot from any
cache is of the commit asked for, and whole, is what `IInv` contributes.

Only model-checked are the five liveness properties, `EjectedSessionsEnd`,
`EveryCallerReturns`, `EveryCallEnds`, `StopsEnd` and `EveryCallReturns`: liveness
under fairness is beyond the proof system. Every invariant and action property of
the passing runs is proved. Proved and not among the runs' properties: the type
invariants of `BlobCache`, `BlobFiles`, `Mounts`, `DaemonStart`, `Snapshots` and
`TarballPrefetch`, `ExplicitIsKept`, `MountsAreFresh` and the invariant
`OneConnection`. Two more things are out of the proof system's reach and are kept
out of the proved modules: ENABLED, and induction over data, so that what a
recursive definition computes is checked by TLC only.

## 5. Not modelled, and why

* `status`, `list` and breakdown RPCs only read; the gauges' figures are only shown.
* Extraction of repository URLs, LFS detection, package manifests, slugs: stateless.
* Setup, update and diagnosis commands: sequential scripts around system tools.
* Configuration (`core/config.rs`): layered loading without concurrency;
  `write_back` compares a hash and then writes, a window of one read and one rename.
* The temporary file that two writers of one tree share (both write the same
  bytes). A wall clock that is set back, which lengthens the TTL.
* The companion app and its helper, clients of the daemon. `HelperClient`'s reader
  of an old process (HelperClient.swift:160) may fail the requests of a new one.
* The table of items in Volume.swift (15), which concurrent FSKit calls change
  without a lock: a data race of the extension, outside what FskitBridge keeps.
* `manifest/inode.rs`: an older inode table that nothing mounts any more.
* Swift views; the protobuf encoding; the NFS and FSKit libraries.

## 6. Plan

Done: all modules of section 2, the proofs of every one of them, and the
refinement of `MountContent`. What could be added, in this order:

1. `HelperClient`: the app's helper process and its pending requests against an
   old reader's end; the helper's daemon client and its reset.
2. A composition of stores and claims: `BlobCache` with the read path, in which
   `put_for` claims after it stores.
3. The table of items of Volume.swift against concurrent calls.
