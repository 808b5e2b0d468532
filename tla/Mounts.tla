-------------------------------- MODULE Mounts --------------------------------
(***************************************************************************)
(* The life of a mount in crates/ctxfs-daemon: mount requests on blocking  *)
(* threads, unmount RPCs and Finder-eject watchers as tasks, the registry  *)
(* of handles, the cache reservations counted per repository, the FSKit    *)
(* volumes of the kernel and mounts.json, through daemon restarts.         *)
(*                                                                         *)
(* The registry is keyed by the source's id; two requests for one source   *)
(* have the same id whatever their mount points.  A request is also the    *)
(* name of the handle, backend and volume it makes.                        *)
(***************************************************************************)
EXTENDS Naturals, FiniteSets

CONSTANTS
    Requests,       \* mount RPCs, each made once
    Tasks,          \* tasks inside do_unmount_by_id
    Ids,            \* SourceSpec::id of what is mounted
    Repos,          \* RepoKeys
    RepoOf,         \* the repository an id resolves to
    Backends,       \* backends the callers ask for
    WritesFail,     \* whether writing mounts.json may fail
    None,           \* no handle, no id
    MaxRestarts     \* bound: daemon restarts

ASSUME MountsAssumption ==
    /\ IsFiniteSet(Requests)
    /\ RepoOf \in [Ids -> Repos]
    /\ Backends \subseteq {"nfs", "fskit"}
    /\ WritesFail \in BOOLEAN
    /\ None \notin Requests \cup Ids
    /\ MaxRestarts \in Nat

VARIABLES
    mounts,     \* Daemon::mounts: the request whose handle is registered
    refcount,   \* ReservationEntry::refcount; 0 when there is no entry
    request,    \* mount requests
    task,       \* unmount tasks
    up,         \* requests whose NFS server or FSKit session runs
    volume,     \* requests whose volume the kernel has mounted
    signal,     \* unmount notifications their watcher has not received
    entries,    \* volumes listed in mounts.json
    restarts    \* restarts so far

vars == <<mounts, refcount, request, task, up, volume, signal, entries, restarts>>

-----------------------------------------------------------------------------
\* A mount is over and nobody is left to give its registration back.
Lost == {"leaked", "replaced"}

\* The request still has its registration in the cache.
Holding == {"fetching", "prepared", "started", "saving", "live", "unmounting"} \cup Lost

Request == [pc : Holding \cup {"new", "failed", "unmounted", "gone"},
            id : Ids \cup {None},
            backend : {"nfs", "fskit"},
            read : SUBSET Ids]

NewRequest == [pc |-> "new", id |-> None, backend |-> "nfs", read |-> {}]

\* `watched`: the request whose watcher this task is, None for an RPC.
Task == [pc : {"idle", "resolved", "removed", "stopping", "clearing", "saving"},
         id : Ids \cup {None},
         watched : Requests \cup {None},
         handle : Requests \cup {None},
         read : SUBSET Ids]

IdleTask == [pc |-> "idle", id |-> None, watched |-> None, handle |-> None,
             read |-> {}]

Repo(r) == RepoOf[request[r].id]

IsFskit(r) == request[r].backend = "fskit"

At(r, pc) == [request EXCEPT ![r].pc = pc]

Become(t, pc) == [task EXCEPT ![t].pc = pc]

\* Mutant: the first unmount drops the entry.
ReleasedAtOnce(k) == [refcount EXCEPT ![k] = 0]

\* BlobCache::unregister_mount: a saturating decrement.
Released(k) == [refcount EXCEPT ![k] = IF @ = 0 THEN 0 ELSE @ - 1]

\* mounts.json after a write: a failed one is a warning.
Written(new) == IF WritesFail THEN {entries, new} ELSE {new}

\* The volume at an id's path, if the kernel has one there.
VolumeOf(id) == {r \in volume : request[r].id = id}

\* Dropping a session runs umount -f, which calls back unmount() and with it
\* the notifier; an NFS server just stops.
Stop(R) ==
    /\ up' = up \ R
    /\ volume' = volume \ R
    /\ signal' = signal \cup (volume \cap R)

-----------------------------------------------------------------------------
Init ==
    /\ mounts = [i \in Ids |-> None]
    /\ refcount = [k \in Repos |-> 0]
    /\ request = [r \in Requests |-> NewRequest]
    /\ task = [t \in Tasks |-> IdleTask]
    /\ up = {}
    /\ volume = {}
    /\ signal = {}
    /\ entries = {}
    /\ restarts = 0

\* prepare_mount up to the fetch: the source is resolved and registered.
Prepare(r, id, b) ==
    /\ request[r].pc = "new"
    /\ request' = [request EXCEPT ![r] =
                      [NewRequest EXCEPT !.pc = "fetching", !.id = id,
                                         !.backend = b]]
    /\ refcount' = [refcount EXCEPT ![RepoOf[id]] = @ + 1]
    /\ UNCHANGED <<mounts, task, up, volume, signal, entries, restarts>>

\* Mutant: a failed fetch keeps its registration.
FetchFailsQuietly(r) ==
    /\ request[r].pc = "fetching"
    /\ request' = At(r, "failed")
    /\ UNCHANGED <<mounts, refcount, task, up, volume, signal, entries, restarts>>

\* The fetch fails, or its snapshot does not parse: the registration is undone.
FetchFails(r) ==
    /\ request[r].pc = "fetching"
    /\ request' = At(r, "failed")
    /\ refcount' = Released(Repo(r))
    /\ UNCHANGED <<mounts, task, up, volume, signal, entries, restarts>>

FetchReturns(r) ==
    /\ request[r].pc = "fetching"
    /\ request' = At(r, "prepared")
    /\ UNCHANGED <<mounts, refcount, task, up, volume, signal, entries, restarts>>

\* The mount point, the port, the VFS or the session cannot be made; `?`
\* returns from do_mount_nfs and do_mount_fskit.
BackendFails(r) ==
    /\ request[r].pc = "prepared"
    /\ request' = At(r, "leaked")
    /\ UNCHANGED <<mounts, refcount, task, up, volume, signal, entries, restarts>>

StartNfs(r) ==
    /\ request[r].pc = "prepared"
    /\ request[r].backend = "nfs"
    /\ request' = At(r, "started")
    /\ up' = up \cup {r}
    /\ UNCHANGED <<mounts, refcount, task, volume, signal, entries, restarts>>

\* start_fskit_mount: nothing may be mounted at the volume path, and the
\* extension's port, fixed in its Info.plist, must be free.
StartFskit(r) ==
    /\ request[r].pc = "prepared"
    /\ IsFskit(r)
    /\ VolumeOf(request[r].id) = {}
    /\ \A q \in up : ~IsFskit(q)
    /\ request' = At(r, "started")
    /\ up' = up \cup {r}
    /\ volume' = volume \cup {r}
    /\ UNCHANGED <<mounts, refcount, task, signal, entries, restarts>>

\* MountStateFile::add reads the entries ...
AddRead(r) ==
    /\ request[r].pc = "started"
    /\ IsFskit(r)
    /\ request' = [request EXCEPT ![r].pc = "saving", ![r].read = entries]
    /\ UNCHANGED <<mounts, refcount, task, up, volume, signal, entries, restarts>>

\* The registry's insert drops the handle it replaces.
Register(r) ==
    LET id == request[r].id
        old == {mounts[id]} \ {None}
    IN  /\ mounts' = [mounts EXCEPT ![id] = r]
        /\ request' = [q \in Requests |->
                          IF q = r THEN [request[r] EXCEPT !.pc = "live", !.read = {}]
                          ELSE IF q \in old
                               THEN [request[q] EXCEPT !.pc = "replaced"]
                               ELSE request[q]]
        /\ Stop(old)
        /\ UNCHANGED <<refcount, task, restarts>>

InsertNfs(r) ==
    /\ request[r].pc = "started"
    /\ ~IsFskit(r)
    /\ Register(r)
    /\ UNCHANGED entries

\* ... and writes them back with the new one.
\* The handle is registered next, and the watcher spawned.
AddWriteInsert(r) ==
    /\ request[r].pc = "saving"
    /\ entries' \in Written(request[r].read \cup {request[r].id})
    /\ Register(r)

\* Finder or the kernel unmounts a volume whose session still listens.
Eject(r) ==
    /\ r \in volume \cap up
    /\ volume' = volume \ {r}
    /\ signal' = signal \cup {r}
    /\ UNCHANGED <<mounts, refcount, request, task, up, entries, restarts>>

\* The unmount RPC finds its target under the read lock.
UnmountRpc(t, id) ==
    /\ task[t].pc = "idle"
    /\ mounts[id] # None
    /\ task' = [task EXCEPT ![t].pc = "resolved", ![t].id = id]
    /\ UNCHANGED <<mounts, refcount, request, up, volume, signal, entries, restarts>>

\* Mutant: the watcher starts with the session.
WatchEarly(t, r) ==
    /\ task[t].pc = "idle"
    /\ r \in signal
    /\ signal' = signal \ {r}
    /\ task' = [task EXCEPT ![t].pc = "resolved", ![t].id = request[r].id,
                            ![t].watched = r]
    /\ UNCHANGED <<mounts, refcount, request, up, volume, entries, restarts>>

\* The watcher of r, spawned after the insert, receives the notification and
\* calls do_unmount_by_id with the id it was given.
Watch(t, r) ==
    /\ task[t].pc = "idle"
    /\ r \in signal
    /\ request[r].pc \notin {"started", "saving"}
    /\ signal' = signal \ {r}
    /\ task' = [task EXCEPT ![t].pc = "resolved", ![t].id = request[r].id,
                            ![t].watched = r]
    /\ UNCHANGED <<mounts, refcount, request, up, volume, entries, restarts>>

\* do_unmount_by_id, "mount not found".
RemoveNothing(t) ==
    /\ task[t].pc = "resolved"
    /\ mounts[task[t].id] = None
    /\ task' = [task EXCEPT ![t] = IdleTask]
    /\ UNCHANGED <<mounts, refcount, request, up, volume, signal, entries, restarts>>

\* Mutant: the handle is looked up and stays registered.
RemoveLooksUp(t) ==
    LET r == mounts[task[t].id]
    IN  /\ task[t].pc = "resolved"
        /\ r # None
        /\ task' = [task EXCEPT ![t].pc = "removed", ![t].handle = r]
        /\ request' = At(r, "unmounting")
        /\ UNCHANGED <<mounts, refcount, up, volume, signal, entries, restarts>>

\* do_unmount_by_id takes the handle out under the write lock ...
Remove(t) ==
    LET r == mounts[task[t].id]
    IN  /\ task[t].pc = "resolved"
        /\ r # None
        /\ mounts' = [mounts EXCEPT ![task[t].id] = None]
        /\ task' = [task EXCEPT ![t].pc = "removed", ![t].handle = r]
        /\ request' = At(r, "unmounting")
        /\ UNCHANGED <<refcount, up, volume, signal, entries, restarts>>

\* ... returns the reservation ...
Unregister(t) ==
    /\ task[t].pc = "removed"
    /\ refcount' = Released(Repo(task[t].handle))
    /\ request' = At(task[t].handle, "unmounted")
    /\ task' = Become(t, "stopping")
    /\ UNCHANGED <<mounts, up, volume, signal, entries, restarts>>

\* ... drops the session or the server ...
Shutdown(t) ==
    LET r == task[t].handle
    IN  /\ task[t].pc = "stopping"
        /\ Stop({r})
        /\ task' = IF IsFskit(r) THEN Become(t, "clearing")
                   ELSE [task EXCEPT ![t] = IdleTask]
        /\ UNCHANGED <<mounts, refcount, request, entries, restarts>>

\* ... and takes the volume out of mounts.json: reads the entries ...
RemoveVolumeRead(t) ==
    /\ task[t].pc = "clearing"
    /\ task' = IF task[t].id \in entries
               THEN [task EXCEPT ![t].pc = "saving", ![t].read = entries]
               ELSE [task EXCEPT ![t] = IdleTask]
    /\ UNCHANGED <<mounts, refcount, request, up, volume, signal, entries, restarts>>

\* ... and writes back the others.
RemoveVolumeWrite(t) ==
    /\ task[t].pc = "saving"
    /\ entries' \in Written(task[t].read \ {task[t].id})
    /\ task' = [task EXCEPT ![t] = IdleTask]
    /\ UNCHANGED <<mounts, refcount, request, up, volume, signal, restarts>>

\* A new daemon has an empty registry; requests and tasks ended with the old.
Fresh ==
    /\ restarts < MaxRestarts
    /\ restarts' = restarts + 1
    /\ mounts' = [i \in Ids |-> None]
    /\ refcount' = [k \in Repos |-> 0]
    /\ request' = [r \in Requests |->
                      IF request[r].pc = "new" THEN NewRequest
                      ELSE [request[r] EXCEPT !.pc = "gone", !.read = {}]]
    /\ task' = [t \in Tasks |-> IdleTask]
    /\ up' = {}
    /\ signal' = {}
    /\ entries' = {}

\* The daemon dies; the next one runs cleanup_stale_mounts on the volumes
\* that mounts.json lists and clears it.
CrashAndRestart ==
    /\ Fresh
    /\ volume' = {r \in volume : request[r].id \notin entries}

\* cleanup, after a signal, shuts down the registered mounts.
StopAndRestart ==
    /\ Fresh
    /\ volume' = {r \in volume : mounts[request[r].id] # r}

Serve(r) ==
    \/ \E id \in Ids, b \in Backends : Prepare(r, id, b)
    \/ FetchFails(r) \/ FetchReturns(r) \/ BackendFails(r)
    \/ StartNfs(r) \/ InsertNfs(r)
    \/ StartFskit(r) \/ AddRead(r) \/ AddWriteInsert(r)

Teardown(t) ==
    \/ RemoveNothing(t) \/ Remove(t) \/ Unregister(t) \/ Shutdown(t)
    \/ RemoveVolumeRead(t) \/ RemoveVolumeWrite(t)

Next ==
    \/ \E r \in Requests : Serve(r) \/ Eject(r)
    \/ \E t \in Tasks, id \in Ids : UnmountRpc(t, id)
    \/ \E t \in Tasks, r \in Requests : Watch(t, r)
    \/ \E t \in Tasks : Teardown(t)
    \/ CrashAndRestart \/ StopAndRestart

Spec == Init /\ [][Next]_vars

\* Requests that have a session run on to their answer, tasks are scheduled,
\* and a notification is received when a task can be.
Fairness ==
    /\ \A r \in Requests : WF_vars(AddRead(r) \/ AddWriteInsert(r))
    /\ \A t \in Tasks : WF_vars(Teardown(t))
    /\ \A r \in Requests : SF_vars(\E t \in Tasks : Watch(t, r))

FairSpec == Spec /\ Fairness

-----------------------------------------------------------------------------
\* Type invariant of the registry, the requests and the tasks.
TypeOK ==
    /\ mounts \in [Ids -> Requests \cup {None}]
    /\ refcount \in [Repos -> 0..Cardinality(Requests)]
    /\ request \in [Requests -> Request]
    /\ task \in [Tasks -> Task]
    /\ up \subseteq Requests
    /\ volume \subseteq Requests
    /\ signal \subseteq Requests
    /\ entries \subseteq Ids
    /\ restarts \in 0..MaxRestarts

\* The mounts of a repository: requested and not yet answered, registered, or
\* being torn down; and those that are over with their registration kept.
Active(k) ==
    {r \in Requests : request[r].pc \in Holding \ Lost /\ Repo(r) = k}

Dangling(k) == {r \in Requests : request[r].pc \in Lost /\ Repo(r) = k}

\* "Number of currently active mounts for this RepoKey" (reservation.rs:56-58):
\* no registration outlives its mount.
RefcountIsActive ==
    \A k \in Repos : refcount[k] = Cardinality(Active(k))

\* The refcount is off by the mounts whose backend failed after prepare_mount
\* (daemon.rs:631) and those another mount of the source replaced (daemon.rs:780),
\* and by nothing else: no overlap of requests, unmounts, ejections and failed
\* fetches takes a registration twice or leaves another one behind.
OnlyLostMountsDangle ==
    \A k \in Repos : refcount[k] = Cardinality(Active(k)) + Cardinality(Dangling(k))

\* A registered mount has its repository's reservation: no unmount of another
\* mount of the repository, however timed, takes it away (daemon.rs:851-855).
MountsKeepReservations ==
    \A i \in Ids : mounts[i] # None => refcount[RepoOf[i]] > 0

\* Two handles are never registered for one request, and what `list` shows
\* has its server or session running: teardown starts only after the handle
\* has left the registry.
ListedMountsServe ==
    \A i \in Ids : mounts[i] # None =>
       /\ mounts[i] \in up
       /\ request[mounts[i]].id = i
       /\ \A t \in Tasks : task[t].handle # mounts[i]

\* The session of an ejected volume, which holds the extension's only port, is
\* dropped in the end, also when the volume is ejected before the handle is
\* inserted and its watcher spawned (daemon.rs:692-710).
EjectedSessionsEnd ==
    \A r \in Requests : (r \in up \ volume /\ IsFskit(r)) ~> r \notin up
=============================================================================
