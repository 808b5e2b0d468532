----------------------------- MODULE DaemonStart -----------------------------
(***************************************************************************)
(* The life of daemon processes over one ~/.ctxfs: Daemon::run and its     *)
(* cleanup in crates/ctxfs-daemon, transport::listen in crates/ctxfs-ipc,  *)
(* and `ctxfs daemon stop`.  The processes share the PID file, the socket, *)
(* mounts.json and the kernel's FSKit volumes; they may be started by a    *)
(* user or by launchd at any time, killed, and their PIDs reused.          *)
(*                                                                         *)
(* A mount is taken in three steps: the kernel mounts its volume, it is    *)
(* added to mounts.json, and its handle is inserted into the registry.     *)
(* The extension's port is fixed, so one session at a time can live.       *)
(***************************************************************************)
EXTENDS Naturals

CONSTANTS
    Daemons,        \* daemon processes, each started once
    Volumes,        \* volume paths
    None,           \* no file, nobody
    MaxFaults,      \* bound: unmounts that fail
    Reusable        \* bound: daemons whose PID another process may get

ASSUME DaemonStartAssumption ==
    /\ None \notin Daemons \cup Volumes
    /\ MaxFaults \in Nat
    /\ Reusable \subseteq Daemons

VARIABLES
    pc,         \* where each process is in run and cleanup
    stale,      \* volumes a start has read from mounts.json and will unmount
    pidFile,    \* whose PID the file holds
    sock,       \* who bound the socket at the path
    entries,    \* volumes in mounts.json
    volume,     \* the daemon whose session the kernel's volume belongs to
    session,    \* the volume of each daemon's session
    step,       \* how far the session's mount is
    reused,     \* dead daemons whose PID another process has
    raced,      \* a daemon passed the PID check in one of its two windows
    faults      \* unmounts that have failed

vars == <<pc, stale, pidFile, sock, entries, volume, session, step, reused,
          raced, faults>>

-----------------------------------------------------------------------------
\* Before the signal handlers are installed.
Starting == {"reading", "cleaning", "checking", "passed", "unlinking", "binding"}

\* Inside cleanup; "draining": cleanup is over, the runtime waits for its threads.
Stopping == {"collected", "stopped", "cleared", "unpidded"}

Alive == Starting \cup Stopping \cup {"serving", "draining"}

Ended == {"refused", "failed", "exited", "dead"}

\* cleanup holds the registry's write lock until it returns.
HoldsLock == {"stopped", "cleared", "unpidded"}

Goto(d, to) == pc' = [pc EXCEPT ![d] = to]

\* The PID in the file answers kill(pid, 0).
Answers(p) == p # None /\ (pc[p] \in Alive \/ p \in reused)

\* The volumes V are unmounted, but for some whose unmount fails.
Unmount(V) ==
    \E failed \in SUBSET V :
       /\ failed # {} => faults < MaxFaults
       /\ faults' = IF failed = {} THEN faults ELSE faults + 1
       /\ volume' = [v \in Volumes |-> IF v \in V \ failed THEN None ELSE volume[v]]

Mine(d) == {v \in Volumes : session[d] = v /\ volume[v] = d}

\* Dropping a session closes its listener; its volume is the callers' matter.
DropSession(d) ==
    /\ session' = [session EXCEPT ![d] = None]
    /\ step' = [step EXCEPT ![d] = "none"]

Init ==
    /\ pc = [d \in Daemons |-> "off"]
    /\ stale = [d \in Daemons |-> {}]
    /\ pidFile = None
    /\ sock = None
    /\ entries = {}
    /\ volume = [v \in Volumes |-> None]
    /\ session = [d \in Daemons |-> None]
    /\ step = [d \in Daemons |-> "none"]
    /\ reused = {}
    /\ raced = FALSE
    /\ faults = 0

-----------------------------------------------------------------------------
\* `ctxfs daemon start`, by hand or by launchd.
Start(d) ==
    /\ pc[d] = "off"
    /\ Goto(d, "reading")
    /\ UNCHANGED <<stale, pidFile, sock, entries, volume, session, step, reused,
                   raced, faults>>

\* cleanup_stale_mounts reads mounts.json; an empty one is left alone.
ReadStale(d) ==
    /\ pc[d] = "reading"
    /\ stale' = [stale EXCEPT ![d] = entries]
    /\ Goto(d, IF entries = {} THEN "checking" ELSE "cleaning")
    /\ UNCHANGED <<pidFile, sock, entries, volume, session, step, reused, raced,
                   faults>>

\* `diskutil unmount force`, its result ignored ...
UnmountStale(d, v) ==
    /\ pc[d] = "cleaning"
    /\ v \in stale[d]
    /\ stale' = [stale EXCEPT ![d] = @ \ {v}]
    /\ Unmount({v})
    /\ UNCHANGED <<pc, pidFile, sock, entries, session, step, reused, raced>>

\* ... and mounts.json is cleared.
ClearStale(d) ==
    /\ pc[d] = "cleaning"
    /\ stale[d] = {}
    /\ entries' = {}
    /\ Goto(d, "checking")
    /\ UNCHANGED <<stale, pidFile, sock, volume, session, step, reused, raced,
                   faults>>

\* The windows in which the PID file does not name a daemon that is there:
\* between another's check and its write, and between the removal of another's
\* PID file and that of its socket.
InWindow(d) ==
    \E e \in Daemons \ {d} : pc[e] \in {"passed", "unpidded"}

\* Mutant: a PID file is taken for stale without asking the kernel.
CheckNobody(d) ==
    /\ pc[d] = "checking"
    /\ raced' = (raced \/ InWindow(d))
    /\ Goto(d, "passed")
    /\ UNCHANGED <<stale, pidFile, sock, entries, volume, session, step, reused,
                   faults>>

\* write_pid_file: another process answers for the PID in the file, or nobody.
CheckPid(d) ==
    /\ pc[d] = "checking"
    /\ IF Answers(pidFile)
       THEN Goto(d, "refused") /\ UNCHANGED raced
       ELSE Goto(d, "passed") /\ raced' = (raced \/ InWindow(d))
    /\ UNCHANGED <<stale, pidFile, sock, entries, volume, session, step, reused,
                   faults>>

WritePid(d) ==
    /\ pc[d] = "passed"
    /\ pidFile' = d
    /\ Goto(d, "unlinking")
    /\ UNCHANGED <<stale, sock, entries, volume, session, step, reused, raced,
                   faults>>

\* transport::listen removes whatever is at the socket path ...
UnlinkSocket(d) ==
    /\ pc[d] = "unlinking"
    /\ sock' = None
    /\ Goto(d, "binding")
    /\ UNCHANGED <<stale, pidFile, entries, volume, session, step, reused, raced,
                   faults>>

\* ... and binds it; a path taken meanwhile is an error, and run returns.
Bind(d) ==
    /\ pc[d] = "binding"
    /\ IF sock = None
       THEN sock' = d /\ Goto(d, "serving")
       ELSE UNCHANGED sock /\ Goto(d, "failed")
    /\ UNCHANGED <<stale, pidFile, entries, volume, session, step, reused, raced,
                   faults>>

-----------------------------------------------------------------------------
\* start_fskit_mount in a blocking thread, also one of a request that cleanup
\* overtakes.
MountVolume(d, v) ==
    /\ pc[d] \in {"serving"} \cup Stopping
    /\ volume[v] = None
    /\ \A e \in Daemons : session[e] = None
    /\ volume' = [volume EXCEPT ![v] = d]
    /\ session' = [session EXCEPT ![d] = v]
    /\ step' = [step EXCEPT ![d] = "mounted"]
    /\ UNCHANGED <<pc, stale, pidFile, sock, entries, reused, raced, faults>>

\* MountStateFile::add
AddEntry(d) ==
    /\ step[d] = "mounted"
    /\ entries' = entries \cup {session[d]}
    /\ step' = [step EXCEPT ![d] = "saved"]
    /\ UNCHANGED <<pc, stale, pidFile, sock, volume, session, reused, raced, faults>>

\* Mutant: the lock that cleanup takes is never given back.
InsertBefore(d) ==
    /\ step[d] = "saved"
    /\ pc[d] \in {"serving", "collected"}
    /\ step' = [step EXCEPT ![d] = "listed"]
    /\ UNCHANGED <<pc, stale, pidFile, sock, entries, volume, session, reused,
                   raced, faults>>

\* The handle is inserted, under the registry's write lock.
InsertHandle(d) ==
    /\ step[d] = "saved"
    /\ pc[d] \notin HoldsLock
    /\ step' = [step EXCEPT ![d] = IF pc[d] = "serving" THEN "listed" ELSE "late"]
    /\ UNCHANGED <<pc, stale, pidFile, sock, entries, volume, session, reused,
                   raced, faults>>

\* do_unmount_by_id, for an RPC or for the watcher of a volume that has gone.
UnmountMount(d) ==
    /\ pc[d] \in {"serving", "collected"}
    /\ step[d] \in {"listed", "late"}
    /\ Unmount(Mine(d))
    /\ entries' = entries \ {session[d]}
    /\ DropSession(d)
    /\ UNCHANGED <<pc, stale, pidFile, sock, reused, raced>>

-----------------------------------------------------------------------------
\* SIGINT or SIGTERM; cleanup collects the registered ids under the read lock.
\* A mount it finds is "listed", one that is inserted later is "late".
Collect(d) ==
    /\ pc[d] = "serving"
    /\ Goto(d, "collected")
    /\ UNCHANGED <<stale, pidFile, sock, entries, volume, session, step, reused,
                   raced, faults>>

\* `ctxfs daemon stop`: whoever listens is asked for its mounts, and the PID in
\* the file gets a SIGTERM, which kills a daemon that is still starting.
Stop ==
    \E s \in Daemons :
       /\ pc[s] = "serving"
       /\ sock = s
       /\ pidFile # None
       /\ \/ pc[pidFile] = "serving" /\ Goto(pidFile, "collected")
          \/ pc[pidFile] \in Starting /\ Goto(pidFile, "dead")
    /\ UNCHANGED <<stale, pidFile, sock, entries, volume, session, step, reused,
                   raced, faults>>

\* The write lock is taken and the collected mounts are shut down; one inserted
\* after the ids were collected stays.
StopMounts(d) ==
    /\ pc[d] = "collected"
    /\ Goto(d, "stopped")
    /\ IF step[d] = "listed"
       THEN Unmount(Mine(d)) /\ DropSession(d)
       ELSE UNCHANGED <<volume, session, step, faults>>
    /\ UNCHANGED <<stale, pidFile, sock, entries, reused, raced>>

ClearEntries(d) ==
    /\ pc[d] = "stopped"
    /\ entries' = {}
    /\ Goto(d, "cleared")
    /\ UNCHANGED <<stale, pidFile, sock, volume, session, step, reused, raced,
                   faults>>

RemovePid(d) ==
    /\ pc[d] = "cleared"
    /\ pidFile' = None
    /\ Goto(d, "unpidded")
    /\ UNCHANGED <<stale, sock, entries, volume, session, step, reused, raced,
                   faults>>

RemoveSocket(d) ==
    /\ pc[d] = "unpidded"
    /\ sock' = None
    /\ Goto(d, "draining")
    /\ UNCHANGED <<stale, pidFile, entries, volume, session, step, reused, raced,
                   faults>>

\* Mutant: what is left in the registry is forgotten.
ExitForgets(d) ==
    /\ pc[d] = "draining"
    /\ step[d] \in {"none", "listed", "late"}
    /\ DropSession(d)
    /\ Goto(d, "exited")
    /\ UNCHANGED <<stale, pidFile, sock, entries, volume, reused, raced, faults>>

\* The runtime has waited for the threads of mount requests and drops its tasks,
\* with them the registry and the session of a mount that is left in it.
Exit(d) ==
    /\ pc[d] = "draining"
    /\ step[d] \in {"none", "listed", "late"}
    /\ Unmount(Mine(d))
    /\ DropSession(d)
    /\ Goto(d, "exited")
    /\ UNCHANGED <<stale, pidFile, sock, entries, reused, raced>>

\* The process is killed: files and volumes stay.
Crash(d) ==
    /\ pc[d] \in Alive
    /\ Goto(d, "dead")
    /\ DropSession(d)
    /\ UNCHANGED <<stale, pidFile, sock, entries, volume, reused, raced, faults>>

\* A process that is no daemon gets the PID of one that has ended.
ReusePid(d) ==
    /\ pc[d] \in Ended
    /\ d \in Reusable \ reused
    /\ reused' = reused \cup {d}
    /\ UNCHANGED <<pc, stale, pidFile, sock, entries, volume, session, step, raced,
                   faults>>

\* The rest of run, once a daemon was told to stop.
Cleanup(d) ==
    \/ StopMounts(d) \/ ClearEntries(d) \/ RemovePid(d) \/ RemoveSocket(d)
    \/ Exit(d)

\* The rest of a mount request that has its session.
FinishMount(d) == AddEntry(d) \/ InsertHandle(d)

Next ==
    \/ \E d \in Daemons :
          \/ Start(d) \/ ReadStale(d) \/ ClearStale(d) \/ CheckPid(d) \/ WritePid(d)
          \/ UnlinkSocket(d) \/ Bind(d)
          \/ \E v \in Volumes : UnmountStale(d, v) \/ MountVolume(d, v)
          \/ UnmountMount(d) \/ Collect(d) \/ Cleanup(d)
          \/ FinishMount(d) \/ Crash(d) \/ ReusePid(d)
    \/ Stop

Spec == Init /\ [][Next]_vars

\* The process is scheduled; unmounting a volume and writing a file end.
FairSpec == Spec /\ \A d \in Daemons : WF_vars(Cleanup(d)) /\ WF_vars(FinishMount(d))

-----------------------------------------------------------------------------
\* Type invariant of the processes and of what they share.
TypeOK ==
    /\ pc \in [Daemons -> Alive \cup Ended \cup {"off"}]
    /\ stale \in [Daemons -> SUBSET Volumes]
    /\ pidFile \in Daemons \cup {None}
    /\ sock \in Daemons \cup {None}
    /\ entries \subseteq Volumes
    /\ volume \in [Volumes -> Daemons \cup {None}]
    /\ session \in [Daemons -> Volumes \cup {None}]
    /\ step \in [Daemons -> {"none", "mounted", "saved", "listed", "late"}]
    /\ reused \subseteq Daemons
    /\ raced \in BOOLEAN
    /\ faults \in 0..MaxFaults
    /\ \A d \in Daemons : step[d] # "none" => session[d] # None

\* Unless a start went through one of the two windows, the daemon that serves
\* is the only one, and the PID file and the socket are its own: neither the
\* starts it outlives, nor the crash or the cleanup of another, nor a reused
\* PID takes them from it.  `ctxfs daemon stop` and every client rely on it.
ServingOwnsFiles ==
    ~raced => \A d \in Daemons : pc[d] = "serving" =>
       /\ pidFile = d
       /\ sock = d
       /\ \A e \in Daemons \ {d} : pc[e] # "serving"

\* A daemon that was told to stop leaves no volume of its own behind, also when
\* a mount request was under way (unless an unmount failed).
StoppedLeavesNothing ==
    faults = 0 =>
       \A d \in Daemons : pc[d] = "exited" => \A v \in Volumes : volume[v] # d

\* A daemon that is told to stop ends: cleanup, which holds the registry's lock
\* to its end, and a mount request that waits for that lock do not wait for
\* each other.
StopsEnd == \A d \in Daemons : pc[d] \in Stopping ~> pc[d] \in Ended

\* daemon.rs:343, "stale mount entries from previous daemon run": what a start
\* unmounts belongs to no running daemon.
RunningKeepsVolumes ==
    \A d \in Daemons :
       pc[d] = "serving" /\ step[d] = "listed" => volume[session[d]] = d
=============================================================================
