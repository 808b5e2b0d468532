------------------------------ MODULE CliMounts ------------------------------
(***************************************************************************)
(* The command line's mounts and unmounts (crates/ctxfs-cli: main.rs,      *)
(* deps/mount.rs, symlink.rs) against the daemon's registry.  Of an NFS    *)
(* mount the daemon starts a server and the command runs the kernel mount; *)
(* of an FSKit mount the daemon does both under /Volumes/ctxfs and the     *)
(* command puts a symlink at the user's path.  Commands run at the same    *)
(* time; an RPC may time out, the daemon going on with a mount; sudo's     *)
(* mount and umount may fail; the user works in the same directories.      *)
(*                                                                         *)
(* A server is named by a number.  NFS mount points and FSKit link paths   *)
(* are different paths.  One daemon process; once stopped it stays down.   *)
(***************************************************************************)
EXTENDS Naturals, Sequences, FiniteSets

CONSTANTS
    Clients,        \* terminals, one command at a time each
    Sources,        \* sources; a source is its mount id
    Points,         \* NFS mount points
    Links,          \* user paths of FSKit mounts
    Pairs,          \* the <<source, path>> the user mounts
    None,           \* nothing registered, no pair
    MaxCommands,    \* bound: commands run
    MaxFaults       \* bound: timeouts and failed mounts, umounts and calls

Paths == Points \cup Links

ASSUME CliMountsAssumption ==
    /\ Pairs \subseteq Sources \X Paths
    /\ Points \cap Links = {}
    /\ Sources \cap Paths = {}
    /\ None \notin Sources \cup Paths \cup (Sources \X Paths)
    /\ {"absent", "empty", "full", "file"} \cap Sources = {}
    /\ {MaxCommands, MaxFaults} \subseteq Nat

VARIABLES
    registry,   \* the daemon's mounts, by id
    up,         \* the daemon runs
    late,       \* mounts whose command gave up and which the daemon goes on with
    made,       \* servers started
    kernel,     \* kernel NFS mounts at each point, the last one first
    path,       \* what is at each link path
    cmd,        \* the commands
    begun,      \* commands run so far
    faults,     \* faults so far
    told        \* history: servers nobody mounts that somebody was told of

vars == <<registry, up, late, made, kernel, path, cmd, begun, faults, told>>

-----------------------------------------------------------------------------
Entry == [path : Paths, server : Nat, fskit : BOOLEAN]

\* At a link path: nothing, a directory that is empty or not, a file or some
\* other symlink of the user's, or a ctxfs symlink to a source's volume.
Users == {"absent", "empty", "full", "file"}
AtPath == Users \cup Sources

Cmd == [pc : {"idle", "list", "stat", "clear", "remove", "rpc", "cleanup", "umount",
              "unrpc"},
        op : {"none", "mount", "serve", "batch", "fskit", "unmount", "all", "stop"},
        asked : SUBSET Pairs,
        got : SUBSET (Pairs \X Nat),
        targets : SUBSET (Sources \cup Paths),
        target : Sources \cup Paths \cup {None},
        seen : AtPath]

Idle == [pc |-> "idle", op |-> "none", asked |-> {}, got |-> {}, targets |-> {},
         target |-> None, seen |-> "absent"]

Init ==
    /\ registry = [s \in Sources |-> None]
    /\ up = TRUE
    /\ late = {}
    /\ made = 0
    /\ kernel = [p \in Points |-> <<>>]
    /\ path = [l \in Links |-> "absent"]
    /\ cmd = [c \in Clients |-> Idle]
    /\ begun = 0
    /\ faults = 0
    /\ told = {}

Live == {registry[s].server : s \in {t \in Sources : registry[t] # None}}
InKernel == UNION {{kernel[p][i] : i \in 1..Len(kernel[p])} : p \in Points}
HasVolume(s) == registry[s] # None /\ registry[s].fskit

Fault == faults < MaxFaults /\ faults' = faults + 1
NoFault == UNCHANGED faults

-----------------------------------------------------------------------------
(* Starting a command.                                                     *)

\* c's command starts.
Begin(c, k) ==
    /\ cmd[c].pc = "idle"
    /\ begun < MaxCommands
    /\ begun' = begun + 1
    /\ cmd' = [cmd EXCEPT ![c] = k]
    /\ UNCHANGED <<registry, up, late, made, kernel, path, faults, told>>

\* handle_mount with --mount-point, or with --mount-dir and deps mount
\* (batch_mount); each connects first.
StartMount(c) ==
    /\ up
    /\ \E pairs \in (SUBSET Pairs) \ {{}}, op \in {"mount", "serve", "batch", "fskit"} :
          /\ op # "batch" => Cardinality(pairs) = 1
          /\ \A q, r \in pairs : q[1] = r[1] => q = r
          /\ \A q \in pairs : q[2] \in (IF op = "fskit" THEN Links ELSE Points)
          /\ Begin(c, [Idle EXCEPT !.op = op, !.asked = pairs,
                !.pc = CASE op = "batch" -> "list" [] op = "fskit" -> "stat"
                         [] OTHER -> "rpc"])

\* handle_unmount of a path or an id.
StartUnmount(c) ==
    \E t \in Sources \cup Paths :
        Begin(c, [Idle EXCEPT !.op = "unmount", !.pc = "umount", !.targets = {t}])

\* batch_unmount_dir, batch_unmount_all and daemon stop begin with the list of
\* the mounts, those under one directory or all of them.
StartAll(c) ==
    /\ up
    /\ \E op \in {"all", "stop"}, under \in {Points, Paths} :
          /\ op = "stop" => under = Paths
          /\ Begin(c, [Idle EXCEPT !.op = op, !.pc = "umount", !.targets =
                {IF op = "all" THEN registry[s].path ELSE s :
                    s \in {t \in Sources : registry[t] # None /\ registry[t].path \in under}}])

-----------------------------------------------------------------------------
(* Mounting.                                                               *)

\* batch_mount: the points the daemon has are left out; a list that fails is
\* taken for an empty one.
SkipActive(c) ==
    LET active == {registry[s].path : s \in {t \in Sources : registry[t] # None}}
    IN  /\ cmd[c].pc = "list"
        /\ \/ /\ NoFault
              /\ cmd' = [cmd EXCEPT ![c].pc = "rpc",
                    ![c].asked = {q \in @ : q[2] \notin active}]
           \/ /\ Fault
              /\ cmd' = [cmd EXCEPT ![c].pc = "rpc"]
        /\ UNCHANGED <<registry, up, late, made, kernel, path, begun, told>>

\* handle_mount of an FSKit path: a stat, and what it saw is dealt with.
StatPath(c) ==
    /\ cmd[c].pc = "stat"
    /\ \E q \in cmd[c].asked :
          cmd' = [cmd EXCEPT ![c].pc = IF path[q[2]] = "absent" THEN "rpc" ELSE "clear",
                             ![c].seen = path[q[2]], ![c].target = q[2]]
    /\ UNCHANGED <<registry, up, late, made, kernel, path, begun, faults, told>>

\* c goes on after its look at a link path, or ends: a mount goes on when the
\* path is free, an unmount has nothing else to do.
Cleared(c) == [cmd EXCEPT ![c] = IF cmd[c].op = "fskit" THEN [@ EXCEPT !.pc = "rpc"] ELSE Idle]
Ended(c) == [cmd EXCEPT ![c] = Idle]

\* Mutant: the directory that was seen is removed with what it has.
RemoveAll(c) ==
    /\ cmd[c].pc = "clear"
    /\ cmd[c].seen \in {"empty", "full"}
    /\ path' = [path EXCEPT ![cmd[c].target] = "absent"]
    /\ cmd' = Cleared(c)
    /\ UNCHANGED <<registry, up, late, made, kernel, begun, faults, told>>

\* handle_existing_fskit_mount_point on a directory: the file system removes
\* an empty one, and whatever else it is by then is an error.
RemoveDir(c) ==
    LET l == cmd[c].target
    IN  /\ cmd[c].pc = "clear"
        /\ cmd[c].seen \in {"empty", "full"}
        /\ \/ path[l] = "empty" /\ path' = [path EXCEPT ![l] = "absent"] /\ cmd' = Cleared(c)
           \/ path[l] # "empty" /\ UNCHANGED path /\ cmd' = Ended(c)
        /\ UNCHANGED <<registry, up, late, made, kernel, begun, faults, told>>

\* safe_remove_symlink looks once more: only a ctxfs symlink is to be removed.
\* A file was an error at once, some other symlink is looked at again.
CheckLink(c) ==
    /\ cmd[c].pc = "clear"
    /\ cmd[c].seen \in Sources \cup {"file"}
    /\ \/ path[cmd[c].target] \in Sources /\ cmd' = [cmd EXCEPT ![c].pc = "remove"]
       \/ path[cmd[c].target] \notin Sources /\ cmd' = Ended(c)
       \/ cmd[c].seen = "file" /\ cmd' = Ended(c)
    /\ UNCHANGED <<registry, up, late, made, kernel, path, begun, faults, told>>

\* And its remove_file takes the file or symlink that is there by now; on a
\* directory, or nothing, it fails.
RemoveLink(c) ==
    LET l == cmd[c].target
        file == path[l] \in Sources \cup {"file"}
    IN  /\ cmd[c].pc = "remove"
        /\ \/ file /\ path' = [path EXCEPT ![l] = "absent"] /\ cmd' = Cleared(c)
           \/ ~file /\ UNCHANGED path /\ cmd' = Ended(c)
        /\ UNCHANGED <<registry, up, late, made, kernel, begun, faults, told>>

\* Mutant: the entry is written before there is a server.
DaemonMountEarly(q) ==
    /\ up
    /\ q[2] \in Links => ~HasVolume(q[1])
    /\ registry' = [registry EXCEPT ![q[1]] =
          [path |-> q[2], server |-> made + 1, fskit |-> q[2] \in Links]]
    /\ UNCHANGED made

\* do_mount: the entry under the source's id is replaced, and the server it
\* had with it; a volume that is mounted is refused.
DaemonMount(q) ==
    LET fskit == q[2] \in Links
    IN  /\ up
        /\ fskit => ~HasVolume(q[1])
        /\ made' = made + 1
        /\ registry' = [registry EXCEPT ![q[1]] =
              [path |-> q[2], server |-> made + 1, fskit |-> fskit]]

\* The daemon mounts and the command has its answer.
MountAnswered(c) ==
    /\ cmd[c].pc = "rpc"
    /\ \E q \in cmd[c].asked :
          /\ DaemonMount(q)
          /\ cmd' = [cmd EXCEPT ![c].asked = @ \ {q}, ![c].got = @ \cup {<<q, made + 1>>}]
          /\ told' = IF cmd[c].op = "serve" THEN told \cup {made + 1} ELSE told
    /\ UNCHANGED <<up, late, kernel, path, begun, faults>>

\* The daemon refuses or is gone: the command reports the error.
MountRefused(c) ==
    /\ cmd[c].pc = "rpc"
    /\ \E q \in cmd[c].asked :
          /\ IF up /\ ~(q[2] \in Links /\ HasVolume(q[1])) THEN Fault ELSE NoFault
          /\ cmd' = [cmd EXCEPT ![c].asked = @ \ {q}]
    /\ UNCHANGED <<registry, up, late, made, kernel, path, begun, told>>

\* long_context's deadline passes: an error, and the daemon goes on.
MountTimesOut(c) ==
    /\ up
    /\ cmd[c].pc = "rpc"
    /\ Fault
    /\ \E q \in cmd[c].asked :
          /\ cmd' = [cmd EXCEPT ![c].asked = @ \ {q}]
          /\ late' = late \cup {q}
    /\ UNCHANGED <<registry, up, made, kernel, path, begun, told>>

\* It is done after all, and the command's user was told of the timeout.
LateMount(q) ==
    /\ q \in late
    /\ late' = late \ {q}
    /\ \/ DaemonMount(q) /\ told' = told \cup {made + 1}
       \/ UNCHANGED <<registry, made, told>>
    /\ UNCHANGED <<up, kernel, path, cmd, begun, faults>>

\* Mutant: a failed kernel mount is only reported.
KernelMountOnly(c, g) ==
    /\ cmd[c].pc = "rpc"
    /\ cmd[c].asked = {}
    /\ cmd[c].op \in {"mount", "batch"}
    /\ \/ /\ g[2] \in Live
          /\ NoFault
          /\ kernel' = [kernel EXCEPT ![g[1][2]] = <<g[2]>> \o @]
       \/ /\ IF g[2] \in Live THEN Fault ELSE NoFault
          /\ UNCHANGED kernel
    /\ cmd' = [cmd EXCEPT ![c].got = @ \ {g}]
    /\ UNCHANGED <<registry, up, late, made, path, begun, told>>

\* run_mount_nfs, once every answer is in, one point after the other; it
\* fails on a server that is gone, and a failure is cleaned up after.
KernelMount(c, g) ==
    /\ cmd[c].pc = "rpc"
    /\ cmd[c].asked = {}
    /\ cmd[c].op \in {"mount", "batch"}
    /\ \/ /\ g[2] \in Live
          /\ NoFault
          /\ kernel' = [kernel EXCEPT ![g[1][2]] = <<g[2]>> \o @]
          /\ cmd' = [cmd EXCEPT ![c].got = @ \ {g}]
       \/ /\ IF g[2] \in Live THEN Fault ELSE NoFault
          /\ cmd' = [cmd EXCEPT ![c].got = @ \ {g}, ![c].pc = "cleanup",
                                ![c].target = g[1][2]]
          /\ UNCHANGED kernel
    /\ UNCHANGED <<registry, up, late, made, path, begun, told>>

\* create_symlink at the user's path; when something is there, a warning.
Link(c, g) ==
    /\ cmd[c].pc = "rpc"
    /\ cmd[c].op = "fskit"
    /\ path' = IF path[g[1][2]] = "absent" THEN [path EXCEPT ![g[1][2]] = g[1][1]]
               ELSE path
    /\ cmd' = [cmd EXCEPT ![c].got = @ \ {g}]
    /\ UNCHANGED <<registry, up, late, made, kernel, begun, faults, told>>

\* --server-only prints how to mount; nothing is left to do for anyone once
\* all answers are dealt with.
MountEnds(c) ==
    /\ cmd[c].pc = "rpc"
    /\ cmd[c].asked = {}
    /\ cmd[c].got = {} \/ cmd[c].op = "serve"
    /\ cmd' = [cmd EXCEPT ![c] = Idle]
    /\ UNCHANGED <<registry, up, late, made, kernel, path, begun, faults, told>>

-----------------------------------------------------------------------------
(* Unmounting.                                                             *)

\* The daemon's unmount: some mount with this path, id or volume.
Found(t) == {s \in Sources : registry[s] # None /\ (registry[s].path = t \/ t = s)}

\* do_unmount_by_id: the entry goes, and its server with it.
DaemonUnmount(s) == registry' = [registry EXCEPT ![s] = None]

\* The cleanup of a failed kernel mount, by its mount point; its own failure
\* is ignored.
Cleanup(c) ==
    /\ cmd[c].pc = "cleanup"
    /\ \/ /\ up
          /\ NoFault
          /\ \E s \in Found(cmd[c].target) : DaemonUnmount(s)
          /\ UNCHANGED told
       \/ /\ IF up /\ Found(cmd[c].target) # {} THEN Fault ELSE NoFault
          /\ told' = told \cup {registry[s].server : s \in Found(cmd[c].target)}
          /\ UNCHANGED registry
    /\ cmd' = [cmd EXCEPT ![c].pc = "rpc", ![c].target = None]
    /\ UNCHANGED <<up, late, made, kernel, path, begun>>

\* is_ctxfs_symlink, asked once: handle_unmount passes a link's volume on to
\* the daemon and leaves its kernel mount to it.
ViaLink(c, t) == cmd[c].op = "unmount" /\ t \in Links /\ path[t] \in Sources

\* run_umount of the target; a failure is a warning.  It fails on an id and
\* where nothing is mounted; of a link it ejects the volume, which the
\* daemon's watcher notices.  daemon stop and links do without.
Umount(c) ==
    /\ cmd[c].pc = "umount"
    /\ \E t \in cmd[c].targets :
          LET mounted == t \in Points /\ kernel[t] # <<>>
              linked == t \in Links /\ path[t] \in Sources /\ HasVolume(path[t])
              without == cmd[c].op = "stop" \/ ViaLink(c, t)
          IN  /\ cmd' = [cmd EXCEPT ![c].pc = "unrpc", ![c].target = t,
                                    ![c].seen = IF ViaLink(c, t) THEN path[t] ELSE @]
              /\ \/ /\ without
                    /\ UNCHANGED <<kernel, registry, faults>>
                 \/ /\ ~without /\ mounted
                    /\ kernel' = [kernel EXCEPT ![t] = Tail(@)]
                    /\ UNCHANGED <<registry, faults>>
                 \/ /\ ~without /\ linked
                    /\ registry' = [registry EXCEPT ![path[t]] = None]
                    /\ UNCHANGED <<kernel, faults>>
                 \/ /\ ~without
                    /\ IF mounted \/ linked THEN Fault ELSE NoFault
                    /\ UNCHANGED <<kernel, registry>>
    /\ UNCHANGED <<up, late, made, path, begun, told>>

\* The command is through with its target: it looks at the ctxfs link it named
\* again, unless the daemon could not be connected to, or goes on to the next.
\* After its last target daemon stop goes on to send SIGTERM.
TargetDone(c) ==
    LET rest == cmd[c].targets \ {cmd[c].target}
    IN  cmd' = [cmd EXCEPT ![c] =
            IF up /\ cmd[c].seen \in Sources THEN [@ EXCEPT !.pc = "clear"]
            ELSE IF rest = {} /\ cmd[c].op # "stop" THEN Idle
            ELSE [@ EXCEPT !.pc = "umount", !.targets = rest, !.target = None]]

\* The mounts the daemon's search may find of what c names.
Wanted(c) ==
    IF cmd[c].seen \in Sources THEN {s \in {cmd[c].seen} : HasVolume(s)}
    ELSE Found(cmd[c].target)

\* unmount: the daemon does it, or knows no such mount, or cannot be reached,
\* or answers too late and may have done it.
UnmountRpc(c) ==
    /\ cmd[c].pc = "unrpc"
    /\ \/ /\ up
          /\ \E s \in Wanted(c) : DaemonUnmount(s)
          /\ UNCHANGED <<faults, told>>
       \/ /\ IF up /\ Wanted(c) # {} THEN Fault ELSE NoFault
          /\ told' = told \cup {registry[s].server : s \in Wanted(c)}
          /\ UNCHANGED registry
    /\ TargetDone(c)
    /\ UNCHANGED <<up, late, made, kernel, path, begun>>

\* daemon stop after its last target: the daemon's shutdown drops every
\* mount.  Other commands with no target end.
NoTargets(c) ==
    LET stop == cmd[c].op = "stop"
    IN  /\ cmd[c].pc = "umount"
        /\ cmd[c].targets = {}
        /\ up' = (up /\ ~stop)
        /\ registry' = IF stop THEN [s \in Sources |-> None] ELSE registry
        /\ late' = IF stop THEN {} ELSE late
        /\ cmd' = Ended(c)
        /\ UNCHANGED <<made, kernel, path, begun, faults, told>>

-----------------------------------------------------------------------------
\* The user puts something at a link path, in the place of whatever is there.
UserWrites(l) ==
    /\ \E now \in Users \ {path[l]} : path' = [path EXCEPT ![l] = now]
    /\ UNCHANGED <<registry, up, late, made, kernel, cmd, begun, faults, told>>

Step(c) ==
    \/ SkipActive(c) \/ StatPath(c) \/ RemoveDir(c) \/ CheckLink(c) \/ RemoveLink(c)
    \/ MountAnswered(c) \/ MountRefused(c) \/ MountTimesOut(c)
    \/ \E g \in cmd[c].got : KernelMount(c, g) \/ Link(c, g)
    \/ MountEnds(c) \/ Cleanup(c)
    \/ Umount(c) \/ UnmountRpc(c) \/ NoTargets(c)

Next ==
    \/ \E c \in Clients : StartMount(c) \/ StartUnmount(c) \/ StartAll(c) \/ Step(c)
    \/ \E q \in Pairs : LateMount(q)
    \/ \E l \in Links : UserWrites(l)

Spec == Init /\ [][Next]_vars

-----------------------------------------------------------------------------
\* Every value is of the code's type; kernel mounts and the registry name
\* servers the daemon made.
TypeOK ==
    /\ registry \in [Sources -> Entry \cup {None}]
    /\ up \in BOOLEAN
    /\ late \subseteq Pairs
    /\ kernel \in [Points -> Seq(Nat)]
    /\ path \in [Links -> AtPath]
    /\ cmd \in [Clients -> Cmd]
    /\ begun \in 0..MaxCommands
    /\ faults \in 0..MaxFaults
    /\ Live \cup InKernel \cup told \subseteq 1..made

\* What the daemon unmounts for a command leaves no kernel mount behind that
\* has no server: the command has umounted it first (unmount_targets,
\* handle_unmount, daemon stop).
UnmountsAreWhole ==
    [][\A c \in Clients, s \in Sources :
          UnmountRpc(c) /\ registry[s] # None /\ registry'[s] = None =>
              registry[s].server \notin InKernel']_vars

\* The servers some command is still going to mount or clean up after.
InHand == (UNION {{g[2] : g \in cmd[c].got} : c \in Clients})
          \cup {registry[s].server : s \in {t \in Sources : registry[t] # None
                /\ \E c \in Clients : cmd[c].target = registry[t].path}}

\* Mounts of more than one source may be asked for at point p.
Shared(p) == \E q, r \in Pairs : q[2] = p /\ r[2] = p /\ q # r

\* An NFS server that nothing mounts was asked for (--server-only), or the
\* command that left it reported a failure: a timeout, or an unmount call
\* that did not get through (handle_mount, batch_mount and unmount_targets).
\* Where two sources share a point it is not so: an unmount by the point ends
\* the server of either.
OrphansAreTold ==
    \A s \in Sources :
        registry[s] # None /\ ~registry[s].fskit /\ ~Shared(registry[s].path) =>
            LET n == registry[s].server
            IN  \/ n \in InKernel
                \/ n \in told \cup InHand

\* No command removes or replaces what the user has put at a path.  A
\* directory that was filled after the look at it stays (remove_dir).  A file
\* goes only by the remove_file of safe_remove_symlink, when it took the place
\* of the ctxfs symlink this command had seen at its own path.
UserFilesSurvive ==
    [][cmd' # cmd =>
        \A l \in Links :
            /\ path[l] = "full" => path'[l] = "full"
            /\ path[l] = "file" /\ path'[l] # "file" =>
                  \E c \in Clients : cmd[c].pc = "remove" /\ cmd[c].target = l]_vars
=============================================================================
